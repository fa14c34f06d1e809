--------------------------- MODULE TrustProperties ---------------------------
(***************************************************************************)
(* What may be relied on when keys change.  The two reports are quantified *)
(* over everything their tools can be given: any checkpoint, policy,       *)
(* receipts on file and evaluation time.                                   *)
(***************************************************************************)
EXTENDS TrustDistribution

Accepted(t) == {c \in issued : <<t, c>> \in accepted}
Furthest(t) == {c \in Accepted(t) : \A d \in Accepted(t) : d.sequence <= c.sequence}

\* No two checkpoints of S are rivals, and each but the first extends another.
OneBranch(S) ==
  \A c, d \in S :
    /\ c.sequence = d.sequence => c = d
    /\ c.sequence > d.sequence => \E p \in c.previous : p \in S

\* Whatever checkpoints of whatever fork arrive in whatever order: no step
\* installs a checkpoint that is behind any the target has ever accepted; a
\* process that starts, or starts again, loads the store of none but the
\* furthest of them (one that keeps running may lag); and a target that never
\* anchors at a mere sequence stays on one branch from its first checkpoint on.
\* This is what the rollback anchor of verify_trust_store_checkpoint is for.
NoRollback ==
  [][\A t \in Targets :
       /\ installed'[t] # installed[t] => installed'[t] \subseteq Furthest(t)'
       /\ process'[t] # process[t] =>
            \A p \in process'[t] : \E c \in Furthest(t) : p.store = c.store
       /\ "sequence" \notin Anchoring[t] => OneBranch(Accepted(t)')]_vars

\* A rollout is reported complete only if every required target, and at least
\* the minimum number of allowed targets, did accept this very checkpoint by
\* the evaluation time, whatever other receipts are supplied with theirs.
RolloutIsAccepted ==
  \A c \in issued, policy \in Policies, supplied \in SUBSET acks, at \in Time :
    RolloutAcknowledged(c, policy, supplied, at) =>
      LET consumers == {t \in policy.allowed : <<t, c>> \in accepted}
      IN /\ policy.required \subseteq consumers
         /\ Cardinality(consumers) >= policy.minimum

\* Runtime state is reported current only if every required target, and at
\* least the minimum number of allowed targets, ran with the checkpoint's
\* store within the maximum age before the evaluation and not before the
\* checkpoint was issued.
RuntimeIsLoaded ==
  \A c \in issued, policy \in Policies, supplied \in SUBSET attestations, at \in Time :
    RuntimeStateCurrent(c, policy, supplied, at) =>
      LET running ==
            {t \in policy.allowed :
               \E x \in c.issued..at : <<t, c.store, x>> \in loaded /\ at - x <= policy.maxAge}
      IN /\ policy.required \subseteq running
         /\ Cardinality(running) >= policy.minimum

\* An assertion is accepted only from a key that, in a document in force when
\* the process started, is its actor's and active at issuance and at use, and
\* outside its window only to repeat a reconciliation that was accepted inside
\* it: an operator's expired order never acts for the first time.
GrantsFollowKeys ==
  \A g \in grants :
    LET a == g.assertion
        key == Documents[g.document][a.key]
    IN /\ key.actor = a.actor /\ g.kind \in key.authorities /\ a.kind = g.kind
       /\ ActiveAt(key, a.issued) /\ ActiveAt(key, g.at)
       /\ WithinWindow(a, g.at) \/
            \E h \in grants : h.assertion = a /\ h.consumed /\ WithinWindow(a, h.at)

Entitled(t, jwks, request, presented, at) ==
  \/ request.path \in {"health", "stylesheet"}
  \/ Deployment[t] = [environment |-> "local", mode |-> "disabled"]
  \/ \E token \in presented, n \in jwks :
       /\ \E k \in DOMAIN Jwks[n] : k = token.key /\ Jwks[n][k] = token.signer
       /\ token.type = "access"
       /\ token.issuer = Identity.issuer /\ Identity.audience \in token.audiences
       /\ token.issued - Identity.skew <= at
       /\ at < token.issued + Identity.lifetime + Identity.skew
       /\ IF request.method # "POST" THEN "regulaai.operator" \in token.roles
          ELSE IF request.path = "reconciliation" THEN "regulaai.reconciler" \in token.roles
          ELSE "regulaai.runtime" \in token.roles

\* The circumstances in which a target lets someone in who is not entitled.
Laxities ==
  {x \in Targets \X ({{}} \cup {{n} : n \in DOMAIN Jwks}) \X Time :
     \E request \in Requests, presented \in Presented :
       /\ LetsIn(x[2], request, presented, x[3])
       /\ ~ Entitled(x[1], x[2], request, presented, x[3])}

\* A production process serves nobody it cannot name, whatever it was asked:
\* whoever is let in to anything but the public routes holds a token signed by
\* a key the issuer had published when the process started, issued for this
\* service at most its longest lifetime (and the tolerated clock skew) ago,
\* whose roles cover the request.  In particular an operator's order acts only
\* in the hands of a reconciler: neither credential is worth anything alone.
CallersAreEntitled ==
  /\ \A g \in grants : Entitled(g.by, g.jwks, g.request, g.token, g.at)
  /\ \A t \in Targets : \A p \in process[t] : <<t, p.jwks, now>> \notin Laxities
==============================================================================
