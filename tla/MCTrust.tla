------------------------------- MODULE MCTrust -------------------------------
(***************************************************************************)
(* Two targets, two trust stores that revoke each other's key, three       *)
(* checkpoints (so that a lineage can fork or advance twice), a host key   *)
(* for each target and one for both, two operator documents, and three     *)
(* documents of the token issuer's keys.                                   *)
(***************************************************************************)
EXTENDS TrustProperties, TLC

MCTargets  == {"a", "b"}
MCLineages == {[id |-> "packs", kind |-> "CONTROL_PACK"]}

Key(status, from, until) == [status |-> status, from |-> from, until |-> until]
MCStores ==
  {"k1" :> Key("ACTIVE", 0, {}),
   "k1" :> Key("REVOKED", 0, {}) @@ "k2" :> Key("ACTIVE", 1, {})}

HostKey(until, targets) ==
  [status |-> "ACTIVE", from |-> 0, until |-> until, targets |-> targets]
MCReceiptKeys ==
  "host_a" :> HostKey({}, {"a"}) @@ "host_b" :> HostKey({2}, {"b"}) @@
  "pair"   :> HostKey({}, {"a", "b"})
MCHeld ==
  "host_a" :> {"a"} @@ "host_b" :> {"b"} @@ "pair" :> {"a", "b"}
\* One target takes either anchor, the other never a mere sequence.
MCAnchoring == "a" :> {"sequence", "predecessor"} @@ "b" :> {"predecessor"}
MCCoverage ==
  {[allowed |-> {"a", "b"}, required |-> {"a"}, minimum |-> 2, maxAge |-> 1]}

Operator(status, from, until, actor, authorities, public) ==
  [status |-> status, from |-> from, until |-> until, actor |-> actor,
   authorities |-> authorities, public |-> public]
MCDocuments ==
  <<"op1" :> Operator("ACTIVE", 0, {2}, "ana", {"action_approval", "reconciliation"}, "op1"),
    "op1" :> Operator("RETIRED", 0, {2}, "ana", {"action_approval", "reconciliation"}, "op1") @@
    "op2" :> Operator("ACTIVE", 1, {}, "ana", {"reconciliation"}, "op2")>>

Assertion(kind, key, actor, from, until) ==
  [id |-> "1", kind |-> kind, key |-> key, actor |-> actor, signer |-> key,
   subject |-> "action", issued |-> from, expires |-> until, outcome |-> "NOT_EXECUTED",
   execution |-> {}]
MCAssertions ==
  {Assertion("action_approval", "op1", "ana", 1, 3),
   Assertion("decision_approval", "op1", "ana", 0, 2),
   Assertion("reconciliation", "op1", "ana", 0, 1),
   Assertion("reconciliation", "op1", "bob", 0, 1),
   Assertion("reconciliation", "op2", "ana", 1, 2),
   Assertion("reconciliation", "op2", "ana", 0, 2)}

\* The issuer's key is replaced with an overlap.
MCJwks == <<"i1" :> "i1", "i1" :> "i1" @@ "i2" :> "i2", "i2" :> "i2">>
MCIdentity == [issuer |-> "issuer", audience |-> "regulaai-api", lifetime |-> 1, skew |-> 1]
MCDeployment ==
  "a" :> [environment |-> "production", mode |-> "oidc_jwt"] @@
  "b" :> [environment |-> "local", mode |-> "disabled"]

AccessToken(key, role, from, until) ==
  [type |-> "access", key |-> key, signer |-> key, issuer |-> "issuer",
   audiences |-> {"regulaai-api"}, roles |-> {role}, issued |-> from, notBefore |-> {},
   expires |-> until]
MCTokens ==
  {AccessToken("i1", "regulaai.reconciler", 0, 1),
   AccessToken("i2", "regulaai.reconciler", 1, 2),
   AccessToken("i1", "regulaai.runtime", 1, 2),
   AccessToken("i1", "regulaai.operator", 2, 3),
   AccessToken("i1", "regulaai.reconciler", 0, 2),
   [AccessToken("i2", "regulaai.runtime", 0, 1) EXCEPT !.signer = "i1"],
   [AccessToken("i1", "regulaai.operator", 0, 1) EXCEPT !.type = "other"],
   [AccessToken("i1", "regulaai.operator", 0, 1) EXCEPT !.notBefore = {1}]}
MCRequests ==
  {[method |-> "GET", path |-> "health"], [method |-> "GET", path |-> "operator-timeline"],
   [method |-> "POST", path |-> "evaluations"]}

\* What is explored: the operators' keys beside one checkpoint and no receipts,
\* and acknowledgements, which do not depend on processes, before any starts.
\* Processes, attestations and acknowledgements are explored beside every two
\* checkpoints, lineages with three before any process starts or anyone signs.
\* Checkpoints are signed before the last instant.  Both reports are checked for
\* every evaluation time, so the last receipt ends a behaviour, and so does one
\* that names the policy of another checkpoint.
Explored ==
  /\ published.document + published.jwks > 2 \/ grants # {} =>
       acks \cup attestations = {} /\ Cardinality(issued) <= 1 /\ process["b"] = {}
  /\ \A c \in issued : c.issued < MaxTime
  /\ acks # {} => attestations = {} /\ \A t \in Targets : process[t] = {}
  /\ Cardinality(issued) > 2 =>
       acks \cup attestations = {} /\ \A t \in Targets : process[t] = {}
  /\ Cardinality(acks) + Cardinality(attestations) < MaxReceipts
  /\ \A r \in acks \cup attestations : r.policy.checkpoint = r.checkpoint
==============================================================================
