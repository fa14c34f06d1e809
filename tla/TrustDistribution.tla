-------------------------- MODULE TrustDistribution --------------------------
(***************************************************************************)
(* How a change of verification keys reaches the processes that verify.    *)
(*                                                                         *)
(* A distribution authority signs checkpoints of trust stores; stores and  *)
(* checkpoints reach the targets in any order, late, twice or not at all,  *)
(* and a target installs what verifies against the anchor it kept.  A      *)
(* process reads the installed store, the document of operator keys and    *)
(* the keys of the issuer of access tokens when it starts, and never       *)
(* again: the last decide who may call it, the others whom it obeys.       *)
(* Targets sign acknowledgements of what they installed and attestations   *)
(* of what their process has loaded, and two offline tools report whether  *)
(* the receipts at hand cover a policy.                                    *)
(*                                                                         *)
(* Creating, verifying, reporting and inspecting are the code's; when a    *)
(* target installs, restarts or signs, and which files a tool is given, is *)
(* the deployment's.  The signing is honest about the target's own state,  *)
(* but a host may name a target of another host by mistake.                *)
(***************************************************************************)
EXTENDS TrustStoreLineage, OperatorAuthority, ApiIdentity

CONSTANTS
  Targets,        \* consumers of the trust store
  Stores,         \* trust-store documents: key id -> validity
  Lineages,       \* store identities, with their kind
  ReceiptKeys,    \* trust store of receipts: key id -> validity and targets
  Held,           \* the targets that live on the host that holds a receipt key
  Anchoring,      \* target -> the ways its deployment anchors: "sequence", "predecessor"
  Coverage,       \* what policies ask for; maxAge is read for runtime state only
  Documents,      \* operator authority documents, in the order they are published
  Assertions,     \* assertions the operators have signed
  Subjects,       \* what assertions are about
  Jwks,           \* keys of the token issuer, in the order they are published
  Identity,       \* what processes expect of a token: issuer, audience, times
  Deployment,     \* target -> its environment and authentication mode
  Tokens,         \* access tokens
  Requests,       \* requests that carry no assertion
  MaxLifetime,    \* ceiling on the lifetime of an assertion
  MaxCheckpoints, \* bound on the checkpoints signed
  MaxReceipts,    \* bound on the receipts signed
  MaxGrants,      \* bound on the assertions accepted
  MaxTime         \* bound on the clock

Time == 0..MaxTime
Root == "root"

ASSUME StoreAssumption ==
  /\ \A s \in Stores : WellFormedStore(s) /\ \A k \in DOMAIN s : WellFormedKey(s[k])
  /\ \A l \in Lineages : l.kind \in StoreKind
ASSUME ReceiptAssumption ==
  /\ \A k \in DOMAIN ReceiptKeys : WellFormedReceiptKey(ReceiptKeys[k])
  /\ \A k \in DOMAIN ReceiptKeys : ReceiptKeys[k].targets \subseteq Held[k]
  /\ \A p \in Coverage : WellFormedRuntimePolicy(p)
ASSUME AnchorAssumption ==
  Anchoring \in [Targets -> SUBSET {"sequence", "predecessor"}]
ASSUME DocumentAssumption ==
  /\ \A n \in DOMAIN Documents : WellFormedDocument(Documents[n])
  /\ \A a \in Assertions : WellFormedAssertion(a)
ASSUME IdentityAssumption ==
  /\ WellFormedConfig(Identity)
  /\ \A n \in DOMAIN Jwks : WellFormedJwks(Jwks[n])
  /\ \A token \in Tokens : WellFormedToken(token)
  \* "local" stands for every environment that is not production
  /\ Deployment \in [Targets -> [environment : {"local", "production"},
                                 mode : {"disabled", "oidc_jwt", "other"}]]
  \* the methods the routes of the API have
  /\ \A request \in Requests : request.method \in {"GET", "HEAD", "POST"}
ASSUME BoundAssumption ==
  MaxTime \in Nat /\ MaxCheckpoints \in Nat /\ MaxReceipts \in Nat /\ MaxGrants \in Nat

VARIABLES
  issued,       \* checkpoints signed
  installed,    \* target -> the checkpoint it last accepted, as a set of at most one
  process,      \* target -> what its process has loaded, as a set of at most one
  acks,         \* acknowledgements on file
  attestations, \* runtime attestations on file
  published,    \* positions of the operator document and the JWKS that are mounted
  ledger,       \* reconciliation assertions consumed
  grants,       \* assertions accepted, with the circumstances
  accepted,     \* every <<target, checkpoint>> ever installed
  loaded,       \* every <<target, store, time>> seen by an attesting process
  now

vars == <<issued, installed, process, acks, attestations, published, ledger, grants,
          accepted, loaded, now>>

Init ==
  /\ issued = {} /\ acks = {} /\ attestations = {}
  /\ installed = [t \in Targets |-> {}] /\ process = [t \in Targets |-> {}]
  /\ published = [document |-> 1, jwks |-> 1]
  /\ ledger = {} /\ grants = {}
  /\ accepted = {} /\ loaded = {} /\ now = 0

(***************************************************************************)
(* The distribution authority                                              *)
(***************************************************************************)
\* An output path is never written twice.
CreateCheckpoint(lineage, sequence, store, previous) ==
  LET c == Checkpoint(lineage, sequence, now, store, previous, Root)
  IN /\ ~ LineageRejected(c) /\ c \notin issued
     /\ Cardinality(issued) < MaxCheckpoints
     /\ issued' = issued \cup {c}
     /\ UNCHANGED <<installed, process, acks, attestations, published, ledger, grants,
                    accepted, loaded, now>>

(***************************************************************************)
(* The targets                                                             *)
(***************************************************************************)
\* A new target is given the digest it starts from; later it anchors at the
\* sequence it has reached, or at the checkpoint itself, as it is deployed.
AnchorAt(t, way) ==
  CASE way = "sequence"    -> Anchor({}, {p.sequence : p \in installed[t]}, {})
    [] way = "predecessor" -> Anchor(installed[t], {}, {})

Anchors(t, c) ==
  IF installed[t] = {} THEN {Anchor({}, {}, {c})}
  ELSE {AnchorAt(t, way) : way \in Anchoring[t]}

Install(t, c, store) ==
  /\ \E anchor \in Anchors(t, c) : ~ CheckpointRejected(store, c, Root, anchor)
  /\ {c} # installed[t]
  /\ installed' = [installed EXCEPT ![t] = {c}]
  /\ accepted' = accepted \cup {<<t, c>>}
  /\ UNCHANGED <<issued, process, acks, attestations, published, ledger, grants, loaded,
                 now>>

\* A process starts, or starts again, if the control pack is signed by a key
\* that is active now and its API identity is configured.
Start(t) ==
  \E c \in installed[t] :
    /\ ~ IdentityFails(Deployment[t])
    /\ \E k \in DOMAIN c.store : ActiveAt(c.store[k], now)
    /\ process' = [process EXCEPT ![t] =
                     {[store |-> c.store, document |-> published.document,
                       jwks |-> IF Deployment[t].mode = "disabled" THEN {}
                                ELSE {published.jwks}]}]
    /\ UNCHANGED <<issued, installed, acks, attestations, published, ledger, grants,
                   accepted, loaded, now>>

\* The policies written so far, one for each coverage and checkpoint.
Policies ==
  {[checkpoint |-> c, allowed |-> p.allowed, required |-> p.required,
    minimum |-> p.minimum, maxAge |-> p.maxAge] : c \in issued, p \in Coverage}

Receipt(key, target, c, policy) ==
  [id |-> Cardinality(acks) + Cardinality(attestations) + 1, key |-> key,
   target |-> target, checkpoint |-> c, policy |-> policy, at |-> now]

\* Target t signs; its own host tells its targets apart.
MaySign(t, key, named) ==
  /\ t \in Held[key]
  /\ named = t \/ named \notin Held[key]
  /\ Cardinality(acks) + Cardinality(attestations) < MaxReceipts

Acknowledge(t, key, named, policy) ==
  \E c \in installed[t] :
    /\ MaySign(t, key, named)
    /\ acks' = acks \cup {Receipt(key, named, c, policy)}
    /\ UNCHANGED <<issued, installed, process, attestations, published, ledger, grants,
                   accepted, loaded, now>>

Attest(t, key, named, policy) ==
  \E c \in installed[t], p \in process[t] :
    /\ MaySign(t, key, named)
    /\ attestations' =
         attestations \cup {[id |-> r.id, key |-> key, target |-> named,
                             checkpoint |-> c, policy |-> policy, at |-> now,
                             loaded |-> p.store] : r \in {Receipt(key, named, c, policy)}}
    /\ loaded' = loaded \cup {<<t, p.store, now>>}
    /\ UNCHANGED <<issued, installed, process, acks, published, ledger, grants, accepted,
                   now>>

(***************************************************************************)
(* The two reports: the tools verify the checkpoint, here pinned by its    *)
(* digest, and the receipts they are given.                                *)
(***************************************************************************)
RolloutAcknowledged(c, policy, supplied, at) ==
  /\ RolloutFindings(policy, supplied) = {}
  /\ ~ RolloutRejected(c, policy, supplied, ReceiptKeys, at)
  /\ ~ CheckpointRejected(c.store, c, Root, Anchor({}, {}, {c}))

RuntimeStateCurrent(c, policy, supplied, at) ==
  /\ RuntimeFindings(policy, supplied, at) = {}
  /\ ~ RuntimeRejected(c, policy, supplied, ReceiptKeys, at)
  /\ ~ CheckpointRejected(c.store, c, Root, Anchor({}, {}, {c}))

(***************************************************************************)
(* The keys of the operators and of the token issuer                       *)
(***************************************************************************)
PublishDocument ==
  /\ published.document + 1 \in DOMAIN Documents
  /\ published' = [published EXCEPT !.document = @ + 1]
  /\ UNCHANGED <<issued, installed, process, acks, attestations, ledger, grants,
                 accepted, loaded, now>>

PublishJwks ==
  /\ published.jwks + 1 \in DOMAIN Jwks
  /\ published' = [published EXCEPT !.jwks = @ + 1]
  /\ UNCHANGED <<issued, installed, process, acks, attestations, ledger, grants,
                 accepted, loaded, now>>

(***************************************************************************)
(* Requests.  A request presents one token, or none.  One that carries no  *)
(* assertion changes nothing that is modelled here: whether it is let in   *)
(* is all there is to say of it.                                           *)
(***************************************************************************)
Presented == {{}} \cup {{token} : token \in Tokens}

\* A process that has loaded jwks lets a request in.
LetsIn(jwks, request, token, at) ==
  Admitted({Jwks[n] : n \in jwks}, Identity, request, token, at)

\* Where an assertion of a kind is presented.
Route(kind) ==
  [method |-> "POST",
   path |-> CASE kind = "decision_approval" -> "enforcements"
              [] kind = "action_approval"   -> "tool-actions"
              [] kind = "reconciliation"    -> "reconciliation"]

\* The verifier of a process accepts an assertion; a reconciliation is consumed
\* with it, unless the request dies in between.  (Outside the window the use
\* case refuses what the verifier accepts: RejectOrder of
\* ToolActionReconciliation.)
Grant(t, a, kind, subject, consumed, token) ==
  \E p \in process[t] :
    /\ LetsIn(p.jwks, Route(kind), token, now)
    /\ Inspects(Documents[p.document], a, kind, subject, now, MaxLifetime, ledger)
    /\ consumed => kind = "reconciliation"
    /\ Cardinality(grants) < MaxGrants
    /\ grants' = grants \cup {[by |-> t, assertion |-> a, kind |-> kind,
                               subject |-> subject, at |-> now, consumed |-> consumed,
                               document |-> p.document, request |-> Route(kind),
                               token |-> token, jwks |-> p.jwks]}
    /\ ledger' = IF consumed THEN ledger \cup {a} ELSE ledger
    /\ UNCHANGED <<issued, installed, process, acks, attestations, published,
                   accepted, loaded, now>>

Tick ==
  /\ now < MaxTime
  /\ now' = now + 1
  /\ UNCHANGED <<issued, installed, process, acks, attestations, published, ledger, grants,
                 accepted, loaded>>

Next ==
  \/ \E lineage \in Lineages, sequence \in 1..MaxCheckpoints, store \in Stores,
        previous \in {{}} \cup {{c} : c \in issued} :
       CreateCheckpoint(lineage, sequence, store, previous)
  \/ \E t \in Targets, c \in issued, store \in Stores : Install(t, c, store)
  \/ \E t \in Targets : Start(t)
  \/ \E t, named \in Targets, key \in DOMAIN ReceiptKeys, policy \in Policies :
       Acknowledge(t, key, named, policy) \/ Attest(t, key, named, policy)
  \/ PublishDocument \/ PublishJwks
  \/ \E t \in Targets, a \in Assertions, kind \in Authorities, subject \in Subjects,
        consumed \in BOOLEAN, token \in Presented : Grant(t, a, kind, subject, consumed, token)
  \/ Tick

Spec == Init /\ [][Next]_vars
==============================================================================
