-------------------------- MODULE TrustStoreLineage --------------------------
(***************************************************************************)
(* Checkpoints of public trust stores (trust_store_lineage.py) and the two *)
(* reports over signed receipts of their consumers                         *)
(* (VerifyTrustStoreRollout, VerifyRuntimeTrustState), as operators: the   *)
(* tools are offline and change nothing but the file they write.           *)
(*                                                                         *)
(* A checkpoint stands for its digest; it holds the store whose bytes it   *)
(* binds and its predecessor.  Optional values are sets of at most one     *)
(* element.  A policy binds the checkpoint it is written for; a receipt     *)
(* names its target, signing key, checkpoint and policy, and the instant   *)
(* it is about.                                                            *)
(***************************************************************************)
EXTENDS TrustKeys, FiniteSets

StoreKind == {"CONTROL_PACK", "RELEASE_REVIEW", "RELEASE_PROMOTION"}

Checkpoint(lineage, sequence, issued, store, previous, signer) ==
  [lineage |-> lineage, sequence |-> sequence, issued |-> issued, store |-> store,
   previous |-> previous, signer |-> signer]

\* The bytes of a store: up to 64 public keys.
WellFormedStore(store) == Cardinality(DOMAIN store) \in 1..64

\* _load_checkpoint: the document is intact and signed by the expected key.
Loads(c, signer) == c.signer = signer /\ (c.sequence = 1) = (c.previous = {})

(***************************************************************************)
(* Creation: a genesis, or a successor of a checkpoint that the same       *)
(* authority signed, with other bytes.  Nothing keeps an authority from    *)
(* extending one checkpoint twice.                                         *)
(***************************************************************************)
LineageRejected(c) ==
  \/ (c.sequence = 1) # (c.previous = {})
  \/ \E p \in c.previous :
       \/ ~ Loads(p, c.signer)
       \/ p.lineage # c.lineage
       \/ c.sequence # p.sequence + 1
       \/ c.issued <= p.issued
       \/ c.store = p.store

(***************************************************************************)
(* Verification of a store against a checkpoint and a rollback anchor: a   *)
(* predecessor, a minimum sequence, a pinned digest or several of them.    *)
(***************************************************************************)
Anchor(previous, minimum, expected) ==
  [previous |-> previous, minimum |-> minimum, expected |-> expected]

Succeeds(c, p) ==
  /\ c.lineage = p.lineage
  /\ c.sequence = p.sequence + 1
  /\ c.previous = {p}
  /\ c.issued > p.issued

\* Faulty variant: the sequence before the trusted one is let through.
CheckpointRejectedOffByOne(store, c, signer, anchor) ==
  \/ anchor = Anchor({}, {}, {})
  \/ ~ Loads(c, signer) \/ c.store # store
  \/ \E n \in anchor.minimum : n < 1 \/ c.sequence < n - 1
  \/ \E d \in anchor.expected : c # d
  \/ \E p \in anchor.previous : ~ Loads(p, signer) \/ ~ Succeeds(c, p)

CheckpointRejected(store, c, signer, anchor) ==
  \/ anchor = Anchor({}, {}, {})
  \/ ~ Loads(c, signer) \/ c.store # store
  \/ \E n \in anchor.minimum : n < 1 \/ c.sequence < n
  \/ \E d \in anchor.expected : c # d
  \/ \E p \in anchor.previous : ~ Loads(p, signer) \/ ~ Succeeds(c, p)

(***************************************************************************)
(* Receipts and the coverage a policy asks of them                         *)
(***************************************************************************)
WellFormedCoverage(policy) ==
  /\ IsFiniteSet(policy.allowed) /\ policy.allowed # {}
  /\ policy.required \subseteq policy.allowed
  /\ policy.minimum \in 1..Cardinality(policy.allowed)
  /\ policy.minimum >= Cardinality(policy.required)

WellFormedRuntimePolicy(policy) ==
  WellFormedCoverage(policy) /\ policy.maxAge \in Nat \ {0} /\ policy.maxAge <= 86400

WellFormedReceiptKey(key) == WellFormedKey(key) /\ key.targets # {}

\* Faulty variant: a key vouches for any target.
ReceiptVerifiesForAll(r, keys) ==
  r.key \in DOMAIN keys /\ ActiveAt(keys[r.key], r.at)

ReceiptVerifies(r, keys) ==
  /\ r.key \in DOMAIN keys
  /\ ActiveAt(keys[r.key], r.at)
  /\ r.target \in keys[r.key].targets

AttestationVerifies(r, keys) == ReceiptVerifies(r, keys)

\* One receipt per target, key and id.
Repeated(supplied) ==
  \E r, s \in supplied : r # s /\ (r.id = s.id \/ r.key = s.key \/ r.target = s.target)

Unbound(r, c, policy, at) ==
  \/ r.checkpoint # c \/ r.policy # policy
  \/ r.target \notin policy.allowed
  \/ r.at > at

CoverageFindings(policy, targets) ==
  {<<"REQUIRED_TARGET_MISSING", t>> : t \in policy.required \ targets} \cup
  (IF Cardinality(targets) < policy.minimum
   THEN {<<"QUORUM_NOT_MET", policy.minimum>>} ELSE {})

TargetsOf(receipts) == {r.target : r \in receipts}

\* VerifyTrustStoreRollout, over acknowledgements
RolloutRejected(c, policy, supplied, keys, at) ==
  \/ policy.checkpoint # c
  \/ \E r \in supplied : ~ ReceiptVerifies(r, keys) \/ Unbound(r, c, policy, at)
  \/ Repeated(supplied)

RolloutFindings(policy, supplied) == CoverageFindings(policy, TargetsOf(supplied))

\* VerifyRuntimeTrustState, over attestations of a loaded store
RuntimeRejected(c, policy, supplied, keys, at) ==
  \/ policy.checkpoint # c
  \/ \E r \in supplied :
       \/ ~ AttestationVerifies(r, keys) \/ Unbound(r, c, policy, at)
       \/ r.loaded # c.store
       \/ r.at < c.issued
  \/ Repeated(supplied)

Fresh(policy, supplied, at) == {r \in supplied : at - r.at <= policy.maxAge}

\* Faulty variant: a stale attestation still covers its target.
RuntimeFindingsStale(policy, supplied, at) == CoverageFindings(policy, TargetsOf(supplied))

RuntimeFindings(policy, supplied, at) ==
  {<<"ATTESTATION_STALE", r.target>> : r \in supplied \ Fresh(policy, supplied, at)}
    \cup CoverageFindings(policy, TargetsOf(Fresh(policy, supplied, at)))
==============================================================================
