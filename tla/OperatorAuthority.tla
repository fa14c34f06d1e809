-------------------------- MODULE OperatorAuthority --------------------------
(***************************************************************************)
(* Ed25519OperatorAuthorityVerifier: which signed assertion of an operator *)
(* a process accepts, given the document of operator keys it loaded when   *)
(* it was built.  The document maps key ids to the lifecycle of the key,   *)
(* its public part, its one actor and its authorities.  The six adapters   *)
(* that use the verifier keep the ledgers of the HMAC adapters, which      *)
(* EnforcementLifecycle, ToolActionLifecycle and ToolActionReconciliation  *)
(* model; here a ledger is the set of consumed reconciliation assertions.  *)
(***************************************************************************)
EXTENDS TrustKeys, FiniteSets

Authorities == {"decision_approval", "action_approval", "reconciliation"}

WellFormedOperatorKey(key) ==
  /\ WellFormedKey(key)
  /\ key.authorities # {} /\ key.authorities \subseteq Authorities

WellFormedDocument(document) ==
  /\ Cardinality(DOMAIN document) \in 1..64
  /\ \A k \in DOMAIN document : WellFormedOperatorKey(document[k])

\* _decode_assertion: only an envelope of one of the three kinds is an assertion.
WellFormedAssertion(a) ==
  a.kind \in Authorities /\ a.issued \in Int /\ a.expires \in Int

\* Faulty variant: a key that was in use at issuance stays good for the assertion.
KeyFitsAtIssuance(document, a, kind, now) ==
  /\ a.kind = kind /\ a.key \in DOMAIN document
  /\ LET key == document[a.key]
     IN /\ key.actor = a.actor /\ kind \in key.authorities /\ key.public = a.signer
        /\ ActiveAt(key, a.issued)

\* The envelope is of the kind asked for, and its key belongs to the actor it
\* names, may do this, signed it, and is active now and was at issuance.
KeyFits(document, a, kind, now) ==
  /\ a.kind = kind /\ a.key \in DOMAIN document
  /\ LET key == document[a.key]
     IN /\ key.actor = a.actor /\ kind \in key.authorities /\ key.public = a.signer
        /\ ActiveAt(key, now) /\ ActiveAt(key, a.issued)

ShortLived(a, lifetime)  == a.expires - a.issued \in 1..lifetime
WithinWindow(a, now)     == a.issued <= now /\ now < a.expires
WellFormedOutcome(a) ==
  \/ a.outcome = "EXECUTED" /\ a.execution # {}
  \/ a.outcome = "NOT_EXECUTED" /\ a.execution = {}

\* inspect_decision and inspect_action: the assertion is about this subject.
InspectsApproval(document, a, kind, subject, now, lifetime) ==
  /\ KeyFits(document, a, kind, now)
  /\ ShortLived(a, lifetime) /\ WithinWindow(a, now)
  /\ a.subject = subject

\* _same_reconciliation_grant: the ledger holds this order, to the last field.
Recorded(a, ledger) == \E stored \in ledger : stored = a

\* inspect_reconciliation: outside its window an order is only good for what
\* the ledger already holds of it.
InspectsReconciliation(document, a, subject, now, lifetime, ledger) ==
  /\ KeyFits(document, a, "reconciliation", now)
  /\ a.subject = subject /\ WellFormedOutcome(a) /\ ShortLived(a, lifetime)
  /\ WithinWindow(a, now) \/ Recorded(a, ledger)

Inspects(document, a, kind, subject, now, lifetime, ledger) ==
  IF kind = "reconciliation"
  THEN InspectsReconciliation(document, a, subject, now, lifetime, ledger)
  ELSE InspectsApproval(document, a, kind, subject, now, lifetime)
==============================================================================
