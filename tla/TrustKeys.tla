----------------------------- MODULE TrustKeys -----------------------------
(***************************************************************************)
(* The lifecycle every public verification key of the repository has, in   *)
(* whichever trust store it is listed: TrustKeyLifecycleModel.  An absent  *)
(* end of validity is the empty set.                                       *)
(***************************************************************************)
EXTENDS Integers

KeyStatus == {"ACTIVE", "RETIRED", "REVOKED"}

WellFormedKey(key) ==
  /\ key.status \in KeyStatus
  /\ \A end \in key.until : end > key.from

\* A retired or revoked key verifies nothing, also nothing it signed while it
\* was active.
ActiveAt(key, t) ==
  /\ key.status = "ACTIVE"
  /\ t >= key.from
  /\ \A end \in key.until : t < end
==============================================================================
