---------------------------- MODULE MCEnforcement ----------------------------
(***************************************************************************)
(* Small instances of EnforcementLifecycle: "pay" requires approval,       *)
(* "read" is allowed after transformation, "leak" is denied.               *)
(***************************************************************************)
EXTENDS EnforcementRefinement, TLC

CONSTANTS r1, r2, r3, o1, o2, a1, a2

MCRequests2 == {r1, r2}
MCRequests3 == {r1, r2, r3}
MCOutputs1  == {o1}
MCOutputs2  == {o1, o2}
MCApprovals == {a1, a2}

MCEvaluation1  == {"pay"}
MCEvaluations  == {"pay", "read"}
MCEvaluations3 == {"pay", "read", "leak"}
MCOutcome1 == ("pay" :> "REQUIRE_APPROVAL")
MCOutcome  == MCOutcome1 @@ ("read" :> "ALLOW_WITH_TRANSFORMATION")
MCOutcome3 == MCOutcome @@ ("leak" :> "DENY")

\* Both approve "pay": a2 is issued while a1 is valid; a1 expires, a2 outlives the clock.
MCGrantedFor == (a1 :> "pay" @@ a2 :> "pay")
MCIssuedAt   == (a1 :> 0 @@ a2 :> 1)
MCExpiresAt  == (a1 :> 2 @@ a2 :> 3)

Symmetry == Permutations(Requests) \cup Permutations(Outputs)
=============================================================================
