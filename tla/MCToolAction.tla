----------------------------- MODULE MCToolAction -----------------------------
(***************************************************************************)
(* Small instances of tool actions: one proposal that clients bind to one  *)
(* of two idempotency keys, or two proposals under one key.                *)
(***************************************************************************)
EXTENDS ToolActionRefinement, TLC

CONSTANTS r1, r2, r3, q1, q2, q3, p1, p2, k1, k2, a1, a2, a3, j1, j2, j3

MCRequests1    == {r1}
MCRequests2    == {r1, r2}
MCRequests3    == {r1, r2, r3}
MCReconcilers0 == {}
MCReconcilers1 == {q1}
MCReconcilers2 == {q1, q2}
MCReconcilers3 == {q1, q2, q3}
MCProposals1   == {p1}
MCProposals2   == {p1, p2}
MCKeys1        == {k1}
MCKeys2        == {k1, k2}
MCApprovals1   == {a1}
MCApprovals2   == {a1, a2}
MCApprovals3   == {a1, a2, a3}
MCOrders2      == {j1, j2}
MCOrders3      == {j1, j2, j3}

First  == [proposal |-> p1, key |-> k1]
Second == [proposal |-> p1, key |-> k2]
Other  == [proposal |-> p2, key |-> k1]

MCGrantedFor1 == (a1 :> {First})
MCGrantedForOne == (a1 :> {First} @@ a2 :> {First})
\* Two approvals for one binding, a third for another binding of the same proposal.
MCGrantedForKeys == (a1 :> {First} @@ a2 :> {First} @@ a3 :> {Second})
\* An approval for one action, and an id signed for both.
MCGrantedForBoth == (a1 :> {First} @@ a2 :> {First, Other})

\* Two orders that contradict each other, and a third for another binding.
MCSettles2        == (j1 :> First @@ j2 :> First)
MCSettlesKeys     == (j1 :> First @@ j2 :> First @@ j3 :> Second)
MCSettlesProposals == (j1 :> First @@ j2 :> First @@ j3 :> Other)
MCVerdict == [j \in Orders |-> IF j = j2 THEN "NOT_EXECUTED" ELSE "EXECUTED"]

\* One field of each handling.  A tool returns all of them, only what is required, or not
\* what the schema says: a field it does not know, none that is required, open text.
MCField(class, handling, closed, required, admits) ==
  [classification |-> class, handling |-> handling, closed |-> closed, required |-> required,
   admits |-> admits]
MCResultSchema ==
  "outcome" :> MCField("INTERNAL", "RETURN", TRUE, TRUE, {"succeeded", "declined"})
    @@ "account" :> MCField("FINANCIAL", "MASK", FALSE, FALSE, {"4711"})
    @@ "token" :> MCField("AUTHENTICATION_SECRET", "DROP", FALSE, FALSE, {"secret"})
MCMinimal  == "outcome" :> "declined"
MCComplete == "outcome" :> "succeeded" @@ "account" :> "4711" @@ "token" :> "secret"
MCUnknown  == MCMinimal @@ "note" :> "4711"
MCReturnable1 == {MCComplete, MCUnknown}
MCReturnable2 == {MCMinimal, MCComplete, MCUnknown, "account" :> "4711", "outcome" :> "4711"}

\* The first authorities expire; the later ones are issued while those are valid.
MCIssuedAt  == [x \in Approvals \cup Orders |-> IF x \in {a1, j1} THEN 0 ELSE 1]
MCExpiresAt == [x \in Approvals \cup Orders |-> IF x \in {a1, j1} THEN 2 ELSE 3]

Symmetry == Permutations(Requests) \cup Permutations(Reconcilers)
=============================================================================
