------------------------------ MODULE MCTimeline ------------------------------
(***************************************************************************)
(* The timeline of an enforcement with up to two actions, of which one is  *)
(* shown, and with up to nine events of one action, of which eight are.    *)
(***************************************************************************)
EXTENDS MCToolAction, OperatorTimeline

Idle(r)    == pc[r] = "idle"
Running(r) == pc[r] \notin {"idle", "done"}
Reconciled == \E q \in Reconcilers : stage[q] # "idle"

\* What is explored: three requests before the timeline is asked for and while no
\* reconciler runs; two requests one at a time, and then the reconciler, before the
\* timeline is asked for; and beside its reads two requests one at a time, or one
\* request and the reconciler.  An answer is final.
Explored ==
  /\ reading \in {"enforcement", "actions", "events"}
  /\ Reconciled \/ reading # "enforcement" =>
       /\ \E r \in Requests : Idle(r)
       /\ Cardinality({r \in Requests : Running(r)}) <= 1
  /\ Reconciled /\ reading # "enforcement" =>
       Cardinality({r \in Requests : Idle(r)}) = Cardinality(Requests) - 1
===============================================================================
