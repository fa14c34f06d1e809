------------------------- MODULE ToolActionRefinement -------------------------
(***************************************************************************)
(* Tool actions implement AuthorizedEffect: a job is a binding, a ticket   *)
(* an action approval, and every job needs one.  An uncertain action stays *)
(* open until an order closes it: the closing is what concludes it.        *)
(***************************************************************************)
EXTENDS ToolActionReconciliation

ApprovalsSpentOn(b) == {a \in Approvals : ledger[a] # None /\ ledger[a].binding = b}

SpentOn == [b \in Binding |-> IF ApprovalsSpentOn(b) = {} THEN None
                              ELSE CHOOSE a \in ApprovalsSpentOn(b) : TRUE]

\* A rejected result is the result of an effect that took place.
EffectOf(status) ==
  CASE status \in {"EXECUTED", "RESULT_REJECTED", "RECONCILED_EXECUTED"} -> "succeeded"
    [] status = "RECONCILED_NOT_EXECUTED" -> "failed"
    [] status = "APPROVAL_FAILED"         -> "refused"
    [] OTHER                              -> "open"

OutcomeOf(b) == IF rows[b.proposal].binding = b THEN EffectOf(rows[b.proposal].status) ELSE "open"

Gate == INSTANCE AuthorizedEffect WITH
  Jobs       <- Binding,
  Tickets    <- Approvals,
  Gated      <- Binding,
  Covers     <- GrantedFor,
  Nobody     <- None,
  authorised <- {b \in Binding : ApprovalsSpentOn(b) # {}},
  spentBy    <- SpentOn,
  attempted  <- {c.binding : c \in calls},
  outcome    <- [b \in Binding |-> OutcomeOf(b)]

(* Every interleaving of requests and reconcilers, with every abandonment,   *)
(* expiry and replay of an authority, is a behaviour of AuthorizedEffect.    *)
ImplementsAuthorizedEffect == Gate!Spec
=============================================================================
