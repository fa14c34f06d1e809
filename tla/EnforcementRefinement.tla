------------------------ MODULE EnforcementRefinement ------------------------
(***************************************************************************)
(* EnforcementLifecycle implements AuthorizedEffect: a job is an           *)
(* enforcement row, a ticket a decision approval.  With SQLite the claim   *)
(* authorises nothing by itself, the consumption does; with PostgreSQL the *)
(* two are one step.                                                       *)
(***************************************************************************)
EXTENDS EnforcementLifecycle

GatedRows == {id \in Identity : NeedsApproval(id.evaluation)}

CoveredRows == [a \in Approvals |-> {id \in Identity : id.evaluation = GrantedFor[a]}]

ApprovalsSpentOn(id) == {a \in Approvals : ledger[a] # None /\ ledger[a].enforcement = id}

AuthorisedRows ==
  {id \in Identity : IF id \in GatedRows THEN ApprovalsSpentOn(id) # {}
                                         ELSE rows[id].status \in Frozen}

SpentOn == [id \in Identity |-> IF ApprovalsSpentOn(id) = {} THEN None
                                ELSE CHOOSE a \in ApprovalsSpentOn(id) : TRUE]

RowOutcome(status) ==
  CASE status = "EXECUTED"         -> "succeeded"
    [] status = "EXECUTION_FAILED" -> "failed"
    [] status = "APPROVAL_FAILED"  -> "refused"
    [] OTHER                       -> "open"

Gate == INSTANCE AuthorizedEffect WITH
  Jobs       <- Identity,
  Tickets    <- Approvals,
  Gated      <- GatedRows,
  Covers     <- CoveredRows,
  Nobody     <- None,
  authorised <- AuthorisedRows,
  spentBy    <- SpentOn,
  attempted  <- {c.id : c \in calls},
  outcome    <- [id \in Identity |-> RowOutcome(rows[id].status)]

(* Every interleaving of requests, with every abandonment, expiry and replay *)
(* of an approval, is a behaviour of AuthorizedEffect.                       *)
ImplementsAuthorizedEffect == Gate!Spec
=============================================================================
