------------------------ MODULE ToolActionInvariant ------------------------
(***************************************************************************)
(* The inductive invariants of ToolActionReconciliation.  IInv is about    *)
(* executing: as in EnforcementInvariant a row has one owner, the request  *)
(* that won its claim, until it answers.  RInv is about what follows: who  *)
(* was told what, what is shown of a result, which order closed an action, *)
(* and what the triggers recorded.                                         *)
(***************************************************************************)
EXTENDS ToolActionReconciliation

Owning   == {"claimed", "dispatched", "executed", "rejected", "uncertain"}
Called   == {"executed", "rejected", "uncertain"}
Effected == {"DISPATCHED", "EXECUTED", "RESULT_REJECTED", "RECONCILIATION_REQUIRED"} \cup Closed

Owns(r, p) == pc[r] \in Owning /\ Action(r) = p

\* What the row of a proposal holds at each of its statuses.
WellFormed(p, row) ==
  /\ row.status = "ABSENT" => row = Absent
  /\ row.status # "ABSENT" => row.binding \in Binding /\ row.binding.proposal = p
  /\ row.status \notin Closed => row.closing = None
  /\ row.status \in Open \cup {"DISPATCHED", "RECONCILIATION_REQUIRED"} => row.execution = None
  /\ row.status \in Open => row.approval = None
  /\ row.result # None <=> row.status = "EXECUTED"

RowsWellFormed == \A p \in Proposals : WellFormed(p, rows[p])

\* What a request knows of itself at each of its labels.
KnowsItself(r) ==
  /\ pc[r] \notin {"idle", "done"} =>
       binding[r] \in Binding /\ rows[Action(r)].status # "ABSENT"
  /\ pc[r] \notin {"idle", "bound", "done"} =>
       assertion[r] \in Approvals /\ rows[Action(r)].binding = binding[r]
  /\ pc[r] \in {"ready", "saved", "prepared", "claimed"} => binding[r] \in GrantedFor[assertion[r]]
  /\ pc[r] = "executed" => processed[r] # None

RequestsKnowThemselves == \A r \in Requests : KnowsItself(r)

\* A row has one owner, and stays dispatched while it is owned.
OwnersDispatch ==
  \A r \in Requests : pc[r] \in Owning => rows[Action(r)].status = "DISPATCHED"
OneOwner ==
  \A r, s \in Requests : pc[r] \in Owning /\ Owns(s, Action(r)) => r = s

\* A call was made for an action whose claim was won, under its binding, and by its
\* owner if it still has one.
CallsEffected ==
  \A c \in calls : /\ rows[c.binding.proposal].status \in Effected
                   /\ rows[c.binding.proposal].binding = c.binding
CallsByOwner ==
  \A c \in calls, r \in Requests : Owns(r, c.binding.proposal) => c.by = r /\ pc[r] \in Called

\* What the ledger holds of an approval.
WellSpent(a) ==
  /\ ledger[a].approval = a
  /\ ledger[a].binding \in GrantedFor[a]
  /\ IssuedAt[a] <= ledger[a].at /\ ledger[a].at < ExpiresAt[a]
  /\ rows[ledger[a].binding.proposal].status \in Effected
  /\ \A r \in Requests : ~(pc[r] = "claimed" /\ Action(r) = ledger[a].binding.proposal)

ApprovalsWellSpent == \A a \in Approvals : ledger[a] # None => WellSpent(a)

\* A receipt that is still in a request's hands is the ledger's, and so is one on a row.
OwnersHoldReceipts ==
  \A r \in Requests :
    pc[r] \in Owning \ {"claimed"} =>
      /\ receipt[r] \in Receipt
      /\ ledger[receipt[r].approval] = receipt[r]
      /\ receipt[r].binding = binding[r]
RowsHoldReceipts ==
  \A p \in Proposals :
    /\ rows[p].approval # None => ledger[rows[p].approval.approval] = rows[p].approval
    /\ rows[p].status \in Effected \ {"DISPATCHED"} => rows[p].approval # None
    /\ AtomicAuthority /\ rows[p].status = "DISPATCHED" => rows[p].approval # None

\* A reconciler at work has an order, and an action that is uncertain or closed.
LocatedItsAction(q) ==
  stage[q] \notin {"idle", "done"} =>
    /\ target[q] \in Proposals /\ order[q] \in Orders
    /\ rows[target[q]].status \in {"RECONCILIATION_REQUIRED"} \cup Closed
    /\ stage[q] \in {"closed", "replaying"} => rows[target[q]].status \in Closed

ReconcilersLocated == \A q \in Reconcilers : LocatedItsAction(q)

(* The inductive invariant of executing. *)
IInv ==
  /\ TypeOK
  /\ RowsWellFormed /\ RequestsKnowThemselves /\ ReconcilersLocated
  /\ OwnersDispatch /\ OneOwner
  /\ CallsEffected /\ CallsByOwner
  /\ ApprovalsWellSpent /\ OwnersHoldReceipts /\ RowsHoldReceipts
  /\ SingleToolExecution /\ AuthorizedExecutions

-----------------------------------------------------------------------------
\* An action passes its statuses by rank, so the triggers have recorded none of a higher one.
Rank(status) ==
  CASE status = "ABSENT"           -> 0
    [] status = "WAITING_APPROVAL" -> 1
    [] status = "PREPARED"         -> 2
    [] status = "DISPATCHED"       -> 3
    [] status \in Judged           -> 4
    [] status \in Closed           -> 5

HistoriesBehind ==
  \A p \in Proposals : \A i \in DOMAIN history[p] :
    Rank(history[p][i]) <= Rank(rows[p].status)

\* What the ledger holds of an order.  With PostgreSQL it has closed its action.
OrderWellSpent(j) ==
  LET p == orders[j].action IN
    /\ orders[j].order = j
    /\ rows[p].status \in {"RECONCILIATION_REQUIRED"} \cup Closed
    /\ Settles[j] = rows[p].binding
    /\ \A k \in Orders : orders[k] # None /\ orders[k].action = p => k = j
    /\ AtomicAuthority \/ rows[p].status \in Closed => rows[p].closing = orders[j]

OrdersWellSpent == \A j \in Orders : orders[j] # None => OrderWellSpent(j)

\* What a closed row shows is an order of the ledger, spent on this action.
ClosedRowsInLedger ==
  \A p \in Proposals : rows[p].status \in Closed =>
    /\ rows[p].closing \in Closing /\ rows[p].closing.action = p
    /\ orders[rows[p].closing.order] = rows[p].closing
    /\ rows[p].status = ClosedStatus(rows[p].closing.order)

\* A reconciler whose order was accepted holds one for the binding of its action, and one
\* that has answered told the truth.
OrderAccepted(q) ==
  /\ stage[q] \in {"authorized", "replaying", "consumed"} =>
       Settles[order[q]] = rows[target[q]].binding
  /\ stage[q] = "consumed" => orders[order[q]] # None
  /\ ruling[q] \in Closed =>
       /\ stage[q] = "done" /\ target[q] \in Proposals
       /\ rows[target[q]].status = ruling[q]
       /\ rows[target[q]].closing.order = order[q]

OrdersAccepted == \A q \in Reconcilers : OrderAccepted(q)

\* The outcome of an action is the outcome of a call.
OutcomesWereCalled ==
  \A p \in Proposals :
    rows[p].status \in Effected \ {"DISPATCHED"} => \E c \in calls : c.binding = rows[p].binding

CalledItself(r) == \E c \in calls : c.by = r /\ c.binding = binding[r]

\* What a request made of its own call, and what it was told.
AnswerStands(r) ==
  /\ pc[r] \in Called => CalledItself(r)
  /\ processed[r] # None => pc[r] \in {"executed", "done"} /\ CalledItself(r)
  /\ answer[r] # None => pc[r] = "done"
  /\ answer[r] \in {"EXECUTED", "RESULT_REJECTED"} =>
       binding[r] \in Binding /\ rows[Action(r)].status = answer[r]
  /\ Shows(r) => rows[Action(r)].result = Metadata(processed[r])

AnswersStand == \A r \in Requests : AnswerStands(r)

CallersConclude ==
  \A c \in calls :
    \/ pc[c.by] \in Called
    \/ /\ pc[c.by] = "done"
       /\ answer[c.by] \in {"EXECUTED", "RESULT_REJECTED", "RECONCILIATION_REQUIRED", "ABANDONED"}

(* The inductive invariant of what follows, relative to IInv. *)
RInv ==
  /\ HistoriesBehind
  /\ OrdersWellSpent /\ ClosedRowsInLedger /\ OrdersAccepted
  /\ OutcomesWereCalled /\ AnswersStand /\ CallersConclude
=============================================================================
