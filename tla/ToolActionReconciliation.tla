----------------------- MODULE ToolActionReconciliation -----------------------
(***************************************************************************)
(* Tool actions and the closing of the uncertain ones: ReconcileToolAction *)
(* over the tool-action repository and the ledger of consumed              *)
(* reconciliation orders, running beside the requests that execute.        *)
(*                                                                         *)
(* An order is a signed assertion that an uncertain effect did or did not  *)
(* take place.  The ledger takes one order for an action.  With SQLite the *)
(* order is consumed in one transaction and the action closed in another;  *)
(* a reconciler that presents the same order again resumes in between.     *)
(***************************************************************************)
EXTENDS ToolActionLifecycle

CONSTANT Reconcilers \* calls of ReconcileToolAction.execute

VARIABLES
  orders,   \* tool_action_reconciliation_consumption table
  stage,    \* each reconciler: where it is,
  target,   \* the action it was called for,
  order,    \* the assertion it was given,
  ruling    \* and its answer

vars == <<actionVars, orders, stage, target, order, ruling>>
reconcilerVars == <<orders, stage, target, order, ruling>>

Stages  == {"idle", "uncertain", "closed", "authorized", "replaying", "consumed", "done"}
Rulings == Closed \cup {"CONFLICT", "AUTHORIZATION_FAILED", "PERSISTENCE_FAILED", "ABANDONED"}

TypeOK ==
  /\ ActionTypeOK
  /\ orders \in [Orders -> Closing \cup {None}]
  /\ stage  \in [Reconcilers -> Stages]
  /\ target \in [Reconcilers -> Proposals \cup {None}]
  /\ order  \in [Reconcilers -> Orders \cup {None}]
  /\ ruling \in [Reconcilers -> Rulings \cup {None}]

Init ==
  /\ ActionInit
  /\ orders = [j \in Orders |-> None]
  /\ stage  = [q \in Reconcilers |-> "idle"]
  /\ target = [q \in Reconcilers |-> None]
  /\ order  = [q \in Reconcilers |-> None]
  /\ ruling = [q \in Reconcilers |-> None]

-----------------------------------------------------------------------------
\* Only an order consumed for this action is in its way; the table has one per action.
TakenFor(p) == \E j \in Orders : orders[j] # None /\ orders[j].action = p

VerifiesAnyOrder(q) == InWindow(order[q]) \* faulty variant: no binding
VerifiesOrder(q) == Settles[order[q]] = rows[target[q]].binding /\ InWindow(order[q])

ClosingOf(q) == [order |-> order[q], action |-> target[q], at |-> now]

ConsumeOrder(q) == orders' = [orders EXCEPT ![order[q]] = ClosingOf(q)]

ClosedStatus(j) ==
  IF Verdict[j] = "EXECUTED" THEN "RECONCILED_EXECUTED" ELSE "RECONCILED_NOT_EXECUTED"

\* The row closed by order j: only an effect that took place has an execution id.
ClosedRow(p, j, closing) ==
  [rows[p] EXCEPT !.status = ClosedStatus(j), !.closing = closing,
                  !.execution = IF Verdict[j] = "EXECUTED" THEN j ELSE None]

Enter(q, s) == stage' = [stage EXCEPT ![q] = s]

Rule(q, a) ==
  /\ Enter(q, "done")
  /\ ruling' = [ruling EXCEPT ![q] = a]

(***************************************************************************)
(* Faulty variants of the steps below.                                     *)
(***************************************************************************)

\* The consumption table has no unique action.
TakeAnotherOrder(q) ==
  /\ stage[q] = "authorized"
  /\ ~AtomicAuthority
  /\ \/ orders[order[q]] # None /\ UNCHANGED orders
     \/ orders[order[q]] = None /\ InWindow(order[q]) /\ ConsumeOrder(q)
  /\ Enter(q, "consumed")
  /\ UNCHANGED <<actionVars, target, order, ruling>>

\* The update that closes the action finds no row, and nobody looks.
CloseNothing(q) ==
  /\ stage[q] = "authorized"
  /\ AtomicAuthority
  /\ InWindow(order[q]) /\ ~TakenFor(target[q])
  /\ ConsumeOrder(q)
  /\ Rule(q, ClosedStatus(order[q]))
  /\ UNCHANGED <<actionVars, target, order>>

\* A duplicate is taken for a replay.
CollideAsReplay(q) ==
  /\ stage[q] = "authorized"
  /\ AtomicAuthority
  /\ InWindow(order[q]) /\ TakenFor(target[q])
  /\ Rule(q, ClosedStatus(order[q]))
  /\ UNCHANGED <<actionVars, orders, target, order>>

-----------------------------------------------------------------------------
(***************************************************************************)
(* The steps of a reconciler.                                              *)
(***************************************************************************)

\* Read the action; only an uncertain or a closed one is looked at further.
Locate(q) ==
  /\ stage[q] = "idle"
  /\ \E p \in Proposals, j \in Orders :
       /\ rows[p] # Absent
       /\ target' = [target EXCEPT ![q] = p]
       /\ order'  = [order EXCEPT ![q] = j]
       /\ \/ /\ rows[p].status = "RECONCILIATION_REQUIRED"
             /\ Enter(q, "uncertain") /\ UNCHANGED ruling
          \/ /\ rows[p].status \in Closed
             /\ Enter(q, "closed") /\ UNCHANGED ruling
          \/ /\ rows[p].status \notin Closed \cup {"RECONCILIATION_REQUIRED"}
             /\ Rule(q, "CONFLICT")
  /\ UNCHANGED <<actionVars, orders>>

\* The adapter accepts an expired order that is in the ledger; the service does not.
RejectOrder(q) ==
  /\ stage[q] \in {"uncertain", "closed"}
  /\ ~VerifiesOrder(q)
  /\ Rule(q, "AUTHORIZATION_FAILED")
  /\ UNCHANGED <<actionVars, orders, target, order>>

AcceptOrder(q) ==
  /\ stage[q] \in {"uncertain", "closed"}
  /\ VerifiesOrder(q)
  /\ Enter(q, IF stage[q] = "uncertain" THEN "authorized" ELSE "replaying")
  /\ UNCHANGED <<actionVars, orders, target, order, ruling>>

\* A closed action answers the order that closed it and conflicts with any other.  Its
\* order is in the ledger, so the consumption on this path returns what is there.
Replay(q) ==
  /\ stage[q] = "replaying"
  /\ Rule(q, IF rows[target[q]].closing = orders[order[q]]
               THEN rows[target[q]].status ELSE "CONFLICT")
  /\ UNCHANGED <<actionVars, orders, target, order>>

\* SQLite, the first transaction: consume the order, or find it consumed before.
TakeOrder(q) ==
  /\ stage[q] = "authorized"
  /\ ~AtomicAuthority
  /\ \/ orders[order[q]] # None /\ UNCHANGED orders
     \/ ~TakenFor(target[q]) /\ InWindow(order[q]) /\ ConsumeOrder(q)
  /\ Enter(q, "consumed")
  /\ UNCHANGED <<actionVars, target, order, ruling>>

RefuseOrder(q) ==
  /\ stage[q] = "authorized"
  /\ ~AtomicAuthority
  /\ orders[order[q]] = None
  /\ TakenFor(target[q]) \/ ~InWindow(order[q])
  /\ Rule(q, "AUTHORIZATION_FAILED")
  /\ UNCHANGED <<actionVars, orders, target, order>>

\* SQLite, the second transaction.  The record was read while the action was uncertain,
\* and an uncertain action changes only by being closed.
SaveClosed(q) ==
  /\ stage[q] = "consumed"
  /\ Upsert(target[q], ClosedRow(target[q], order[q], orders[order[q]]))
  /\ Rule(q, IF rows'[target[q]].closing = orders[order[q]]
               THEN ClosedStatus(order[q]) ELSE "CONFLICT")
  /\ UNCHANGED <<ledger, now, pc, locals, receipt, answer, calls, orders, target, order>>

\* PostgreSQL: both in one transaction.  Only an order closes an uncertain action, so one
\* for which no order is taken is uncertain still.
CloseAtomically(q) ==
  /\ stage[q] = "authorized"
  /\ AtomicAuthority
  /\ InWindow(order[q])
  /\ ~TakenFor(target[q])
  /\ rows[target[q]].status = "RECONCILIATION_REQUIRED"
  /\ ConsumeOrder(q)
  /\ Store(target[q], ClosedRow(target[q], order[q], ClosingOf(q)))
  /\ Rule(q, ClosedStatus(order[q]))
  /\ UNCHANGED <<ledger, now, pc, locals, receipt, answer, calls, target, order>>

AlreadyClosedBy(q) ==
  /\ orders[order[q]] # None
  /\ rows[target[q]].closing = orders[order[q]]
  /\ rows[target[q]].status = ClosedStatus(order[q])

\* The insertion finds an order for this action: this very order, or another.
CollideAtomically(q) ==
  /\ stage[q] = "authorized"
  /\ AtomicAuthority
  /\ InWindow(order[q]) /\ TakenFor(target[q])
  /\ \/ AlreadyClosedBy(q) /\ Rule(q, ClosedStatus(order[q]))
     \/ ~AlreadyClosedBy(q) /\ Rule(q, "PERSISTENCE_FAILED")
  /\ UNCHANGED <<actionVars, orders, target, order>>

ExpireAtomically(q) ==
  /\ stage[q] = "authorized"
  /\ AtomicAuthority
  /\ ~InWindow(order[q])
  /\ Rule(q, "PERSISTENCE_FAILED")
  /\ UNCHANGED <<actionVars, orders, target, order>>

GiveUp(q) ==
  /\ stage[q] # "done"
  /\ Rule(q, "ABANDONED")
  /\ UNCHANGED <<actionVars, orders, target, order>>

Reconcile(q) ==
  \/ Locate(q) \/ RejectOrder(q) \/ AcceptOrder(q) \/ Replay(q)
  \/ TakeOrder(q) \/ RefuseOrder(q) \/ SaveClosed(q)
  \/ CloseAtomically(q) \/ CollideAtomically(q) \/ ExpireAtomically(q)

Finished ==
  /\ \A r \in Requests : pc[r] = "done"
  /\ \A q \in Reconcilers : stage[q] = "done"
  /\ UNCHANGED vars

Next ==
  \/ \E r \in Requests : (Step(r) \/ Abandon(r)) /\ UNCHANGED reconcilerVars
  \/ \E q \in Reconcilers : Reconcile(q) \/ GiveUp(q)
  \/ Tick /\ UNCHANGED reconcilerVars
  \/ Finished

Spec == Init /\ [][Next]_vars

\* A worker that is not abandoned runs on; nothing obliges a client to call.
Progress(r) == pc[r] # "idle" /\ Step(r) /\ UNCHANGED reconcilerVars
Advance(q)  == stage[q] # "idle" /\ Reconcile(q)
FairSpec ==
  /\ Spec
  /\ \A r \in Requests : WF_vars(Progress(r))
  /\ \A q \in Reconcilers : WF_vars(Advance(q))

-----------------------------------------------------------------------------
(***************************************************************************)
(* Properties.                                                             *)
(***************************************************************************)

\* The answer of a request carries what it made of the result of its call.
Shows(r) == answer[r] = "EXECUTED" /\ processed[r] # None

(* Whatever requests are repeated, raced, abandoned or bound to another key, *)
(* and whatever is reconciled, the tool port is called at most once for a    *)
(* proposal.                                                                 *)
SingleToolExecution ==
  \A c, d \in calls : c.binding.proposal = d.binding.proposal => c = d

(* The tool port is called under the binding on record, with the receipt of  *)
(* an approval that was signed for this binding, consumed inside its window, *)
(* and given by the ledger to this action and no other.                      *)
AuthorizedExecutions ==
  \A c \in calls :
    /\ rows[c.binding.proposal].binding = c.binding
    /\ c.receipt # None
    /\ ledger[c.receipt.approval] = c.receipt
    /\ c.binding \in GrantedFor[c.receipt.approval]
    /\ IssuedAt[c.receipt.approval] <= c.receipt.at
    /\ c.receipt.at < ExpiresAt[c.receipt.approval]

(* An approval is only ever consumed for an action that is or was            *)
(* dispatched: no refusal, recorded by another request in a transaction of   *)
(* its own, reaches an action that was paid for.                             *)
NoApprovalSpentInVain ==
  \A a \in Approvals : ledger[a] # None =>
    rows[ledger[a].binding.proposal].status \in
      {"DISPATCHED", "EXECUTED", "RESULT_REJECTED", "RECONCILIATION_REQUIRED"} \cup Closed

(* A consumed approval and the claim it pays for commit together: no action  *)
(* past its claim is without its receipt (PostgreSQL).                       *)
ClaimCarriesReceipt ==
  \A p \in Proposals :
    rows[p].status \in {"DISPATCHED", "EXECUTED", "RESULT_REJECTED"} \cup Closed
                        \cup {"RECONCILIATION_REQUIRED"}
      => /\ rows[p].approval # None
         /\ ledger[rows[p].approval.approval] = rows[p].approval

(* An action only moves forward, under the binding it was given first: what  *)
(* was dispatched is only judged, what was judged is final, and an uncertain *)
(* action is only closed, once.                                              *)
ActionsMoveForward ==
  [][\A p \in Proposals :
       /\ rows[p] # Absent => rows'[p].binding = rows[p].binding
       /\ rows[p].status = "DISPATCHED" => rows'[p].status \in Judged \cup {"DISPATCHED"}
       /\ rows[p].status \in (Judged \cup Closed) \ {"RECONCILIATION_REQUIRED"}
            => rows'[p] = rows[p]
       /\ rows[p].status = "RECONCILIATION_REQUIRED"
            => rows'[p] = rows[p] \/ rows'[p].status \in Closed]_rows

(* What docs/adr/0012 says of the triggers holds of actions, because no      *)
(* action re-enters a status: each change appends an event.                  *)
EveryTransitionRecorded ==
  [][\A p \in Proposals :
       rows'[p].status # rows[p].status =>
         /\ Len(history'[p]) = Len(history[p]) + 1
         /\ history'[p][Len(history'[p])] = rows'[p].status]_<<rows, history>>

(* What a client is told of its action is what is recorded, and a request    *)
(* that was refused, conflicted or found the action taken called nothing.    *)
TruthfulAnswers ==
  \A r \in Requests :
    /\ answer[r] \in {"EXECUTED", "RESULT_REJECTED"} => rows[Action(r)].status = answer[r]
    /\ answer[r] \in {"CONFLICT", "VERIFICATION_FAILED", "CONSUMPTION_FAILED",
                        "WAITING_APPROVAL", "PREPARED", "DISPATCHED"}
         => ~\E c \in calls : c.by = r

(* What a tool returned is shown once, to the request that called it, after  *)
(* its metadata is on record: the answer and the record name the same        *)
(* fields, no field whose class is sensitive or whose text is open is shown  *)
(* unmasked, and no secret is shown at all.  Of a rejected, uncertain or     *)
(* reconciled result nothing is shown or recorded.                           *)
ResultsAreMinimised ==
  /\ \A r, s \in Requests : Shows(r) /\ Shows(s) /\ Action(r) = Action(s) => r = s
  /\ \A r \in Requests : Shows(r) =>
       LET safe == processed[r].safe IN
         /\ \E c \in calls : c.by = r
         /\ rows[Action(r)].result = [classifications |-> processed[r].classifications,
                                     exposed |-> DOMAIN safe]
         /\ \A f \in DOMAIN safe :
              LET class == ResultSchema[f].classification IN
                /\ class # "AUTHENTICATION_SECRET"
                /\ safe[f] # Masked =>
                     ResultSchema[f].closed /\ class \in {"PUBLIC", "INTERNAL"}
  /\ \A p \in Proposals : rows[p].result # None <=> rows[p].status = "EXECUTED"

(* An action is closed only if its tool was called with an uncertain end,    *)
(* and by one order: signed for its binding, for the outcome now recorded,   *)
(* and kept in the ledger as the row shows it.                               *)
ClosedByOrder ==
  \A p \in Proposals : rows[p].status \in Closed =>
    /\ rows[p].closing # None
    /\ LET j == rows[p].closing.order IN
         /\ orders[j] = rows[p].closing
         /\ Settles[j] = rows[p].binding
         /\ rows[p].status = ClosedStatus(j)
    /\ \E c \in calls : c.binding = rows[p].binding

(* With SQLite, an order is consumed only for an action that still waits for *)
(* it or that it closed: no two orders are spent on one action, and an order *)
(* is never spent in vain.                                                   *)
OrdersAreNotWasted ==
  \A j \in Orders : orders[j] # None =>
    LET row == rows[orders[j].action] IN
      \/ row.closing = orders[j]
      \/ /\ row.status = "RECONCILIATION_REQUIRED"
         /\ \A k \in Orders : orders[k] # None /\ orders[k].action = orders[j].action => k = j

(* With PostgreSQL an order in the ledger is an action it closed.            *)
OrdersClose ==
  \A j \in Orders : orders[j] # None => rows[orders[j].action].closing = orders[j]

(* A reconciler that is told the action is closed presented the order that   *)
(* closed it, and the outcome it is told is the recorded one.                *)
TruthfulRulings ==
  \A q \in Reconcilers : ruling[q] \in Closed =>
    /\ rows[target[q]].status = ruling[q]
    /\ rows[target[q]].closing.order = order[q]

(* In the end no action is left dispatched but one a request for which was   *)
(* abandoned.                                                                *)
DispatchConcludes ==
  <>[]\A p \in Proposals :
        rows[p].status = "DISPATCHED" =>
          \E r \in Requests : answer[r] = "ABANDONED" /\ binding[r] # None /\ Action(r) = p

(* What the adapter's consume says of itself, and its test of recovery after *)
(* expiration: an order that was consumed and left its action uncertain may  *)
(* be presented again, exactly, whenever.                                    *)
ConsumedOrdersRecover ==
  [][\A q \in Reconcilers :
       /\ stage[q] = "uncertain" /\ rows[target[q]].status = "RECONCILIATION_REQUIRED"
       /\ ruling'[q] = "AUTHORIZATION_FAILED"
       /\ Settles[order[q]] = rows[target[q]].binding
       => orders[order[q]] = None]_vars

(* What docs/API_CONTRACT.md says: an exact replay is idempotent, another    *)
(* binding is a conflict.  A reconciler that was authorised and lost the     *)
(* race to another order would be told so.                                   *)
OtherOrdersConflict ==
  [][\A q \in Reconcilers :
       stage[q] = "authorized" /\ rows[target[q]].status \in Closed
         /\ rows[target[q]].closing.order # order[q] /\ InWindow(order[q]) /\ stage'[q] = "done"
       => ruling'[q] \in {"CONFLICT", "ABANDONED"}]_vars
=============================================================================
