------------------------- MODULE ToolActionLifecycle -------------------------
(***************************************************************************)
(* The execution of one proposed tool call: ExecuteToolAction over the     *)
(* tool-action repository and the ledger of consumed action approvals.     *)
(*                                                                         *)
(* A proposal has one action row, whatever idempotency key, arguments or   *)
(* workload a request binds it to: the first request decides the binding,  *)
(* and an approval is signed for a binding (its action digest); nothing    *)
(* keeps the approver from signing one id for two.  As in                  *)
(* EnforcementLifecycle each transaction of a request is an action and a   *)
(* request may be abandoned before any of them.                            *)
(*                                                                         *)
(* The enforcement that made the proposal, its evidence and the catalog    *)
(* never change once a proposal exists, so the checks against them (which  *)
(* precede the first write) are preconditions of a request.                *)
(*                                                                         *)
(* The requests alone are no system: ToolActionReconciliation adds the     *)
(* requests that close an uncertain action, and the specification.         *)
(***************************************************************************)
EXTENDS ToolResults, Naturals, Sequences, FiniteSets

CONSTANTS
  Requests,        \* calls of ExecuteToolAction.execute
  Proposals,       \* proposed tool calls of executed enforcements
  Keys,            \* idempotency keys, standing for all a client may bind differently
  Approvals,       \* action approval ids issued by the external approver
  Orders,          \* reconciliation ids issued by the external reconciler
  GrantedFor,      \* approval -> the bindings its id was signed for
  Settles,         \* order -> the binding it was signed for
  Verdict,         \* order -> the outcome it confirms
  IssuedAt,        \* approval or order -> first instant of its validity
  ExpiresAt,       \* approval or order -> first instant after its validity
  MaxTime,         \* bound on the clock
  AtomicAuthority, \* TRUE: PostgreSQL consumes authority with the row it is spent on
  None             \* the null of the database and of the program

Binding == [proposal : Proposals, key : Keys]

ASSUME GrantAssumption   == /\ GrantedFor \in [Approvals -> SUBSET Binding]
                            /\ Settles    \in [Orders -> Binding]
                            /\ Verdict    \in [Orders -> {"EXECUTED", "NOT_EXECUTED"}]
                            /\ IssuedAt   \in [Approvals \cup Orders -> Nat]
                            /\ ExpiresAt  \in [Approvals \cup Orders -> Nat]
ASSUME TimeAssumption    == MaxTime \in Nat
ASSUME BackendAssumption == AtomicAuthority \in BOOLEAN

(***************************************************************************)
(* Statuses of an action.  A dispatched action is judged; an uncertain one *)
(* (RECONCILIATION_REQUIRED) is judged but waits to be closed.             *)
(***************************************************************************)
Open     == {"WAITING_APPROVAL", "PREPARED"}
Judged   == {"EXECUTED", "APPROVAL_FAILED", "RECONCILIATION_REQUIRED", "RESULT_REJECTED"}
Closed   == {"RECONCILED_EXECUTED", "RECONCILED_NOT_EXECUTED"}
Statuses == Open \cup Judged \cup Closed \cup {"DISPATCHED"}

Time    == 0..MaxTime
Receipt == [approval : Approvals, binding : Binding, at : Time]
Closing == [order : Orders, action : Proposals, at : Time]
Row     == [status : Statuses \cup {"ABSENT"}, binding : Binding \cup {None},
            approval : Receipt \cup {None}, execution : Requests \cup Orders \cup {None},
            closing : Closing \cup {None}, result : Result \cup {None}]
Absent == [status |-> "ABSENT", binding |-> None, approval |-> None, execution |-> None,
           closing |-> None, result |-> None]

Labels  == {"idle", "bound", "waiting", "resuming", "ready", "saved", "prepared", "refusing",
            "reading", "claimed", "dispatched", "executed", "rejected", "uncertain", "done"}
Answers == Statuses \cup {"CONFLICT", "VERIFICATION_FAILED", "CONSUMPTION_FAILED", "ABANDONED"}

ASSUME NoneAssumption ==
  /\ None \notin Requests \cup Orders \cup Approvals \cup Binding \cup Receipt \cup Closing
                   \cup Result \cup Answers
  /\ \A output \in Returnable : Accepted(output) => Process(output) # None

VARIABLES
  \* the database
  rows,      \* tool_action table
  ledger,    \* action_approval_consumption table
  history,   \* operator_lifecycle_event rows of each action, in order
  now,       \* the clock
  \* each request
  pc, binding, assertion, receipt, processed, answer,
  \* observation: the calls made of the tool port, with their plans
  calls

locals == <<binding, assertion, processed>>
actionVars == <<rows, ledger, history, now, pc, binding, assertion, receipt, processed, answer, calls>>

\* The row a request works on.
Action(r) == binding[r].proposal

ActionTypeOK ==
  /\ rows      \in [Proposals -> Row]
  /\ ledger    \in [Approvals -> Receipt \cup {None}]
  /\ history   \in [Proposals -> Seq(Statuses)]
  /\ now       \in Time
  /\ pc        \in [Requests -> Labels]
  /\ binding   \in [Requests -> Binding \cup {None}]
  /\ assertion \in [Requests -> Approvals \cup {None}]
  /\ receipt   \in [Requests -> Receipt \cup {None}]
  /\ processed \in [Requests -> {Process(o) : o \in {x \in Returnable : Accepted(x)}} \cup {None}]
  /\ answer    \in [Requests -> Answers \cup {None}]
  /\ calls     \subseteq [by : Requests, binding : Binding, receipt : Receipt \cup {None}]

ActionInit ==
  /\ rows      = [p \in Proposals |-> Absent]
  /\ ledger    = [a \in Approvals |-> None]
  /\ history   = [p \in Proposals |-> <<>>]
  /\ now       = 0
  /\ pc        = [r \in Requests |-> "idle"]
  /\ binding   = [r \in Requests |-> None]
  /\ assertion = [r \in Requests |-> None]
  /\ receipt   = [r \in Requests |-> None]
  /\ processed = [r \in Requests |-> None]
  /\ answer    = [r \in Requests |-> None]
  /\ calls     = {}

-----------------------------------------------------------------------------
(***************************************************************************)
(* The statements of the tool-action repository.                           *)
(***************************************************************************)

\* Faulty variant: the upsert protects what is judged or closed only.
MayAdvanceUnlessJudged(old, new) ==
  old.binding = new.binding /\ old.status \notin Judged \cup Closed

\* The WHERE clause of the upsert: an action is only replaced under its own binding,
\* forwards, and an uncertain one by its closing.
MayAdvance(old, new) ==
  /\ old.binding = new.binding
  /\ \/ /\ old.closing = new.closing
        /\ \/ old.status = "WAITING_APPROVAL" /\ new.status \in Open
           \/ old.status = "DISPATCHED" /\ new.status \in Judged
     \/ /\ old.status = "RECONCILIATION_REQUIRED" /\ new.status \in Closed
        /\ old.closing = None /\ new.closing # None
        /\ old.approval = new.approval
        /\ \/ new.status = "RECONCILED_EXECUTED" /\ old.execution = None /\ new.execution # None
           \/ new.status = "RECONCILED_NOT_EXECUTED" /\ old.execution = new.execution

\* Faulty variant: the trigger on updates is missing.
EventsOnInsert(p, status) ==
  IF history[p] # <<>> THEN history ELSE [history EXCEPT ![p] = Append(@, status)]

\* The lifecycle triggers: an event for an insertion or a change of status, unless the
\* action already has one for this status.
Events(p, status) ==
  IF rows[p].status = status \/ \E i \in DOMAIN history[p] : history[p][i] = status
    THEN history ELSE [history EXCEPT ![p] = Append(@, status)]

Store(p, row) ==
  /\ rows'    = [rows EXCEPT ![p] = row]
  /\ history' = Events(p, row.status)

Upsert(p, row) ==
  IF rows[p] = Absent \/ MayAdvance(rows[p], row)
    THEN Store(p, row) ELSE UNCHANGED <<rows, history>>

NewRow(b, status) == [Absent EXCEPT !.status = status, !.binding = b]

Goto(r, label) == pc' = [pc EXCEPT ![r] = label]

Reply(r, a) ==
  /\ Goto(r, "done")
  /\ answer' = [answer EXCEPT ![r] = a]

(***************************************************************************)
(* Authority: what inspection accepts and what the ledger accepts.         *)
(***************************************************************************)
InWindow(x) == IssuedAt[x] <= now /\ now < ExpiresAt[x]
Verifies(a, b) == b \in GrantedFor[a] /\ InWindow(a)
ConsumableInWindow(a) == InWindow(a) \* faulty variant: no unique approval id
Consumable(a)  == InWindow(a) /\ ledger[a] = None

ReceiptOf(r) == [approval |-> assertion[r], binding |-> binding[r], at |-> now]

Consume(r) ==
  /\ ledger'  = [ledger EXCEPT ![assertion[r]] = ReceiptOf(r)]
  /\ receipt' = [receipt EXCEPT ![r] = ReceiptOf(r)]

-----------------------------------------------------------------------------
(***************************************************************************)
(* Faulty variants of the steps below: each is a plausible mistake in the  *)
(* handler, and breaks a property of ToolActionReconciliation.             *)
(***************************************************************************)

\* The reason of a parked request is written in the status column.
BindWithReason(r) ==
  /\ pc[r] = "idle"
  /\ \E b \in Binding, a \in Approvals \cup {None} :
       /\ binding'   = [binding EXCEPT ![r] = b]
       /\ assertion' = [assertion EXCEPT ![r] = a]
       /\ Upsert(b.proposal, NewRow(b, "HUMAN_APPROVAL_REQUIRED"))
  /\ Goto(r, "bound")
  /\ UNCHANGED <<ledger, now, processed, receipt, answer, calls>>

\* A request resumes whatever binding it finds on the row.
ResumeAnyBinding(r) ==
  /\ pc[r] = "bound"
  /\ assertion[r] # None
  /\ \/ rows[Action(r)].status = "WAITING_APPROVAL" /\ Goto(r, "waiting")
     \/ rows[Action(r)].status = "PREPARED" /\ Goto(r, "resuming")
  /\ UNCHANGED <<rows, history, ledger, now, locals, receipt, answer, calls>>

\* The claim does not test the status it advances from.
ClaimAnyRow(r) ==
  /\ pc[r] = "prepared"
  /\ ~AtomicAuthority
  /\ Store(Action(r), [rows[Action(r)] EXCEPT !.status = "DISPATCHED"])
  /\ Goto(r, "claimed")
  /\ UNCHANGED <<ledger, now, locals, receipt, answer, calls>>
\* The atomic claim writes the status and forgets the receipt column.
AtomicClaimWithoutReceipt(r) ==
  /\ pc[r] = "prepared"
  /\ AtomicAuthority
  /\ rows[Action(r)].status = "PREPARED"
  /\ Consumable(assertion[r])
  /\ Store(Action(r), [rows[Action(r)] EXCEPT !.status = "DISPATCHED"])
  /\ Consume(r)
  /\ Goto(r, "dispatched")
  /\ UNCHANGED <<now, locals, answer, calls>>

\* The atomic claim updates the row and never inserts the consumption.
AtomicClaimWithoutLedger(r) ==
  /\ pc[r] = "prepared"
  /\ AtomicAuthority
  /\ rows[Action(r)].status = "PREPARED"
  /\ Consumable(assertion[r])
  /\ Store(Action(r), [rows[Action(r)] EXCEPT !.status = "DISPATCHED", !.approval = ReceiptOf(r)])
  /\ receipt' = [receipt EXCEPT ![r] = ReceiptOf(r)]
  /\ Goto(r, "dispatched")
  /\ UNCHANGED <<ledger, now, locals, answer, calls>>

\* The refusal is written over whatever the row has become.
RecordAnyRefusal(r) ==
  /\ pc[r] = "refusing"
  /\ Store(Action(r), [rows[Action(r)] EXCEPT !.status = "APPROVAL_FAILED"])
  /\ Reply(r, "CONSUMPTION_FAILED")
  /\ UNCHANGED <<ledger, now, locals, receipt, calls>>

\* A lost claim is taken for the winner's success.
LoseClaimAsExecuted(r) ==
  /\ pc[r] = "prepared"
  /\ rows[Action(r)].status # "PREPARED"
  /\ AtomicAuthority => InWindow(assertion[r])
  /\ Reply(r, "EXECUTED")
  /\ UNCHANGED <<rows, history, ledger, now, locals, receipt, calls>>

\* An uncertain end is raised to the client and not recorded.
RaiseUncertain(r) ==
  /\ pc[r] = "uncertain"
  /\ Reply(r, "RECONCILIATION_REQUIRED")
  /\ UNCHANGED <<rows, history, ledger, now, locals, receipt, calls>>

-----------------------------------------------------------------------------
(***************************************************************************)
(* The steps of a request.                                                 *)
(***************************************************************************)

\* The first write of a request binds the proposal, unless it is bound already.
Bind(r) ==
  /\ pc[r] = "idle"
  /\ \E b \in Binding, a \in Approvals \cup {None} :
       /\ binding'   = [binding EXCEPT ![r] = b]
       /\ assertion' = [assertion EXCEPT ![r] = a]
       /\ Upsert(b.proposal, NewRow(b, "WAITING_APPROVAL"))
  /\ Goto(r, "bound")
  /\ UNCHANGED <<ledger, now, processed, receipt, answer, calls>>

\* save reads the row back.  The binding of a row never changes, so this is the one
\* place where a request can find another's.
RefuseBinding(r) ==
  /\ pc[r] = "bound"
  /\ rows[Action(r)].binding # binding[r]
  /\ Reply(r, "CONFLICT")
  /\ UNCHANGED <<rows, history, ledger, now, locals, receipt, calls>>

AnswerStored(r) ==
  /\ pc[r] = "bound"
  /\ rows[Action(r)].binding = binding[r]
  /\ rows[Action(r)].status \notin Open \/ assertion[r] = None
  /\ Reply(r, rows[Action(r)].status)
  /\ UNCHANGED <<rows, history, ledger, now, locals, receipt, calls>>

\* The status read here decides later whether the action is still to be prepared.
Resume(r) ==
  /\ pc[r] = "bound"
  /\ rows[Action(r)].binding = binding[r]
  /\ assertion[r] # None
  /\ \/ rows[Action(r)].status = "WAITING_APPROVAL" /\ Goto(r, "waiting")
     \/ rows[Action(r)].status = "PREPARED" /\ Goto(r, "resuming")
  /\ UNCHANGED <<rows, history, ledger, now, locals, receipt, answer, calls>>

RejectAssertion(r) ==
  /\ pc[r] \in {"waiting", "resuming"}
  /\ ~Verifies(assertion[r], binding[r])
  /\ Reply(r, "VERIFICATION_FAILED")
  /\ UNCHANGED <<rows, history, ledger, now, locals, receipt, calls>>

AcceptAssertion(r) ==
  /\ pc[r] \in {"waiting", "resuming"}
  /\ Verifies(assertion[r], binding[r])
  /\ Goto(r, IF pc[r] = "waiting" THEN "ready" ELSE "prepared")
  /\ UNCHANGED <<rows, history, ledger, now, locals, receipt, answer, calls>>

SavePrepared(r) ==
  /\ pc[r] = "ready"
  /\ Upsert(Action(r), NewRow(binding[r], "PREPARED"))
  /\ Goto(r, "saved")
  /\ UNCHANGED <<ledger, now, locals, receipt, answer, calls>>

ReadPrepared(r) ==
  /\ pc[r] = "saved"
  /\ IF rows[Action(r)].status = "PREPARED"
       THEN Goto(r, "prepared") /\ UNCHANGED answer
       ELSE Reply(r, rows[Action(r)].status)
  /\ UNCHANGED <<rows, history, ledger, now, locals, receipt, calls>>

WinClaim(r) ==
  /\ pc[r] = "prepared"
  /\ ~AtomicAuthority
  /\ rows[Action(r)].status = "PREPARED"
  /\ Store(Action(r), [rows[Action(r)] EXCEPT !.status = "DISPATCHED"])
  /\ Goto(r, "claimed")
  /\ UNCHANGED <<ledger, now, locals, receipt, answer, calls>>

WinAtomicClaim(r) ==
  /\ pc[r] = "prepared"
  /\ AtomicAuthority
  /\ rows[Action(r)].status = "PREPARED"
  /\ Consumable(assertion[r])
  /\ Store(Action(r), [rows[Action(r)] EXCEPT !.status = "DISPATCHED", !.approval = ReceiptOf(r)])
  /\ Consume(r)
  /\ Goto(r, "dispatched")
  /\ UNCHANGED <<now, locals, answer, calls>>

\* An expired grant is refused before the transaction; the row stays as it is.
ExpireAtomicClaim(r) ==
  /\ pc[r] = "prepared"
  /\ AtomicAuthority
  /\ ~InWindow(assertion[r])
  /\ Reply(r, "CONSUMPTION_FAILED")
  /\ UNCHANGED <<rows, history, ledger, now, locals, receipt, calls>>

\* A grant already consumed: the claim rolls back, and another transaction records it.
RollBackAtomicClaim(r) ==
  /\ pc[r] = "prepared"
  /\ AtomicAuthority
  /\ rows[Action(r)].status = "PREPARED"
  /\ InWindow(assertion[r]) /\ ledger[assertion[r]] # None
  /\ Goto(r, "refusing")
  /\ UNCHANGED <<rows, history, ledger, now, locals, receipt, answer, calls>>

RecordRefusal(r) ==
  /\ pc[r] = "refusing"
  /\ IF rows[Action(r)].status = "PREPARED"
       THEN Store(Action(r), [rows[Action(r)] EXCEPT !.status = "APPROVAL_FAILED"])
       ELSE UNCHANGED <<rows, history>>
  /\ Reply(r, "CONSUMPTION_FAILED")
  /\ UNCHANGED <<ledger, now, locals, receipt, calls>>

LoseClaim(r) ==
  /\ pc[r] = "prepared"
  /\ rows[Action(r)].status # "PREPARED"
  /\ AtomicAuthority => InWindow(assertion[r])
  /\ Goto(r, "reading")
  /\ UNCHANGED <<rows, history, ledger, now, locals, receipt, answer, calls>>

ReadBack(r) ==
  /\ pc[r] = "reading"
  /\ Reply(r, rows[Action(r)].status)
  /\ UNCHANGED <<rows, history, ledger, now, locals, receipt, calls>>

ConsumeApproval(r) ==
  /\ pc[r] = "claimed"
  /\ Consumable(assertion[r])
  /\ Consume(r)
  /\ Goto(r, "dispatched")
  /\ UNCHANGED <<rows, history, now, locals, answer, calls>>

FailConsumption(r) ==
  /\ pc[r] = "claimed"
  /\ ~Consumable(assertion[r])
  /\ Upsert(Action(r), [rows[Action(r)] EXCEPT !.status = "APPROVAL_FAILED"])
  /\ Reply(r, "CONSUMPTION_FAILED")
  /\ UNCHANGED <<ledger, now, locals, receipt, calls>>

\* The tool port raises, before or after the effect: the plan is not one it carries out,
\* the service fails, or what it answers is no response.
Raise(r) == Goto(r, "uncertain") /\ UNCHANGED processed

\* A response that echoes another action says nothing of this one; what a response to
\* this action holds is judged by the output schema.
Receive(r, echoed, output) ==
  \/ echoed # binding[r] /\ Raise(r)
  \/ /\ echoed = binding[r] /\ Accepted(output)
     /\ Goto(r, "executed")
     /\ processed' = [processed EXCEPT ![r] = Process(output)]
  \/ /\ echoed = binding[r] /\ ~ Accepted(output)
     /\ Goto(r, "rejected")
     /\ UNCHANGED processed

\* The one call of the tool port.
Execute(r) ==
  /\ pc[r] = "dispatched"
  /\ calls' = calls \cup {[by |-> r, binding |-> binding[r], receipt |-> receipt[r]]}
  /\ \/ Raise(r)
     \/ \E echoed \in Binding, output \in Returnable : Receive(r, echoed, output)
  /\ UNCHANGED <<rows, history, ledger, now, binding, assertion, receipt, answer>>

\* A dispatched row is only written by the request that claimed it, so the status this
\* request reads back is the one it saved (TruthfulAnswers).
Judgement(r, status, execution) ==
  [status |-> status, binding |-> binding[r], approval |-> receipt[r],
   execution |-> execution, closing |-> None,
   result |-> IF status = "EXECUTED" THEN Metadata(processed[r]) ELSE None]

SaveExecuted(r) ==
  /\ pc[r] = "executed"
  /\ Upsert(Action(r), Judgement(r, "EXECUTED", r))
  /\ Reply(r, "EXECUTED")
  /\ UNCHANGED <<ledger, now, locals, receipt, calls>>

SaveRejected(r) ==
  /\ pc[r] = "rejected"
  /\ Upsert(Action(r), Judgement(r, "RESULT_REJECTED", r))
  /\ Reply(r, "RESULT_REJECTED")
  /\ UNCHANGED <<ledger, now, locals, receipt, calls>>

SaveUncertain(r) ==
  /\ pc[r] = "uncertain"
  /\ Upsert(Action(r), Judgement(r, "RECONCILIATION_REQUIRED", None))
  /\ Reply(r, "RECONCILIATION_REQUIRED")
  /\ UNCHANGED <<ledger, now, locals, receipt, calls>>

\* The process dies, or a repository call raises.
Abandon(r) ==
  /\ pc[r] # "done"
  /\ Reply(r, "ABANDONED")
  /\ UNCHANGED <<rows, history, ledger, now, locals, receipt, calls>>

Tick ==
  /\ now < MaxTime
  /\ now' = now + 1
  /\ UNCHANGED <<rows, history, ledger, pc, locals, receipt, answer, calls>>

Step(r) ==
  \/ Bind(r) \/ RefuseBinding(r) \/ AnswerStored(r) \/ Resume(r)
  \/ RejectAssertion(r) \/ AcceptAssertion(r) \/ SavePrepared(r) \/ ReadPrepared(r)
  \/ WinClaim(r) \/ LoseClaim(r) \/ ReadBack(r)
  \/ WinAtomicClaim(r) \/ ExpireAtomicClaim(r) \/ RollBackAtomicClaim(r) \/ RecordRefusal(r)
  \/ ConsumeApproval(r) \/ FailConsumption(r)
  \/ Execute(r) \/ SaveExecuted(r) \/ SaveRejected(r) \/ SaveUncertain(r)
=============================================================================
