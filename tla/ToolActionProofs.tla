--------------------------- MODULE ToolActionProofs ---------------------------
(***************************************************************************)
(* Proofs about the execution of tool actions, beside reconciliation: for  *)
(* any number of requests, reconcilers, proposals, keys, approvals and     *)
(* orders, any result schema, and both databases.                          *)
(***************************************************************************)
EXTENDS ToolActionInvariant, TLAPS

-----------------------------------------------------------------------------
(* The statements of the repository. *)

LEMMA ActionIsProposal ==
  ASSUME NEW r \in Requests, binding[r] \in Binding
  PROVE  Action(r) \in Proposals
BY DEF Action, Binding

(* The triggers keep the history a sequence of statuses. *)
LEMMA EventsType ==
  ASSUME ActionTypeOK, NEW p \in Proposals, NEW status \in Statuses
  PROVE  Events(p, status) \in [Proposals -> Seq(Statuses)]
<1>1. history[p] \in Seq(Statuses)
  BY DEF ActionTypeOK
<1>2. Append(history[p], status) \in Seq(Statuses)
  BY <1>1
<1> QED
  BY <1>1, <1>2 DEF ActionTypeOK, Events

(* A write stores one row of the table, and an upsert writes or does nothing. *)
LEMMA StoreRow ==
  ASSUME ActionTypeOK, NEW p \in Proposals, NEW row, Store(p, row)
  PROVE  rows'[p] = row /\ \A i \in Proposals \ {p} : rows'[i] = rows[i]
BY DEF ActionTypeOK, Store

LEMMA StoreType ==
  ASSUME ActionTypeOK, NEW p \in Proposals, NEW row \in Row, row.status \in Statuses,
         Store(p, row)
  PROVE  rows' \in [Proposals -> Row] /\ history' \in [Proposals -> Seq(Statuses)]
BY EventsType DEF ActionTypeOK, Store

LEMMA UpsertType ==
  ASSUME ActionTypeOK, NEW p \in Proposals, NEW row \in Row, row.status \in Statuses,
         Upsert(p, row)
  PROVE  rows' \in [Proposals -> Row] /\ history' \in [Proposals -> Seq(Statuses)]
BY StoreType DEF ActionTypeOK, Upsert

LEMMA NewRowType ==
  ASSUME NEW b \in Binding, NEW status \in Statuses
  PROVE  /\ NewRow(b, status) \in Row
         /\ NewRow(b, status).status = status /\ NewRow(b, status).binding = b
         /\ NewRow(b, status).approval = None /\ NewRow(b, status).execution = None
         /\ NewRow(b, status).closing = None /\ NewRow(b, status).result = None
BY DEF NewRow, Absent, Row

(* What a consumption writes is a receipt for the binding of the request. *)
LEMMA ReceiptType ==
  ASSUME ActionTypeOK, NEW r \in Requests, binding[r] \in Binding, assertion[r] \in Approvals
  PROVE  ReceiptOf(r) \in Receipt
BY DEF ActionTypeOK, ReceiptOf, Receipt

LEMMA ConsumeType ==
  ASSUME ActionTypeOK, NEW r \in Requests, ReceiptOf(r) \in Receipt, Consume(r)
  PROVE  /\ ledger'  \in [Approvals -> Receipt \cup {None}]
         /\ receipt' \in [Requests -> Receipt \cup {None}]
BY DEF ActionTypeOK, Consume

LEMMA GotoType ==
  ASSUME ActionTypeOK, NEW r \in Requests, NEW label \in Labels, Goto(r, label)
  PROVE  pc' \in [Requests -> Labels]
BY DEF ActionTypeOK, Goto

LEMMA ReplyType ==
  ASSUME ActionTypeOK, NEW r \in Requests, NEW a \in Answers, Reply(r, a)
  PROVE  pc' \in [Requests -> Labels] /\ answer' \in [Requests -> Answers \cup {None}]
BY DEF ActionTypeOK, Reply, Goto, Labels

(* What is recorded of an accepted result names classes and fields of the schema. *)
LEMMA MetadataType ==
  ASSUME NEW output, Accepted(output)
  PROVE  Metadata(Process(output)) \in Result
<1>1. DOMAIN output \subseteq ResultFields
  BY DEF Accepted
<1>2. DOMAIN SafeOutput(output) \subseteq ResultFields
  BY <1>1 DEF SafeOutput
<1>3. {ResultSchema[f].classification : f \in DOMAIN output} \subseteq Classifications
  BY <1>1, SchemaAssumption DEF Loads, ResultFields
<1> QED
  BY <1>2, <1>3 DEF Metadata, Process, Result

LEMMA ExecutedMetadata ==
  ASSUME ActionTypeOK, RequestsKnowThemselves, NEW r \in Requests, pc[r] = "executed"
  PROVE  Metadata(processed[r]) \in Result
<1>1. processed[r] # None
  BY DEF RequestsKnowThemselves, KnowsItself
<1>2. PICK o \in Returnable : Accepted(o) /\ processed[r] = Process(o)
  BY <1>1 DEF ActionTypeOK
<1> QED
  BY <1>2, MetadataType

LEMMA JudgementType ==
  ASSUME ActionTypeOK, RequestsKnowThemselves, NEW r \in Requests,
         binding[r] \in Binding, NEW status \in Judged, NEW execution \in Requests \cup {None},
         status = "EXECUTED" => pc[r] = "executed"
  PROVE  Judgement(r, status, execution) \in Row
<1>1. status = "EXECUTED" => Metadata(processed[r]) \in Result
  BY ExecutedMetadata
<1>2. receipt[r] \in Receipt \cup {None}
  BY DEF ActionTypeOK
<1> QED
  BY <1>1, <1>2 DEF Judgement, Row, Statuses

-----------------------------------------------------------------------------
(***************************************************************************)
(* What is written in the table: whole rows that hold what their status    *)
(* says, each further on its way than the one it replaces.                 *)
(***************************************************************************)

Advances(old, new) ==
  /\ old.status # "ABSENT" => new.binding = old.binding
  /\ \/ old.status = "ABSENT" /\ new.status = "WAITING_APPROVAL"
     \/ old.status = "WAITING_APPROVAL" /\ new.status \in Open
     \/ old.status = "PREPARED" /\ new.status \in {"DISPATCHED", "APPROVAL_FAILED"}
     \/ old.status = "DISPATCHED" /\ new.status \in Judged
     \/ old.status = "RECONCILIATION_REQUIRED" /\ new.status \in Closed

Writes(p, row) ==
  /\ p \in Proposals /\ row \in Row /\ WellFormed(p, row)
  /\ Advances(rows[p], row)
  /\ Store(p, row)

(* A request at work has a binding and a row, and past the first reading its *)
(* row has this binding.                                                     *)
LEMMA WorkingRow ==
  ASSUME ActionTypeOK, RequestsKnowThemselves, NEW r \in Requests, pc[r] \notin {"idle", "done"}
  PROVE  /\ binding[r] \in Binding /\ Action(r) \in Proposals
         /\ Action(r) = binding[r].proposal
         /\ rows[Action(r)] \in Row /\ rows[Action(r)].status \in Statuses
         /\ pc[r] # "bound" => assertion[r] \in Approvals /\ rows[Action(r)].binding = binding[r]
<1>1. binding[r] \in Binding /\ rows[Action(r)].status # "ABSENT"
  BY DEF RequestsKnowThemselves, KnowsItself
<1>2. Action(r) \in Proposals
  BY <1>1, ActionIsProposal
<1> QED
  BY <1>1, <1>2 DEF Action, ActionTypeOK, Row, RequestsKnowThemselves, KnowsItself

(* Parking or preparing an action writes over nothing but a parked action. *)
LEMMA OpenUpsert ==
  ASSUME ActionTypeOK, RowsWellFormed, NEW b \in Binding, NEW status \in Open,
         status = "WAITING_APPROVAL" \/ rows[b.proposal].status # "ABSENT",
         Upsert(b.proposal, NewRow(b, status))
  PROVE  /\ rows'[b.proposal].status # "ABSENT"
         /\ \/ UNCHANGED <<rows, history>>
            \/ /\ Writes(b.proposal, NewRow(b, status))
               /\ rows[b.proposal].status \in {"ABSENT", "WAITING_APPROVAL"}
<1> DEFINE p == b.proposal
           row == NewRow(b, status)
<1>1. p \in Proposals /\ WellFormed(p, rows[p])
  BY DEF Binding, RowsWellFormed
<1>2. /\ row \in Row /\ row.status = status /\ row.binding = b
      /\ row.approval = None /\ row.execution = None /\ row.closing = None /\ row.result = None
  BY NewRowType DEF Statuses
<1>3. WellFormed(p, row)
  BY <1>2 DEF WellFormed, Open, Closed
<1> HIDE DEF row
<1>4. Upsert(p, row)
  BY DEF row
<1>5. CASE rows[p] = Absent \/ MayAdvance(rows[p], row)
  <2>1. rows[p].status \in {"ABSENT", "WAITING_APPROVAL"} /\ Advances(rows[p], row)
    BY <1>2, <1>5 DEF MayAdvance, Advances, Absent, Open, Judged, Closed
  <2>2. Store(p, row)
    BY <1>4, <1>5 DEF Upsert
  <2> QED
    BY <1>1, <1>2, <1>3, <2>1, <2>2, StoreRow DEF Writes, row, Open
<1>6. CASE ~(rows[p] = Absent \/ MayAdvance(rows[p], row))
  BY <1>1, <1>4, <1>6 DEF Upsert, WellFormed
<1> QED
  BY <1>5, <1>6

(* The claim of a prepared action, with its receipt or not, and its refusal. *)
LEMMA ClaimWrites ==
  ASSUME ActionTypeOK, RowsWellFormed, NEW p \in Proposals, rows[p].status = "PREPARED",
         NEW row \in Row, Store(p, row), row.status \in {"DISPATCHED", "APPROVAL_FAILED"},
         row.binding = rows[p].binding, row.execution = rows[p].execution,
         row.closing = rows[p].closing, row.result = rows[p].result
  PROVE  Writes(p, row)
BY DEF RowsWellFormed, WellFormed, Writes, Advances, Open, Closed

(***************************************************************************)
(* The four kinds of steps that write or hold a row.                       *)
(***************************************************************************)

Unclaimed == Open \cup {"ABSENT"}

\* A step of a request that owns no row once it is taken: it parks, prepares or refuses.
StandsAside(r) ==
  /\ pc'[r] \notin Owning
  /\ UNCHANGED <<ledger, calls, receipt, processed>>
  /\ \/ UNCHANGED <<rows, history>>
     \/ \E p \in Proposals, row \in Row :
          /\ Writes(p, row)
          /\ rows[p].status \in Unclaimed
          /\ row.status \in Open \cup {"APPROVAL_FAILED"} /\ row.approval = None

\* The action moves from prepared to dispatched, in the hands of the request.
WinsRow(r) ==
  /\ pc[r] = "prepared" /\ pc'[r] \in {"claimed", "dispatched"}
  /\ \/ /\ pc'[r] = "claimed" /\ ~AtomicAuthority /\ UNCHANGED <<ledger, receipt>>
        /\ rows'[Action(r)].approval = None
     \/ /\ pc'[r] = "dispatched" /\ WinAtomicClaim(r)
        /\ rows'[Action(r)].approval = ReceiptOf(r)
  /\ rows[Action(r)].status = "PREPARED" /\ rows'[Action(r)].status = "DISPATCHED"
  /\ \E row \in Row : Writes(Action(r), row)
  /\ UNCHANGED <<calls, processed>>

\* The action moves from dispatched to a judgement, and the request is answered.
ConcludesRow(r) ==
  /\ pc[r] \in {"claimed"} \cup Called /\ pc'[r] = "done"
  /\ rows[Action(r)].status = "DISPATCHED" /\ rows'[Action(r)].status \in Judged
  /\ \/ /\ pc[r] = "claimed" /\ rows'[Action(r)].status = "APPROVAL_FAILED"
        /\ rows'[Action(r)].approval = rows[Action(r)].approval
     \/ /\ pc[r] \in Called /\ rows'[Action(r)].status \in Effected
        /\ rows'[Action(r)].approval = receipt[r]
        /\ answer'[r] = rows'[Action(r)].status
        /\ answer'[r] = "EXECUTED" => rows'[Action(r)].result = Metadata(processed[r])
  /\ \E row \in Row : Writes(Action(r), row)
  /\ UNCHANGED <<ledger, calls, receipt, processed>>

(* The steps that claim no action, hold none and judge none. *)
LEMMA StandsAsideStep ==
  ASSUME ActionTypeOK, RowsWellFormed, RequestsKnowThemselves,
         NEW r \in Requests, Step(r) \/ Abandon(r)
  PROVE  \/ StandsAside(r)
         \/ WinClaim(r) \/ WinAtomicClaim(r)
         \/ ConsumeApproval(r) \/ FailConsumption(r)
         \/ Execute(r) \/ SaveExecuted(r) \/ SaveRejected(r) \/ SaveUncertain(r)
<1>1. CASE RefuseBinding(r) \/ AnswerStored(r) \/ Resume(r) \/ RejectAssertion(r)
           \/ AcceptAssertion(r) \/ ReadPrepared(r) \/ ExpireAtomicClaim(r)
           \/ RollBackAtomicClaim(r) \/ LoseClaim(r) \/ ReadBack(r) \/ Abandon(r)
  BY <1>1 DEF ActionTypeOK, StandsAside, Owning, locals, Goto, Reply, RefuseBinding, AnswerStored,
              Resume, RejectAssertion, AcceptAssertion, ReadPrepared, ExpireAtomicClaim,
              RollBackAtomicClaim, LoseClaim, ReadBack, Abandon
<1>2. CASE Bind(r)
  <2>1. PICK b \in Binding : Upsert(b.proposal, NewRow(b, "WAITING_APPROVAL"))
    BY <1>2 DEF Bind
  <2>2. NewRow(b, "WAITING_APPROVAL").status = "WAITING_APPROVAL"
        /\ NewRow(b, "WAITING_APPROVAL").approval = None
    BY <2>1, NewRowType DEF Statuses, Open
  <2>3. pc'[r] \notin Owning /\ UNCHANGED <<ledger, calls, receipt, processed>>
    BY <1>2 DEF ActionTypeOK, Bind, Goto, Owning
  <2> QED
    BY <2>1, <2>2, <2>3, OpenUpsert DEF StandsAside, Writes, Open, Unclaimed
<1>3. CASE SavePrepared(r)
  <2>1. /\ binding[r] \in Binding /\ Action(r) = binding[r].proposal
        /\ rows[Action(r)].status # "ABSENT"
    BY <1>3, WorkingRow DEF SavePrepared, RequestsKnowThemselves, KnowsItself
  <2>2. NewRow(binding[r], "PREPARED").status = "PREPARED"
        /\ NewRow(binding[r], "PREPARED").approval = None
    BY <2>1, NewRowType DEF Statuses, Open
  <2>3. pc'[r] \notin Owning /\ UNCHANGED <<ledger, calls, receipt, processed>>
    BY <1>3 DEF ActionTypeOK, SavePrepared, Goto, Owning, locals
  <2>4. Upsert(binding[r].proposal, NewRow(binding[r], "PREPARED"))
    BY <1>3, <2>1 DEF SavePrepared
  <2> QED
    BY <2>1, <2>2, <2>3, <2>4, OpenUpsert DEF StandsAside, Writes, Open, Unclaimed
<1>4. CASE RecordRefusal(r)
  <2>1. pc'[r] \notin Owning /\ UNCHANGED <<ledger, calls, receipt, processed>>
    BY <1>4 DEF ActionTypeOK, RecordRefusal, Reply, Goto, Owning, locals
  <2>2. CASE rows[Action(r)].status # "PREPARED"
    BY <1>4, <2>1, <2>2 DEF RecordRefusal, StandsAside
  <2>3. CASE rows[Action(r)].status = "PREPARED"
    <3> DEFINE row == [rows[Action(r)] EXCEPT !.status = "APPROVAL_FAILED"]
    <3>1. Action(r) \in Proposals /\ rows[Action(r)] \in Row
      BY <1>4, WorkingRow DEF RecordRefusal
    <3>2. /\ row \in Row /\ row.status = "APPROVAL_FAILED"
          /\ row.binding = rows[Action(r)].binding /\ row.execution = rows[Action(r)].execution
          /\ row.closing = rows[Action(r)].closing /\ row.result = rows[Action(r)].result
          /\ row.approval = rows[Action(r)].approval
      BY <3>1 DEF Row, Statuses, Judged
    <3>3. Store(Action(r), row)
      BY <1>4, <2>3 DEF RecordRefusal
    <3> HIDE DEF row
    <3>4. Writes(Action(r), row) /\ row.approval = None
      BY <2>3, <3>1, <3>2, <3>3, ClaimWrites DEF RowsWellFormed, WellFormed, Open
    <3> QED
      BY <2>1, <2>3, <3>1, <3>2, <3>4 DEF StandsAside, Unclaimed, Open
  <2> QED
    BY <2>2, <2>3
<1> QED
  BY <1>1, <1>2, <1>3, <1>4 DEF Step

(* A claim is won on a prepared action. *)
LEMMA WinsRowStep ==
  ASSUME ActionTypeOK, RowsWellFormed, RequestsKnowThemselves,
         NEW r \in Requests, WinClaim(r) \/ WinAtomicClaim(r)
  PROVE  WinsRow(r)
<1>1. /\ pc[r] = "prepared" /\ rows[Action(r)].status = "PREPARED"
      /\ UNCHANGED <<calls, processed>>
  BY DEF WinClaim, WinAtomicClaim, locals
<1>2. /\ binding[r] \in Binding /\ Action(r) \in Proposals /\ rows[Action(r)] \in Row
      /\ assertion[r] \in Approvals
  BY <1>1, WorkingRow
<1>3. ReceiptOf(r) \in Receipt
  BY <1>2, ReceiptType
<1>4. CASE WinClaim(r)
  <2> DEFINE row == [rows[Action(r)] EXCEPT !.status = "DISPATCHED"]
  <2>1. /\ row \in Row /\ row.status = "DISPATCHED"
        /\ row.binding = rows[Action(r)].binding /\ row.execution = rows[Action(r)].execution
        /\ row.closing = rows[Action(r)].closing /\ row.result = rows[Action(r)].result
        /\ row.approval = rows[Action(r)].approval
    BY <1>2 DEF Row, Statuses
  <2>2. Store(Action(r), row)
    BY <1>4 DEF WinClaim
  <2> HIDE DEF row
  <2>3. Writes(Action(r), row) /\ rows'[Action(r)] = row /\ row.approval = None
    BY <1>1, <1>2, <2>1, <2>2, ClaimWrites, StoreRow DEF RowsWellFormed, WellFormed, Open
  <2>4. pc'[r] = "claimed" /\ ~AtomicAuthority /\ UNCHANGED <<ledger, receipt>>
    BY <1>4 DEF ActionTypeOK, WinClaim, Goto
  <2> QED
    BY <1>1, <2>1, <2>3, <2>4 DEF WinsRow
<1>5. CASE WinAtomicClaim(r)
  <2> DEFINE row == [rows[Action(r)] EXCEPT !.status = "DISPATCHED", !.approval = ReceiptOf(r)]
  <2>1. /\ row \in Row /\ row.status = "DISPATCHED"
        /\ row.binding = rows[Action(r)].binding /\ row.execution = rows[Action(r)].execution
        /\ row.closing = rows[Action(r)].closing /\ row.result = rows[Action(r)].result
        /\ row.approval = ReceiptOf(r)
    BY <1>2, <1>3 DEF Row, Statuses
  <2>2. Store(Action(r), row)
    BY <1>5 DEF WinAtomicClaim
  <2> HIDE DEF row
  <2>3. Writes(Action(r), row) /\ rows'[Action(r)] = row
    BY <1>1, <1>2, <2>1, <2>2, ClaimWrites, StoreRow
  <2>4. pc'[r] = "dispatched"
    BY <1>5 DEF ActionTypeOK, WinAtomicClaim, Goto
  <2> QED
    BY <1>1, <1>5, <2>1, <2>3, <2>4 DEF WinsRow
<1> QED
  BY <1>4, <1>5

(* A judgement or a refusal is saved over the dispatched row. *)
LEMMA JudgementUpsert ==
  ASSUME ActionTypeOK, RowsWellFormed, NEW p \in Proposals, rows[p].status = "DISPATCHED",
         NEW row \in Row, Upsert(p, row), row.status \in Judged, row.binding = rows[p].binding,
         row.closing = None, row.status = "RECONCILIATION_REQUIRED" => row.execution = None,
         row.result # None <=> row.status = "EXECUTED"
  PROVE  Writes(p, row) /\ rows'[p] = row
<1>1. /\ rows[p].closing = None /\ rows[p].binding \in Binding
      /\ rows[p].binding.proposal = p
  BY DEF RowsWellFormed, WellFormed, Closed
<1>2. WellFormed(p, row)
  BY <1>1 DEF WellFormed, Open, Judged, Closed
<1>3. MayAdvance(rows[p], row) /\ Advances(rows[p], row)
  BY <1>1 DEF MayAdvance, Advances
<1> QED
  BY <1>2, <1>3, StoreRow DEF Upsert, Writes

(* The owner of a row ends its claim. *)
LEMMA ConcludesRowStep ==
  ASSUME ActionTypeOK, RowsWellFormed, RequestsKnowThemselves, OwnersDispatch,
         NEW r \in Requests,
         FailConsumption(r) \/ SaveExecuted(r) \/ SaveRejected(r) \/ SaveUncertain(r)
  PROVE  ConcludesRow(r)
<1>1. /\ pc[r] \in {"claimed"} \cup Called /\ pc'[r] = "done"
      /\ UNCHANGED <<ledger, calls, receipt, processed>>
  BY DEF ActionTypeOK, FailConsumption, SaveExecuted, SaveRejected, SaveUncertain, Called, locals,
         Reply, Goto
<1>2. /\ binding[r] \in Binding /\ Action(r) \in Proposals
      /\ rows[Action(r)] \in Row /\ rows[Action(r)].binding = binding[r]
      /\ rows[Action(r)].status = "DISPATCHED" /\ receipt[r] \in Receipt \cup {None}
  BY <1>1, WorkingRow DEF OwnersDispatch, Owning, Called, ActionTypeOK
<1>3. CASE FailConsumption(r)
  <2> DEFINE row == [rows[Action(r)] EXCEPT !.status = "APPROVAL_FAILED"]
  <2>1. /\ row \in Row /\ row.status = "APPROVAL_FAILED"
        /\ row.binding = rows[Action(r)].binding /\ row.closing = rows[Action(r)].closing
        /\ row.result = rows[Action(r)].result /\ row.approval = rows[Action(r)].approval
    BY <1>2 DEF Row, Statuses, Judged
  <2>2. Upsert(Action(r), row)
    BY <1>3 DEF FailConsumption
  <2> HIDE DEF row
  <2>3. row.closing = None /\ row.result = None
    BY <1>2, <2>1 DEF RowsWellFormed, WellFormed, Closed
  <2>4. Writes(Action(r), row) /\ rows'[Action(r)] = row
    BY <1>2, <2>1, <2>2, <2>3, JudgementUpsert DEF Judged
  <2> QED
    BY <1>1, <1>2, <1>3, <2>1, <2>4 DEF ConcludesRow, FailConsumption, Judged
<1>4. ASSUME NEW status \in {"EXECUTED", "RESULT_REJECTED", "RECONCILIATION_REQUIRED"},
             NEW execution \in Requests \cup {None},
             Upsert(Action(r), Judgement(r, status, execution)),
             status = "EXECUTED" => pc[r] = "executed",
             status = "RECONCILIATION_REQUIRED" => execution = None,
             pc[r] \in Called, Reply(r, status)
      PROVE  ConcludesRow(r)
  <2> DEFINE row == Judgement(r, status, execution)
  <2>1. row \in Row
    BY <1>2, <1>4, JudgementType DEF Judged
  <2>2. /\ row.status = status /\ row.binding = binding[r] /\ row.closing = None
        /\ row.execution = execution /\ row.approval = receipt[r]
        /\ row.result = IF status = "EXECUTED" THEN Metadata(processed[r]) ELSE None
    BY DEF Judgement
  <2>3. row.result # None <=> status = "EXECUTED"
    <3>1. status = "EXECUTED" => Metadata(processed[r]) \in Result
      BY <1>4, ExecutedMetadata
    <3> QED
      BY <2>2, <3>1, NoneAssumption
  <2> HIDE DEF row
  <2>4. Upsert(Action(r), row)
    BY <1>4 DEF row
  <2>5. Writes(Action(r), row) /\ rows'[Action(r)] = row
    BY <1>2, <1>4, <2>1, <2>2, <2>3, <2>4, JudgementUpsert DEF Judged
  <2>6. answer'[r] = status
    BY <1>4 DEF ActionTypeOK, Reply
  <2> QED
    BY <1>1, <1>2, <1>4, <2>1, <2>2, <2>5, <2>6 DEF ConcludesRow, Judged, Effected
<1>5. CASE SaveExecuted(r)
  BY <1>4, <1>5 DEF SaveExecuted, Called
<1>6. CASE SaveRejected(r)
  BY <1>4, <1>6 DEF SaveRejected, Called
<1>7. CASE SaveUncertain(r)
  BY <1>4, <1>7 DEF SaveUncertain, Called
<1> QED
  BY <1>3, <1>5, <1>6, <1>7

\* The other requests neither move nor change what they know.
LeavesOthers(r) ==
  \A s \in Requests \ {r} :
    /\ pc'[s] = pc[s] /\ receipt'[s] = receipt[s] /\ processed'[s] = processed[s]
    /\ binding'[s] = binding[s] /\ assertion'[s] = assertion[s] /\ answer'[s] = answer[s]
    /\ Action(s)' = Action(s)

\* A request that is bound keeps its binding and its assertion.
KeepsBinding(r) ==
  /\ binding'[r] = binding[r] /\ assertion'[r] = assertion[r] /\ Action(r)' = Action(r)

LEMMA LeavesOthersStep ==
  ASSUME ActionTypeOK, NEW r \in Requests, Step(r) \/ Abandon(r)
  PROVE  LeavesOthers(r)
<1> USE DEF ActionTypeOK, LeavesOthers, Action, locals, Goto, Reply, Consume
<1>1. CASE Bind(r) \/ RefuseBinding(r) \/ AnswerStored(r) \/ Resume(r)
  BY <1>1 DEF Bind, RefuseBinding, AnswerStored, Resume
<1>2. CASE RejectAssertion(r) \/ AcceptAssertion(r) \/ SavePrepared(r) \/ ReadPrepared(r)
  BY <1>2 DEF RejectAssertion, AcceptAssertion, SavePrepared, ReadPrepared
<1>3. CASE WinClaim(r) \/ WinAtomicClaim(r) \/ ExpireAtomicClaim(r) \/ RollBackAtomicClaim(r)
  BY <1>3 DEF WinClaim, WinAtomicClaim, ExpireAtomicClaim, RollBackAtomicClaim
<1>4. CASE RecordRefusal(r) \/ LoseClaim(r) \/ ReadBack(r)
  BY <1>4 DEF RecordRefusal, LoseClaim, ReadBack
<1>5. CASE ConsumeApproval(r) \/ FailConsumption(r) \/ Execute(r)
  BY <1>5 DEF ConsumeApproval, FailConsumption, Execute, Raise, Receive
<1>6. CASE SaveExecuted(r) \/ SaveRejected(r) \/ SaveUncertain(r) \/ Abandon(r)
  BY <1>6 DEF SaveExecuted, SaveRejected, SaveUncertain, Abandon
<1> QED
  BY <1>1, <1>2, <1>3, <1>4, <1>5, <1>6 DEF Step

LEMMA KeepsBindingStep ==
  ASSUME ActionTypeOK, NEW r \in Requests, Step(r) \/ Abandon(r), pc[r] # "idle"
  PROVE  KeepsBinding(r)
<1> USE DEF KeepsBinding, Action, locals
<1>1. CASE RefuseBinding(r) \/ AnswerStored(r) \/ Resume(r)
  BY <1>1 DEF RefuseBinding, AnswerStored, Resume
<1>2. CASE RejectAssertion(r) \/ AcceptAssertion(r) \/ SavePrepared(r) \/ ReadPrepared(r)
  BY <1>2 DEF RejectAssertion, AcceptAssertion, SavePrepared, ReadPrepared
<1>3. CASE WinClaim(r) \/ WinAtomicClaim(r) \/ ExpireAtomicClaim(r) \/ RollBackAtomicClaim(r)
  BY <1>3 DEF WinClaim, WinAtomicClaim, ExpireAtomicClaim, RollBackAtomicClaim
<1>4. CASE RecordRefusal(r) \/ LoseClaim(r) \/ ReadBack(r)
  BY <1>4 DEF RecordRefusal, LoseClaim, ReadBack
<1>5. CASE ConsumeApproval(r) \/ FailConsumption(r) \/ Execute(r)
  BY <1>5 DEF ConsumeApproval, FailConsumption, Execute
<1>6. CASE SaveExecuted(r) \/ SaveRejected(r) \/ SaveUncertain(r) \/ Abandon(r)
  BY <1>6 DEF SaveExecuted, SaveRejected, SaveUncertain, Abandon
<1> QED
  BY <1>1, <1>2, <1>3, <1>4, <1>5, <1>6 DEF Step, Bind

-----------------------------------------------------------------------------
(***************************************************************************)
(* Type correctness, and what a write does to the table.                   *)
(***************************************************************************)

(* Any step of a request writes one row, forwards, or none. *)
LEMMA StepWrites ==
  ASSUME ActionTypeOK, RowsWellFormed, RequestsKnowThemselves, OwnersDispatch,
         NEW r \in Requests, Step(r) \/ Abandon(r)
  PROVE  UNCHANGED <<rows, history>> \/ \E p \in Proposals, row \in Row : Writes(p, row)
<1>1. CASE ConsumeApproval(r) \/ Execute(r)
  BY <1>1 DEF ConsumeApproval, Execute
<1>2. CASE ~(ConsumeApproval(r) \/ Execute(r))
  BY <1>2, StandsAsideStep, WinsRowStep, ConcludesRowStep
     DEF StandsAside, WinsRow, ConcludesRow, Writes
<1> QED
  BY <1>1, <1>2

LEMMA WritesType ==
  ASSUME ActionTypeOK, RowsWellFormed, NEW p \in Proposals, NEW row \in Row, Writes(p, row)
  PROVE  /\ rows' \in [Proposals -> Row] /\ history' \in [Proposals -> Seq(Statuses)]
         /\ RowsWellFormed'
         /\ rows'[p] = row /\ \A i \in Proposals \ {p} : rows'[i] = rows[i]
         /\ \A i \in Proposals : rows'[i] = rows[i] \/ Advances(rows[i], rows'[i])
<1>1. row.status \in Statuses
  BY DEF Writes, Advances, Statuses, Open, Judged
<1>2. rows'[p] = row /\ \A i \in Proposals \ {p} : rows'[i] = rows[i]
  BY StoreRow DEF Writes
<1>3. RowsWellFormed'
  <2>1. \A i \in Proposals : WellFormed(i, rows'[i])
    BY <1>2 DEF RowsWellFormed, Writes
  <2> QED
    BY <2>1 DEF RowsWellFormed, WellFormed, Absent
<1> QED
  BY <1>1, <1>2, <1>3, StoreType DEF Writes

(* Every step of a request keeps every variable in its type. *)
LEMMA TypeStep ==
  ASSUME ActionTypeOK, RowsWellFormed, RequestsKnowThemselves, OwnersDispatch,
         NEW r \in Requests, Step(r) \/ Abandon(r)
  PROVE  ActionTypeOK'
<1> USE DEF Labels
<1>1. rows' \in [Proposals -> Row] /\ history' \in [Proposals -> Seq(Statuses)]
  BY StepWrites, WritesType DEF ActionTypeOK
<1>2. pc[r] \notin {"idle", "done"} => rows[Action(r)].status \in Answers
  BY WorkingRow DEF Answers
<1>3. CASE Bind(r)
  BY <1>1, <1>3, GotoType DEF ActionTypeOK, Bind
<1>4. CASE RefuseBinding(r) \/ AnswerStored(r) \/ RejectAssertion(r)
  BY <1>2, <1>4, ReplyType DEF ActionTypeOK, RefuseBinding, AnswerStored, RejectAssertion, locals,
                               Answers
<1>5. CASE Resume(r) \/ AcceptAssertion(r)
  BY <1>5, GotoType DEF ActionTypeOK, Resume, AcceptAssertion, locals
<1>6. CASE SavePrepared(r)
  BY <1>1, <1>6, GotoType DEF ActionTypeOK, SavePrepared, locals
<1>7. CASE ReadPrepared(r)
  BY <1>2, <1>7, GotoType, ReplyType DEF ActionTypeOK, ReadPrepared, locals
<1>8. CASE WinClaim(r)
  BY <1>1, <1>8, GotoType DEF ActionTypeOK, WinClaim, locals
<1>9. CASE WinAtomicClaim(r) \/ ConsumeApproval(r)
  <2>1. Consume(r) /\ Goto(r, "dispatched") /\ UNCHANGED <<now, locals, answer, calls>>
    BY <1>9 DEF WinAtomicClaim, ConsumeApproval
  <2>2. ReceiptOf(r) \in Receipt
    BY <1>9, WorkingRow, ReceiptType DEF WinAtomicClaim, ConsumeApproval
  <2> QED
    BY <1>1, <2>1, <2>2, ConsumeType, GotoType DEF ActionTypeOK, locals
<1>10. CASE RollBackAtomicClaim(r) \/ LoseClaim(r)
  BY <1>10, GotoType DEF ActionTypeOK, RollBackAtomicClaim, LoseClaim, locals
<1>11. CASE ExpireAtomicClaim(r) \/ ReadBack(r) \/ Abandon(r)
  BY <1>2, <1>11, ReplyType DEF ActionTypeOK, ExpireAtomicClaim, ReadBack, Abandon, locals, Answers
<1>12. CASE RecordRefusal(r) \/ FailConsumption(r)
  BY <1>1, <1>12, ReplyType DEF ActionTypeOK, RecordRefusal, FailConsumption, locals, Answers
<1>13. CASE Execute(r)
  <2>1. [by |-> r, binding |-> binding[r], receipt |-> receipt[r]]
          \in [by : Requests, binding : Binding, receipt : Receipt \cup {None}]
    BY <1>13, WorkingRow DEF ActionTypeOK, Execute
  <2>2. /\ pc' \in [Requests -> Labels]
        /\ processed' \in [Requests -> {Process(o) : o \in {x \in Returnable : Accepted(x)}}
                                         \cup {None}]
    <3>1. CASE Raise(r)
      BY <3>1, GotoType DEF ActionTypeOK, Raise
    <3>2. ASSUME NEW echoed \in Binding, NEW output \in Returnable, Receive(r, echoed, output)
          PROVE  <2>2!1 /\ <2>2!2
      BY <3>2, GotoType DEF ActionTypeOK, Raise, Receive
    <3> QED
      BY <1>13, <3>1, <3>2 DEF Execute
  <2> QED
    BY <1>13, <2>1, <2>2 DEF ActionTypeOK, Execute
<1>14. CASE SaveExecuted(r) \/ SaveRejected(r) \/ SaveUncertain(r)
  BY <1>1, <1>14, ReplyType
     DEF ActionTypeOK, SaveExecuted, SaveRejected, SaveUncertain, locals, Answers, Statuses, Judged
<1> QED
  BY <1>3, <1>4, <1>5, <1>6, <1>7, <1>8, <1>9, <1>10, <1>11, <1>12, <1>13, <1>14 DEF Step

-----------------------------------------------------------------------------
(***************************************************************************)
(* What a step of a request can and cannot touch.                          *)
(***************************************************************************)

\* Rows only advance.
RowsAdvance == \A p \in Proposals : rows'[p] = rows[p] \/ Advances(rows[p], rows'[p])

\* Actions that are claimed or judged are left alone, and no other is claimed.
SparesClaimed ==
  \A p \in Proposals :
    /\ rows[p].status \notin Unclaimed => rows'[p] = rows[p]
    /\ rows[p].status \in Unclaimed => rows'[p].status \in Unclaimed \cup {"APPROVAL_FAILED"}
    /\ rows[p].status \in Unclaimed => rows'[p].approval = None

\* The request is bound to its row and touches no other.
HoldsItsRow(r) ==
  /\ KeepsBinding(r)
  /\ binding[r] \in Binding /\ Action(r) \in Proposals /\ Action(r) = binding[r].proposal
  /\ assertion[r] \in Approvals /\ rows[Action(r)].binding = binding[r]
  /\ \A p \in Proposals \ {Action(r)} : rows'[p] = rows[p]

(* A step stands aside, or wins, pays for, uses or concludes a claim. *)
LEMMA StepKinds ==
  ASSUME ActionTypeOK, RowsWellFormed, RequestsKnowThemselves, OwnersDispatch,
         NEW r \in Requests, Step(r) \/ Abandon(r)
  PROVE  /\ LeavesOthers(r) /\ RowsAdvance
         /\ \/ StandsAside(r) /\ SparesClaimed
            \/ /\ HoldsItsRow(r)
               /\ WinsRow(r) \/ ConcludesRow(r) \/ ConsumeApproval(r) \/ Execute(r)
<1>1. LeavesOthers(r) /\ RowsAdvance
  BY LeavesOthersStep, StepWrites, WritesType DEF RowsAdvance
<1>2. CASE StandsAside(r)
  <2>1. CASE UNCHANGED rows
    <3>1. \A p \in Proposals : rows[p].status \in Unclaimed => rows[p].approval = None
      BY DEF RowsWellFormed, WellFormed, Unclaimed, Absent
    <3> QED
      BY <1>1, <1>2, <2>1, <3>1 DEF SparesClaimed
  <2>2. ASSUME NEW p \in Proposals, NEW row \in Row, Writes(p, row),
               rows[p].status \in Unclaimed,
               row.status \in Open \cup {"APPROVAL_FAILED"}, row.approval = None
        PROVE  SparesClaimed
    BY <2>2, WritesType DEF SparesClaimed, RowsWellFormed, WellFormed, Unclaimed, Absent
  <2> QED
    BY <1>1, <1>2, <2>1, <2>2 DEF StandsAside
<1>3. CASE ~StandsAside(r)
  <2>1. WinsRow(r) \/ ConcludesRow(r) \/ ConsumeApproval(r) \/ Execute(r)
    BY <1>3, StandsAsideStep, WinsRowStep, ConcludesRowStep
  <2>2. pc[r] \in {"prepared"} \cup Owning
    BY <2>1 DEF WinsRow, ConcludesRow, ConsumeApproval, Execute, Owning, Called
  <2>3. \A p \in Proposals \ {Action(r)} : rows'[p] = rows[p]
    <3>1. UNCHANGED rows \/ \E row \in Row : Writes(Action(r), row)
      BY <2>1 DEF WinsRow, ConcludesRow, ConsumeApproval, Execute
    <3>2. Action(r) \in Proposals
      BY <2>2, WorkingRow DEF Owning
    <3> QED
      BY <3>1, <3>2, WritesType
  <2> QED
    BY <1>1, <2>1, <2>2, <2>3, KeepsBindingStep, WorkingRow DEF HoldsItsRow, Owning
<1> QED
  BY <1>2, <1>3

(* A row that is there stays there, under its binding. *)
LEMMA AdvancesKeepBinding ==
  ASSUME RowsAdvance, NEW p \in Proposals, rows[p].status # "ABSENT"
  PROVE  rows'[p].status # "ABSENT" /\ rows'[p].binding = rows[p].binding
BY DEF RowsAdvance, Advances, Open, Judged, Closed

-----------------------------------------------------------------------------
(***************************************************************************)
(* Each conjunct of the inductive invariant is preserved by a request.     *)
(***************************************************************************)

LEMMA RowsWellFormedStep ==
  ASSUME ActionTypeOK, RowsWellFormed, RequestsKnowThemselves, OwnersDispatch,
         NEW r \in Requests, Step(r) \/ Abandon(r)
  PROVE  RowsWellFormed'
<1>1. CASE UNCHANGED rows
  BY <1>1 DEF RowsWellFormed, WellFormed, Absent
<1> QED
  BY <1>1, StepWrites, WritesType

LEMMA KnowsItselfStep ==
  ASSUME ActionTypeOK, RowsWellFormed, RequestsKnowThemselves, OwnersDispatch,
         NEW r \in Requests, Step(r) \/ Abandon(r)
  PROVE  RequestsKnowThemselves'
<1>1. ASSUME NEW s \in Requests \ {r} PROVE KnowsItself(s)'
  <2>1. pc[s] \notin {"idle", "done"} => Action(s) \in Proposals
    BY <1>1, WorkingRow
  <2> QED
    BY <1>1, <2>1, StepKinds, AdvancesKeepBinding
       DEF LeavesOthers, RequestsKnowThemselves, KnowsItself
<1>2. KnowsItself(r)'
  <2>1. CASE Bind(r)
    <3>1. PICK b \in Binding : /\ binding' = [binding EXCEPT ![r] = b]
                               /\ Upsert(b.proposal, NewRow(b, "WAITING_APPROVAL"))
      BY <2>1 DEF Bind
    <3>2. rows'[b.proposal].status # "ABSENT"
      BY <3>1, OpenUpsert DEF Open
    <3>3. binding'[r] = b /\ Action(r)' = b.proposal /\ pc'[r] = "bound"
      BY <2>1, <3>1 DEF ActionTypeOK, Action, Bind, Goto
    <3> QED
      BY <3>2, <3>3 DEF KnowsItself
  <2>2. CASE pc'[r] = "done"
    BY <2>2 DEF KnowsItself
  <2>3. CASE pc[r] \notin {"idle", "done"} /\ pc'[r] # "done"
    <3>1. /\ KeepsBinding(r) /\ binding[r] \in Binding /\ Action(r) \in Proposals
          /\ rows'[Action(r)].status # "ABSENT" /\ rows'[Action(r)].binding = rows[Action(r)].binding
      BY <2>3, WorkingRow, KeepsBindingStep, StepKinds, AdvancesKeepBinding
         DEF RequestsKnowThemselves, KnowsItself
    <3>2. pc'[r] # "bound" => assertion[r] \in Approvals /\ rows[Action(r)].binding = binding[r]
      <4>1. CASE Resume(r)
        BY <4>1 DEF ActionTypeOK, Resume
      <4>2. CASE pc[r] # "bound"
        BY <2>3, <4>2, WorkingRow
      <4> QED
        BY <2>3, <4>1, <4>2
           DEF ActionTypeOK, Step, Abandon, Bind, RefuseBinding, AnswerStored, RejectAssertion,
               AcceptAssertion, SavePrepared, ReadPrepared, WinClaim, WinAtomicClaim,
               ExpireAtomicClaim, RollBackAtomicClaim, RecordRefusal, LoseClaim, ReadBack,
               ConsumeApproval, FailConsumption, Execute, SaveExecuted, SaveRejected,
               SaveUncertain, Reply, Goto
    <3>3. pc'[r] \in {"ready", "saved", "prepared", "claimed"}
            => binding[r] \in GrantedFor[assertion[r]]
      BY <2>3
         DEF ActionTypeOK, RequestsKnowThemselves, KnowsItself, Verifies,
             Step, Abandon, Bind, RefuseBinding, AnswerStored, RejectAssertion, Resume,
             AcceptAssertion, SavePrepared, ReadPrepared, WinClaim, WinAtomicClaim,
             ExpireAtomicClaim, RollBackAtomicClaim, RecordRefusal, LoseClaim, ReadBack,
             ConsumeApproval, FailConsumption, Execute, Raise, Receive, SaveExecuted,
             SaveRejected, SaveUncertain, Reply, Goto
    <3>4. pc'[r] = "executed" => processed'[r] # None
      <4>1. SUFFICES ASSUME pc'[r] = "executed" PROVE processed'[r] # None
        OBVIOUS
      <4>2. Execute(r)
        BY <2>3, <4>1
           DEF ActionTypeOK, Step, Abandon, Bind, RefuseBinding, AnswerStored, RejectAssertion,
               Resume, AcceptAssertion, SavePrepared, ReadPrepared, WinClaim, WinAtomicClaim,
               ExpireAtomicClaim, RollBackAtomicClaim, RecordRefusal, LoseClaim, ReadBack,
               ConsumeApproval, FailConsumption, SaveExecuted, SaveRejected, SaveUncertain,
               Reply, Goto
      <4>3. ~Raise(r)
        BY <4>1 DEF ActionTypeOK, Raise, Goto
      <4>4. PICK echoed \in Binding, output \in Returnable : Receive(r, echoed, output)
        BY <4>2, <4>3 DEF Execute
      <4>5. processed'[r] = Process(output) /\ Accepted(output)
        BY <4>1, <4>3, <4>4 DEF ActionTypeOK, Receive, Goto
      <4> QED
        BY <4>5, NoneAssumption
    <3> QED
      BY <3>1, <3>2, <3>3, <3>4 DEF KnowsItself, KeepsBinding
  <2>4. pc[r] \in {"idle", "done"} => Bind(r) \/ pc'[r] = "done"
    BY DEF ActionTypeOK, Step, Abandon, RefuseBinding, AnswerStored, RejectAssertion, Resume,
           AcceptAssertion, SavePrepared, ReadPrepared, WinClaim, WinAtomicClaim,
           ExpireAtomicClaim, RollBackAtomicClaim, RecordRefusal, LoseClaim, ReadBack,
           ConsumeApproval, FailConsumption, Execute, SaveExecuted, SaveRejected,
           SaveUncertain, Reply, Goto
  <2> QED
    BY <2>1, <2>2, <2>3, <2>4
<1> QED
  BY <1>1, <1>2 DEF RequestsKnowThemselves

LEMMA OwnersDispatchStep ==
  ASSUME ActionTypeOK, RowsWellFormed, RequestsKnowThemselves, OwnersDispatch, OneOwner,
         NEW r \in Requests, Step(r) \/ Abandon(r)
  PROVE  OwnersDispatch'
<1> SUFFICES ASSUME NEW s \in Requests, pc'[s] \in Owning
             PROVE  rows'[Action(s)'].status = "DISPATCHED"
  BY DEF OwnersDispatch
<1>1. CASE s # r
  <2>1. pc[s] \in Owning /\ Action(s)' = Action(s)
    BY <1>1, StepKinds DEF LeavesOthers
  <2>2. Action(s) \in Proposals /\ rows[Action(s)].status = "DISPATCHED"
    BY <2>1, WorkingRow DEF OwnersDispatch, Owning
  <2>3. pc[r] \in Owning => Action(r) # Action(s)
    BY <1>1, <2>1 DEF OneOwner, Owns
  <2>4. rows'[Action(s)] = rows[Action(s)]
    BY <2>2, <2>3, StepKinds
       DEF SparesClaimed, Unclaimed, Open, HoldsItsRow, WinsRow, ConcludesRow, ConsumeApproval,
           Execute, Owning, Called
  <2> QED
    BY <2>1, <2>2, <2>4
<1>2. CASE s = r
  <2>1. Action(r)' = Action(r) /\ (WinsRow(r) \/ ConsumeApproval(r) \/ Execute(r))
    BY <1>2, StepKinds DEF StandsAside, ConcludesRow, HoldsItsRow, KeepsBinding, Owning
  <2> QED
    BY <1>2, <2>1 DEF WinsRow, ConsumeApproval, Execute, OwnersDispatch, Owning
<1> QED
  BY <1>1, <1>2

LEMMA OneOwnerStep ==
  ASSUME ActionTypeOK, RowsWellFormed, RequestsKnowThemselves, OwnersDispatch, OneOwner,
         NEW r \in Requests, Step(r) \/ Abandon(r)
  PROVE  OneOwner'
<1>1. ASSUME NEW s \in Requests \ {r}, pc'[s] \in Owning, pc'[r] \in Owning
      PROVE  Action(s)' # Action(r)'
  <2>1. pc[s] \in Owning /\ Action(s)' = Action(s)
    BY <1>1, StepKinds DEF LeavesOthers
  <2>2. Action(r)' = Action(r) /\ (WinsRow(r) \/ pc[r] \in Owning)
    BY <1>1, StepKinds
       DEF StandsAside, ConcludesRow, HoldsItsRow, KeepsBinding, ConsumeApproval, Execute, Owning
  <2> QED
    BY <1>1, <2>1, <2>2 DEF WinsRow, OneOwner, Owns, OwnersDispatch
<1>2. ASSUME NEW s \in Requests \ {r}, NEW t \in Requests \ {r},
             pc'[s] \in Owning, pc'[t] \in Owning, Action(s)' = Action(t)'
      PROVE  s = t
  BY <1>2, StepKinds DEF LeavesOthers, OneOwner, Owns
<1> QED
  BY <1>1, <1>2 DEF OneOwner, Owns

(* Only Execute adds a call. *)
LEMMA CallsStep ==
  ASSUME ActionTypeOK, RowsWellFormed, RequestsKnowThemselves, OwnersDispatch,
         NEW r \in Requests, Step(r) \/ Abandon(r)
  PROVE  \/ UNCHANGED calls
         \/ /\ Execute(r) /\ HoldsItsRow(r)
            /\ calls' = calls \cup {[by |-> r, binding |-> binding[r], receipt |-> receipt[r]]}
BY StepKinds DEF StandsAside, WinsRow, ConcludesRow, ConsumeApproval, Execute

LEMMA CallsEffectedStep ==
  ASSUME ActionTypeOK, RowsWellFormed, RequestsKnowThemselves, OwnersDispatch, CallsEffected,
         CallsByOwner, NEW r \in Requests, Step(r) \/ Abandon(r)
  PROVE  CallsEffected'
<1> SUFFICES ASSUME NEW c \in calls'
             PROVE  /\ rows'[c.binding.proposal].status \in Effected
                    /\ rows'[c.binding.proposal].binding = c.binding
  BY DEF CallsEffected
<1>1. CASE c \in calls
  <2> DEFINE p == c.binding.proposal
  <2>1. p \in Proposals /\ rows[p].status \in Effected /\ rows[p].binding = c.binding
    BY <1>1 DEF CallsEffected, ActionTypeOK, Binding
  <2>2. pc[r] = "claimed" => Action(r) # p
    BY <1>1 DEF CallsByOwner, Owns, Owning, Called
  <2>3. rows'[p].status \in Effected
    BY <2>1, <2>2, StepKinds
       DEF SparesClaimed, Unclaimed, Open, HoldsItsRow, WinsRow, ConcludesRow, ConsumeApproval,
           Execute, Effected, Closed
  <2>4. rows'[p].binding = rows[p].binding
    BY <2>1, StepKinds, AdvancesKeepBinding DEF Effected, Closed
  <2> QED
    BY <2>1, <2>3, <2>4
<1>2. CASE c \notin calls
  <2>1. Execute(r) /\ c.binding = binding[r] /\ HoldsItsRow(r)
    BY <1>2, CallsStep
  <2> QED
    BY <2>1 DEF Execute, OwnersDispatch, Owning, Effected, HoldsItsRow
<1> QED
  BY <1>1, <1>2

LEMMA CallsByOwnerStep ==
  ASSUME ActionTypeOK, RowsWellFormed, RequestsKnowThemselves, OwnersDispatch, OneOwner,
         CallsEffected, CallsByOwner, NEW r \in Requests, Step(r) \/ Abandon(r)
  PROVE  CallsByOwner'
<1> SUFFICES ASSUME NEW c \in calls', NEW s \in Requests, Owns(s, c.binding.proposal)'
             PROVE  c.by = s /\ pc'[s] \in Called
  BY DEF CallsByOwner
<1>1. CASE c \in calls /\ s # r
  BY <1>1, StepKinds DEF LeavesOthers, CallsByOwner, Owns
<1>2. CASE c \in calls /\ s = r
  <2>1. /\ Action(r) = c.binding.proposal
        /\ WinsRow(r) \/ ConsumeApproval(r) \/ Execute(r)
    BY <1>2, StepKinds DEF StandsAside, ConcludesRow, HoldsItsRow, KeepsBinding, Owns, Owning
  <2>2. ~WinsRow(r)
    BY <1>2, <2>1 DEF WinsRow, CallsEffected, Effected, Closed
  <2> QED
    BY <1>2, <2>1, <2>2 DEF ConsumeApproval, Execute, CallsByOwner, Owns, Owning, Called
<1>3. CASE c \notin calls
  <2>1. Execute(r) /\ c.binding = binding[r] /\ c.by = r /\ HoldsItsRow(r)
    BY <1>3, CallsStep
  <2>2. pc[r] \in Owning /\ pc'[r] \in Called
    BY <2>1 DEF ActionTypeOK, Execute, Receive, Raise, Goto, Owning, Called
  <2>3. s = r
    BY <2>1, <2>2, StepKinds DEF LeavesOthers, OneOwner, Owns, HoldsItsRow, KeepsBinding
  <2> QED
    BY <2>1, <2>2, <2>3
<1> QED
  BY <1>1, <1>2, <1>3

(* At most one call for a proposal, whoever races, retries or crashes. *)
LEMMA SingleToolExecutionStep ==
  ASSUME ActionTypeOK, RowsWellFormed, RequestsKnowThemselves, OwnersDispatch, CallsByOwner,
         SingleToolExecution, NEW r \in Requests, Step(r) \/ Abandon(r)
  PROVE  SingleToolExecution'
<1>1. CASE UNCHANGED calls
  BY <1>1 DEF SingleToolExecution
<1>2. CASE Execute(r) /\ HoldsItsRow(r)
            /\ calls' = calls \cup {[by |-> r, binding |-> binding[r], receipt |-> receipt[r]]}
  <2>1. \A c \in calls : c.binding.proposal # Action(r)
    BY <1>2 DEF Execute, CallsByOwner, Owns, Owning, Called
  <2> QED
    BY <1>2, <2>1 DEF SingleToolExecution, HoldsItsRow
<1> QED
  BY <1>1, <1>2, CallsStep

-----------------------------------------------------------------------------
(***************************************************************************)
(* Approvals.                                                              *)
(***************************************************************************)

\* The approval a request holds is spent on its action, which is in its hands.
SpendsApproval(r) ==
  /\ Consume(r) /\ Consumable(assertion[r]) /\ UNCHANGED <<now, calls>>
  /\ binding[r] \in GrantedFor[assertion[r]]
  /\ rows'[Action(r)].status = "DISPATCHED"
  /\ pc'[r] = "dispatched"
  /\ HoldsItsRow(r) /\ LeavesOthers(r)

LEMMA SpendsApprovalStep ==
  ASSUME ActionTypeOK, RowsWellFormed, RequestsKnowThemselves, OwnersDispatch,
         NEW r \in Requests, Step(r) \/ Abandon(r)
  PROVE  IF ConsumeApproval(r) \/ WinAtomicClaim(r)
           THEN SpendsApproval(r) ELSE UNCHANGED <<ledger, receipt>>
<1>1. CASE ConsumeApproval(r)
  <2>1. pc'[r] = "dispatched" /\ pc[r] = "claimed"
    BY <1>1 DEF ActionTypeOK, ConsumeApproval, Goto
  <2>2. HoldsItsRow(r) /\ LeavesOthers(r)
    BY <2>1, StepKinds DEF StandsAside, Owning
  <2> QED
    BY <1>1, <2>1, <2>2
       DEF ConsumeApproval, SpendsApproval, RequestsKnowThemselves, KnowsItself, OwnersDispatch,
           Owning
<1>2. CASE WinAtomicClaim(r)
  <2>1. pc'[r] = "dispatched" /\ pc[r] = "prepared"
    BY <1>2 DEF ActionTypeOK, WinAtomicClaim, Goto
  <2>2. HoldsItsRow(r) /\ LeavesOthers(r)
    BY <2>1, StepKinds DEF StandsAside, Owning
  <2>3. WinsRow(r)
    BY <1>2, WinsRowStep
  <2> QED
    BY <1>2, <2>1, <2>2, <2>3
       DEF WinAtomicClaim, WinsRow, SpendsApproval, RequestsKnowThemselves, KnowsItself
<1>3. CASE ~(ConsumeApproval(r) \/ WinAtomicClaim(r))
  BY <1>3, StepKinds DEF StandsAside, WinsRow, ConcludesRow, Execute
<1> QED
  BY <1>1, <1>2, <1>3

(* What a consumption writes in the ledger was free, and is a receipt for the action. *)
LEMMA SpentReceipt ==
  ASSUME ActionTypeOK, NEW r \in Requests, SpendsApproval(r)
  PROVE  LET a == assertion[r] IN
         /\ a \in Approvals /\ ledger[a] = None
         /\ ledger'[a] = ReceiptOf(r) /\ receipt'[r] = ReceiptOf(r)
         /\ \A b \in Approvals \ {a} : ledger'[b] = ledger[b]
         /\ ReceiptOf(r) \in Receipt /\ ReceiptOf(r).approval = a
         /\ ReceiptOf(r).binding = binding[r] /\ binding[r] \in GrantedFor[a]
         /\ IssuedAt[a] <= ReceiptOf(r).at /\ ReceiptOf(r).at < ExpiresAt[a]
<1>1. assertion[r] \in Approvals /\ binding[r] \in Binding
  BY DEF SpendsApproval, HoldsItsRow
<1>2. ReceiptOf(r) \in Receipt
  BY <1>1, ReceiptType
<1>3. /\ ledger'[assertion[r]] = ReceiptOf(r) /\ receipt'[r] = ReceiptOf(r)
      /\ \A b \in Approvals \ {assertion[r]} : ledger'[b] = ledger[b]
  BY <1>1 DEF ActionTypeOK, SpendsApproval, Consume
<1>4. /\ ledger[assertion[r]] = None
      /\ IssuedAt[assertion[r]] <= now /\ now < ExpiresAt[assertion[r]]
  BY DEF SpendsApproval, Consumable, InWindow
<1>5. /\ ReceiptOf(r).approval = assertion[r] /\ ReceiptOf(r).binding = binding[r]
      /\ ReceiptOf(r).at = now
  BY DEF ReceiptOf
<1> QED
  BY <1>1, <1>2, <1>3, <1>4, <1>5 DEF SpendsApproval

(* What the ledger holds, it holds for good. *)
LEMMA LedgerKeeps ==
  ASSUME ActionTypeOK, RowsWellFormed, RequestsKnowThemselves, OwnersDispatch,
         NEW r \in Requests, Step(r) \/ Abandon(r),
         NEW c \in Receipt, ledger[c.approval] = c
  PROVE  ledger'[c.approval] = c /\ c.approval \in Approvals /\ c # None
<1>1. c.approval \in Approvals /\ c # None
  BY NoneAssumption DEF Receipt
<1> QED
  BY <1>1, SpendsApprovalStep, SpentReceipt

LEMMA ApprovalsWellSpentStep ==
  ASSUME ActionTypeOK, RowsWellFormed, RequestsKnowThemselves, OwnersDispatch, OneOwner,
         ApprovalsWellSpent, NEW r \in Requests, Step(r) \/ Abandon(r)
  PROVE  ApprovalsWellSpent'
<1> SUFFICES ASSUME NEW a \in Approvals, ledger'[a] # None PROVE WellSpent(a)'
  BY DEF ApprovalsWellSpent
<1>1. CASE ledger'[a] = ledger[a]
  <2> DEFINE p == ledger[a].binding.proposal
  <2>1. WellSpent(a) /\ p \in Proposals
    BY <1>1 DEF ApprovalsWellSpent, ActionTypeOK, Receipt, Binding
  <2>2. pc[r] = "claimed" => Action(r) # p
    BY <2>1 DEF WellSpent
  <2>3. rows'[p].status \in Effected
    BY <2>1, <2>2, StepKinds
       DEF WellSpent, SparesClaimed, Unclaimed, Open, HoldsItsRow, WinsRow, ConcludesRow,
           ConsumeApproval, Execute, Effected, Closed
  <2>4. ASSUME NEW s \in Requests, pc'[s] = "claimed", Action(s)' = p PROVE FALSE
    <3>1. CASE s # r
      BY <2>1, <2>4, <3>1, StepKinds DEF LeavesOthers, WellSpent
    <3>2. CASE s = r
      <4>1. pc'[r] = "claimed" => ~(ConsumeApproval(r) \/ Execute(r))
        BY DEF ActionTypeOK, ConsumeApproval, Execute, Receive, Raise, Goto
      <4>2. WinsRow(r) /\ Action(r) = p
        BY <2>4, <3>2, <4>1, StepKinds
           DEF StandsAside, ConcludesRow, HoldsItsRow, KeepsBinding, Owning
      <4> QED
        BY <2>1, <4>2 DEF WinsRow, WellSpent, Effected, Closed
    <3> QED
      BY <3>1, <3>2
  <2> QED
    BY <1>1, <2>1, <2>3, <2>4 DEF WellSpent
<1>2. CASE ledger'[a] # ledger[a]
  <2>1. SpendsApproval(r)
    BY <1>2, SpendsApprovalStep
  <2>2. a = assertion[r]
    BY <1>2, <2>1, SpentReceipt
  <2>3. ASSUME NEW s \in Requests, pc'[s] = "claimed", Action(s)' = Action(r) PROVE FALSE
    <3>1. OneOwner'
      BY OneOwnerStep
    <3> QED
      BY <2>1, <2>3, <3>1 DEF SpendsApproval, HoldsItsRow, KeepsBinding, OneOwner, Owns, Owning
  <2> QED
    BY <2>1, <2>2, <2>3, SpentReceipt DEF WellSpent, SpendsApproval, HoldsItsRow, Effected
<1> QED
  BY <1>1, <1>2

LEMMA OwnersHoldReceiptsStep ==
  ASSUME ActionTypeOK, RowsWellFormed, RequestsKnowThemselves, OwnersDispatch,
         OwnersHoldReceipts, NEW r \in Requests, Step(r) \/ Abandon(r)
  PROVE  OwnersHoldReceipts'
<1> SUFFICES ASSUME NEW s \in Requests, pc'[s] \in Owning \ {"claimed"}
             PROVE  /\ receipt'[s] \in Receipt
                    /\ ledger'[receipt'[s].approval] = receipt'[s]
                    /\ receipt'[s].binding = binding'[s]
  BY DEF OwnersHoldReceipts
<1>1. CASE s # r
  BY <1>1, StepKinds, LedgerKeeps DEF LeavesOthers, OwnersHoldReceipts
<1>2. CASE s = r /\ SpendsApproval(r)
  BY <1>2, SpentReceipt DEF SpendsApproval, HoldsItsRow, KeepsBinding
<1>3. CASE s = r /\ ~SpendsApproval(r)
  <2>1. Execute(r) /\ HoldsItsRow(r) /\ UNCHANGED <<receipt, ledger>>
    BY <1>3, StepKinds, SpendsApprovalStep
       DEF StandsAside, WinsRow, ConcludesRow, Execute, Owning
  <2>2. pc[r] \in Owning \ {"claimed"}
    BY <2>1 DEF Execute, Owning
  <2> QED
    BY <1>3, <2>1, <2>2 DEF OwnersHoldReceipts, HoldsItsRow, KeepsBinding
<1> QED
  BY <1>1, <1>2, <1>3

(* The receipt on a row is one of the ledger, and no judged row is without. *)
LEMMA RowsHoldReceiptsStep ==
  ASSUME ActionTypeOK, RowsWellFormed, RequestsKnowThemselves, OwnersDispatch,
         OwnersHoldReceipts, RowsHoldReceipts, NEW r \in Requests, Step(r) \/ Abandon(r)
  PROVE  RowsHoldReceipts'
<1> SUFFICES ASSUME NEW p \in Proposals
             PROVE  /\ rows'[p].approval # None
                         => ledger'[rows'[p].approval.approval] = rows'[p].approval
                    /\ rows'[p].status \in Effected \ {"DISPATCHED"} => rows'[p].approval # None
                    /\ AtomicAuthority /\ rows'[p].status = "DISPATCHED"
                         => rows'[p].approval # None
  BY DEF RowsHoldReceipts
<1>1. CASE rows'[p] = rows[p]
  <2>1. rows[p].approval # None => rows[p].approval \in Receipt
    BY DEF ActionTypeOK, Row
  <2> QED
    BY <1>1, <2>1, LedgerKeeps DEF RowsHoldReceipts
<1>2. CASE rows'[p] # rows[p] /\ SparesClaimed
  BY <1>2 DEF SparesClaimed, Unclaimed, Open, Effected, Closed
<1>3. CASE rows'[p] # rows[p] /\ ~SparesClaimed
  <2>1. p = Action(r) /\ (WinsRow(r) \/ ConcludesRow(r))
    BY <1>3, StepKinds DEF HoldsItsRow, ConsumeApproval, Execute
  <2>2. CASE ConcludesRow(r) /\ pc[r] = "claimed"
    BY <2>1, <2>2 DEF ConcludesRow, RowsHoldReceipts, Effected, Closed, Called
  <2>3. CASE ConcludesRow(r) /\ pc[r] # "claimed"
    BY <2>1, <2>3, NoneAssumption DEF ConcludesRow, OwnersHoldReceipts, Called, Owning
  <2>4. CASE WinsRow(r)
    BY <2>1, <2>4, SpendsApprovalStep, SpentReceipt, NoneAssumption DEF WinsRow, Effected, Closed
  <2> QED
    BY <2>1, <2>2, <2>3, <2>4
<1> QED
  BY <1>1, <1>2, <1>3

(* No call without its approval, whoever races, retries or crashes. *)
LEMMA AuthorizedExecutionsStep ==
  ASSUME ActionTypeOK, RowsWellFormed, RequestsKnowThemselves, OwnersDispatch, CallsEffected,
         CallsByOwner, ApprovalsWellSpent, OwnersHoldReceipts, AuthorizedExecutions,
         NEW r \in Requests, Step(r) \/ Abandon(r)
  PROVE  AuthorizedExecutions'
<1> SUFFICES ASSUME NEW c \in calls'
             PROVE  /\ rows'[c.binding.proposal].binding = c.binding
                    /\ c.receipt # None
                    /\ ledger'[c.receipt.approval] = c.receipt
                    /\ c.binding \in GrantedFor[c.receipt.approval]
                    /\ IssuedAt[c.receipt.approval] <= c.receipt.at
                    /\ c.receipt.at < ExpiresAt[c.receipt.approval]
  BY DEF AuthorizedExecutions
<1>1. rows'[c.binding.proposal].binding = c.binding
  BY CallsEffectedStep DEF CallsEffected
<1>2. CASE c \in calls
  <2>1. c.receipt \in Receipt /\ ledger[c.receipt.approval] = c.receipt
    BY <1>2 DEF AuthorizedExecutions, ActionTypeOK
  <2> QED
    BY <1>1, <1>2, <2>1, LedgerKeeps DEF AuthorizedExecutions
<1>3. CASE c \notin calls
  <2>1. /\ Execute(r) /\ UNCHANGED ledger /\ pc[r] = "dispatched"
        /\ c.binding = binding[r] /\ c.receipt = receipt[r]
    BY <1>3, CallsStep DEF Execute
  <2>2. /\ receipt[r] \in Receipt /\ receipt[r].approval \in Approvals /\ receipt[r] # None
        /\ ledger[receipt[r].approval] = receipt[r] /\ receipt[r].binding = binding[r]
    BY <2>1, NoneAssumption DEF OwnersHoldReceipts, Owning, Receipt
  <2>3. WellSpent(receipt[r].approval)
    BY <2>2 DEF ApprovalsWellSpent
  <2> QED
    BY <1>1, <2>1, <2>2, <2>3 DEF WellSpent
<1> QED
  BY <1>2, <1>3

(* An uncertain action is not touched by a request. *)
LEMMA LocatedStays ==
  ASSUME RowsAdvance, ReconcilersLocated, UNCHANGED reconcilerVars
  PROVE  ReconcilersLocated'
<1> SUFFICES ASSUME NEW q \in Reconcilers, stage[q] \notin {"idle", "done"}
             PROVE  /\ target[q] \in Proposals /\ order[q] \in Orders
                    /\ rows'[target[q]].status \in {"RECONCILIATION_REQUIRED"} \cup Closed
                    /\ stage[q] \in {"closed", "replaying"} => rows'[target[q]].status \in Closed
  BY DEF ReconcilersLocated, LocatedItsAction, reconcilerVars
<1> QED
  BY DEF ReconcilersLocated, LocatedItsAction, RowsAdvance, Advances, Closed

LEMMA StepInvariant ==
  ASSUME IInv, NEW r \in Requests, Step(r) \/ Abandon(r), UNCHANGED reconcilerVars
  PROVE  IInv'
<1>1. ActionTypeOK
  BY DEF IInv, TypeOK
<1>2. TypeOK'
  BY <1>1, TypeStep DEF IInv, TypeOK, reconcilerVars
<1>3. RowsWellFormed' /\ RequestsKnowThemselves' /\ OwnersDispatch' /\ OneOwner'
  BY <1>1, RowsWellFormedStep, KnowsItselfStep, OwnersDispatchStep, OneOwnerStep DEF IInv
<1>4. CallsEffected' /\ CallsByOwner' /\ SingleToolExecution' /\ AuthorizedExecutions'
  BY <1>1, CallsEffectedStep, CallsByOwnerStep, SingleToolExecutionStep, AuthorizedExecutionsStep
     DEF IInv
<1>5. ApprovalsWellSpent' /\ OwnersHoldReceipts' /\ RowsHoldReceipts'
  BY <1>1, ApprovalsWellSpentStep, OwnersHoldReceiptsStep, RowsHoldReceiptsStep DEF IInv
<1>6. ReconcilersLocated'
  BY <1>1, StepKinds, LocatedStays DEF IInv
<1> QED
  BY <1>2, <1>3, <1>4, <1>5, <1>6 DEF IInv

-----------------------------------------------------------------------------
(***************************************************************************)
(* The steps of a reconciler.                                              *)
(***************************************************************************)

(* What closes an action is a row for it. *)
LEMMA ClosedRowType ==
  ASSUME NEW p \in Proposals, rows[p] \in Row, WellFormed(p, rows[p]), NEW j \in Orders,
         NEW closing \in Closing \cup {None},
         rows[p].status \in {"RECONCILIATION_REQUIRED"} \cup Closed
  PROVE  LET row == ClosedRow(p, j, closing) IN
         /\ row \in Row /\ WellFormed(p, row)
         /\ row.status \in Closed /\ row.status = ClosedStatus(j)
         /\ row.binding = rows[p].binding /\ row.approval = rows[p].approval
         /\ row.closing = closing /\ row.result = None
<1> DEFINE row == ClosedRow(p, j, closing)
           execution == IF Verdict[j] = "EXECUTED" THEN j ELSE None
<1>1. ClosedStatus(j) \in Closed
  BY DEF ClosedStatus, Closed
<1>2. execution \in Requests \cup Orders \cup {None}
  OBVIOUS
<1>3. /\ row \in Row
      /\ row.status = ClosedStatus(j) /\ row.binding = rows[p].binding
      /\ row.approval = rows[p].approval /\ row.closing = closing /\ row.result = rows[p].result
  <2>1. row = [rows[p] EXCEPT !.status = ClosedStatus(j), !.closing = closing,
                              !.execution = execution]
    BY DEF ClosedRow
  <2>2. ClosedStatus(j) \in Statuses
    BY <1>1 DEF Statuses
  <2> HIDE DEF row, execution
  <2> QED
    BY <1>2, <2>1, <2>2 DEF Row
<1>4. rows[p].result = None /\ rows[p].binding \in Binding /\ rows[p].binding.proposal = p
  BY DEF WellFormed, Closed
<1> HIDE DEF row
<1>5. WellFormed(p, row)
  BY <1>1, <1>3, <1>4 DEF WellFormed, Closed, Open
<1> QED
  BY <1>1, <1>3, <1>4, <1>5 DEF row

\* The uncertain action of a reconciler is closed, and nothing else is touched but orders.
ClosesAction(q) ==
  /\ stage[q] \in {"authorized", "consumed"}
  /\ target[q] \in Proposals /\ order[q] \in Orders
  /\ rows[target[q]].status = "RECONCILIATION_REQUIRED"
  /\ \E closing \in Closing :
       LET row == ClosedRow(target[q], order[q], closing) IN
         /\ Writes(target[q], row) /\ row \in Row
         /\ row.status = ClosedStatus(order[q]) /\ row.status \in Closed
         /\ row.approval = rows[target[q]].approval /\ row.closing = closing
         /\ orders'[order[q]] = closing
  /\ UNCHANGED <<ledger, now, pc, locals, receipt, answer, calls>>

LEMMA ReconcileKinds ==
  ASSUME IInv, NEW q \in Reconcilers, Reconcile(q) \/ GiveUp(q)
  PROVE  UNCHANGED actionVars \/ ClosesAction(q)
<1>1. CASE SaveClosed(q) \/ CloseAtomically(q)
  <2>1. /\ target[q] \in Proposals /\ order[q] \in Orders
        /\ rows[target[q]].status \in {"RECONCILIATION_REQUIRED"} \cup Closed
        /\ rows[target[q]] \in Row /\ WellFormed(target[q], rows[target[q]])
    BY <1>1 DEF SaveClosed, CloseAtomically, IInv, TypeOK, ActionTypeOK, ReconcilersLocated,
                LocatedItsAction, RowsWellFormed
  <2>2. UNCHANGED <<ledger, now, pc, locals, receipt, answer, calls>>
    BY <1>1 DEF SaveClosed, CloseAtomically
  <2>3. CASE SaveClosed(q)
    <3> DEFINE closing == orders[order[q]]
               row == ClosedRow(target[q], order[q], closing)
    <3>1. closing \in Closing \cup {None}
      BY <2>1 DEF IInv, TypeOK
    <3>2. row \in Row /\ WellFormed(target[q], row) /\ row.status = ClosedStatus(order[q])
          /\ row.status \in Closed /\ row.binding = rows[target[q]].binding
          /\ row.approval = rows[target[q]].approval /\ row.closing = closing
      BY <2>1, <3>1, ClosedRowType
    <3>3. Upsert(target[q], row) /\ UNCHANGED orders /\ stage[q] = "consumed"
      BY <2>3 DEF SaveClosed
    <3> HIDE DEF row
    <3>4. CASE MayAdvance(rows[target[q]], row)
      <4>1. /\ rows[target[q]].status = "RECONCILIATION_REQUIRED" /\ closing # None
            /\ Advances(rows[target[q]], row)
        BY <2>1, <3>2, <3>4 DEF MayAdvance, Advances, Closed, Open, Judged
      <4>2. Writes(target[q], row)
        BY <2>1, <3>2, <3>3, <3>4, <4>1 DEF Upsert, Writes
      <4> QED
        BY <2>1, <2>2, <3>1, <3>2, <3>3, <4>1, <4>2 DEF ClosesAction, row
    <3>5. CASE ~MayAdvance(rows[target[q]], row)
      <4>1. rows[target[q]] # Absent
        BY <2>1 DEF Absent, Closed
      <4> QED
        BY <2>2, <3>3, <3>5, <4>1 DEF Upsert, actionVars, locals
    <3> QED
      BY <3>4, <3>5
  <2>4. CASE CloseAtomically(q)
    <3> DEFINE closing == ClosingOf(q)
               row == ClosedRow(target[q], order[q], closing)
    <3>1. closing \in Closing
      BY <2>1 DEF ClosingOf, Closing, IInv, TypeOK, ActionTypeOK
    <3>2. row \in Row /\ WellFormed(target[q], row) /\ row.status = ClosedStatus(order[q])
          /\ row.status \in Closed /\ row.binding = rows[target[q]].binding
          /\ row.approval = rows[target[q]].approval /\ row.closing = closing
      BY <2>1, <3>1, ClosedRowType
    <3>3. /\ Store(target[q], row) /\ ConsumeOrder(q) /\ stage[q] = "authorized"
          /\ rows[target[q]].status = "RECONCILIATION_REQUIRED"
      BY <2>4 DEF CloseAtomically
    <3>4. orders'[order[q]] = closing
      BY <2>1, <3>3 DEF ConsumeOrder, IInv, TypeOK
    <3> HIDE DEF row
    <3>5. Writes(target[q], row)
      BY <2>1, <3>2, <3>3 DEF Writes, Advances
    <3> QED
      BY <2>1, <2>2, <3>1, <3>2, <3>3, <3>4, <3>5 DEF ClosesAction, row
  <2> QED
    BY <1>1, <2>3, <2>4
<1>2. CASE ~(SaveClosed(q) \/ CloseAtomically(q))
  BY <1>2 DEF Reconcile, GiveUp, Locate, RejectOrder, AcceptOrder, Replay, TakeOrder, RefuseOrder,
              CollideAtomically, ExpireAtomically
<1> QED
  BY <1>1, <1>2

LEMMA EnterType ==
  ASSUME TypeOK, NEW q \in Reconcilers, NEW s \in Stages, Enter(q, s)
  PROVE  stage' \in [Reconcilers -> Stages]
BY DEF TypeOK, Enter

LEMMA RuleType ==
  ASSUME TypeOK, NEW q \in Reconcilers, NEW a \in Rulings, Rule(q, a)
  PROVE  stage' \in [Reconcilers -> Stages] /\ ruling' \in [Reconcilers -> Rulings \cup {None}]
BY DEF TypeOK, Rule, Enter, Stages

(* Every step of a reconciler keeps its variables and the orders in their types. *)
LEMMA ReconcileType ==
  ASSUME IInv, NEW q \in Reconcilers, Reconcile(q) \/ GiveUp(q)
  PROVE  /\ orders' \in [Orders -> Closing \cup {None}]
         /\ stage'  \in [Reconcilers -> Stages]
         /\ target' \in [Reconcilers -> Proposals \cup {None}]
         /\ order'  \in [Reconcilers -> Orders \cup {None}]
         /\ ruling' \in [Reconcilers -> Rulings \cup {None}]
<1> USE DEF Stages, Rulings
<1>1. TypeOK
  BY DEF IInv
<1>2. stage[q] \notin {"idle", "done"} =>
        /\ target[q] \in Proposals /\ order[q] \in Orders
        /\ rows[target[q]].status \in {"RECONCILIATION_REQUIRED"} \cup Closed
        /\ ClosingOf(q) \in Closing
        /\ ClosedStatus(order[q]) \in Rulings
  BY <1>1 DEF IInv, ReconcilersLocated, LocatedItsAction, ClosingOf, Closing, TypeOK, ActionTypeOK,
              ClosedStatus, Closed
<1>3. stage[q] \notin {"idle", "done"} /\ ConsumeOrder(q) => orders' \in [Orders -> Closing \cup {None}]
  BY <1>1, <1>2 DEF TypeOK, ConsumeOrder
<1>4. CASE Locate(q)
  <2>1. target' \in [Reconcilers -> Proposals \cup {None}] /\ order' \in [Reconcilers -> Orders \cup {None}]
        /\ UNCHANGED orders
    BY <1>1, <1>4 DEF Locate, TypeOK
  <2>2. \/ UNCHANGED ruling /\ \E s \in Stages : Enter(q, s)
        \/ Rule(q, "CONFLICT")
    BY <1>4 DEF Locate
  <2> QED
    BY <1>1, <2>1, <2>2, EnterType, RuleType DEF TypeOK
<1>5. CASE RejectOrder(q) \/ RefuseOrder(q) \/ ExpireAtomically(q) \/ GiveUp(q)
  BY <1>1, <1>5, RuleType DEF RejectOrder, RefuseOrder, ExpireAtomically, GiveUp, TypeOK
<1>6. CASE AcceptOrder(q)
  BY <1>1, <1>6, EnterType DEF AcceptOrder, TypeOK
<1>7. CASE Replay(q)
  <2>1. stage[q] = "replaying" /\ UNCHANGED <<orders, target, order>>
        /\ \E a \in {rows[target[q]].status, "CONFLICT"} : Rule(q, a)
    BY <1>7 DEF Replay
  <2>2. rows[target[q]].status \in Closed
    BY <2>1 DEF IInv, ReconcilersLocated, LocatedItsAction
  <2> QED
    BY <1>1, <2>1, <2>2, RuleType DEF TypeOK
<1>8. CASE TakeOrder(q)
  BY <1>1, <1>2, <1>3, <1>8, EnterType DEF TakeOrder, TypeOK
<1>9. CASE SaveClosed(q) \/ CloseAtomically(q) \/ CollideAtomically(q)
  <2>1. /\ stage[q] \in {"authorized", "consumed"} /\ UNCHANGED <<target, order>>
        /\ UNCHANGED orders \/ ConsumeOrder(q)
        /\ \E a \in {ClosedStatus(order[q]), "CONFLICT", "PERSISTENCE_FAILED"} : Rule(q, a)
    BY <1>9 DEF SaveClosed, CloseAtomically, CollideAtomically
  <2> QED
    BY <1>1, <1>2, <1>3, <2>1, RuleType DEF TypeOK
<1> QED
  BY <1>4, <1>5, <1>6, <1>7, <1>8, <1>9 DEF Reconcile

(* A reconciler that goes on keeps its action and its order. *)
LEMMA ReconcilersLocatedStep ==
  ASSUME IInv, NEW q \in Reconcilers, Reconcile(q) \/ GiveUp(q), RowsAdvance
  PROVE  ReconcilersLocated'
<1> SUFFICES ASSUME NEW s \in Reconcilers, stage'[s] \notin {"idle", "done"}
             PROVE  /\ target'[s] \in Proposals /\ order'[s] \in Orders
                    /\ rows'[target'[s]].status \in {"RECONCILIATION_REQUIRED"} \cup Closed
                    /\ stage'[s] \in {"closed", "replaying"}
                         => rows'[target'[s]].status \in Closed
  BY DEF ReconcilersLocated, LocatedItsAction
<1>1. TypeOK
  BY DEF IInv
<1>2. CASE Locate(q) /\ s = q
  BY <1>1, <1>2 DEF Locate, Enter, Rule, TypeOK, actionVars
<1>3. CASE ~(Locate(q) /\ s = q)
  <2>1. /\ stage[s] \notin {"idle", "done"} /\ target'[s] = target[s] /\ order'[s] = order[s]
        /\ stage'[s] \in {"closed", "replaying"} => stage[s] \in {"closed", "replaying"}
    <3> USE DEF TypeOK, Enter, Rule
    <3>1. CASE Locate(q) \/ RejectOrder(q) \/ AcceptOrder(q)
      BY <1>1, <1>3, <3>1 DEF Locate, RejectOrder, AcceptOrder
    <3>2. CASE Replay(q) \/ TakeOrder(q) \/ RefuseOrder(q)
      BY <1>1, <3>2 DEF Replay, TakeOrder, RefuseOrder
    <3>3. CASE SaveClosed(q) \/ CloseAtomically(q) \/ CollideAtomically(q)
               \/ ExpireAtomically(q) \/ GiveUp(q)
      BY <1>1, <3>3 DEF SaveClosed, CloseAtomically, CollideAtomically, ExpireAtomically, GiveUp
    <3> QED
      BY <3>1, <3>2, <3>3 DEF Reconcile
  <2>2. /\ target[s] \in Proposals /\ order[s] \in Orders
        /\ rows[target[s]].status \in {"RECONCILIATION_REQUIRED"} \cup Closed
        /\ stage[s] \in {"closed", "replaying"} => rows[target[s]].status \in Closed
    BY <2>1 DEF IInv, ReconcilersLocated, LocatedItsAction
  <2> QED
    BY <2>1, <2>2 DEF RowsAdvance, Advances, Closed
<1> QED
  BY <1>2, <1>3

(* Closing an action takes nothing from the requests or from the approvals. *)
LEMMA ReconcileInvariant ==
  ASSUME IInv, NEW q \in Reconcilers, Reconcile(q) \/ GiveUp(q)
  PROVE  IInv'
<1>1. ActionTypeOK /\ RowsWellFormed
  BY DEF IInv, TypeOK
<1>2. CASE UNCHANGED actionVars
  <2>1. RowsAdvance
    BY <1>2 DEF RowsAdvance, actionVars
  <2>2. TypeOK'
    BY <1>1, <1>2, ReconcileType DEF TypeOK, ActionTypeOK, actionVars
  <2>3. RowsWellFormed' /\ RequestsKnowThemselves' /\ OwnersDispatch' /\ OneOwner'
    BY <1>2 DEF IInv, actionVars, RowsWellFormed, WellFormed, RequestsKnowThemselves, KnowsItself,
                OwnersDispatch, OneOwner, Owns, Action
  <2>4. CallsEffected' /\ CallsByOwner' /\ SingleToolExecution' /\ AuthorizedExecutions'
    BY <1>2 DEF IInv, actionVars, CallsEffected, CallsByOwner, SingleToolExecution,
                AuthorizedExecutions, Owns, Action
  <2>5. ApprovalsWellSpent' /\ OwnersHoldReceipts' /\ RowsHoldReceipts'
    BY <1>2 DEF IInv, actionVars, ApprovalsWellSpent, WellSpent, OwnersHoldReceipts,
                RowsHoldReceipts, Action
  <2> QED
    BY <2>1, <2>2, <2>3, <2>4, <2>5, ReconcilersLocatedStep DEF IInv
<1>3. CASE ClosesAction(q)
  <2> DEFINE p == target[q]
  <2>1. PICK row \in Row : /\ p \in Proposals /\ Writes(p, row)
                           /\ rows[p].status = "RECONCILIATION_REQUIRED"
                           /\ row.status \in Closed /\ row.approval = rows[p].approval
    BY <1>3 DEF ClosesAction
  <2>2. UNCHANGED <<ledger, now, pc, binding, assertion, processed, receipt, answer, calls>>
    BY <1>3 DEF ClosesAction, locals
  <2>3. /\ rows' \in [Proposals -> Row] /\ history' \in [Proposals -> Seq(Statuses)]
        /\ RowsWellFormed' /\ RowsAdvance
        /\ rows'[p] = row /\ \A i \in Proposals \ {p} : rows'[i] = rows[i]
    BY <1>1, <2>1, WritesType DEF RowsAdvance
  <2>4. TypeOK'
    BY <1>1, <2>2, <2>3, ReconcileType DEF TypeOK, ActionTypeOK
  <2>5. \A i \in Proposals : /\ rows[i].status # "ABSENT" => rows'[i].status # "ABSENT"
                                                            /\ rows'[i].binding = rows[i].binding
                             /\ rows[i].status \in Effected => rows'[i].status \in Effected
                             /\ rows[i].status = "DISPATCHED" => rows'[i] = rows[i]
                             /\ rows'[i].approval = rows[i].approval
                             /\ rows'[i].status = "DISPATCHED" => rows'[i] = rows[i]
                             /\ rows'[i].status \in Effected => rows[i].status \in Effected
    BY <2>1, <2>3, AdvancesKeepBinding DEF Effected, Closed
  <2>6. \A r \in Requests : /\ Action(r)' = Action(r)
                            /\ pc[r] \notin {"idle", "done"} => Action(r) \in Proposals
    BY <1>1, <2>2, WorkingRow DEF Action, IInv
  <2>7. RequestsKnowThemselves'
    BY <2>2, <2>5, <2>6 DEF IInv, RequestsKnowThemselves, KnowsItself
  <2>8. OwnersDispatch' /\ OneOwner'
    BY <2>2, <2>5, <2>6 DEF IInv, OwnersDispatch, OneOwner, Owns, Owning
  <2>9. \A c \in calls : c.binding.proposal \in Proposals
    BY <1>1 DEF ActionTypeOK, Binding
  <2>10. CallsEffected' /\ AuthorizedExecutions'
    BY <2>2, <2>5, <2>9 DEF IInv, CallsEffected, AuthorizedExecutions, Effected, Closed
  <2>11. CallsByOwner' /\ SingleToolExecution'
    BY <2>2, <2>6 DEF IInv, CallsByOwner, SingleToolExecution, Owns
  <2>12. \A a \in Approvals : ledger[a] # None => ledger[a].binding.proposal \in Proposals
    BY <1>1 DEF ActionTypeOK, Receipt, Binding
  <2>13. ApprovalsWellSpent'
    BY <2>2, <2>5, <2>6, <2>12 DEF IInv, ApprovalsWellSpent, WellSpent
  <2>14. OwnersHoldReceipts'
    BY <2>2 DEF IInv, OwnersHoldReceipts
  <2>15. RowsHoldReceipts'
    BY <2>1, <2>2, <2>3, <2>5 DEF IInv, RowsHoldReceipts, Effected, Closed
  <2> QED
    BY <2>3, <2>4, <2>7, <2>8, <2>10, <2>11, <2>13, <2>14, <2>15, ReconcilersLocatedStep DEF IInv
<1> QED
  BY <1>2, <1>3, ReconcileKinds

-----------------------------------------------------------------------------
(***************************************************************************)
(* The inductive invariant and the theorems.                               *)
(***************************************************************************)

LEMMA InitInvariant == Init => IInv
<1> SUFFICES ASSUME Init PROVE IInv
  OBVIOUS
<1>1. TypeOK
  <2>1. Absent \in Row
    BY DEF Absent, Row
  <2>2. history \in [Proposals -> Seq(Statuses)] /\ now \in Time
    BY TimeAssumption DEF Init, ActionInit, Time
  <2> QED
    BY <2>1, <2>2 DEF Init, ActionInit, TypeOK, ActionTypeOK, Labels, Stages
<1>2. RowsWellFormed /\ RowsHoldReceipts
  BY DEF Init, ActionInit, RowsWellFormed, RowsHoldReceipts, WellFormed, Absent, Open, Closed,
         Effected
<1>3. RequestsKnowThemselves /\ ReconcilersLocated
  BY DEF Init, ActionInit, RequestsKnowThemselves, KnowsItself, ReconcilersLocated,
         LocatedItsAction
<1>4. OwnersDispatch /\ OneOwner /\ CallsByOwner /\ OwnersHoldReceipts
  BY DEF Init, ActionInit, OwnersDispatch, OneOwner, Owns, CallsByOwner, OwnersHoldReceipts, Owning
<1>5. CallsEffected /\ ApprovalsWellSpent /\ SingleToolExecution /\ AuthorizedExecutions
  BY DEF Init, ActionInit, CallsEffected, ApprovalsWellSpent, SingleToolExecution,
         AuthorizedExecutions
<1> QED
  BY <1>1, <1>2, <1>3, <1>4, <1>5 DEF IInv

(* The clock only advances. *)
LEMMA TickInvariant ==
  ASSUME IInv, Tick \/ UNCHANGED <<actionVars>>, UNCHANGED reconcilerVars
  PROVE  IInv'
<1>1. /\ UNCHANGED <<rows, history, ledger, pc, locals, receipt, answer, calls, reconcilerVars>>
      /\ now' \in Time
  BY TimeAssumption DEF IInv, TypeOK, ActionTypeOK, Tick, Time, actionVars, locals
<1>2. TypeOK'
  BY <1>1 DEF IInv, TypeOK, ActionTypeOK, locals, reconcilerVars
<1>3. RowsWellFormed' /\ RowsHoldReceipts' /\ RequestsKnowThemselves' /\ ReconcilersLocated'
  BY <1>1 DEF IInv, RowsWellFormed, RowsHoldReceipts, RequestsKnowThemselves, KnowsItself,
              ReconcilersLocated, LocatedItsAction, Action, WellFormed, locals, reconcilerVars
<1>4. OwnersDispatch' /\ OneOwner' /\ CallsByOwner' /\ OwnersHoldReceipts'
  BY <1>1 DEF IInv, OwnersDispatch, OneOwner, Owns, CallsByOwner, OwnersHoldReceipts, Action, locals
<1>5. CallsEffected' /\ ApprovalsWellSpent' /\ SingleToolExecution' /\ AuthorizedExecutions'
  BY <1>1 DEF IInv, CallsEffected, ApprovalsWellSpent, WellSpent, SingleToolExecution,
              AuthorizedExecutions, Action, locals
<1> QED
  BY <1>2, <1>3, <1>4, <1>5 DEF IInv

LEMMA NextInvariant == IInv /\ [Next]_vars => IInv'
<1> SUFFICES ASSUME IInv, [Next]_vars PROVE IInv'
  OBVIOUS
<1>1. CASE \E r \in Requests : (Step(r) \/ Abandon(r)) /\ UNCHANGED reconcilerVars
  BY <1>1, StepInvariant
<1>2. CASE \E q \in Reconcilers : Reconcile(q) \/ GiveUp(q)
  BY <1>2, ReconcileInvariant
<1>3. CASE Tick /\ UNCHANGED reconcilerVars
  BY <1>3, TickInvariant
<1>4. CASE UNCHANGED vars
  BY <1>4, TickInvariant DEF vars, reconcilerVars
<1> QED
  BY <1>1, <1>2, <1>3, <1>4 DEF Next, Finished

(* What the proofs about tool actions rest on: a row has one owner, from the *)
(* claim that wins it to the judgement that ends it.                         *)
THEOREM InvariantHolds == Spec => []IInv
BY InitInvariant, NextInvariant, PTL DEF Spec

(* Every variable keeps its type: the table, the two ledgers, the histories, *)
(* and what each request and each reconciler knows.                          *)
THEOREM TypeCorrect == Spec => []TypeOK
<1>1. IInv => TypeOK
  BY DEF IInv
<1> QED
  BY <1>1, InvariantHolds, PTL

(* However requests for one proposal are repeated, raced, bound to other     *)
(* keys or abandoned, and whatever is reconciled, the tool port is called at *)
(* most once for it.                                                         *)
THEOREM AtMostOneExecution == Spec => []SingleToolExecution
<1>1. IInv => SingleToolExecution
  BY DEF IInv
<1> QED
  BY <1>1, InvariantHolds, PTL

(* The tool port is called under the binding on record, with an approval     *)
(* signed for it and consumed for this action, inside its window.            *)
THEOREM OnlyAuthorizedExecutions == Spec => []AuthorizedExecutions
<1>1. IInv => AuthorizedExecutions
  BY DEF IInv
<1> QED
  BY <1>1, InvariantHolds, PTL

(* An approval is never consumed for an action that is then not dispatched.  *)
THEOREM ApprovalsBuyDispatches == Spec => []NoApprovalSpentInVain
<1>1. IInv => NoApprovalSpentInVain
  BY DEF IInv, ApprovalsWellSpent, WellSpent, NoApprovalSpentInVain, Effected
<1> QED
  BY <1>1, InvariantHolds, PTL

(* With PostgreSQL no action is past its claim without its receipt.          *)
THEOREM ClaimsCarryReceipts ==
  ASSUME AtomicAuthority
  PROVE  Spec => []ClaimCarriesReceipt
<1>1. IInv => ClaimCarriesReceipt
  BY DEF IInv, RowsHoldReceipts, ClaimCarriesReceipt, Effected
<1> QED
  BY <1>1, InvariantHolds, PTL

(* Any step of the system writes one row, forwards, or none. *)
LEMMA NextAdvances ==
  ASSUME IInv, [Next]_vars
  PROVE  RowsAdvance
<1>1. ActionTypeOK
  BY DEF IInv, TypeOK
<1>2. ASSUME NEW r \in Requests, Step(r) \/ Abandon(r) PROVE RowsAdvance
  BY <1>1, <1>2, StepKinds DEF IInv
<1>3. ASSUME NEW q \in Reconcilers, Reconcile(q) \/ GiveUp(q) PROVE RowsAdvance
  <2>1. CASE ClosesAction(q)
    BY <1>1, <2>1, WritesType DEF ClosesAction, RowsAdvance, IInv
  <2> QED
    BY <1>3, <2>1, ReconcileKinds DEF RowsAdvance, actionVars
<1>4. CASE UNCHANGED rows
  BY <1>4 DEF RowsAdvance
<1> QED
  BY <1>2, <1>3, <1>4 DEF Next, Tick, Finished, vars, actionVars

(* An action only moves forward, under its first binding; what is judged is  *)
(* final, and what is uncertain is only closed, once.                        *)
THEOREM ActionsAdvance == Spec => ActionsMoveForward
<1> DEFINE Forward ==
      \A p \in Proposals :
        /\ rows[p] # Absent => rows'[p].binding = rows[p].binding
        /\ rows[p].status = "DISPATCHED" => rows'[p].status \in Judged \cup {"DISPATCHED"}
        /\ rows[p].status \in (Judged \cup Closed) \ {"RECONCILIATION_REQUIRED"}
             => rows'[p] = rows[p]
        /\ rows[p].status = "RECONCILIATION_REQUIRED"
             => rows'[p] = rows[p] \/ rows'[p].status \in Closed
<1>1. ASSUME IInv, RowsAdvance PROVE Forward
  <2>1. \A p \in Proposals : rows[p] # Absent => rows[p].status # "ABSENT"
    BY <1>1 DEF IInv, RowsWellFormed, WellFormed
  <2> QED
    BY <1>1, <2>1 DEF RowsAdvance, Advances, Open, Judged, Closed
<1>2. IInv /\ [Next]_vars => [Forward]_rows
  BY <1>1, NextAdvances
<1> QED
  BY <1>2, InvariantHolds, PTL DEF Spec, ActionsMoveForward
=============================================================================
