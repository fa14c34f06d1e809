----------------------- MODULE EnforcementRecordProofs -----------------------
(***************************************************************************)
(* Proofs about what an enforcement leaves on record: the events of its    *)
(* row, the receipts, and what each client is told; and that the lifecycle *)
(* implements AuthorizedEffect.  They rest on the invariant of             *)
(* EnforcementProofs.                                                      *)
(***************************************************************************)
EXTENDS EnforcementProofs, EnforcementRefinement

-----------------------------------------------------------------------------
(***************************************************************************)
(* What a step writes.                                                     *)
(***************************************************************************)

\* A row before its claim, or refused: nothing was paid for it and nothing called.
Prepares(row) == row.receipt = None /\ row.status \notin Effected

Claims(r, id, row) ==
  /\ id = Target(r) /\ rows[id].status = "PREPARED" /\ row.status = "DISPATCHED"
  /\ \/ row.receipt = rows[id].receipt /\ ~ClaimsAtomically(r)
     \/ row.receipt = ReceiptOf(r) /\ SpendsApproval(r)

Ends(r, id, row) ==
  /\ id = Target(r) /\ pc[r] \in Called
  /\ row.receipt = receipt[r] /\ row.status \in {"EXECUTED", "EXECUTION_FAILED"}
  /\ row.status = "EXECUTED" => row.provider = r

Writes(r, id, row) ==
  /\ Store(id, row) /\ row.status \in Statuses
  /\ Prepares(row) \/ Claims(r, id, row) \/ Ends(r, id, row)

(* An upsert writes its row, or nothing. *)
LEMMA UpsertWrites ==
  ASSUME NEW r \in Requests, NEW id \in Identity, NEW row \in Row, Upsert(id, row),
         row.status \in Statuses, Prepares(row) \/ Ends(r, id, row)
  PROVE  UNCHANGED <<rows, history>> \/ Writes(r, id, row)
BY DEF Upsert, Writes

LEMMA StepWrites ==
  ASSUME TypeOK, RequestsKnowThemselves, OwnersDispatch,
         NEW r \in Requests, Step(r) \/ Abandon(r)
  PROVE  UNCHANGED <<rows, history>> \/ \E id \in Identity, row \in Row : Writes(r, id, row)
<1> USE DEF Statuses, Frozen, Concluded
<1>1. CASE BlockDeny(r) \/ FailTransformation(r)
  <2>1. evaluation[r] \in Evaluations
    BY <1>1, WorkingRow DEF BlockDeny, FailTransformation
  <2>2. /\ EnforcementId(evaluation[r], None, "BLOCKED_DENY") \in Identity
        /\ EnforcementId(evaluation[r], None, "TRANSFORMATION_FAILED") \in Identity
    BY <2>1 DEF EnforcementId, StatusFamily, ExecutionFamily, Identity
  <2> QED
    BY <1>1, <2>2, NewRowType, UpsertWrites DEF BlockDeny, FailTransformation, Prepares, Effected
<1>2. CASE AwaitApproval(r) \/ RejectAssertion(r) \/ SavePrepared(r) \/ FailConsumption(r)
  <2>1. Target(r) \in Identity
    BY <1>2, WorkingRow DEF AwaitApproval, RejectAssertion, SavePrepared, FailConsumption
  <2> QED
    BY <1>2, <2>1, NewRowType, UpsertWrites
       DEF AwaitApproval, RejectAssertion, SavePrepared, FailConsumption, Prepares, Effected
<1>3. CASE WinClaim(r) \/ WinAtomicClaim(r)
  <2>1. Target(r) \in Identity /\ rows[Target(r)] \in Row
    BY <1>3, WorkingRow DEF WinClaim, WinAtomicClaim, TypeOK
  <2>2. CASE WinClaim(r)
    BY <2>1, <2>2 DEF WinClaim, Writes, Claims, Row
  <2>3. CASE WinAtomicClaim(r)
    <3>1. SpendsApproval(r) /\ ReceiptOf(r) \in Receipt
      BY <2>3, SpendsApprovalStep, ReceiptType, GrantAssumption DEF SpendsApproval
    <3> DEFINE row == [rows[Target(r)] EXCEPT !.status = "DISPATCHED", !.receipt = ReceiptOf(r)]
    <3>2. row \in Row /\ row.status = "DISPATCHED" /\ row.receipt = ReceiptOf(r)
      BY <2>1, <3>1 DEF Row
    <3>3. Store(Target(r), row) /\ rows[Target(r)].status = "PREPARED"
      BY <2>3 DEF WinAtomicClaim
    <3> HIDE DEF row
    <3> QED
      BY <2>1, <3>1, <3>2, <3>3 DEF Writes, Claims
  <2> QED
    BY <1>3, <2>2, <2>3
<1>4. CASE SaveExecuted(r) \/ SaveExecutionFailed(r)
  <2>1. Target(r) \in Identity /\ pc[r] \in Called
    BY <1>4, WorkingRow DEF SaveExecuted, SaveExecutionFailed, Called
  <2>2. /\ [status |-> "EXECUTED", receipt |-> receipt[r], provider |-> r] \in Row
        /\ [status |-> "EXECUTION_FAILED", receipt |-> receipt[r], provider |-> None] \in Row
    BY DEF TypeOK, Row
  <2> QED
    BY <1>4, <2>1, <2>2, UpsertWrites DEF SaveExecuted, SaveExecutionFailed, Ends
<1> QED
  BY <1>1, <1>2, <1>3, <1>4
     DEF Step, Evaluate, Transform, AcceptAssertion, ReadPrepared, FailAtomicClaim,
         LoseClaim, ReadBack, ConsumeApproval, Execute, Abandon

(* What is concluded stays, and what is in the ledger and among the calls. *)
Keeps ==
  /\ \A id \in Identity : rows[id].status \in Concluded => rows'[id] = rows[id]
  /\ \A a \in Approvals : ledger[a] # None => ledger'[a] = ledger[a]
  /\ calls \subseteq calls'
  /\ evidence \subseteq evidence'

LEMMA StepKeeps ==
  ASSUME IInv, NEW r \in Requests, Step(r) \/ Abandon(r)
  PROVE  Keeps
<1>1. TypeOK /\ RequestsKnowThemselves /\ OwnersDispatch
  BY DEF IInv
<1>2. \A id \in Identity : rows[id].status \in Concluded => rows'[id] = rows[id]
  <2>1. ConcludesRow(r) => rows[Target(r)].status = "DISPATCHED"
    BY <1>1 DEF ConcludesRow, OwnersDispatch, Owning, Called
  <2> QED
    BY <1>1, <2>1, StepKinds
       DEF StandsAside, WinsRow, ConcludesRow, ConsumeApproval, Execute, Frozen, Concluded
<1>3. \A a \in Approvals : ledger[a] # None => ledger'[a] = ledger[a]
  BY <1>1, SpendsApprovalStep, SpentReceipt, GrantAssumption DEF SpendsApproval
<1>4. calls \subseteq calls'
  BY <1>1, StepKinds DEF StandsAside, WinsRow, ConcludesRow, ConsumeApproval, Execute
<1>5. evidence \subseteq evidence'
  BY DEF Step, Abandon, Evaluate, BlockDeny, FailTransformation, Transform, AwaitApproval,
         RejectAssertion, AcceptAssertion, SavePrepared, ReadPrepared, WinClaim, WinAtomicClaim,
         FailAtomicClaim, LoseClaim, ReadBack, ConsumeApproval, FailConsumption, Execute,
         SaveExecuted, SaveExecutionFailed
<1> QED
  BY <1>2, <1>3, <1>4, <1>5 DEF Keeps

-----------------------------------------------------------------------------
(***************************************************************************)
(* The events.                                                             *)
(***************************************************************************)

\* No event is taken back or moved.
HistoriesGrow ==
  \A id \in Identity : \A i \in DOMAIN history[id] :
    i \in DOMAIN history'[id] /\ history'[id][i] = history[id][i]

(* The event of a status is in the history of its row once the status is stored. *)
LEMMA StoreRecords ==
  ASSUME TypeOK, NEW id \in Identity, NEW row \in Row, row.status \in Statuses, Store(id, row)
  PROVE  /\ HistoriesGrow
         /\ rows'[id] = row /\ \A i \in Identity \ {id} : rows'[i] = rows[i]
         /\ \A i \in Identity \ {id} : history'[i] = history[i]
         /\ \E j \in DOMAIN history'[id] : history'[id][j] = row.status
         /\ \A j \in DOMAIN history'[id] \ DOMAIN history[id] :
              /\ history'[id][j] = row.status
              /\ \A i \in DOMAIN history[id] : i < j
<1>1. rows'[id] = row /\ \A i \in Identity \ {id} : rows'[i] = rows[i]
  BY DEF TypeOK, Store
<1>2. history[id] \in Seq(Statuses) /\ history' = Events(id, row.status)
  BY DEF TypeOK, Store
<1>3. CASE \E i \in DOMAIN history[id] : history[id][i] = row.status
  BY <1>1, <1>2, <1>3 DEF Events, HistoriesGrow
<1>4. CASE ~\E i \in DOMAIN history[id] : history[id][i] = row.status
  <2>1. /\ history'[id] = Append(history[id], row.status)
        /\ \A i \in Identity \ {id} : history'[i] = history[i]
    BY <1>2, <1>4 DEF Events, TypeOK
  <2>2. /\ DOMAIN history'[id] = 1..(Len(history[id]) + 1)
        /\ DOMAIN history[id] = 1..Len(history[id]) /\ Len(history[id]) \in Nat
        /\ \A i \in 1..Len(history[id]) : history'[id][i] = history[id][i]
        /\ history'[id][Len(history[id]) + 1] = row.status
    BY <1>2, <2>1
  <2> QED
    BY <1>1, <2>1, <2>2 DEF HistoriesGrow
<1> QED
  BY <1>3, <1>4

(* A row that is dispatched was prepared, and its history says so. *)
LEMMA HistoriesStep ==
  ASSUME IInv, HistoryCoversStatus, DispatchesPrepared, NEW r \in Requests, Step(r) \/ Abandon(r)
  PROVE  HistoryCoversStatus' /\ DispatchesPrepared' /\ HistoriesGrow
<1>1. TypeOK /\ RequestsKnowThemselves /\ OwnersDispatch
  BY DEF IInv
<1>2. CASE UNCHANGED <<rows, history>>
  BY <1>2 DEF HistoryCoversStatus, DispatchesPrepared, HistoriesGrow
<1>3. ASSUME NEW id \in Identity, NEW row \in Row, Writes(r, id, row)
      PROVE  HistoryCoversStatus' /\ DispatchesPrepared' /\ HistoriesGrow
  <2>1. /\ Store(id, row) /\ row.status \in Statuses
        /\ row.status = "DISPATCHED" => rows[id].status = "PREPARED"
    BY <1>3 DEF Writes, Prepares, Claims, Ends, Effected
  <2>2. HistoryCoversStatus'
    BY <1>1, <2>1, StoreRecords DEF HistoryCoversStatus
  <2>3. ASSUME NEW i \in Identity, NEW j \in DOMAIN history'[i], history'[i][j] = "DISPATCHED"
        PROVE  \E k \in DOMAIN history'[i] : k < j /\ history'[i][k] = "PREPARED"
    <3>1. CASE j \in DOMAIN history[i]
      <4>1. history[i][j] = "DISPATCHED"
        BY <1>1, <2>1, <2>3, <3>1, StoreRecords DEF HistoriesGrow
      <4>2. PICK k \in DOMAIN history[i] : k < j /\ history[i][k] = "PREPARED"
        BY <3>1, <4>1 DEF DispatchesPrepared
      <4> QED
        BY <1>1, <2>1, <4>2, StoreRecords DEF HistoriesGrow
    <3>2. CASE j \notin DOMAIN history[i]
      <4>1. i = id /\ row.status = "DISPATCHED" /\ \A k \in DOMAIN history[id] : k < j
        BY <1>1, <2>1, <2>3, <3>2, StoreRecords
      <4>2. PICK k \in DOMAIN history[id] : history[id][k] = "PREPARED"
        BY <2>1, <4>1 DEF HistoryCoversStatus
      <4> QED
        BY <1>1, <2>1, <4>1, <4>2, StoreRecords DEF HistoriesGrow
    <3> QED
      BY <3>1, <3>2
  <2> QED
    BY <1>1, <2>1, <2>2, <2>3, StoreRecords DEF DispatchesPrepared
<1> QED
  BY <1>1, <1>2, <1>3, StepWrites

(* The evidence and the dispatch of a call are on record before it is made. *)
LEMMA CallsRecordedStep ==
  ASSUME IInv, HistoryCoversStatus, DispatchesPrepared, CallsRecorded, RequestsAccount,
         NEW r \in Requests, Step(r) \/ Abandon(r)
  PROVE  CallsRecorded'
<1> SUFFICES ASSUME NEW c \in calls'
             PROVE  /\ c.id.evaluation \in evidence'
                    /\ \E j \in DOMAIN history'[c.id] : history'[c.id][j] = "DISPATCHED"
  BY DEF CallsRecorded
<1>1. TypeOK /\ RequestsKnowThemselves /\ OwnersDispatch /\ HistoriesGrow /\ Keeps
  BY HistoriesStep, StepKeeps DEF IInv
<1>2. CASE c \in calls
  <2>1. c.id \in Identity
    BY <1>1, <1>2 DEF TypeOK
  <2> QED
    BY <1>1, <1>2, <2>1 DEF CallsRecorded, HistoriesGrow, Keeps
<1>3. CASE c \notin calls
  <2>1. Execute(r) /\ c.id = Target(r) /\ pc[r] = "dispatched"
    BY <1>1, <1>3, StepKinds DEF StandsAside, WinsRow, ConcludesRow, ConsumeApproval, Execute
  <2>2. /\ Target(r) \in Identity /\ Target(r).evaluation = evaluation[r]
        /\ evaluation[r] \in evidence
    BY <1>1, <2>1, WorkingRow, TargetIsIdentity DEF RequestsAccount, Accounts
  <2>3. rows[Target(r)].status = "DISPATCHED"
    BY <1>1, <2>1 DEF OwnersDispatch, Owning
  <2> QED
    BY <2>1, <2>2, <2>3 DEF Execute, HistoryCoversStatus
<1> QED
  BY <1>2, <1>3

-----------------------------------------------------------------------------
(***************************************************************************)
(* The rows: who executed them, and their receipts.                        *)
(***************************************************************************)

LEMMA ExecutedRowsStep ==
  ASSUME IInv, ExecutedRowsWereCalled, RequestsAccount, NEW r \in Requests, Step(r) \/ Abandon(r)
  PROVE  ExecutedRowsWereCalled'
<1> SUFFICES ASSUME NEW id \in Identity, rows'[id].status = "EXECUTED"
             PROVE  \E c \in calls' : c.id = id /\ c.by = rows'[id].provider
  BY DEF ExecutedRowsWereCalled
<1>1. TypeOK /\ RequestsKnowThemselves /\ OwnersDispatch /\ Keeps
  BY StepKeeps DEF IInv
<1>2. CASE rows'[id] = rows[id]
  BY <1>1, <1>2 DEF ExecutedRowsWereCalled, Keeps
<1>3. ASSUME NEW i \in Identity, NEW row \in Row, Writes(r, i, row), rows'[id] # rows[id]
      PROVE  \E c \in calls' : c.id = id /\ c.by = rows'[id].provider
  <2>1. id = i /\ rows'[id] = row /\ Ends(r, i, row)
    BY <1>1, <1>3, StoreRecords DEF Writes, Prepares, Claims, Effected
  <2>2. PICK c \in calls : c.by = r /\ c.id = Target(r)
    BY <2>1 DEF Ends, RequestsAccount, Accounts
  <2> QED
    BY <1>1, <2>1, <2>2 DEF Ends, Keeps
<1> QED
  BY <1>1, <1>2, <1>3, StepWrites

LEMMA RowReceiptsStep ==
  ASSUME IInv, RowReceiptsInLedger, RequestsAccount, NEW r \in Requests, Step(r) \/ Abandon(r)
  PROVE  RowReceiptsInLedger'
<1>1. TypeOK /\ RequestsKnowThemselves /\ OwnersDispatch /\ Keeps
  BY StepKeeps DEF IInv
<1>2. ASSUME NEW id \in Identity, rows'[id].receipt = rows[id].receipt
      PROVE  /\ rows'[id].receipt # None => rows'[id].receipt.enforcement = id
             /\ rows'[id].receipt # None => ledger'[rows'[id].receipt.approval] = rows'[id].receipt
  <2>1. rows[id].receipt # None => rows[id].receipt \in Receipt
    BY <1>1 DEF TypeOK, Row
  <2>2. rows[id].receipt # None =>
          /\ rows[id].receipt.approval \in Approvals
          /\ ledger[rows[id].receipt.approval] = rows[id].receipt
          /\ rows[id].receipt.enforcement = id
    BY <2>1 DEF Receipt, RowReceiptsInLedger
  <2> QED
    BY <1>1, <1>2, <2>2 DEF Keeps
<1>3. ASSUME NEW id \in Identity, NEW row \in Row, Writes(r, id, row)
      PROVE  /\ row.receipt # None => row.receipt.enforcement = id
             /\ row.receipt # None => ledger'[row.receipt.approval] = row.receipt
             /\ row.status \in {"EXECUTED", "EXECUTION_FAILED"} /\ NeedsApproval(id.evaluation)
                  => row.receipt # None
  <2>1. rows'[id] = row
    BY <1>1, <1>3, StoreRecords DEF Writes
  <2>2. CASE Prepares(row)
    BY <2>2 DEF Prepares, Effected
  <2>3. CASE Claims(r, id, row)
    <3>1. CASE row.receipt = rows[id].receipt
      BY <1>2, <2>1, <2>3, <3>1 DEF Claims
    <3>2. CASE row.receipt = ReceiptOf(r) /\ SpendsApproval(r)
      <4>1. evaluation[r] \in Evaluations
        BY <3>2, GrantAssumption DEF SpendsApproval
      <4> QED
        BY <1>1, <2>3, <3>2, <4>1, SpentReceipt DEF Claims
    <3> QED
      BY <2>3, <3>1, <3>2 DEF Claims
  <2>4. CASE Ends(r, id, row)
    <3>1. /\ row.receipt = receipt[r] /\ id = Target(r) /\ pc[r] \in Called
          /\ evaluation[r] \in Evaluations /\ id.evaluation = evaluation[r]
      BY <1>1, <2>4, WorkingRow, TargetIsIdentity DEF Ends, Called
    <3>2. receipt[r] # None =>
            /\ receipt[r] \in Receipt /\ receipt[r].enforcement = id
            /\ ledger[receipt[r].approval] = receipt[r]
      BY <1>1, <3>1 DEF RequestsAccount, Accounts, TypeOK
    <3>3. receipt[r] # None => ledger'[receipt[r].approval] = receipt[r]
      BY <1>1, <3>2, NoneAssumption DEF Keeps, Receipt
    <3>4. NeedsApproval(id.evaluation) => receipt[r] # None
      BY <3>1, NoneAssumption DEF IInv, OwnersHoldReceipts, Owning, Called
    <3> QED
      BY <3>1, <3>2, <3>3, <3>4
  <2> QED
    BY <1>3, <2>2, <2>3, <2>4 DEF Writes
<1>4. ASSUME NEW id \in Identity
      PROVE  /\ rows'[id].receipt # None => rows'[id].receipt.enforcement = id
             /\ rows'[id].receipt # None => ledger'[rows'[id].receipt.approval] = rows'[id].receipt
             /\ rows'[id].status \in {"EXECUTED", "EXECUTION_FAILED"} /\ NeedsApproval(id.evaluation)
                  => rows'[id].receipt # None
  <2>1. CASE rows'[id] = rows[id]
    BY <1>2, <2>1 DEF RowReceiptsInLedger
  <2>2. ASSUME NEW i \in Identity, NEW row \in Row, Writes(r, i, row), rows'[id] # rows[id]
        PROVE  Writes(r, id, row) /\ rows'[id] = row
    BY <1>1, <2>2, StoreRecords DEF Writes
  <2> QED
    BY <1>1, <1>3, <2>1, <2>2, StepWrites
<1> QED
  BY <1>4 DEF RowReceiptsInLedger, NeedsApproval

(* With PostgreSQL a gated row is dispatched with its receipt. *)
LEMMA ClaimCarriesReceiptStep ==
  ASSUME IInv, AtomicAuthority, ClaimCarriesReceipt, NEW r \in Requests, Step(r) \/ Abandon(r)
  PROVE  ClaimCarriesReceipt'
<1>1. TypeOK /\ RequestsKnowThemselves /\ OwnersDispatch
  BY DEF IInv
<1>2. ASSUME NEW id \in Identity, NEW row \in Row, Writes(r, id, row),
             row.status = "DISPATCHED", NeedsApproval(id.evaluation)
      PROVE  row.receipt # None
  <2>1. Claims(r, id, row)
    BY <1>2 DEF Writes, Prepares, Ends, Effected
  <2>2. pc[r] = "prepared" \/ SpendsApproval(r)
    <3>1. StandsAside(r) => rows'[id].status \notin {"DISPATCHED"} \/ rows[id].status = "DISPATCHED"
      BY DEF StandsAside, Frozen
    <3>2. rows'[id] = row
      BY <1>1, <1>2, StoreRecords DEF Writes
    <3> QED
      BY <1>1, <1>2, <2>1, <3>1, <3>2, StepKinds
         DEF Claims, WinsRow, ConcludesRow, Concluded, ConsumeApproval, Execute
  <2>3. evaluation[r] \in Evaluations
    BY <1>1, <2>2, WorkingRow, GrantAssumption DEF SpendsApproval
  <2>4. row.receipt = ReceiptOf(r) /\ SpendsApproval(r)
    BY <1>1, <1>2, <2>1, <2>3, TargetIsIdentity DEF Claims, ClaimsAtomically
  <2> QED
    BY <1>1, <2>3, <2>4, SpentReceipt, NoneAssumption
<1>3. ASSUME NEW id \in Identity, rows'[id].status = "DISPATCHED", NeedsApproval(id.evaluation)
      PROVE  rows'[id].receipt # None
  <2>1. CASE rows'[id] = rows[id]
    BY <1>3, <2>1 DEF ClaimCarriesReceipt
  <2>2. ASSUME NEW i \in Identity, NEW row \in Row, Writes(r, i, row), rows'[id] # rows[id]
        PROVE  Writes(r, id, row) /\ rows'[id] = row
    BY <1>1, <2>2, StoreRecords DEF Writes
  <2> QED
    BY <1>1, <1>2, <1>3, <2>1, <2>2, StepWrites
<1> QED
  BY <1>3 DEF ClaimCarriesReceipt, NeedsApproval

-----------------------------------------------------------------------------
(***************************************************************************)
(* The answers.                                                            *)
(***************************************************************************)

\* What a request is told: what it read, a refusal, or the end of its own call.
Told(r, a) ==
  /\ Reply(r, a) /\ pc[r] # "done" /\ UNCHANGED <<calls, receipt>>
  /\ \/ pc[r] \in {"saved", "reading"} /\ a = rows[Target(r)].status /\ UNCHANGED rows
     \/ pc[r] \notin Called /\ a \in {"BLOCKED_DENY", "TRANSFORMATION_FAILED", "VERIFICATION_FAILED"}
     \/ /\ pc[r] \in {"prepared", "claimed"} /\ a = "CONSUMPTION_FAILED"
        /\ ~AtomicAuthority => rows'[Target(r)].status = "APPROVAL_FAILED"
     \/ a = "ABANDONED"
     \/ /\ pc[r] \in Called /\ a \in {"EXECUTED", "EXECUTION_FAILED"}
        /\ rows'[Target(r)].status = a

\* A step that does not answer: it calls, it consumes, or it does neither.
GoesOn(r) ==
  /\ pc'[r] # "done" /\ UNCHANGED answer
  /\ Execute(r) \/ (pc[r] \notin Called /\ pc'[r] \notin Called)
  /\ SpendsApproval(r) \/ UNCHANGED receipt
  /\ pc[r] \in {"idle", "evaluated"} => pc'[r] \notin Called /\ UNCHANGED receipt
  /\ pc[r] \notin {"idle", "evaluated"} => pc'[r] \notin {"idle", "evaluated"}

LEMMA AnswerKinds ==
  ASSUME IInv, NEW r \in Requests, Step(r) \/ Abandon(r)
  PROVE  /\ pc[r] # "done"
         /\ GoesOn(r) \/ \E a \in Answers : Told(r, a)
<1> USE DEF Told, GoesOn, Called, Answers, Statuses, Frozen, Concluded
<1>1. TypeOK /\ RequestsKnowThemselves /\ OwnersDispatch
  BY DEF IInv
<1>2. pc[r] \in {"saved", "reading"} => rows[Target(r)].status \in Answers
  BY <1>1, WorkingRow DEF TypeOK, Row, RequestsKnowThemselves, KnowsItself
<1>3. CASE BlockDeny(r) \/ FailTransformation(r) \/ RejectAssertion(r) \/ Abandon(r)
  BY <1>3 DEF BlockDeny, FailTransformation, RejectAssertion, Abandon
<1>4. CASE ReadBack(r) \/ (ReadPrepared(r) /\ rows[Target(r)].status \in Frozen)
  BY <1>2, <1>4 DEF ReadBack, ReadPrepared
<1>5. CASE FailAtomicClaim(r)
  BY <1>5 DEF FailAtomicClaim, ClaimsAtomically
<1>6. CASE FailConsumption(r) \/ SaveExecuted(r) \/ SaveExecutionFailed(r)
  <2>1. Target(r) \in Identity /\ rows[Target(r)].status = "DISPATCHED"
    BY <1>1, <1>6, WorkingRow
       DEF FailConsumption, SaveExecuted, SaveExecutionFailed, OwnersDispatch, Owning
  <2>2. CASE FailConsumption(r)
    BY <1>1, <2>1, <2>2, UpsertConcludes, NewRowType DEF FailConsumption
  <2>3. CASE SaveExecuted(r)
    BY <1>1, <2>1, <2>3, UpsertConcludes DEF SaveExecuted
  <2>4. CASE SaveExecutionFailed(r)
    BY <1>1, <2>1, <2>4, UpsertConcludes DEF SaveExecutionFailed
  <2> QED
    BY <1>6, <2>2, <2>3, <2>4
<1>7. CASE Evaluate(r) \/ Transform(r)
  BY <1>1, <1>7 DEF TypeOK, Goto, Evaluate, Transform
<1>8. CASE AwaitApproval(r) \/ AcceptAssertion(r) \/ SavePrepared(r) \/ LoseClaim(r)
  BY <1>1, <1>8 DEF TypeOK, Goto, AwaitApproval, AcceptAssertion, SavePrepared, LoseClaim
<1>9. CASE ReadPrepared(r) /\ rows[Target(r)].status \notin Frozen
  BY <1>1, <1>9 DEF TypeOK, Goto, ReadPrepared
<1>10. CASE WinClaim(r) \/ Execute(r)
  BY <1>1, <1>10 DEF TypeOK, Goto, WinClaim, Execute
<1>11. CASE WinAtomicClaim(r) \/ ConsumeApproval(r)
  <2>1. SpendsApproval(r)
    BY <1>1, <1>11, SpendsApprovalStep
  <2> QED
    BY <1>1, <1>11, <2>1 DEF TypeOK, Goto, WinAtomicClaim, ConsumeApproval
<1> QED
  BY <1>3, <1>4, <1>5, <1>6, <1>7, <1>8, <1>9, <1>10, <1>11 DEF Step

(* What another request did and was told stands. *)
LEMMA OthersAccount ==
  ASSUME IInv, RequestsAccount, NEW r \in Requests, Step(r) \/ Abandon(r),
         NEW s \in Requests \ {r}
  PROVE  Accounts(s)'
<1>1. TypeOK /\ RequestsKnowThemselves /\ OwnersDispatch /\ Keeps /\ Accounts(s)
  BY StepKeeps DEF IInv, RequestsAccount
<1>2. /\ pc'[s] = pc[s] /\ receipt'[s] = receipt[s] /\ evaluation'[s] = evaluation[s]
      /\ Target(s)' = Target(s)
  BY <1>1, StepKinds DEF LeavesOthers
<1>3. answer'[s] = answer[s]
  <2>1. GoesOn(r) => answer'[s] = answer[s]
    BY DEF GoesOn
  <2>2. \A a \in Answers : Told(r, a) => answer'[s] = answer[s]
    BY <1>1 DEF Told, Reply, TypeOK
  <2> QED
    BY <2>1, <2>2, AnswerKinds
<1>4. receipt[s] # None => ledger'[receipt[s].approval] = receipt[s]
  <2>1. receipt[s] # None => receipt[s].approval \in Approvals /\ ledger[receipt[s].approval] # None
    BY <1>1, NoneAssumption DEF Accounts, TypeOK, Receipt
  <2> QED
    BY <1>1, <2>1 DEF Accounts, Keeps
<1>5. evaluation[s] \in Evaluations /\ rows[Target(s)].status \in Concluded =>
        rows'[Target(s)] = rows[Target(s)]
  BY <1>1, TargetIsIdentity DEF Keeps
<1> QED
  BY <1>1, <1>2, <1>3, <1>4, <1>5 DEF Accounts, Keeps, Concluded

(* What a request does and is told is on record. *)
LEMMA AccountsStep ==
  ASSUME IInv, RequestsAccount, NEW r \in Requests, Step(r) \/ Abandon(r)
  PROVE  Accounts(r)'
<1>1. TypeOK /\ RequestsKnowThemselves /\ OwnersDispatch /\ Keeps /\ Accounts(r) /\ pc[r] # "done"
  BY StepKeeps, AnswerKinds DEF IInv, RequestsAccount
<1>2. answer[r] = None
  BY <1>1 DEF Accounts
<1>3. pc'[r] \notin {"idle", "done"} => evaluation'[r] \in evidence'
  <2>1. CASE Evaluate(r)
    BY <1>1, <2>1 DEF Evaluate, TypeOK
  <2>2. CASE ~Evaluate(r)
    <3>1. pc[r] # "idle" \/ pc'[r] = "done"
      BY <1>1, <2>2
         DEF TypeOK, Step, Abandon, Reply, Goto, BlockDeny, FailTransformation, Transform,
             AwaitApproval, RejectAssertion, AcceptAssertion, SavePrepared, ReadPrepared,
             WinClaim, WinAtomicClaim, FailAtomicClaim, LoseClaim, ReadBack, ConsumeApproval,
             FailConsumption, Execute, SaveExecuted, SaveExecutionFailed
    <3>2. pc[r] # "idle" => evaluation'[r] = evaluation[r]
      <4>1. pc[r] = "evaluated" => UNCHANGED evaluation
        BY <2>2 DEF Step, Abandon, BlockDeny, FailTransformation, Transform,
             AwaitApproval, RejectAssertion, AcceptAssertion, SavePrepared, ReadPrepared,
             WinClaim, WinAtomicClaim, FailAtomicClaim, LoseClaim, ReadBack, ConsumeApproval,
             FailConsumption, Execute, SaveExecuted, SaveExecutionFailed
      <4> QED
        BY <1>1, <4>1, KeepsTargetStep DEF KeepsTarget
    <3> QED
      BY <1>1, <3>1, <3>2 DEF Accounts, Keeps
  <2> QED
    BY <2>1, <2>2
<1>4. CASE GoesOn(r)
  <2>1. receipt'[r] # None =>
          /\ pc'[r] \notin {"idle", "evaluated"}
          /\ receipt'[r].enforcement = Target(r)'
          /\ ledger'[receipt'[r].approval] = receipt'[r]
    <3>1. CASE SpendsApproval(r)
      <4>1. evaluation[r] \in Evaluations
        BY <3>1, GrantAssumption DEF SpendsApproval
      <4> QED
        BY <1>1, <3>1, <4>1, SpentReceipt DEF SpendsApproval, KeepsTarget
    <3>2. CASE UNCHANGED receipt
      <4>1. SUFFICES ASSUME receipt[r] # None
                     PROVE  /\ pc'[r] \notin {"idle", "evaluated"}
                            /\ receipt[r].enforcement = Target(r)'
                            /\ ledger'[receipt[r].approval] = receipt[r]
        BY <3>2
      <4>2. /\ pc[r] \notin {"idle", "evaluated"} /\ receipt[r].enforcement = Target(r)
            /\ ledger[receipt[r].approval] = receipt[r] /\ receipt[r].approval \in Approvals
        BY <1>1, <4>1 DEF Accounts, TypeOK, Receipt
      <4>3. KeepsTarget(r)
        BY <1>1, <4>2, KeepsTargetStep
      <4> QED
        BY <1>1, <1>4, <4>1, <4>2, <4>3 DEF GoesOn, KeepsTarget, Keeps
    <3> QED
      BY <1>4, <3>1, <3>2 DEF GoesOn
  <2>2. pc'[r] \in Called => \E c \in calls' : c.by = r /\ c.id = Target(r)'
    <3>1. SUFFICES ASSUME Execute(r) PROVE \E c \in calls' : c.by = r /\ c.id = Target(r)'
      BY <1>4 DEF GoesOn
    <3>2. KeepsTarget(r)
      BY <1>1, <3>1, KeepsTargetStep DEF Execute
    <3> DEFINE c == [by |-> r, id |-> Target(r), receipt |-> receipt[r]]
    <3>3. c \in calls' /\ c.by = r /\ c.id = Target(r)
      BY <3>1 DEF Execute
    <3> QED
      BY <3>2, <3>3 DEF KeepsTarget
  <2>3. answer'[r] = None
    BY <1>2, <1>4 DEF GoesOn
  <2> QED
    BY <1>3, <2>1, <2>2, <2>3, NoneAssumption DEF Accounts, Answers, Statuses, Frozen, Concluded
<1>5. ASSUME NEW a \in Answers, Told(r, a) PROVE Accounts(r)'
  <2>1. pc'[r] = "done" /\ answer'[r] = a /\ UNCHANGED <<calls, receipt>>
    BY <1>1, <1>5 DEF Told, Reply, Goto, TypeOK
  <2>2. receipt[r] # None =>
          receipt[r].enforcement = Target(r)' /\ ledger'[receipt[r].approval] = receipt[r]
    <3> SUFFICES ASSUME receipt[r] # None
                 PROVE  receipt[r].enforcement = Target(r)' /\ ledger'[receipt[r].approval] = receipt[r]
      OBVIOUS
    <3>1. /\ pc[r] \notin {"idle", "evaluated"} /\ receipt[r].enforcement = Target(r)
          /\ ledger[receipt[r].approval] = receipt[r] /\ receipt[r].approval \in Approvals
      BY <1>1 DEF Accounts, TypeOK, Receipt
    <3> QED
      BY <1>1, <3>1, KeepsTargetStep DEF KeepsTarget, Keeps
  <2>3. a \in {"EXECUTED", "CONSUMPTION_FAILED"} =>
          /\ evaluation[r] \in Evaluations /\ evaluation'[r] = evaluation[r]
          /\ Target(r)' = Target(r)
          /\ a = "EXECUTED" => rows'[Target(r)].status = "EXECUTED"
          /\ a = "CONSUMPTION_FAILED" /\ ~AtomicAuthority => rows'[Target(r)].status = "APPROVAL_FAILED"
    <3> SUFFICES ASSUME a \in {"EXECUTED", "CONSUMPTION_FAILED"}
                 PROVE  /\ evaluation[r] \in Evaluations /\ evaluation'[r] = evaluation[r]
                        /\ Target(r)' = Target(r)
                        /\ a = "EXECUTED" => rows'[Target(r)].status = "EXECUTED"
                        /\ a = "CONSUMPTION_FAILED" /\ ~AtomicAuthority
                             => rows'[Target(r)].status = "APPROVAL_FAILED"
      OBVIOUS
    <3>1. pc[r] \in {"saved", "reading", "prepared", "claimed"} \cup Called
      BY <1>5 DEF Told
    <3>2. evaluation[r] \in Evaluations /\ KeepsTarget(r)
      BY <1>1, <3>1, WorkingRow, KeepsTargetStep DEF Called
    <3>3. rows[Target(r)].status # "CONSUMPTION_FAILED"
      BY <1>1, <3>2, TargetIsIdentity DEF TypeOK, Row, Statuses, Frozen, Concluded
    <3> QED
      BY <1>5, <3>2, <3>3 DEF Told, KeepsTarget
  <2> QED
    BY <2>1, <2>2, <2>3 DEF Accounts, Called
<1> QED
  BY <1>4, <1>5, AnswerKinds

(* Who called concludes, and is never told that it did not. *)
LEMMA CallersConcludeStep ==
  ASSUME IInv, CallersConclude, NEW r \in Requests, Step(r) \/ Abandon(r)
  PROVE  CallersConclude'
<1> SUFFICES ASSUME NEW c \in calls'
             PROVE  \/ pc'[c.by] \in Called
                    \/ /\ pc'[c.by] = "done"
                       /\ answer'[c.by] \in {"EXECUTED", "EXECUTION_FAILED", "ABANDONED"}
  BY DEF CallersConclude
<1>1. TypeOK /\ RequestsKnowThemselves /\ OwnersDispatch /\ pc[r] # "done"
  BY AnswerKinds DEF IInv
<1>2. CASE c \notin calls
  <2>1. Execute(r) /\ c.by = r
    BY <1>1, <1>2, StepKinds DEF StandsAside, WinsRow, ConcludesRow, ConsumeApproval, Execute
  <2> QED
    BY <1>1, <2>1 DEF TypeOK, Execute, Goto, Called
<1>3. CASE c \in calls /\ c.by # r
  <2>1. c.by \in Requests /\ pc'[c.by] = pc[c.by]
    BY <1>1, <1>3, StepKinds DEF TypeOK, LeavesOthers
  <2>2. answer'[c.by] = answer[c.by]
    BY <1>1, <1>3, <2>1, AnswerKinds DEF GoesOn, Told, Reply, TypeOK
  <2> QED
    BY <1>3, <2>1, <2>2 DEF CallersConclude
<1>4. CASE c \in calls /\ c.by = r
  <2>1. pc[r] \in Called /\ ~Execute(r)
    BY <1>1, <1>4 DEF CallersConclude, Execute, Called
  <2>2. PICK a \in Answers : Told(r, a)
    BY <2>1, AnswerKinds DEF GoesOn
  <2>3. pc'[r] = "done" /\ answer'[r] = a
    BY <1>1, <2>2 DEF Told, Reply, Goto, TypeOK
  <2>4. a \in {"EXECUTED", "EXECUTION_FAILED", "ABANDONED"}
    BY <2>1, <2>2 DEF Told, Called
  <2> QED
    BY <1>4, <2>3, <2>4
<1> QED
  BY <1>2, <1>3, <1>4

-----------------------------------------------------------------------------
(***************************************************************************)
(* The invariant and the theorems.                                         *)
(***************************************************************************)

LEMMA InitRecords == Init => RInv
<1> SUFFICES ASSUME Init PROVE RInv
  OBVIOUS
<1>1. HistoryCoversStatus /\ DispatchesPrepared /\ CallsRecorded /\ CallersConclude
  BY DEF Init, Absent, HistoryCoversStatus, DispatchesPrepared, CallsRecorded, CallersConclude
<1>2. ExecutedRowsWereCalled /\ RowReceiptsInLedger /\ ClaimCarriesReceipt
  BY DEF Init, Absent, ExecutedRowsWereCalled, RowReceiptsInLedger, ClaimCarriesReceipt
<1>3. RequestsAccount
  BY NoneAssumption
     DEF Init, RequestsAccount, Accounts, Called, Answers, Statuses, Frozen, Concluded
<1> QED
  BY <1>1, <1>2, <1>3 DEF RInv

LEMMA RequestRecords ==
  ASSUME IInv, RInv, NEW r \in Requests, Step(r) \/ Abandon(r)
  PROVE  RInv'
<1>1. HistoryCoversStatus' /\ DispatchesPrepared' /\ CallsRecorded'
  BY HistoriesStep, CallsRecordedStep DEF RInv
<1>2. ExecutedRowsWereCalled' /\ RowReceiptsInLedger'
  BY ExecutedRowsStep, RowReceiptsStep DEF RInv
<1>3. RequestsAccount' /\ CallersConclude'
  BY OthersAccount, AccountsStep, CallersConcludeStep DEF RInv, RequestsAccount
<1>4. AtomicAuthority => ClaimCarriesReceipt'
  BY ClaimCarriesReceiptStep DEF RInv
<1> QED
  BY <1>1, <1>2, <1>3, <1>4 DEF RInv

(* The clock changes nothing of what is on record. *)
LEMMA TickRecords ==
  ASSUME RInv, Tick \/ UNCHANGED vars
  PROVE  RInv'
<1>1. UNCHANGED <<rows, ledger, evidence, history, pc, evaluation, output, receipt, answer, calls>>
  BY DEF Tick, vars
<1>2. HistoryCoversStatus' /\ DispatchesPrepared' /\ CallsRecorded' /\ CallersConclude'
  BY <1>1 DEF RInv, HistoryCoversStatus, DispatchesPrepared, CallsRecorded, CallersConclude
<1>3. ExecutedRowsWereCalled' /\ RowReceiptsInLedger'
  BY <1>1 DEF RInv, ExecutedRowsWereCalled, RowReceiptsInLedger, NeedsApproval
<1>4. AtomicAuthority => ClaimCarriesReceipt'
  BY <1>1 DEF RInv, ClaimCarriesReceipt, NeedsApproval
<1>5. RequestsAccount'
  BY <1>1 DEF RInv, RequestsAccount, Accounts, Target, EnforcementId
<1> QED
  BY <1>2, <1>3, <1>4, <1>5 DEF RInv

(* What the theorems below rest on: every step leaves the events, receipts   *)
(* and answers it owes.                                                      *)
THEOREM RecordsHold == Spec => []RInv
<1>1. IInv /\ RInv /\ [Next]_vars => RInv'
  BY RequestRecords, TickRecords DEF Next, Finished
<1> QED
  BY <1>1, InitRecords, InvariantHolds, PTL DEF Spec

(* The port is only reached through the record: before a call, the evidence  *)
(* of the evaluation, the PREPARED event and then the DISPATCHED event are   *)
(* persisted.                                                                *)
THEOREM CallsAreRecordedFirst == Spec => []RecordedBeforeCall
<1>1. IInv /\ RInv => RecordedBeforeCall
  BY DEF IInv, TypeOK, RInv, CallsRecorded, DispatchesPrepared, RecordedBeforeCall
<1> QED
  BY <1>1, InvariantHolds, RecordsHold, PTL

(* What a client is told is true: an operation answered EXECUTED is recorded *)
(* with the identifier its provider returned, and a request answered with a  *)
(* refusal never reached the provider.                                       *)
THEOREM AnswersAreTruthful == Spec => []TruthfulAnswers
<1>1. ASSUME IInv, RInv, NEW r \in Requests
      PROVE  /\ answer[r] = "EXECUTED" =>
                  /\ rows[Target(r)].status = "EXECUTED"
                  /\ \E c \in calls : c.id = Target(r) /\ c.by = rows[Target(r)].provider
             /\ answer[r] \in {"VERIFICATION_FAILED", "CONSUMPTION_FAILED", "WAITING_APPROVAL",
                               "BLOCKED_DENY", "TRANSFORMATION_FAILED"}
                  => ~\E c \in calls : c.by = r
  <2>1. Accounts(r)
    BY <1>1 DEF RInv, RequestsAccount
  <2>2. answer[r] = "EXECUTED" => Target(r) \in Identity
    BY <1>1, <2>1, TargetIsIdentity DEF IInv, Accounts
  <2>3. ASSUME NEW c \in calls, c.by = r
        PROVE  answer[r] = None \/ answer[r] \in {"EXECUTED", "EXECUTION_FAILED", "ABANDONED"}
    BY <1>1, <2>1, <2>3 DEF RInv, CallersConclude, Accounts, Called
  <2> QED
    BY <1>1, <2>1, <2>2, <2>3, NoneAssumption
       DEF RInv, ExecutedRowsWereCalled, Accounts, Answers, Statuses, Frozen, Concluded
<1>2. IInv /\ RInv => TruthfulAnswers
  BY <1>1 DEF TruthfulAnswers
<1> QED
  BY <1>2, InvariantHolds, RecordsHold, PTL

(* The recorded lifecycle covers the present status of every row. *)
THEOREM HistoriesCoverStatuses == Spec => []HistoryCoversStatus
<1>1. RInv => HistoryCoversStatus
  BY DEF RInv
<1> QED
  BY <1>1, RecordsHold, PTL

(* The receipt a row shows is the ledger's, and an operation that required   *)
(* approval is never concluded by execution without one.                     *)
THEOREM RowsShowReceipts == Spec => []RowReceiptsInLedger
<1>1. RInv => RowReceiptsInLedger
  BY DEF RInv
<1> QED
  BY <1>1, RecordsHold, PTL

(* With PostgreSQL a consumed approval and the claim it pays for commit      *)
(* together: no dispatched row is without its receipt.                       *)
THEOREM ClaimsCarryReceipts ==
  ASSUME AtomicAuthority
  PROVE  Spec => []ClaimCarriesReceipt
<1>1. RInv => ClaimCarriesReceipt
  BY DEF RInv
<1> QED
  BY <1>1, RecordsHold, PTL

(* With SQLite a grant that verified and then could not be consumed leaves   *)
(* its row APPROVAL_FAILED for good, as docs/API_CONTRACT.md says.           *)
THEOREM FailedConsumptionsAreTerminal ==
  ASSUME ~AtomicAuthority
  PROVE  Spec => []ConsumptionFailureIsTerminal
<1>1. RInv => ConsumptionFailureIsTerminal
  BY DEF RInv, RequestsAccount, Accounts, ConsumptionFailureIsTerminal
<1> QED
  BY <1>1, RecordsHold, PTL

-----------------------------------------------------------------------------
(***************************************************************************)
(* EnforcementLifecycle implements AuthorizedEffect: the initial state and  *)
(* each kind of step, mapped.                                              *)
(***************************************************************************)

LEMMA InitMaps == Init => Gate!Init
<1> SUFFICES ASSUME Init PROVE Gate!Init
  OBVIOUS
<1>1. \A id \in Identity : ApprovalsSpentOn(id) = {} /\ rows[id] = Absent
  BY DEF Init, ApprovalsSpentOn
<1>2. AuthorisedRows = {} /\ SpentOn = [id \in Identity |-> None]
  BY <1>1 DEF AuthorisedRows, SpentOn, Absent, Frozen, Concluded
<1>3. {c.id : c \in calls} = {}
  BY DEF Init
<1>4. [id \in Identity |-> RowOutcome(rows[id].status)] = [id \in Identity |-> "open"]
  BY <1>1 DEF RowOutcome, Absent
<1> QED
  BY <1>2, <1>3, <1>4 DEF Gate!Init

(* While the ledger stands still, what was spent on a row does too. *)
LEMMA LedgerKeepsSpent ==
  ASSUME UNCHANGED ledger
  PROVE  SpentOn' = SpentOn /\ \A id \in Identity : ApprovalsSpentOn(id)' = ApprovalsSpentOn(id)
BY DEF SpentOn, ApprovalsSpentOn

(* A request that stands aside, or claims a gated row it has yet to pay for, is not seen. *)
LEMMA AsideMaps ==
  ASSUME IInv, NEW r \in Requests, StandsAside(r)
  PROVE  UNCHANGED Gate!vars
<1>1. \A id \in Identity : RowOutcome(rows'[id].status) = RowOutcome(rows[id].status)
  BY DEF StandsAside, RowOutcome, Frozen, Concluded
<1>2. SpentOn' = SpentOn /\ AuthorisedRows' = AuthorisedRows
  BY LedgerKeepsSpent DEF StandsAside, AuthorisedRows, GatedRows, NeedsApproval
<1>3. {c.id : c \in calls}' = {c.id : c \in calls}
  BY DEF StandsAside
<1> QED
  BY <1>1, <1>2, <1>3 DEF Gate!vars

(* The claim of an ungated row authorises it. *)
LEMMA FreeClaimMaps ==
  ASSUME IInv, NEW r \in Requests, WinsRow(r), Target(r) \in Identity, UNCHANGED ledger,
         Target(r) \notin GatedRows
  PROVE  Gate!AuthoriseFreely(Target(r))
<1> DEFINE id == Target(r)
<1>1. SpentOn' = SpentOn /\ \A i \in Identity : ApprovalsSpentOn(i)' = ApprovalsSpentOn(i)
  BY LedgerKeepsSpent
<1>2. \A i \in Identity : RowOutcome(rows'[i].status) = RowOutcome(rows[i].status)
  BY DEF WinsRow, RowOutcome
<1>3. id \notin AuthorisedRows /\ RowOutcome(rows[id].status) = "open"
  BY DEF WinsRow, AuthorisedRows, RowOutcome, Frozen, Concluded
<1>4. AuthorisedRows' = AuthorisedRows \cup {id}
  BY <1>1 DEF WinsRow, AuthorisedRows, GatedRows, NeedsApproval, Frozen
<1> QED
  BY <1>1, <1>2, <1>3, <1>4 DEF WinsRow, Gate!AuthoriseFreely

(* The claim of a gated row that is not paid for yet is not seen. *)
LEMMA GatedClaimMaps ==
  ASSUME IInv, NEW r \in Requests, WinsRow(r), Target(r) \in Identity, UNCHANGED ledger,
         Target(r) \in GatedRows
  PROVE  UNCHANGED Gate!vars
<1>1. SpentOn' = SpentOn /\ \A i \in Identity : ApprovalsSpentOn(i)' = ApprovalsSpentOn(i)
  BY LedgerKeepsSpent
<1>2. \A i \in Identity : RowOutcome(rows'[i].status) = RowOutcome(rows[i].status)
  BY DEF WinsRow, RowOutcome
<1>3. AuthorisedRows' = AuthorisedRows
  BY <1>1 DEF WinsRow, AuthorisedRows, GatedRows, NeedsApproval
<1> QED
  BY <1>1, <1>2, <1>3 DEF WinsRow, Gate!vars

(* The consumption of an approval authorises the row it is spent on. *)
LEMMA SpendingMaps ==
  ASSUME IInv, NEW r \in Requests, SpendsApproval(r), NeedsApproval(evaluation[r]),
         ConsumeApproval(r) \/ WinAtomicClaim(r), UNCHANGED calls,
         \A i \in Identity : rows[i].status # rows'[i].status =>
           i = Target(r) /\ rows[i].status = "PREPARED"
  PROVE  Gate!AuthoriseWith(Target(r), assertion[r])
<1> DEFINE id == Target(r)
           a  == assertion[r]
<1>1. evaluation[r] \in Evaluations /\ TypeOK /\ a \in Approvals
  BY GrantAssumption DEF IInv, SpendsApproval
<1>2. id \in Identity /\ id \in GatedRows /\ id \in CoveredRows[a]
  BY <1>1, SpentReceipt DEF GatedRows, CoveredRows, SpendsApproval
<1>3. ApprovalsSpentOn(id) = {}
  BY DEF IInv, ApprovalsWellSpent, WellSpent, ApprovalsSpentOn, ConsumeApproval, WinAtomicClaim,
         Effected
<1>4. \A i \in Identity :
        ApprovalsSpentOn(i)' = IF i = id THEN {a} ELSE ApprovalsSpentOn(i)
  <2>1. /\ ledger[a] = None /\ ledger'[a] # None /\ ledger'[a].enforcement = id
        /\ \A b \in Approvals \ {a} : ledger'[b] = ledger[b]
    BY <1>1, SpentReceipt, NoneAssumption
  <2> HIDE DEF id, a
  <2> QED
    BY <1>1, <1>3, <2>1 DEF ApprovalsSpentOn
<1>5. rows[id].status \in {"PREPARED", "DISPATCHED"} /\ rows'[id].status = "DISPATCHED"
  BY DEF IInv, SpendsApproval, ConsumeApproval, WinAtomicClaim, OwnersDispatch, Owning
<1>6. \A i \in Identity : RowOutcome(rows'[i].status) = RowOutcome(rows[i].status)
  BY <1>5 DEF RowOutcome
<1>7. id \notin AuthorisedRows /\ RowOutcome(rows[id].status) = "open"
  BY <1>2, <1>3, <1>5 DEF AuthorisedRows, RowOutcome
<1>11. \A i \in Identity : rows'[i].status \in Frozen <=> (rows[i].status \in Frozen \/ i = id)
  BY <1>5 DEF Frozen
<1>8. AuthorisedRows' = AuthorisedRows \cup {id}
  BY <1>2, <1>3, <1>4, <1>11 DEF AuthorisedRows, GatedRows, NeedsApproval
<1>9. SpentOn' = [SpentOn EXCEPT ![id] = a]
  <2> DEFINE Pick(S) == IF S = {} THEN None ELSE CHOOSE b \in S : TRUE
  <2>1. /\ SpentOn  = [i \in Identity |-> Pick(ApprovalsSpentOn(i))]
        /\ SpentOn' = [i \in Identity |-> Pick(ApprovalsSpentOn(i)')]
    BY DEF SpentOn
  <2>2. Pick({a}) = a
    OBVIOUS
  <2> HIDE DEF Pick, id, a
  <2>3. \A i \in Identity : Pick(ApprovalsSpentOn(i)') =
                             IF i = id THEN a ELSE Pick(ApprovalsSpentOn(i))
    BY <1>4, <2>2
  <2> QED
    BY <1>2, <2>1, <2>3
<1>10. \A i \in Identity : SpentOn[i] # a
  BY <1>1, SpentReceipt, NoneAssumption DEF SpentOn, ApprovalsSpentOn
<1> QED
  BY <1>2, <1>6, <1>7, <1>8, <1>9, <1>10 DEF Gate!AuthoriseWith

(* The call of the port attempts the authorised effect, for the first time. *)
LEMMA ExecuteMaps ==
  ASSUME IInv, NEW r \in Requests, Execute(r)
  PROVE  \E j \in Identity : Gate!Attempt(j)
<1> DEFINE id == Target(r)
<1>1. /\ id \in Identity /\ id.evaluation = evaluation[r] /\ rows[id].status = "DISPATCHED"
      /\ UNCHANGED <<rows, ledger>>
  BY WorkingRow, TargetIsIdentity DEF IInv, Execute, OwnersDispatch, Owning
<1>2. id \in AuthorisedRows
  BY <1>1, NoneAssumption
     DEF IInv, Execute, AuthorisedRows, GatedRows, ApprovalsSpentOn, OwnersHoldReceipts,
         Owning, Frozen, Receipt
<1>3. id \notin {c.id : c \in calls}
  BY DEF IInv, Execute, CallsByOwner, Owns, Owning, Called
<1> DEFINE call == [by |-> r, id |-> id, receipt |-> receipt[r]]
<1>4. {c.id : c \in calls}' = {c.id : c \in calls} \cup {id}
  <2>1. calls' = calls \cup {call} /\ call.id = id
    BY DEF Execute
  <2> HIDE DEF call, id
  <2> QED
    BY <2>1
<1>5. SpentOn' = SpentOn /\ AuthorisedRows' = AuthorisedRows
  BY <1>1, LedgerKeepsSpent DEF AuthorisedRows, GatedRows, NeedsApproval
<1>6. RowOutcome(rows[id].status) = "open"
  BY <1>1 DEF RowOutcome
<1> QED
  BY <1>1, <1>2, <1>3, <1>4, <1>5, <1>6 DEF Gate!Attempt

(* The conclusion of a called row concludes the effect. *)
LEMMA SaveMaps ==
  ASSUME IInv, RInv, NEW r \in Requests, SaveExecuted(r) \/ SaveExecutionFailed(r)
  PROVE  Gate!Conclude(Target(r))
<1> DEFINE id == Target(r)
<1>1. id \in Identity /\ ConcludesRow(r) /\ rows[id].status = "DISPATCHED"
  BY WorkingRow, ConcludesRowStep
     DEF IInv, SaveExecuted, SaveExecutionFailed, OwnersDispatch, Owning
<1>2. pc[r] \in Called /\ rows'[id].status \in {"EXECUTED", "EXECUTION_FAILED"}
  BY <1>1 DEF SaveExecuted, SaveExecutionFailed, Called, ConcludesRow, Effected, Concluded
<1>3. id \in {c.id : c \in calls}
  BY <1>2 DEF RInv, RequestsAccount, Accounts
<1>4. /\ RowOutcome(rows[id].status) = "open"
      /\ RowOutcome(rows'[id].status) \in {"succeeded", "failed"}
      /\ \A i \in Identity \ {id} : rows'[i] = rows[i]
      /\ UNCHANGED <<ledger, calls>>
  BY <1>1, <1>2 DEF RowOutcome, ConcludesRow
<1>5. SpentOn' = SpentOn /\ AuthorisedRows' = AuthorisedRows
  BY <1>1, <1>2, <1>4, LedgerKeepsSpent DEF AuthorisedRows, GatedRows, NeedsApproval, Frozen, Concluded
<1> QED
  BY <1>1, <1>3, <1>4, <1>5 DEF Gate!Conclude

(* A refused consumption refuses the effect, which nothing authorised. *)
LEMMA FailConsumptionMaps ==
  ASSUME IInv, NEW r \in Requests, FailConsumption(r)
  PROVE  Gate!Refuse(Target(r))
<1> DEFINE id == Target(r)
<1>1. /\ id \in Identity /\ id.evaluation = evaluation[r]
      /\ ConcludesRow(r) /\ rows[id].status = "DISPATCHED"
  BY WorkingRow, TargetIsIdentity, ConcludesRowStep
     DEF IInv, FailConsumption, OwnersDispatch, Owning
<1>2. rows'[id].status = "APPROVAL_FAILED"
  BY <1>1, UpsertConcludes, NewRowType
     DEF IInv, FailConsumption, Concluded, Frozen, Statuses
<1>3. id \in GatedRows /\ ApprovalsSpentOn(id) = {}
  BY <1>1 DEF IInv, FailConsumption, RequestsKnowThemselves, KnowsItself, GatedRows,
              ApprovalsWellSpent, WellSpent, ApprovalsSpentOn
<1>4. /\ RowOutcome(rows[id].status) = "open" /\ RowOutcome(rows'[id].status) = "refused"
      /\ \A i \in Identity \ {id} : rows'[i] = rows[i]
      /\ UNCHANGED <<ledger, calls>>
  BY <1>1, <1>2 DEF RowOutcome, ConcludesRow
<1>5. SpentOn' = SpentOn /\ AuthorisedRows' = AuthorisedRows
  BY <1>3, <1>4, LedgerKeepsSpent DEF AuthorisedRows, GatedRows, NeedsApproval
<1> QED
  BY <1>1, <1>3, <1>4, <1>5 DEF Gate!Refuse, AuthorisedRows

LEMMA StepMaps ==
  ASSUME IInv, RInv, NEW r \in Requests, Step(r) \/ Abandon(r)
  PROVE  Gate!Next \/ UNCHANGED Gate!vars
<1>1. CASE StandsAside(r)
  BY <1>1, AsideMaps
<1>2. CASE WinClaim(r)
  <2>1. WinsRow(r) /\ Target(r) \in Identity /\ UNCHANGED ledger
    BY <1>2, WinsRowStep, WorkingRow DEF IInv, WinClaim
  <2> QED
    BY <2>1, FreeClaimMaps, GatedClaimMaps DEF Gate!Next
<1>3. CASE ConsumeApproval(r) \/ WinAtomicClaim(r)
  <2>1. /\ SpendsApproval(r) /\ NeedsApproval(evaluation[r]) /\ UNCHANGED calls
        /\ Target(r) \in Identity /\ assertion[r] \in Approvals
    BY <1>3, SpendsApprovalStep, WorkingRow
       DEF IInv, ConsumeApproval, WinAtomicClaim, ClaimsAtomically, SpendsApproval,
           RequestsKnowThemselves, KnowsItself
  <2>2. \A i \in Identity : rows[i].status # rows'[i].status =>
          i = Target(r) /\ rows[i].status = "PREPARED"
    BY <1>3, WinsRowStep DEF IInv, ConsumeApproval, WinsRow
  <2> QED
    BY <1>3, <2>1, <2>2, SpendingMaps DEF Gate!Next
<1>4. CASE Execute(r)
  BY <1>4, ExecuteMaps DEF Gate!Next
<1>5. CASE SaveExecuted(r) \/ SaveExecutionFailed(r)
  BY <1>5, SaveMaps, WorkingRow DEF Gate!Next, IInv, SaveExecuted, SaveExecutionFailed
<1>6. CASE FailConsumption(r)
  BY <1>6, FailConsumptionMaps, WorkingRow DEF Gate!Next, IInv, FailConsumption
<1> QED
  BY <1>1, <1>2, <1>3, <1>4, <1>5, <1>6, StandsAsideStep DEF IInv

(* Every behaviour of the requests, with every race, abandonment, expiry and *)
(* replay, is a behaviour of AuthorizedEffect: one authorisation and one     *)
(* attempt for each effect, one effect for each approval.                    *)
THEOREM EnforcementImplementsAuthorizedEffect == Spec => ImplementsAuthorizedEffect
<1>1. IInv /\ RInv /\ [Next]_vars => [Gate!Next]_(Gate!vars)
  <2> SUFFICES ASSUME IInv, RInv, [Next]_vars PROVE Gate!Next \/ UNCHANGED Gate!vars
    OBVIOUS
  <2>1. CASE \E r \in Requests : Step(r) \/ Abandon(r)
    BY <2>1, StepMaps
  <2>2. CASE Tick \/ UNCHANGED vars
    <3>1. UNCHANGED <<rows, ledger, calls>>
      BY <2>2 DEF Tick, vars
    <3>2. AuthorisedRows' = AuthorisedRows /\ SpentOn' = SpentOn
      BY <3>1, LedgerKeepsSpent DEF AuthorisedRows, GatedRows, NeedsApproval
    <3>3. {c.id : c \in calls}' = {c.id : c \in calls}
      BY <3>1
    <3>4. \A id \in Identity : RowOutcome(rows'[id].status) = RowOutcome(rows[id].status)
      BY <3>1
    <3> QED
      BY <3>2, <3>3, <3>4 DEF Gate!vars
  <2> QED
    BY <2>1, <2>2 DEF Next, Finished
<1> QED
  BY <1>1, InitMaps, InvariantHolds, RecordsHold, PTL DEF Spec, ImplementsAuthorizedEffect, Gate!Spec
=============================================================================
