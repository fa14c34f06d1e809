-------------------------- MODULE EnforcementProofs --------------------------
(***************************************************************************)
(* Proofs about EnforcementLifecycle, for any number of requests, of       *)
(* evaluations, of outputs and of approvals, and for both databases.       *)
(***************************************************************************)
EXTENDS EnforcementInvariant, TLAPS

-----------------------------------------------------------------------------
(* The statements of the repository. *)

(* The row a request works on is one of the table's. *)
LEMMA TargetIsIdentity ==
  ASSUME TypeOK, NEW r \in Requests, evaluation[r] \in Evaluations
  PROVE  /\ Target(r) \in Identity
         /\ Target(r).evaluation = evaluation[r]
         /\ Target(r).family = "execution"
  BY DEF TypeOK, Target, EnforcementId, StatusFamily, ExecutionFamily, Identity

(* The triggers keep the history a sequence of statuses. *)
LEMMA EventsType ==
  ASSUME TypeOK, NEW id \in Identity, NEW status \in Statuses
  PROVE  Events(id, status) \in [Identity -> Seq(Statuses)]
<1>1. history[id] \in Seq(Statuses)
  BY DEF TypeOK
<1>2. Append(history[id], status) \in Seq(Statuses)
  BY <1>1
<1> QED
  BY <1>1, <1>2 DEF TypeOK, Events

(* An insertion or an update stores a row of the table. *)
LEMMA StoreType ==
  ASSUME TypeOK, NEW id \in Identity, NEW row \in Row, row.status \in Statuses, Store(id, row)
  PROVE  rows' \in [Identity -> Row] /\ history' \in [Identity -> Seq(Statuses)]
BY EventsType DEF TypeOK, Store

LEMMA UpsertType ==
  ASSUME TypeOK, NEW id \in Identity, NEW row \in Row, row.status \in Statuses, Upsert(id, row)
  PROVE  rows' \in [Identity -> Row] /\ history' \in [Identity -> Seq(Statuses)]
BY StoreType DEF TypeOK, Upsert

LEMMA NewRowType ==
  ASSUME NEW status \in Statuses
  PROVE  NewRow(status) \in Row /\ NewRow(status).status = status
         /\ NewRow(status).receipt = None
BY DEF NewRow, Absent, Row

(* What a consumption writes is a receipt for the row of the request. *)
LEMMA ReceiptType ==
  ASSUME TypeOK, NEW r \in Requests, evaluation[r] \in Evaluations, assertion[r] \in Approvals
  PROVE  ReceiptOf(r) \in Receipt
BY TargetIsIdentity DEF TypeOK, ReceiptOf, Receipt

LEMMA ConsumeType ==
  ASSUME TypeOK, NEW r \in Requests, ReceiptOf(r) \in Receipt, Consume(r)
  PROVE  /\ ledger'  \in [Approvals -> Receipt \cup {None}]
         /\ receipt' \in [Requests -> Receipt \cup {None}]
BY DEF TypeOK, Consume

LEMMA GotoType ==
  ASSUME TypeOK, NEW r \in Requests, NEW label \in Labels, Goto(r, label)
  PROVE  pc' \in [Requests -> Labels]
BY DEF TypeOK, Goto

LEMMA ReplyType ==
  ASSUME TypeOK, NEW r \in Requests, NEW a \in Answers, Reply(r, a)
  PROVE  pc' \in [Requests -> Labels] /\ answer' \in [Requests -> Answers \cup {None}]
BY DEF TypeOK, Reply, Goto, Labels

-----------------------------------------------------------------------------
(* Type correctness. *)

(* A request at work knows its evaluation, so its row is one of the table's. *)
LEMMA WorkingRow ==
  ASSUME TypeOK, RequestsKnowThemselves, NEW r \in Requests, pc[r] \notin {"idle", "done"}
  PROVE  evaluation[r] \in Evaluations /\ Target(r) \in Identity
BY TargetIsIdentity DEF RequestsKnowThemselves, KnowsItself

(* Every step of a request keeps every variable in its type. *)
LEMMA TypeStep ==
  ASSUME TypeOK, RequestsKnowThemselves, NEW r \in Requests, Step(r)
  PROVE  TypeOK'
<1> USE DEF Labels, Answers, Statuses, Frozen, Concluded
<1>1. CASE Evaluate(r)
  BY <1>1, GotoType DEF TypeOK, Evaluate
<1>2. CASE BlockDeny(r)
  <2>1. evaluation[r] \in Evaluations
    BY <1>2, WorkingRow DEF BlockDeny
  <2>2. EnforcementId(evaluation[r], None, "BLOCKED_DENY") \in Identity
    BY <2>1 DEF EnforcementId, StatusFamily, ExecutionFamily, Identity
  <2> QED
    BY <1>2, <2>2, NewRowType, UpsertType, ReplyType DEF TypeOK, BlockDeny
<1>3. CASE FailTransformation(r)
  <2>1. evaluation[r] \in Evaluations
    BY <1>3, WorkingRow DEF FailTransformation
  <2>2. EnforcementId(evaluation[r], None, "TRANSFORMATION_FAILED") \in Identity
    BY <2>1 DEF EnforcementId, StatusFamily, ExecutionFamily, Identity
  <2> QED
    BY <1>3, <2>2, NewRowType, UpsertType, ReplyType DEF TypeOK, FailTransformation
<1>4. CASE Transform(r)
  BY <1>4, GotoType DEF TypeOK, Transform
<1>5. CASE AwaitApproval(r)
  BY <1>5, WorkingRow, NewRowType, UpsertType, GotoType DEF TypeOK, AwaitApproval
<1>6. CASE RejectAssertion(r)
  BY <1>6, WorkingRow, NewRowType, UpsertType, ReplyType DEF TypeOK, RejectAssertion
<1>7. CASE AcceptAssertion(r)
  BY <1>7, GotoType DEF TypeOK, AcceptAssertion
<1>8. CASE SavePrepared(r)
  BY <1>8, WorkingRow, NewRowType, UpsertType, GotoType DEF TypeOK, SavePrepared
<1>9. CASE ReadPrepared(r)
  BY <1>9, GotoType, ReplyType DEF TypeOK, ReadPrepared
<1>10. CASE WinClaim(r)
  <2> DEFINE row == [rows[Target(r)] EXCEPT !.status = "DISPATCHED"]
  <2>1. row \in Row /\ row.status \in Statuses
    BY <1>10, WorkingRow DEF TypeOK, WinClaim, Row
  <2> HIDE DEF row
  <2>2. Store(Target(r), row)
    BY <1>10 DEF WinClaim, row
  <2> QED
    BY <1>10, <2>1, <2>2, WorkingRow, StoreType, GotoType DEF TypeOK, WinClaim
<1>11. CASE WinAtomicClaim(r)
  <2> DEFINE row == [rows[Target(r)] EXCEPT !.status = "DISPATCHED", !.receipt = ReceiptOf(r)]
  <2>1. ReceiptOf(r) \in Receipt
    BY <1>11, WorkingRow, ReceiptType
       DEF WinAtomicClaim, ClaimsAtomically, RequestsKnowThemselves, KnowsItself
  <2>2. row \in Row /\ row.status \in Statuses
    BY <1>11, <2>1, WorkingRow DEF TypeOK, WinAtomicClaim, Row
  <2> HIDE DEF row
  <2>3. Store(Target(r), row)
    BY <1>11 DEF WinAtomicClaim, row
  <2> QED
    BY <1>11, <2>1, <2>2, <2>3, WorkingRow, StoreType, ConsumeType, GotoType
       DEF TypeOK, WinAtomicClaim
<1>12. CASE FailAtomicClaim(r)
  BY <1>12, ReplyType DEF TypeOK, FailAtomicClaim
<1>13. CASE LoseClaim(r)
  BY <1>13, GotoType DEF TypeOK, LoseClaim
<1>14. CASE ReadBack(r)
  <2>1. rows[Target(r)].status \in Answers
    BY <1>14, WorkingRow DEF ReadBack, TypeOK, Row, RequestsKnowThemselves, KnowsItself
  <2> QED
    BY <1>14, <2>1, ReplyType DEF TypeOK, ReadBack
<1>15. CASE ConsumeApproval(r)
  <2>1. ReceiptOf(r) \in Receipt
    BY <1>15, WorkingRow, ReceiptType DEF ConsumeApproval, RequestsKnowThemselves, KnowsItself
  <2> QED
    BY <1>15, <2>1, ConsumeType, GotoType DEF TypeOK, ConsumeApproval
<1>16. CASE FailConsumption(r)
  BY <1>16, WorkingRow, NewRowType, UpsertType, ReplyType DEF TypeOK, FailConsumption
<1>17. CASE Execute(r)
  <2>1. [by |-> r, id |-> Target(r), receipt |-> receipt[r]]
          \in [by : Requests, id : Identity, receipt : Receipt \cup {None}]
    BY <1>17, WorkingRow DEF TypeOK, Execute
  <2> QED
    BY <1>17, <2>1, GotoType DEF TypeOK, Execute
<1>18. CASE SaveExecuted(r)
  <2>1. [status |-> "EXECUTED", receipt |-> receipt[r], provider |-> r] \in Row
    BY DEF TypeOK, Row
  <2> QED
    BY <1>18, <2>1, WorkingRow, UpsertType, ReplyType DEF TypeOK, SaveExecuted
<1>19. CASE SaveExecutionFailed(r)
  <2>1. [status |-> "EXECUTION_FAILED", receipt |-> receipt[r], provider |-> None] \in Row
    BY DEF TypeOK, Row
  <2> QED
    BY <1>19, <2>1, WorkingRow, UpsertType, ReplyType DEF TypeOK, SaveExecutionFailed
<1> QED
  BY <1>1, <1>2, <1>3, <1>4, <1>5, <1>6, <1>7, <1>8, <1>9, <1>10, <1>11, <1>12, <1>13,
     <1>14, <1>15, <1>16, <1>17, <1>18, <1>19 DEF Step

-----------------------------------------------------------------------------
(***************************************************************************)
(* What a step can and cannot touch.                                       *)
(***************************************************************************)

\* The other requests neither move nor change what they know.
LeavesOthers(r) ==
  \A s \in Requests \ {r} :
    /\ pc'[s] = pc[s] /\ receipt'[s] = receipt[s]
    /\ evaluation'[s] = evaluation[s] /\ assertion'[s] = assertion[s]
    /\ Target(s)' = Target(s)

\* A request that knows its row keeps it.
KeepsTarget(r) ==
  /\ evaluation'[r] = evaluation[r] /\ assertion'[r] = assertion[r]
  /\ Target(r)' = Target(r)

\* A step of a request that does not own a row once it is taken.
StandsAside(r) ==
  /\ pc'[r] \notin Owning
  /\ UNCHANGED <<ledger, calls>>
  /\ \A id \in Identity : IF rows[id].status \in Frozen
                            THEN rows'[id] = rows[id] ELSE rows'[id].status \notin Frozen

LEMMA LeavesOthersStep ==
  ASSUME TypeOK, NEW r \in Requests, Step(r) \/ Abandon(r)
  PROVE  LeavesOthers(r)
<1> USE DEF TypeOK, LeavesOthers, Target, EnforcementId, Goto, Reply, Consume
<1>1. CASE Evaluate(r) \/ BlockDeny(r) \/ FailTransformation(r) \/ Transform(r)
  BY <1>1 DEF Evaluate, BlockDeny, FailTransformation, Transform
<1>2. CASE AwaitApproval(r) \/ RejectAssertion(r) \/ AcceptAssertion(r)
  BY <1>2 DEF AwaitApproval, RejectAssertion, AcceptAssertion
<1>3. CASE SavePrepared(r) \/ ReadPrepared(r)
  BY <1>3 DEF SavePrepared, ReadPrepared
<1>4. CASE WinClaim(r) \/ WinAtomicClaim(r) \/ FailAtomicClaim(r) \/ LoseClaim(r) \/ ReadBack(r)
  BY <1>4 DEF WinClaim, WinAtomicClaim, FailAtomicClaim, LoseClaim, ReadBack
<1>5. CASE ConsumeApproval(r) \/ FailConsumption(r)
  BY <1>5 DEF ConsumeApproval, FailConsumption
<1>6. CASE Execute(r) \/ SaveExecuted(r) \/ SaveExecutionFailed(r) \/ Abandon(r)
  BY <1>6 DEF Execute, SaveExecuted, SaveExecutionFailed, Abandon
<1> QED
  BY <1>1, <1>2, <1>3, <1>4, <1>5, <1>6 DEF Step

LEMMA KeepsTargetStep ==
  ASSUME TypeOK, NEW r \in Requests, Step(r) \/ Abandon(r), pc[r] \notin {"idle", "evaluated"}
  PROVE  KeepsTarget(r)
<1> USE DEF TypeOK, KeepsTarget, Target, EnforcementId
<1>1. CASE AwaitApproval(r) \/ RejectAssertion(r) \/ AcceptAssertion(r)
  BY <1>1 DEF AwaitApproval, RejectAssertion, AcceptAssertion
<1>2. CASE SavePrepared(r) \/ ReadPrepared(r)
  BY <1>2 DEF SavePrepared, ReadPrepared
<1>3. CASE WinClaim(r) \/ WinAtomicClaim(r) \/ FailAtomicClaim(r) \/ LoseClaim(r) \/ ReadBack(r)
  BY <1>3 DEF WinClaim, WinAtomicClaim, FailAtomicClaim, LoseClaim, ReadBack
<1>4. CASE ConsumeApproval(r) \/ FailConsumption(r)
  BY <1>4 DEF ConsumeApproval, FailConsumption
<1>5. CASE Execute(r) \/ SaveExecuted(r) \/ SaveExecutionFailed(r) \/ Abandon(r)
  BY <1>5 DEF Execute, SaveExecuted, SaveExecutionFailed, Abandon
<1> QED
  BY <1>1, <1>2, <1>3, <1>4, <1>5
     DEF Step, Evaluate, BlockDeny, FailTransformation, Transform

(* The upsert of a row that is not frozen freezes none and leaves the frozen ones alone. *)
LEMMA UpsertSparesFrozen ==
  ASSUME TypeOK, NEW id \in Identity, NEW row, row.status \notin Frozen, Upsert(id, row)
  PROVE  \A i \in Identity : IF rows[i].status \in Frozen
                            THEN rows'[i] = rows[i] ELSE rows'[i].status \notin Frozen
BY DEF TypeOK, Upsert, MayReplace, Store, Frozen

(* The steps that claim no row, hold none and conclude none. *)
LEMMA StandsAsideStep ==
  ASSUME TypeOK, RequestsKnowThemselves, NEW r \in Requests, Step(r) \/ Abandon(r)
  PROVE  \/ StandsAside(r)
         \/ WinClaim(r) \/ WinAtomicClaim(r)
         \/ ConsumeApproval(r) \/ FailConsumption(r)
         \/ Execute(r) \/ SaveExecuted(r) \/ SaveExecutionFailed(r)
<1> USE DEF StandsAside, Owning, Concluded, Statuses, Frozen
<1>1. CASE Evaluate(r) \/ Transform(r) \/ AcceptAssertion(r) \/ ReadPrepared(r)
           \/ FailAtomicClaim(r) \/ LoseClaim(r) \/ ReadBack(r) \/ Abandon(r)
  BY <1>1 DEF TypeOK, Goto, Reply, Evaluate, Transform, AcceptAssertion, ReadPrepared,
              FailAtomicClaim, LoseClaim, ReadBack, Abandon
<1>2. CASE BlockDeny(r) \/ FailTransformation(r)
  <2>1. evaluation[r] \in Evaluations
    BY <1>2, WorkingRow DEF BlockDeny, FailTransformation
  <2>2. /\ EnforcementId(evaluation[r], None, "BLOCKED_DENY") \in Identity
        /\ EnforcementId(evaluation[r], None, "TRANSFORMATION_FAILED") \in Identity
    BY <2>1 DEF EnforcementId, StatusFamily, ExecutionFamily, Identity
  <2>3. pc'[r] \notin Owning /\ UNCHANGED <<ledger, calls>>
    BY <1>2 DEF TypeOK, Reply, Goto, BlockDeny, FailTransformation
  <2> QED
    BY <1>2, <2>2, <2>3, NewRowType, UpsertSparesFrozen DEF BlockDeny, FailTransformation
<1>3. CASE AwaitApproval(r) \/ RejectAssertion(r) \/ SavePrepared(r)
  <2>1. pc'[r] \notin Owning /\ UNCHANGED <<ledger, calls>>
    BY <1>3 DEF TypeOK, Reply, Goto, AwaitApproval, RejectAssertion, SavePrepared
  <2>2. Target(r) \in Identity
    BY <1>3, WorkingRow DEF AwaitApproval, RejectAssertion, SavePrepared
  <2> QED
    BY <1>3, <2>1, <2>2, NewRowType, UpsertSparesFrozen
       DEF AwaitApproval, RejectAssertion, SavePrepared
<1> QED
  BY <1>1, <1>2, <1>3 DEF Step

(***************************************************************************)
(* The row of a claim, from the step that wins it to the step that ends it.*)
(***************************************************************************)

\* The row moves from prepared to dispatched, in the hands of the request.
WinsRow(r) ==
  /\ pc[r] = "prepared" /\ pc'[r] \in {"claimed", "dispatched"}
  /\ pc'[r] = "claimed" => UNCHANGED ledger
  /\ rows[Target(r)].status = "PREPARED" /\ rows'[Target(r)].status = "DISPATCHED"
  /\ \A id \in Identity \ {Target(r)} : rows'[id] = rows[id]
  /\ UNCHANGED calls

\* The row moves from dispatched to a conclusion, and the request is answered.
ConcludesRow(r) ==
  /\ pc[r] \in {"claimed"} \cup Called /\ pc'[r] = "done"
  /\ rows'[Target(r)].status \in Concluded
  /\ pc[r] # "claimed" => rows'[Target(r)].status \in Effected
  /\ \A id \in Identity \ {Target(r)} : rows'[id] = rows[id]
  /\ UNCHANGED <<ledger, calls>>

LEMMA UpsertConcludes ==
  ASSUME TypeOK, NEW id \in Identity, NEW row, row.status \in Concluded,
         rows[id].status = "DISPATCHED", Upsert(id, row)
  PROVE  rows'[id] = row /\ \A i \in Identity \ {id} : rows'[i] = rows[i]
BY DEF TypeOK, Upsert, MayReplace, Store, Frozen, Concluded

LEMMA WinsRowStep ==
  ASSUME TypeOK, RequestsKnowThemselves, NEW r \in Requests, WinClaim(r) \/ WinAtomicClaim(r)
  PROVE  WinsRow(r)
<1>1. Target(r) \in Identity
  BY WorkingRow DEF WinClaim, WinAtomicClaim
<1>2. PICK row : row.status = "DISPATCHED" /\ rows' = [rows EXCEPT ![Target(r)] = row]
  <2>1. CASE WinClaim(r)
    BY <1>1, <2>1 DEF TypeOK, Row, WinClaim, Store
  <2>2. CASE WinAtomicClaim(r)
    BY <1>1, <2>2 DEF TypeOK, Row, WinAtomicClaim, Store
  <2> QED
    BY <2>1, <2>2
<1>3. pc[r] = "prepared" /\ rows[Target(r)].status = "PREPARED" /\ UNCHANGED calls
  BY DEF WinClaim, WinAtomicClaim
<1>4. pc'[r] \in {"claimed", "dispatched"} /\ (pc'[r] = "claimed" => UNCHANGED ledger)
  BY DEF TypeOK, WinClaim, WinAtomicClaim, Goto
<1> QED
  BY <1>1, <1>2, <1>3, <1>4 DEF TypeOK, WinsRow

LEMMA ConcludesRowStep ==
  ASSUME TypeOK, RequestsKnowThemselves, OwnersDispatch, NEW r \in Requests,
         FailConsumption(r) \/ SaveExecuted(r) \/ SaveExecutionFailed(r)
  PROVE  ConcludesRow(r)
<1> USE DEF Concluded, Frozen, Statuses
<1>1. Target(r) \in Identity
  BY WorkingRow DEF FailConsumption, SaveExecuted, SaveExecutionFailed
<1>2. rows[Target(r)].status = "DISPATCHED"
  BY DEF OwnersDispatch, Owning, FailConsumption, SaveExecuted, SaveExecutionFailed
<1>3. CASE FailConsumption(r)
  BY <1>1, <1>2, <1>3, UpsertConcludes, NewRowType
     DEF TypeOK, FailConsumption, ConcludesRow, Reply, Goto, Called, Effected
<1>4. CASE SaveExecuted(r)
  BY <1>1, <1>2, <1>4, UpsertConcludes
     DEF TypeOK, SaveExecuted, ConcludesRow, Reply, Goto, Called, Effected
<1>5. CASE SaveExecutionFailed(r)
  BY <1>1, <1>2, <1>5, UpsertConcludes
     DEF TypeOK, SaveExecutionFailed, ConcludesRow, Reply, Goto, Called, Effected
<1> QED
  BY <1>3, <1>4, <1>5

(* No step returns a row to absence, and a request that saved its row finds it. *)
LEMMA UpsertIsPresent ==
  ASSUME TypeOK, NEW id \in Identity, NEW row, row.status # "ABSENT", Upsert(id, row)
  PROVE  /\ rows'[id].status # "ABSENT"
         /\ \A i \in Identity : rows[i].status # "ABSENT" => rows'[i].status # "ABSENT"
BY DEF TypeOK, Upsert, MayReplace, Store, Frozen, Concluded

LEMMA PresentStays ==
  ASSUME TypeOK, RequestsKnowThemselves, OwnersDispatch,
         NEW r \in Requests, Step(r) \/ Abandon(r)
  PROVE  \A id \in Identity : rows[id].status # "ABSENT" => rows'[id].status # "ABSENT"
<1> USE DEF Statuses, Frozen, Concluded
<1>1. CASE UNCHANGED rows
  BY <1>1
<1>2. CASE BlockDeny(r) \/ FailTransformation(r)
  <2>1. evaluation[r] \in Evaluations
    BY <1>2, WorkingRow DEF BlockDeny, FailTransformation
  <2>2. /\ EnforcementId(evaluation[r], None, "BLOCKED_DENY") \in Identity
        /\ EnforcementId(evaluation[r], None, "TRANSFORMATION_FAILED") \in Identity
    BY <2>1 DEF EnforcementId, StatusFamily, ExecutionFamily, Identity
  <2> QED
    BY <1>2, <2>2, NewRowType, UpsertIsPresent DEF BlockDeny, FailTransformation
<1>3. CASE AwaitApproval(r) \/ RejectAssertion(r) \/ SavePrepared(r)
  <2>1. Target(r) \in Identity
    BY <1>3, WorkingRow DEF AwaitApproval, RejectAssertion, SavePrepared
  <2> QED
    BY <1>3, <2>1, NewRowType, UpsertIsPresent DEF AwaitApproval, RejectAssertion, SavePrepared
<1>4. CASE WinClaim(r) \/ WinAtomicClaim(r)
  BY <1>4, WinsRowStep DEF WinsRow
<1>5. CASE FailConsumption(r) \/ SaveExecuted(r) \/ SaveExecutionFailed(r)
  BY <1>5, ConcludesRowStep DEF ConcludesRow
<1> QED
  BY <1>1, <1>2, <1>3, <1>4, <1>5
     DEF Step, Evaluate, Transform, AcceptAssertion, ReadPrepared, FailAtomicClaim,
         LoseClaim, ReadBack, ConsumeApproval, Execute, Abandon

-----------------------------------------------------------------------------
(***************************************************************************)
(* Each conjunct of the inductive invariant is preserved.                  *)
(***************************************************************************)

LEMMA KnowsItselfStep ==
  ASSUME TypeOK, RequestsKnowThemselves, OwnersDispatch,
         NEW r \in Requests, Step(r) \/ Abandon(r)
  PROVE  RequestsKnowThemselves'
<1>1. ASSUME NEW s \in Requests \ {r} PROVE KnowsItself(s)'
  <2>1. pc[s] \in {"saved", "prepared", "reading"} => Target(s) \in Identity
    BY <1>1, WorkingRow
  <2> QED
    BY <1>1, <2>1, LeavesOthersStep, PresentStays
       DEF LeavesOthers, RequestsKnowThemselves, KnowsItself, NeedsApproval
<1>2. KnowsItself(r)'
  <2> USE DEF TypeOK, Goto, Reply, KnowsItself, NeedsApproval
  <2>1. CASE Evaluate(r)
    BY <2>1 DEF Evaluate
  <2>2. CASE pc'[r] = "done"
    BY <2>2
  <2>3. CASE Transform(r)
    BY <2>3, WorkingRow DEF Transform
  <2>4. CASE AwaitApproval(r) \/ SavePrepared(r)
    <3>1. evaluation[r] \in Evaluations /\ Target(r) \in Identity
      BY <2>4, WorkingRow DEF AwaitApproval, SavePrepared
    <3>2. rows'[Target(r)].status # "ABSENT"
      BY <2>4, <3>1, NewRowType, UpsertIsPresent
         DEF AwaitApproval, SavePrepared, Statuses, Frozen, Concluded
    <3> QED
      BY <2>4, <3>1, <3>2, KeepsTargetStep
         DEF AwaitApproval, SavePrepared, KeepsTarget, RequestsKnowThemselves, Step
  <2>5. CASE AcceptAssertion(r)
    BY <2>5, WorkingRow DEF AcceptAssertion, Verifies
  <2>6. CASE ReadPrepared(r) \/ LoseClaim(r)
    <3>1. KeepsTarget(r) /\ UNCHANGED rows
      BY <2>6, KeepsTargetStep DEF ReadPrepared, LoseClaim, Step
    <3> QED
      BY <2>6, <3>1 DEF ReadPrepared, LoseClaim, KeepsTarget, RequestsKnowThemselves
  <2>7. CASE WinClaim(r) \/ WinAtomicClaim(r)
    BY <2>7, WorkingRow DEF WinClaim, WinAtomicClaim, RequestsKnowThemselves
  <2>8. CASE ConsumeApproval(r) \/ Execute(r)
    BY <2>8, WorkingRow DEF ConsumeApproval, Execute
  <2> QED
    BY <2>1, <2>2, <2>3, <2>4, <2>5, <2>6, <2>7, <2>8
       DEF Step, BlockDeny, FailTransformation, RejectAssertion, FailAtomicClaim, ReadBack,
           FailConsumption, SaveExecuted, SaveExecutionFailed, Abandon
<1> QED
  BY <1>1, <1>2 DEF RequestsKnowThemselves

(* A step stands aside, or wins, pays for, uses or concludes a claim. *)
LEMMA StepKinds ==
  ASSUME TypeOK, RequestsKnowThemselves, OwnersDispatch,
         NEW r \in Requests, Step(r) \/ Abandon(r)
  PROVE  /\ LeavesOthers(r)
         /\ \/ StandsAside(r)
            \/ /\ KeepsTarget(r) /\ Target(r) \in Identity
               /\ WinsRow(r) \/ ConcludesRow(r) \/ ConsumeApproval(r) \/ Execute(r)
<1>1. LeavesOthers(r)
  BY LeavesOthersStep
<1>2. SUFFICES ASSUME ~StandsAside(r)
               PROVE  /\ KeepsTarget(r) /\ Target(r) \in Identity
                      /\ WinsRow(r) \/ ConcludesRow(r) \/ ConsumeApproval(r) \/ Execute(r)
  BY <1>1
<1>3. WinsRow(r) \/ ConcludesRow(r) \/ ConsumeApproval(r) \/ Execute(r)
  BY <1>2, StandsAsideStep, WinsRowStep, ConcludesRowStep
<1>4. pc[r] \in {"prepared"} \cup Owning
  BY <1>3 DEF WinsRow, ConcludesRow, ConsumeApproval, Execute, Owning, Called
<1> QED
  BY <1>3, <1>4, KeepsTargetStep, WorkingRow DEF Owning

LEMMA OwnersDispatchStep ==
  ASSUME TypeOK, RequestsKnowThemselves, OwnersDispatch, OneOwner,
         NEW r \in Requests, Step(r) \/ Abandon(r)
  PROVE  OwnersDispatch'
<1> SUFFICES ASSUME NEW s \in Requests, pc'[s] \in Owning
             PROVE  rows'[Target(s)'].status = "DISPATCHED"
  BY DEF OwnersDispatch
<1>1. CASE s # r
  <2>1. pc[s] \in Owning /\ Target(s)' = Target(s)
    BY <1>1, StepKinds DEF LeavesOthers
  <2>2. Target(s) \in Identity /\ rows[Target(s)].status = "DISPATCHED"
    BY <2>1, WorkingRow DEF OwnersDispatch, Owning
  <2>3. pc[r] \in Owning => Target(r) # Target(s)
    BY <1>1, <2>1 DEF OneOwner, Owns
  <2>4. rows'[Target(s)] = rows[Target(s)]
    BY <2>2, <2>3, StepKinds
       DEF StandsAside, WinsRow, ConcludesRow, ConsumeApproval, Execute, Owning, Called, Frozen
  <2> QED
    BY <2>1, <2>2, <2>4
<1>2. CASE s = r
  <2>1. Target(r)' = Target(r) /\ (WinsRow(r) \/ ConsumeApproval(r) \/ Execute(r))
    BY <1>2, StepKinds DEF StandsAside, ConcludesRow, KeepsTarget, Owning
  <2> QED
    BY <1>2, <2>1 DEF WinsRow, ConsumeApproval, Execute, OwnersDispatch, Owning
<1> QED
  BY <1>1, <1>2

LEMMA OneOwnerStep ==
  ASSUME TypeOK, RequestsKnowThemselves, OwnersDispatch, OneOwner,
         NEW r \in Requests, Step(r) \/ Abandon(r)
  PROVE  OneOwner'
<1>1. ASSUME NEW s \in Requests \ {r}, pc'[s] \in Owning, pc'[r] \in Owning
      PROVE  Target(s)' # Target(r)'
  <2>1. pc[s] \in Owning /\ Target(s)' = Target(s)
    BY <1>1, StepKinds DEF LeavesOthers
  <2>2. Target(r)' = Target(r) /\ (WinsRow(r) \/ pc[r] \in Owning)
    BY <1>1, StepKinds
       DEF StandsAside, ConcludesRow, KeepsTarget, ConsumeApproval, Execute, Owning
  <2> QED
    BY <1>1, <2>1, <2>2 DEF WinsRow, OneOwner, Owns, OwnersDispatch
<1>2. ASSUME NEW s \in Requests \ {r}, NEW t \in Requests \ {r},
             pc'[s] \in Owning, pc'[t] \in Owning, Target(s)' = Target(t)'
      PROVE  s = t
  BY <1>2, StepKinds DEF LeavesOthers, OneOwner, Owns
<1> QED
  BY <1>1, <1>2 DEF OneOwner, Owns

LEMMA CallsEffectedStep ==
  ASSUME TypeOK, RequestsKnowThemselves, OwnersDispatch, CallsEffected, CallsByOwner,
         NEW r \in Requests, Step(r) \/ Abandon(r)
  PROVE  CallsEffected'
<1> SUFFICES ASSUME NEW c \in calls' PROVE rows'[c.id].status \in Effected
  BY DEF CallsEffected
<1>1. CASE c \in calls
  <2>1. c.id \in Identity /\ rows[c.id].status \in Effected
    BY <1>1 DEF CallsEffected, TypeOK
  <2>2. pc[r] = "claimed" => Target(r) # c.id
    BY <1>1 DEF CallsByOwner, Owns, Owning, Called
  <2> QED
    BY <2>1, <2>2, StepKinds
       DEF StandsAside, WinsRow, ConcludesRow, ConsumeApproval, Execute, Effected, Frozen,
           Concluded
<1>2. CASE c \notin calls
  <2>1. Execute(r) /\ c.id = Target(r)
    BY <1>2, StepKinds DEF StandsAside, WinsRow, ConcludesRow, ConsumeApproval, Execute
  <2> QED
    BY <2>1 DEF Execute, OwnersDispatch, Owning, Effected
<1> QED
  BY <1>1, <1>2

LEMMA CallsByOwnerStep ==
  ASSUME TypeOK, RequestsKnowThemselves, OwnersDispatch, OneOwner, CallsEffected, CallsByOwner,
         NEW r \in Requests, Step(r) \/ Abandon(r)
  PROVE  CallsByOwner'
<1> SUFFICES ASSUME NEW c \in calls', NEW s \in Requests, Owns(s, c.id)'
             PROVE  c.by = s /\ pc'[s] \in Called
  BY DEF CallsByOwner
<1>1. CASE c \in calls /\ s # r
  BY <1>1, StepKinds DEF LeavesOthers, CallsByOwner, Owns
<1>2. CASE c \in calls /\ s = r
  <2>1. /\ Target(r) = c.id
        /\ WinsRow(r) \/ ConsumeApproval(r) \/ Execute(r)
    BY <1>2, StepKinds DEF StandsAside, ConcludesRow, KeepsTarget, Owns, Owning
  <2>2. ~WinsRow(r)
    BY <1>2, <2>1 DEF WinsRow, CallsEffected, Effected
  <2> QED
    BY <1>2, <2>1, <2>2 DEF ConsumeApproval, Execute, CallsByOwner, Owns, Owning, Called
<1>3. CASE c \notin calls
  <2>1. Execute(r) /\ c.id = Target(r) /\ c.by = r /\ Target(r)' = Target(r)
    BY <1>3, StepKinds
       DEF StandsAside, WinsRow, ConcludesRow, ConsumeApproval, Execute, KeepsTarget
  <2>2. pc[r] \in Owning /\ pc'[r] \in Called
    BY <2>1 DEF TypeOK, Execute, Goto, Owning, Called
  <2>3. s = r
    BY <2>1, <2>2, StepKinds DEF LeavesOthers, OneOwner, Owns
  <2> QED
    BY <2>1, <2>2, <2>3
<1> QED
  BY <1>1, <1>2, <1>3

(* At most one call for an enforcement, whoever races, retries or crashes. *)
LEMMA SingleProviderCallStep ==
  ASSUME TypeOK, RequestsKnowThemselves, OwnersDispatch, CallsByOwner, SingleProviderCall,
         NEW r \in Requests, Step(r) \/ Abandon(r)
  PROVE  SingleProviderCall'
<1>1. CASE Execute(r)
  <2>1. \A c \in calls : c.id # Target(r)
    BY <1>1 DEF Execute, CallsByOwner, Owns, Owning, Called
  <2> QED
    BY <1>1, <2>1 DEF Execute, SingleProviderCall
<1>2. CASE UNCHANGED calls
  BY <1>2 DEF SingleProviderCall
<1> QED
  BY <1>1, <1>2, StepKinds DEF StandsAside, WinsRow, ConcludesRow, ConsumeApproval

-----------------------------------------------------------------------------
(***************************************************************************)
(* Approvals.                                                              *)
(***************************************************************************)

\* The approval a request holds is spent on its row, which is in its hands.
SpendsApproval(r) ==
  /\ Consume(r) /\ Consumable(assertion[r]) /\ UNCHANGED now
  /\ assertion[r] \in Approvals /\ GrantedFor[assertion[r]] = evaluation[r]
  /\ rows'[Target(r)].status = "DISPATCHED"
  /\ pc'[r] = "dispatched"
  /\ KeepsTarget(r) /\ LeavesOthers(r)

LEMMA SpendsApprovalStep ==
  ASSUME TypeOK, RequestsKnowThemselves, OwnersDispatch,
         NEW r \in Requests, Step(r) \/ Abandon(r)
  PROVE  IF ConsumeApproval(r) \/ WinAtomicClaim(r) THEN SpendsApproval(r) ELSE UNCHANGED ledger
<1>1. CASE ConsumeApproval(r)
  BY <1>1, StepKinds
     DEF TypeOK, ConsumeApproval, SpendsApproval, RequestsKnowThemselves, KnowsItself,
         OwnersDispatch, Owning, Goto, StandsAside
<1>2. CASE WinAtomicClaim(r)
  <2>1. WinsRow(r) /\ KeepsTarget(r) /\ LeavesOthers(r)
    BY <1>2, WinsRowStep, KeepsTargetStep, LeavesOthersStep DEF WinAtomicClaim, Step
  <2>2. assertion[r] \in Approvals /\ GrantedFor[assertion[r]] = evaluation[r]
    BY <1>2 DEF WinAtomicClaim, ClaimsAtomically, RequestsKnowThemselves, KnowsItself
  <2> QED
    BY <1>2, <2>1, <2>2 DEF TypeOK, WinAtomicClaim, WinsRow, SpendsApproval, Goto
<1> QED
  BY <1>1, <1>2, StandsAsideStep
     DEF StandsAside, WinClaim, FailConsumption, Execute, SaveExecuted, SaveExecutionFailed

(* What a consumption writes in the ledger was free, and is the receipt of the row. *)
LEMMA SpentReceipt ==
  ASSUME TypeOK, NEW r \in Requests, evaluation[r] \in Evaluations, SpendsApproval(r)
  PROVE  LET a == assertion[r] IN
         /\ ledger[a] = None /\ ledger'[a] = ReceiptOf(r) /\ receipt'[r] = ReceiptOf(r)
         /\ \A b \in Approvals \ {a} : ledger'[b] = ledger[b]
         /\ ReceiptOf(r) \in Receipt
         /\ ReceiptOf(r).approval = a /\ ReceiptOf(r).evaluation = GrantedFor[a]
         /\ ReceiptOf(r).enforcement = Target(r)
         /\ Target(r) \in Identity /\ Target(r).evaluation = GrantedFor[a]
         /\ IssuedAt[a] <= ReceiptOf(r).at /\ ReceiptOf(r).at < ExpiresAt[a]
<1>1. ReceiptOf(r) \in Receipt
  BY ReceiptType DEF SpendsApproval
<1>2. Target(r) \in Identity /\ Target(r).evaluation = evaluation[r]
  BY TargetIsIdentity
<1>3. /\ ledger'[assertion[r]] = ReceiptOf(r) /\ receipt'[r] = ReceiptOf(r)
      /\ \A b \in Approvals \ {assertion[r]} : ledger'[b] = ledger[b]
  BY DEF TypeOK, SpendsApproval, Consume
<1>4. /\ ledger[assertion[r]] = None
      /\ IssuedAt[assertion[r]] <= now /\ now < ExpiresAt[assertion[r]]
  BY DEF SpendsApproval, Consumable, InWindow
<1>5. /\ ReceiptOf(r).approval = assertion[r] /\ ReceiptOf(r).evaluation = evaluation[r]
      /\ ReceiptOf(r).enforcement = Target(r) /\ ReceiptOf(r).at = now
  BY DEF ReceiptOf
<1> QED
  BY <1>1, <1>2, <1>3, <1>4, <1>5 DEF SpendsApproval

LEMMA ApprovalsWellSpentStep ==
  ASSUME TypeOK, RequestsKnowThemselves, OwnersDispatch, OneOwner, ApprovalsWellSpent,
         NEW r \in Requests, Step(r) \/ Abandon(r)
  PROVE  ApprovalsWellSpent'
<1> SUFFICES ASSUME NEW a \in Approvals, ledger'[a] # None PROVE WellSpent(a)'
  BY DEF ApprovalsWellSpent
<1>1. CASE ledger'[a] = ledger[a]
  <2>1. WellSpent(a) /\ ledger[a] \in Receipt /\ ledger[a].enforcement \in Identity
    BY <1>1 DEF ApprovalsWellSpent, TypeOK, Receipt
  <2> DEFINE id == ledger[a].enforcement
  <2>2. rows'[id].status \in Effected
    BY <2>1, StepKinds
       DEF WellSpent, StandsAside, WinsRow, ConcludesRow, ConsumeApproval, Execute, Effected,
           Frozen, Concluded
  <2>3. ASSUME NEW s \in Requests, pc'[s] = "claimed", Target(s)' = id PROVE FALSE
    <3>1. CASE s # r
      BY <2>1, <2>3, <3>1, StepKinds DEF LeavesOthers, WellSpent
    <3>2. CASE s = r
      <4>1. WinsRow(r) /\ Target(r) = id
        BY <2>3, <3>2, StepKinds
           DEF TypeOK, StandsAside, ConcludesRow, ConsumeApproval, Execute, KeepsTarget, Owning,
               Goto
      <4> QED
        BY <2>1, <4>1 DEF WinsRow, WellSpent, Effected
    <3> QED
      BY <3>1, <3>2
  <2> QED
    BY <1>1, <2>1, <2>2, <2>3 DEF WellSpent
<1>2. CASE ledger'[a] # ledger[a]
  <2>1. SpendsApproval(r) /\ evaluation[r] \in Evaluations
    BY <1>2, SpendsApprovalStep, GrantAssumption DEF SpendsApproval
  <2>2. a = assertion[r]
    BY <1>2, <2>1, SpentReceipt
  <2>3. ASSUME NEW s \in Requests, pc'[s] = "claimed", Target(s)' = Target(r) PROVE FALSE
    <3>1. OneOwner'
      BY OneOwnerStep
    <3> QED
      BY <2>1, <2>3, <3>1 DEF SpendsApproval, KeepsTarget, OneOwner, Owns, Owning
  <2> QED
    BY <2>1, <2>2, <2>3, SpentReceipt DEF WellSpent, SpendsApproval, Effected
<1> QED
  BY <1>1, <1>2

LEMMA OwnersHoldReceiptsStep ==
  ASSUME TypeOK, RequestsKnowThemselves, OwnersDispatch, OwnersHoldReceipts,
         NEW r \in Requests, Step(r) \/ Abandon(r)
  PROVE  OwnersHoldReceipts'
<1> SUFFICES ASSUME NEW s \in Requests, pc'[s] \in Owning \ {"claimed"},
                    NeedsApproval(evaluation'[s])
             PROVE  /\ receipt'[s] \in Receipt
                    /\ ledger'[receipt'[s].approval] = receipt'[s]
                    /\ receipt'[s].enforcement = Target(s)'
  BY DEF OwnersHoldReceipts, NeedsApproval
<1>1. ASSUME NEW c \in Receipt, ledger[c.approval] = c PROVE ledger'[c.approval] = c
  <2>1. c.approval \in Approvals /\ c # None
    BY <1>1, NoneAssumption DEF Receipt
  <2> QED
    BY <1>1, <2>1, SpendsApprovalStep, SpentReceipt, GrantAssumption DEF SpendsApproval
<1>2. CASE s # r
  BY <1>1, <1>2, StepKinds DEF LeavesOthers, OwnersHoldReceipts
<1>3. CASE s = r /\ SpendsApproval(r)
  BY <1>3, SpentReceipt, GrantAssumption DEF SpendsApproval, KeepsTarget
<1>4. CASE s = r /\ ~SpendsApproval(r)
  <2>1. CASE WinClaim(r)
    BY <1>4, <2>1 DEF TypeOK, WinClaim, Goto
  <2>2. CASE Execute(r)
    BY <1>4, <2>2, StepKinds
       DEF Execute, KeepsTarget, StandsAside, WinsRow, ConcludesRow, OwnersHoldReceipts, Owning
  <2> QED
    BY <1>4, <2>1, <2>2, SpendsApprovalStep, StandsAsideStep, ConcludesRowStep
       DEF StandsAside, ConcludesRow, Owning
<1> QED
  BY <1>2, <1>3, <1>4

(* No call without its approval, whoever races, retries or crashes. *)
LEMMA AuthorizedCallsStep ==
  ASSUME TypeOK, RequestsKnowThemselves, OwnersDispatch, ApprovalsWellSpent,
         OwnersHoldReceipts, AuthorizedCalls,
         NEW r \in Requests, Step(r) \/ Abandon(r)
  PROVE  AuthorizedCalls'
<1> SUFFICES ASSUME NEW c \in calls', NeedsApproval(c.id.evaluation)
             PROVE  /\ c.receipt # None
                    /\ ledger'[c.receipt.approval] = c.receipt
                    /\ c.receipt.enforcement = c.id
                    /\ GrantedFor[c.receipt.approval] = c.id.evaluation
                    /\ IssuedAt[c.receipt.approval] <= c.receipt.at
                    /\ c.receipt.at < ExpiresAt[c.receipt.approval]
  BY DEF AuthorizedCalls, NeedsApproval
<1>1. CASE c \in calls
  <2>1. /\ c.receipt \in Receipt /\ c.receipt.approval \in Approvals
        /\ c.receipt # None /\ ledger[c.receipt.approval] = c.receipt
    BY <1>1 DEF AuthorizedCalls, TypeOK, Receipt
  <2>2. ledger'[c.receipt.approval] = c.receipt
    BY <2>1, SpendsApprovalStep, SpentReceipt, GrantAssumption DEF SpendsApproval
  <2> QED
    BY <1>1, <2>1, <2>2 DEF AuthorizedCalls
<1>2. CASE c \notin calls
  <2>1. /\ Execute(r) /\ UNCHANGED ledger /\ pc[r] = "dispatched"
        /\ c.id = Target(r) /\ c.receipt = receipt[r]
    BY <1>2, StepKinds DEF StandsAside, WinsRow, ConcludesRow, ConsumeApproval, Execute
  <2>2. evaluation[r] \in Evaluations /\ Target(r).evaluation = evaluation[r]
    BY <2>1, WorkingRow, TargetIsIdentity
  <2>3. /\ receipt[r] \in Receipt /\ receipt[r].approval \in Approvals
        /\ receipt[r] # None
        /\ ledger[receipt[r].approval] = receipt[r]
        /\ receipt[r].enforcement = Target(r)
    BY <2>1, <2>2, NoneAssumption DEF OwnersHoldReceipts, Owning, Receipt
  <2>4. WellSpent(receipt[r].approval)
    BY <2>3 DEF ApprovalsWellSpent
  <2> QED
    BY <2>1, <2>3, <2>4 DEF WellSpent
<1> QED
  BY <1>1, <1>2

-----------------------------------------------------------------------------
(***************************************************************************)
(* The inductive invariant and the theorems.                               *)
(***************************************************************************)

LEMMA InitInvariant == Init => IInv
<1> SUFFICES ASSUME Init PROVE IInv
  OBVIOUS
<1>1. TypeOK
  <2>1. Absent \in Row
    BY DEF Absent, Row
  <2>2. history \in [Identity -> Seq(Statuses)] /\ now \in Time
    BY TimeAssumption DEF Init, Time
  <2> QED
    BY <2>1, <2>2 DEF Init, TypeOK, Labels
<1>2. RequestsKnowThemselves
  BY DEF Init, RequestsKnowThemselves, KnowsItself
<1>3. OwnersDispatch /\ OneOwner /\ CallsByOwner /\ OwnersHoldReceipts
  BY DEF Init, OwnersDispatch, OneOwner, Owns, CallsByOwner, OwnersHoldReceipts, Owning
<1>4. CallsEffected /\ ApprovalsWellSpent /\ SingleProviderCall /\ AuthorizedCalls
  BY DEF Init, CallsEffected, ApprovalsWellSpent, SingleProviderCall, AuthorizedCalls
<1> QED
  BY <1>1, <1>2, <1>3, <1>4 DEF IInv

(* An abandoned request only answers, and the clock only advances. *)
LEMMA AbandonType ==
  ASSUME TypeOK, NEW r \in Requests, Abandon(r)
  PROVE  TypeOK'
BY ReplyType DEF TypeOK, Abandon, Answers

LEMMA TickInvariant ==
  ASSUME IInv, Tick
  PROVE  IInv'
<1>1. TypeOK'
  BY TimeAssumption DEF IInv, TypeOK, Tick, Time
<1>2. RequestsKnowThemselves' /\ OwnersDispatch' /\ OneOwner'
  BY DEF IInv, Tick, RequestsKnowThemselves, KnowsItself, OwnersDispatch, OneOwner, Owns,
         Target, EnforcementId, NeedsApproval
<1>3. CallsEffected' /\ CallsByOwner' /\ SingleProviderCall' /\ AuthorizedCalls'
  BY DEF IInv, Tick, CallsEffected, CallsByOwner, SingleProviderCall, AuthorizedCalls, Owns,
         Target, EnforcementId, NeedsApproval
<1>4. ApprovalsWellSpent' /\ OwnersHoldReceipts'
  BY DEF IInv, Tick, ApprovalsWellSpent, WellSpent, OwnersHoldReceipts, Target, EnforcementId,
         NeedsApproval
<1> QED
  BY <1>1, <1>2, <1>3, <1>4 DEF IInv

LEMMA StutterInvariant ==
  ASSUME IInv, UNCHANGED vars
  PROVE  IInv'
BY DEF IInv, vars, TypeOK, RequestsKnowThemselves, KnowsItself, OwnersDispatch, OneOwner, Owns,
       CallsEffected, CallsByOwner, ApprovalsWellSpent, WellSpent, OwnersHoldReceipts,
       SingleProviderCall, AuthorizedCalls, Target, EnforcementId, NeedsApproval

LEMMA NextInvariant == IInv /\ [Next]_vars => IInv'
<1> SUFFICES ASSUME IInv, [Next]_vars PROVE IInv'
  OBVIOUS
<1>1. ASSUME NEW r \in Requests, Step(r) \/ Abandon(r) PROVE IInv'
  BY <1>1, TypeStep, AbandonType, KnowsItselfStep, OwnersDispatchStep, OneOwnerStep,
     CallsEffectedStep, CallsByOwnerStep, SingleProviderCallStep, ApprovalsWellSpentStep,
     OwnersHoldReceiptsStep, AuthorizedCallsStep
     DEF IInv
<1>2. CASE Tick
  BY <1>2, TickInvariant
<1>3. CASE UNCHANGED vars
  BY <1>3, StutterInvariant
<1> QED
  BY <1>1, <1>2, <1>3 DEF Next, Finished

THEOREM InvariantHolds == Spec => []IInv
BY InitInvariant, NextInvariant, PTL DEF Spec

(* Every variable keeps its type. *)
THEOREM TypeCorrect == Spec => []TypeOK
<1>1. IInv => TypeOK
  BY DEF IInv
<1> QED
  BY <1>1, InvariantHolds, PTL

(* However requests for one operation are repeated, raced over replicas or   *)
(* abandoned, the execution port is called at most once for an enforcement.  *)
THEOREM AtMostOneCall == Spec => []SingleProviderCall
<1>1. IInv => SingleProviderCall
  BY DEF IInv
<1> QED
  BY <1>1, InvariantHolds, PTL

(* The port is called for a gated operation only with an approval that was   *)
(* granted for its decision and consumed for this enforcement in its window. *)
THEOREM OnlyAuthorizedCalls == Spec => []AuthorizedCalls
<1>1. IInv => AuthorizedCalls
  BY DEF IInv
<1> QED
  BY <1>1, InvariantHolds, PTL

(* An approval is never consumed for a row that is then left undispatched. *)
THEOREM ApprovalsBuyDispatches == Spec => []NoApprovalSpentInVain
<1>1. IInv => NoApprovalSpentInVain
  BY DEF IInv, ApprovalsWellSpent, WellSpent, NoApprovalSpentInVain, Effected
<1> QED
  BY <1>1, InvariantHolds, PTL

(* A dispatched row only concludes, and a concluded row never changes. *)
THEOREM DispatchesAreFinal == Spec => DispatchIsFinal
<1> DEFINE Final == \A id \in Identity :
                      /\ rows[id].status = "DISPATCHED" => rows'[id].status \in Frozen
                      /\ rows[id].status \in Concluded => rows'[id] = rows[id]
<1>1. ASSUME IInv, NEW r \in Requests, Step(r) \/ Abandon(r) PROVE Final
  <2>1. ConcludesRow(r) => rows[Target(r)].status = "DISPATCHED"
    BY <1>1 DEF IInv, ConcludesRow, OwnersDispatch, Owning, Called
  <2> QED
    BY <1>1, <2>1, StepKinds
       DEF IInv, StandsAside, WinsRow, ConcludesRow, ConsumeApproval, Execute, Frozen, Concluded
<1>2. IInv /\ [Next]_vars => [Final]_rows
  BY <1>1 DEF Next, Tick, Finished, vars
<1> QED
  BY <1>2, InvariantHolds, PTL DEF Spec, DispatchIsFinal
=============================================================================
