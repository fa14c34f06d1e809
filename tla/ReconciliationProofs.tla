------------------------- MODULE ReconciliationProofs -------------------------
(***************************************************************************)
(* Proofs about what follows the execution of a tool action: what clients  *)
(* and reconcilers are told, what is shown of a result, which order closes *)
(* an action, what the lifecycle triggers record, and that all of it       *)
(* implements AuthorizedEffect.  They rest on the invariant of             *)
(* ToolActionProofs.                                                       *)
(***************************************************************************)
EXTENDS ToolActionProofs, ToolActionRefinement

-----------------------------------------------------------------------------
(***************************************************************************)
(* The histories.                                                          *)
(***************************************************************************)

LEMMA RankType ==
  ASSUME NEW status \in Statuses \cup {"ABSENT"}
  PROVE  Rank(status) \in 0..5
BY DEF Rank, Statuses, Open, Judged, Closed

(* An action that advances to another status advances in rank. *)
LEMMA RankAdvances ==
  ASSUME NEW old, NEW new, Advances(old, new)
  PROVE  /\ old.status \in Statuses \cup {"ABSENT"} /\ new.status \in Statuses
         /\ new.status = old.status \/ Rank(old.status) < Rank(new.status)
BY DEF Advances, Rank, Statuses, Open, Judged, Closed

\* The history of an action that changes its status grows by the new status.
RecordsTransitions ==
  \A p \in Proposals :
    rows'[p].status # rows[p].status =>
      /\ Len(history'[p]) = Len(history[p]) + 1
      /\ history'[p][Len(history'[p])] = rows'[p].status

LEMMA WritesHistory ==
  ASSUME ActionTypeOK, RowsWellFormed, HistoriesBehind,
         NEW p \in Proposals, NEW row \in Row, Writes(p, row)
  PROVE  HistoriesBehind' /\ RecordsTransitions
<1>1. /\ rows'[p] = row /\ \A i \in Proposals \ {p} : rows'[i] = rows[i]
      /\ history \in [Proposals -> Seq(Statuses)] /\ history[p] \in Seq(Statuses)
      /\ history' = Events(p, row.status)
  BY WritesType DEF ActionTypeOK, Writes, Store
<1>2. /\ rows[p].status \in Statuses \cup {"ABSENT"} /\ row.status \in Statuses
      /\ row.status = rows[p].status \/ Rank(rows[p].status) < Rank(row.status)
  BY RankAdvances DEF Writes
<1>3. /\ \A i \in DOMAIN history[p] : /\ history[p][i] \in Statuses
                                      /\ Rank(history[p][i]) \in 0..5
                                      /\ Rank(history[p][i]) <= Rank(rows[p].status)
      /\ Rank(rows[p].status) \in 0..5 /\ Rank(row.status) \in 0..5
  BY <1>1, <1>2, RankType DEF HistoriesBehind
<1>4. CASE row.status = rows[p].status
  <2>1. UNCHANGED history /\ \A i \in Proposals : rows'[i].status = rows[i].status
    BY <1>1, <1>4 DEF Events
  <2>2. HistoriesBehind'
    BY <2>1 DEF HistoriesBehind, Rank
  <2> QED
    BY <2>1, <2>2 DEF RecordsTransitions
<1>5. CASE row.status # rows[p].status
  <2>1. ~\E i \in DOMAIN history[p] : history[p][i] = row.status
    BY <1>2, <1>3, <1>5
  <2>2. history' = [history EXCEPT ![p] = Append(@, row.status)]
    BY <1>1, <1>5, <2>1 DEF Events
  <2>3. /\ history'[p] = Append(history[p], row.status)
        /\ \A i \in Proposals \ {p} : history'[i] = history[i]
    BY <1>1, <2>2
  <2>4. \A i \in DOMAIN history'[p] : Rank(history'[p][i]) <= Rank(rows'[p].status)
    <3>1. ASSUME NEW i \in DOMAIN history'[p]
          PROVE  \/ i \in DOMAIN history[p] /\ history'[p][i] = history[p][i]
                 \/ history'[p][i] = row.status
      BY <1>1, <1>2, <2>3, <3>1
    <3> SUFFICES ASSUME NEW i \in DOMAIN history'[p] PROVE Rank(history'[p][i]) <= Rank(row.status)
      BY <1>1
    <3>2. CASE i \in DOMAIN history[p] /\ history'[p][i] = history[p][i]
      <4>1. Rank(history'[p][i]) = Rank(history[p][i])
        BY <3>2
      <4> QED
        BY <1>2, <1>3, <1>5, <3>2, <4>1
    <3>3. CASE history'[p][i] = row.status
      BY <1>3, <3>3
    <3> QED
      BY <3>1, <3>2, <3>3
  <2>5. HistoriesBehind'
    <3>1. \A i \in Proposals : \A k \in DOMAIN history'[i] :
            Rank(history'[i][k]) <= Rank(rows'[i].status)
      BY <1>1, <2>3, <2>4 DEF HistoriesBehind
    <3> QED
      BY <3>1 DEF HistoriesBehind, Rank
  <2>6. RecordsTransitions
    BY <1>1, <2>3 DEF RecordsTransitions
  <2> QED
    BY <2>5, <2>6
<1> QED
  BY <1>4, <1>5

-----------------------------------------------------------------------------
(***************************************************************************)
(* The steps of a request.                                                 *)
(***************************************************************************)

\* What is judged is not touched by a request.
SparesJudged ==
  \A p \in Proposals : rows[p].status \in Judged \cup Closed => rows'[p] = rows[p]

(* What ToolActionProofs knows of a step, from the invariant. *)
LEMMA RequestKinds ==
  ASSUME IInv, NEW r \in Requests, Step(r) \/ Abandon(r)
  PROVE  /\ ActionTypeOK /\ LeavesOthers(r) /\ RowsAdvance /\ SparesJudged
         /\ \/ StandsAside(r) /\ SparesClaimed
            \/ /\ HoldsItsRow(r)
               /\ WinsRow(r) \/ ConcludesRow(r) \/ ConsumeApproval(r) \/ Execute(r)
         /\ \A c \in calls : c \in calls'
         /\ pc[r] # "done" /\ (pc[r] # "idle" => KeepsBinding(r))
<1>1. ActionTypeOK
  BY DEF IInv, TypeOK
<1>2. /\ LeavesOthers(r) /\ RowsAdvance
      /\ \/ StandsAside(r) /\ SparesClaimed
         \/ /\ HoldsItsRow(r)
            /\ WinsRow(r) \/ ConcludesRow(r) \/ ConsumeApproval(r) \/ Execute(r)
  BY <1>1, StepKinds DEF IInv
<1>3. SparesJudged
  BY <1>2 DEF SparesJudged, SparesClaimed, Unclaimed, Open, Judged, Closed, HoldsItsRow, WinsRow,
              ConcludesRow, ConsumeApproval, Execute
<1>4. \A c \in calls : c \in calls'
  BY <1>1, CallsStep DEF IInv
<1>5. pc[r] # "done"
  BY DEF Step, Abandon, Bind, RefuseBinding, AnswerStored, RejectAssertion, Resume,
         AcceptAssertion, SavePrepared, ReadPrepared, WinClaim, WinAtomicClaim,
         ExpireAtomicClaim, RollBackAtomicClaim, RecordRefusal, LoseClaim, ReadBack,
         ConsumeApproval, FailConsumption, Execute, SaveExecuted, SaveRejected, SaveUncertain
<1> QED
  BY <1>1, <1>2, <1>3, <1>4, <1>5, KeepsBindingStep

LEMMA HistoriesStep ==
  ASSUME IInv, HistoriesBehind, NEW r \in Requests, Step(r) \/ Abandon(r)
  PROVE  HistoriesBehind' /\ RecordsTransitions
<1>1. CASE UNCHANGED <<rows, history>>
  BY <1>1 DEF HistoriesBehind, RecordsTransitions, Rank
<1> QED
  BY <1>1, StepWrites, WritesHistory DEF IInv, TypeOK

\* What a request is told: what it read, a refusal, or what it made of its own call.
Told(r, a) ==
  /\ Reply(r, a) /\ pc[r] # "done" /\ UNCHANGED <<calls, processed>>
  /\ \/ pc[r] \in {"bound", "saved", "reading"} /\ a = rows[Action(r)].status /\ UNCHANGED rows
     \/ pc[r] \notin Called /\ a \in {"CONFLICT", "VERIFICATION_FAILED", "CONSUMPTION_FAILED"}
     \/ a = "ABANDONED"
     \/ /\ pc[r] \in Called /\ ConcludesRow(r)
        /\ a \in {"EXECUTED", "RESULT_REJECTED", "RECONCILIATION_REQUIRED"}
        /\ a = "EXECUTED" => pc[r] = "executed"

\* A step that does not answer, and makes nothing of a result unless it calls.
GoesOn(r) ==
  /\ pc'[r] # "done" /\ UNCHANGED answer
  /\ ~Execute(r) => pc[r] \notin Called /\ pc'[r] \notin Called /\ UNCHANGED processed

LEMMA AnswerKinds ==
  ASSUME IInv, NEW r \in Requests, Step(r) \/ Abandon(r)
  PROVE  GoesOn(r) \/ \E a \in Answers : Told(r, a)
<1> USE DEF Told, GoesOn, Called, locals
<1>1. ActionTypeOK
  BY DEF IInv, TypeOK
<1>2. pc[r] \notin {"idle", "done"} => rows[Action(r)].status \in Answers
  BY <1>1, WorkingRow DEF IInv, Answers
<1>3. CASE AnswerStored(r) \/ ReadBack(r) \/ (ReadPrepared(r) /\ rows[Action(r)].status # "PREPARED")
  BY <1>2, <1>3 DEF AnswerStored, ReadBack, ReadPrepared
<1>4. CASE RefuseBinding(r) \/ RejectAssertion(r) \/ ExpireAtomicClaim(r) \/ RecordRefusal(r)
           \/ FailConsumption(r) \/ Abandon(r)
  BY <1>4 DEF RefuseBinding, RejectAssertion, ExpireAtomicClaim, RecordRefusal, FailConsumption,
              Abandon, Answers
<1>5. CASE SaveExecuted(r) \/ SaveRejected(r) \/ SaveUncertain(r)
  BY <1>1, <1>5, ConcludesRowStep
     DEF IInv, SaveExecuted, SaveRejected, SaveUncertain, Answers, Statuses, Judged
<1>6. CASE Bind(r) \/ Resume(r) \/ AcceptAssertion(r) \/ SavePrepared(r)
           \/ (ReadPrepared(r) /\ rows[Action(r)].status = "PREPARED")
  BY <1>1, <1>6 DEF ActionTypeOK, Goto, Bind, Resume, AcceptAssertion, SavePrepared, ReadPrepared
<1>7. CASE WinClaim(r) \/ WinAtomicClaim(r) \/ RollBackAtomicClaim(r) \/ LoseClaim(r)
           \/ ConsumeApproval(r)
  BY <1>1, <1>7 DEF ActionTypeOK, Goto, WinClaim, WinAtomicClaim, RollBackAtomicClaim, LoseClaim,
                    ConsumeApproval
<1>8. CASE Execute(r)
  BY <1>1, <1>8 DEF ActionTypeOK, Goto, Execute, Raise, Receive
<1> QED
  BY <1>3, <1>4, <1>5, <1>6, <1>7, <1>8 DEF Step

(* Every outcome is the outcome of a call. *)
LEMMA OutcomesStep ==
  ASSUME IInv, OutcomesWereCalled, AnswersStand, NEW r \in Requests, Step(r) \/ Abandon(r)
  PROVE  OutcomesWereCalled'
<1> SUFFICES ASSUME NEW p \in Proposals, rows'[p].status \in Effected \ {"DISPATCHED"}
             PROVE  \E c \in calls' : c.binding = rows'[p].binding
  BY DEF OutcomesWereCalled
<1>1. CASE rows'[p] = rows[p]
  BY <1>1, RequestKinds DEF OutcomesWereCalled
<1>2. CASE rows'[p] # rows[p]
  <2>1. ConcludesRow(r) /\ p = Action(r) /\ pc[r] \in Called /\ HoldsItsRow(r)
    BY <1>2, RequestKinds
       DEF SparesClaimed, Unclaimed, Open, Effected, Closed, HoldsItsRow, WinsRow, ConcludesRow,
           ConsumeApproval, Execute
  <2>2. PICK c \in calls : c.binding = binding[r]
    BY <2>1 DEF AnswersStand, AnswerStands, CalledItself
  <2>3. rows'[p].binding = rows[p].binding
    BY <2>1, RequestKinds, AdvancesKeepBinding DEF ConcludesRow
  <2> QED
    BY <2>1, <2>2, <2>3, RequestKinds DEF HoldsItsRow
<1> QED
  BY <1>1, <1>2

(* The answer of another request stands: its call is there, and its row is judged. *)
LEMMA OthersAnswersStand ==
  ASSUME IInv, AnswersStand, NEW r \in Requests, Step(r) \/ Abandon(r), NEW s \in Requests \ {r}
  PROVE  AnswerStands(s)'
<1>1. /\ pc'[s] = pc[s] /\ processed'[s] = processed[s] /\ binding'[s] = binding[s]
      /\ answer'[s] = answer[s] /\ Action(s)' = Action(s) /\ AnswerStands(s)
  BY RequestKinds DEF LeavesOthers, AnswersStand
<1>2. CalledItself(s) => CalledItself(s)'
  BY <1>1, RequestKinds DEF CalledItself
<1>3. answer[s] \in {"EXECUTED", "RESULT_REJECTED"} => rows'[Action(s)] = rows[Action(s)]
  BY <1>1, RequestKinds, ActionIsProposal DEF AnswerStands, SparesJudged, Judged
<1> QED
  BY <1>1, <1>2, <1>3 DEF AnswerStands, Shows

(* What a request is told is on record, and so is what it is shown. *)
LEMMA AnswersStandStep ==
  ASSUME IInv, AnswersStand, NEW r \in Requests, Step(r) \/ Abandon(r)
  PROVE  AnswersStand'
<1>1. ActionTypeOK /\ AnswerStands(r) /\ pc[r] # "done"
  BY RequestKinds DEF AnswersStand
<1>2. answer[r] = None
  BY <1>1 DEF AnswerStands
<1>3. CASE Execute(r)
  <2>1. /\ pc'[r] \in Called /\ KeepsBinding(r) /\ UNCHANGED answer
        /\ pc[r] = "dispatched"
    BY <1>1, <1>3, RequestKinds DEF ActionTypeOK, Execute, Raise, Receive, Goto, Called
  <2>2. CalledItself(r)'
    <3> DEFINE c == [by |-> r, binding |-> binding[r], receipt |-> receipt[r]]
    <3>1. c \in calls' /\ c.by = r /\ c.binding = binding'[r]
      BY <1>3, <2>1 DEF Execute, KeepsBinding
    <3> QED
      BY <3>1 DEF CalledItself
  <2>3. processed'[r] # None => pc'[r] = "executed"
    <3>1. processed[r] = None
      BY <1>1, <2>1 DEF AnswerStands
    <3> QED
      BY <1>1, <1>3, <3>1 DEF ActionTypeOK, Execute, Raise, Receive, Goto
  <2>4. AnswerStands(r)'
    BY <1>2, <2>1, <2>2, <2>3, NoneAssumption DEF AnswerStands, Shows, Answers, Statuses, Judged
  <2> QED
    BY <2>4, OthersAnswersStand DEF AnswersStand
<1>4. CASE GoesOn(r) /\ ~Execute(r)
  <2>1. processed'[r] = None
    BY <1>1, <1>4 DEF AnswerStands, GoesOn, Called
  <2>2. AnswerStands(r)'
    BY <1>2, <1>4, <2>1, NoneAssumption
       DEF GoesOn, AnswerStands, Shows, Answers, Statuses, Judged
  <2> QED
    BY <2>2, OthersAnswersStand DEF AnswersStand
<1>5. ASSUME NEW a \in Answers, Told(r, a) PROVE AnswersStand'
  <2>1. /\ pc'[r] = "done" /\ answer'[r] = a /\ UNCHANGED <<calls, processed>>
    BY <1>1, <1>5 DEF ActionTypeOK, Told, Reply, Goto
  <2>2. processed'[r] # None => pc[r] = "executed" /\ CalledItself(r)'
    <3>1. SUFFICES ASSUME processed[r] # None PROVE pc[r] = "executed" /\ CalledItself(r)'
      BY <2>1
    <3>2. pc[r] = "executed" /\ CalledItself(r) /\ KeepsBinding(r)
      BY <1>1, <3>1, RequestKinds DEF AnswerStands
    <3> QED
      BY <2>1, <3>2 DEF CalledItself, KeepsBinding
  <2>3. a \in {"EXECUTED", "RESULT_REJECTED"} =>
          binding'[r] \in Binding /\ rows'[Action(r)'].status = a
    <3>1. SUFFICES ASSUME a \in {"EXECUTED", "RESULT_REJECTED"}
                   PROVE  binding'[r] \in Binding /\ rows'[Action(r)'].status = a
      OBVIOUS
    <3>2. pc[r] \notin {"idle", "done"}
      BY <1>5, <3>1 DEF Told, Called
    <3>3. binding[r] \in Binding /\ KeepsBinding(r)
      BY <1>1, <3>2, RequestKinds, WorkingRow DEF IInv
    <3>4. rows'[Action(r)].status = a
      BY <1>5, <2>1, <3>1 DEF Told, ConcludesRow, Called
    <3> QED
      BY <3>3, <3>4 DEF KeepsBinding
  <2>4. Shows(r)' => rows'[Action(r)'].result = Metadata(processed'[r])
    <3>1. SUFFICES ASSUME a = "EXECUTED", processed'[r] # None
                   PROVE  rows'[Action(r)'].result = Metadata(processed'[r])
      BY <2>1 DEF Shows
    <3>2. ConcludesRow(r) /\ KeepsBinding(r) /\ pc[r] = "executed"
      BY <1>5, <2>2, <3>1, RequestKinds DEF Told, Called
    <3> QED
      BY <2>1, <3>1, <3>2 DEF ConcludesRow, KeepsBinding, Called
  <2>5. AnswerStands(r)'
    BY <2>1, <2>2, <2>3, <2>4 DEF AnswerStands, Called
  <2> QED
    BY <2>5, OthersAnswersStand DEF AnswersStand
<1> QED
  BY <1>3, <1>4, <1>5, AnswerKinds

(* Who called concludes, and is never told that it did not. *)
LEMMA CallersConcludeStep ==
  ASSUME IInv, CallersConclude, NEW r \in Requests, Step(r) \/ Abandon(r)
  PROVE  CallersConclude'
<1> SUFFICES ASSUME NEW c \in calls'
             PROVE  \/ pc'[c.by] \in Called
                    \/ /\ pc'[c.by] = "done"
                       /\ answer'[c.by] \in {"EXECUTED", "RESULT_REJECTED",
                                             "RECONCILIATION_REQUIRED", "ABANDONED"}
  BY DEF CallersConclude
<1>1. ActionTypeOK /\ pc[r] # "done"
  BY RequestKinds
<1>2. CASE c \notin calls
  <2>1. Execute(r) /\ c.by = r
    BY <1>1, <1>2, CallsStep DEF IInv
  <2> QED
    BY <1>1, <2>1 DEF ActionTypeOK, Execute, Raise, Receive, Goto, Called
<1>3. CASE c \in calls /\ c.by # r
  <2>1. c.by \in Requests
    BY <1>1, <1>3 DEF ActionTypeOK
  <2> QED
    BY <1>3, <2>1, RequestKinds DEF LeavesOthers, CallersConclude
<1>4. CASE c \in calls /\ c.by = r
  <2>1. pc[r] \in Called /\ ~Execute(r)
    BY <1>1, <1>4 DEF CallersConclude, Execute, Called
  <2>2. PICK a \in Answers : Told(r, a)
    BY <2>1, AnswerKinds DEF GoesOn
  <2>3. pc'[r] = "done" /\ answer'[r] = a
    BY <1>1, <2>2 DEF ActionTypeOK, Told, Reply, Goto
  <2> QED
    BY <1>4, <2>1, <2>2, <2>3 DEF Told, Called
<1> QED
  BY <1>2, <1>3, <1>4

(* Requests take nothing from the orders, or from the reconcilers. *)
LEMMA OrdersUntouched ==
  ASSUME IInv, OrdersWellSpent, ClosedRowsInLedger, OrdersAccepted,
         RowsAdvance, SparesJudged, UNCHANGED reconcilerVars
  PROVE  OrdersWellSpent' /\ ClosedRowsInLedger' /\ OrdersAccepted'
<1>1. /\ UNCHANGED <<orders, stage, target, order, ruling>>
      /\ TypeOK /\ ReconcilersLocated
  BY DEF reconcilerVars, IInv
<1>2. OrdersWellSpent'
  <2>1. ASSUME NEW j \in Orders, orders[j] # None PROVE OrderWellSpent(j)'
    <3>1. OrderWellSpent(j) /\ orders[j].action \in Proposals
      BY <1>1, <2>1 DEF OrdersWellSpent, TypeOK, Closing
    <3>2. rows'[orders[j].action] = rows[orders[j].action]
      BY <3>1 DEF OrderWellSpent, SparesJudged, Judged
    <3> QED
      BY <1>1, <3>1, <3>2 DEF OrderWellSpent
  <2> QED
    BY <1>1, <2>1 DEF OrdersWellSpent
<1>3. ClosedRowsInLedger'
  <2>1. \A p \in Proposals : rows'[p].status \in Closed => rows'[p] = rows[p]
    BY DEF RowsAdvance, Advances, SparesJudged, Open, Judged, Closed
  <2> QED
    BY <1>1, <2>1 DEF ClosedRowsInLedger, ClosedStatus
<1>4. OrdersAccepted'
  <2>1. ASSUME NEW q \in Reconcilers PROVE OrderAccepted(q)'
    <3>1. OrderAccepted(q) /\ LocatedItsAction(q)
      BY <1>1 DEF OrdersAccepted, ReconcilersLocated
    <3>2. ruling[q] \in Closed => rows'[target[q]] = rows[target[q]]
      BY <3>1 DEF OrderAccepted, SparesJudged
    <3>3. stage[q] \in {"authorized", "replaying", "consumed"} =>
            rows'[target[q]] = rows[target[q]]
      BY <3>1 DEF LocatedItsAction, SparesJudged, Judged
    <3> QED
      BY <1>1, <3>1, <3>2, <3>3 DEF OrderAccepted
  <2> QED
    BY <2>1 DEF OrdersAccepted
<1> QED
  BY <1>2, <1>3, <1>4

LEMMA RequestFollows ==
  ASSUME IInv, RInv, NEW r \in Requests, Step(r) \/ Abandon(r), UNCHANGED reconcilerVars
  PROVE  RInv'
<1>1. HistoriesBehind'
  BY HistoriesStep DEF RInv
<1>2. OrdersWellSpent' /\ ClosedRowsInLedger' /\ OrdersAccepted'
  BY RequestKinds, OrdersUntouched DEF RInv
<1>3. OutcomesWereCalled' /\ AnswersStand' /\ CallersConclude'
  BY OutcomesStep, AnswersStandStep, CallersConcludeStep DEF RInv
<1> QED
  BY <1>1, <1>2, <1>3 DEF RInv

-----------------------------------------------------------------------------
(***************************************************************************)
(* The steps of a reconciler.                                              *)
(***************************************************************************)

(* An order in the ledger that was signed for the binding of an action was   *)
(* spent on this action.                                                     *)
LEMMA SettlesItsAction ==
  ASSUME IInv, OrdersWellSpent, NEW p \in Proposals, NEW j \in Orders, orders[j] # None,
         Settles[j] = rows[p].binding, rows[p].status # "ABSENT"
  PROVE  orders[j].action = p /\ orders[j].order = j
<1>1. OrderWellSpent(j) /\ orders[j].action \in Proposals
  BY DEF OrdersWellSpent, IInv, TypeOK, Closing
<1>2. /\ rows[orders[j].action].binding.proposal = orders[j].action
      /\ rows[p].binding.proposal = p
  BY <1>1 DEF OrderWellSpent, IInv, RowsWellFormed, WellFormed, Closed
<1> QED
  BY <1>1, <1>2 DEF OrderWellSpent

\* An order is spent on an action that none was spent on.
SpendsOrder(q) ==
  /\ target[q] \in Proposals /\ order[q] \in Orders
  /\ Settles[order[q]] = rows[target[q]].binding
  /\ rows[target[q]].status = "RECONCILIATION_REQUIRED"
  /\ \A k \in Orders : orders[k] # None => orders[k].action # target[q]
  /\ orders[order[q]] = None /\ orders'[order[q]] = ClosingOf(q)
  /\ \A k \in Orders \ {order[q]} : orders'[k] = orders[k]

LEMMA SpendsOrderStep ==
  ASSUME IInv, RInv, NEW q \in Reconcilers, stage[q] = "authorized",
         ~TakenFor(target[q]), ConsumeOrder(q)
  PROVE  SpendsOrder(q)
<1>1. /\ TypeOK /\ target[q] \in Proposals /\ order[q] \in Orders
      /\ rows[target[q]].status \in {"RECONCILIATION_REQUIRED"} \cup Closed
      /\ Settles[order[q]] = rows[target[q]].binding
  BY DEF IInv, RInv, ReconcilersLocated, LocatedItsAction, OrdersAccepted, OrderAccepted
<1>2. \A k \in Orders : orders[k] # None => orders[k].action # target[q]
  BY DEF TakenFor
<1>3. orders[order[q]] = None
  BY <1>1, <1>2, SettlesItsAction DEF RInv, Closed
<1>4. rows[target[q]].status \notin Closed
  BY <1>1, <1>2, NoneAssumption DEF RInv, ClosedRowsInLedger, Closing
<1> QED
  BY <1>1, <1>2, <1>3, <1>4 DEF SpendsOrder, ConsumeOrder, TypeOK

\* What a step of a reconciler makes of the tables.
Reads(q)  == UNCHANGED <<actionVars, orders>>
Spends(q) == UNCHANGED actionVars /\ SpendsOrder(q) /\ ~AtomicAuthority
Saves(q)  == ClosesAction(q) /\ UNCHANGED orders /\ stage[q] = "consumed"
Commits(q) == ClosesAction(q) /\ SpendsOrder(q)

LEMMA RulingKinds ==
  ASSUME IInv, RInv, NEW q \in Reconcilers, Reconcile(q) \/ GiveUp(q)
  PROVE  Reads(q) \/ Spends(q) \/ Saves(q) \/ Commits(q)
<1> USE DEF Reads, Spends, Saves, Commits
<1>1. CASE TakeOrder(q)
  BY <1>1, SpendsOrderStep DEF TakeOrder
<1>2. CASE SaveClosed(q)
  BY <1>2, ReconcileKinds DEF SaveClosed
<1>3. CASE CloseAtomically(q)
  <2>1. SpendsOrder(q)
    BY <1>3, SpendsOrderStep DEF CloseAtomically
  <2>2. ClosesAction(q)
    <3>1. rows' # rows
      <4>1. /\ target[q] \in Proposals /\ rows \in [Proposals -> Row]
            /\ rows'[target[q]].status = ClosedStatus(order[q])
            /\ rows[target[q]].status = "RECONCILIATION_REQUIRED"
        BY <1>3, <2>1 DEF CloseAtomically, SpendsOrder, Store, ClosedRow, IInv, TypeOK,
                          ActionTypeOK, Row
      <4> QED
        BY <4>1 DEF ClosedStatus
    <3> QED
      BY <1>3, <3>1, ReconcileKinds DEF actionVars
  <2> QED
    BY <2>1, <2>2
<1>4. CASE ~(TakeOrder(q) \/ SaveClosed(q) \/ CloseAtomically(q))
  BY <1>4 DEF Reconcile, GiveUp, Locate, RejectOrder, AcceptOrder, Replay, RefuseOrder,
              CollideAtomically, ExpireAtomically
<1> QED
  BY <1>1, <1>2, <1>3, <1>4

\* The row a reconciler closes, and what it leaves alone.
Closes(p, j) ==
  /\ p \in Proposals /\ j \in Orders
  /\ rows[p].status = "RECONCILIATION_REQUIRED"
  /\ rows'[p].status \in Closed /\ rows'[p].status = ClosedStatus(j)
  /\ rows'[p].binding = rows[p].binding
  /\ rows'[p].closing = orders'[j] /\ orders'[j] \in Closing
  /\ \A i \in Proposals \ {p} : rows'[i] = rows[i]

LEMMA ClosesRow ==
  ASSUME IInv, NEW q \in Reconcilers, ClosesAction(q)
  PROVE  /\ Closes(target[q], order[q])
         /\ RowsAdvance /\ \E row \in Row : Writes(target[q], row)
         /\ UNCHANGED <<pc, binding, processed, answer, calls>>
<1>1. PICK closing \in Closing :
        LET row == ClosedRow(target[q], order[q], closing) IN
          /\ Writes(target[q], row) /\ row \in Row
          /\ row.status = ClosedStatus(order[q]) /\ row.status \in Closed
          /\ row.closing = closing
          /\ orders'[order[q]] = closing
  BY DEF ClosesAction
<1>2. /\ target[q] \in Proposals /\ order[q] \in Orders
      /\ rows[target[q]].status = "RECONCILIATION_REQUIRED"
      /\ ActionTypeOK /\ RowsWellFormed
  BY DEF ClosesAction, IInv, TypeOK
<1>3. /\ rows'[target[q]] = ClosedRow(target[q], order[q], closing)
      /\ \A i \in Proposals \ {target[q]} : rows'[i] = rows[i]
      /\ RowsAdvance
  BY <1>1, <1>2, WritesType DEF RowsAdvance
<1>4. rows'[target[q]].binding = rows[target[q]].binding
  BY <1>2, <1>3, AdvancesKeepBinding
<1> QED
  BY <1>1, <1>2, <1>3, <1>4 DEF Closes, ClosesAction, locals

(* No order is spent on an action that another was spent on. *)
LEMMA OrdersWellSpentStep ==
  ASSUME IInv, RInv, NEW q \in Reconcilers, Reconcile(q) \/ GiveUp(q)
  PROVE  OrdersWellSpent'
<1>1. \A k \in Orders : orders[k] # None => OrderWellSpent(k) /\ orders[k].action \in Proposals
  BY DEF RInv, OrdersWellSpent, IInv, TypeOK, Closing
<1>2. CASE Reads(q)
  BY <1>1, <1>2 DEF Reads, actionVars, OrdersWellSpent, OrderWellSpent
<1>3. ASSUME NEW p \in Proposals, NEW j \in Orders, p = target[q], j = order[q],
             SpendsOrder(q),
             \/ UNCHANGED rows /\ ~AtomicAuthority
             \/ Closes(p, j)
      PROVE  OrdersWellSpent'
  <2>1. /\ orders[j] = None
        /\ orders'[j] = ClosingOf(q) /\ orders'[j].order = j /\ orders'[j].action = p
        /\ \A k \in Orders \ {j} : orders'[k] = orders[k]
        /\ \A k \in Orders : orders[k] # None => orders[k].action # p
        /\ Settles[j] = rows[p].binding /\ rows[p].status = "RECONCILIATION_REQUIRED"
    BY <1>3 DEF SpendsOrder, ClosingOf
  <2>2. OrderWellSpent(j)'
    <3>1. \A k \in Orders : orders'[k] # None /\ orders'[k].action = p => k = j
      BY <2>1
    <3>2. CASE UNCHANGED rows /\ ~AtomicAuthority
      BY <2>1, <3>1, <3>2 DEF OrderWellSpent, Closed
    <3>3. CASE Closes(p, j)
      BY <2>1, <3>1, <3>3 DEF OrderWellSpent, Closes
    <3> QED
      BY <1>3, <3>2, <3>3
  <2>3. ASSUME NEW k \in Orders \ {j}, orders[k] # None PROVE OrderWellSpent(k)'
    <3>1. orders'[k] = orders[k] /\ orders[k].action \in Proposals \ {p} /\ OrderWellSpent(k)
      BY <1>1, <2>1, <2>3
    <3>2. rows'[orders[k].action] = rows[orders[k].action]
      BY <1>3, <3>1 DEF Closes
    <3>3. \A l \in Orders : orders'[l] # None /\ orders'[l].action = orders[k].action => l = k
      BY <2>1, <3>1 DEF OrderWellSpent
    <3> QED
      BY <3>1, <3>2, <3>3 DEF OrderWellSpent
  <2> QED
    BY <2>1, <2>2, <2>3 DEF OrdersWellSpent
<1>4. CASE Saves(q)
  <2>1. /\ Closes(target[q], order[q]) /\ UNCHANGED orders /\ stage[q] = "consumed"
    BY <1>4, ClosesRow DEF Saves
  <2>2. orders[order[q]] # None /\ orders[order[q]].action = target[q]
    BY <2>1, SettlesItsAction DEF RInv, OrdersAccepted, OrderAccepted, Closes
  <2>3. ASSUME NEW k \in Orders, orders[k] # None PROVE OrderWellSpent(k)'
    <3>1. OrderWellSpent(k) /\ orders[k].action \in Proposals
      BY <1>1, <2>3
    <3>2. orders[k].action = target[q] => k = order[q]
      BY <2>1, <2>2, <3>1 DEF OrderWellSpent, Closes
    <3> QED
      BY <2>1, <3>1, <3>2 DEF OrderWellSpent, Closes
  <2> QED
    BY <2>1, <2>3 DEF OrdersWellSpent
<1> QED
  BY <1>2, <1>3, <1>4, RulingKinds, ClosesRow DEF Spends, Commits, SpendsOrder, actionVars

(* An order in the ledger stays there, so a closed row shows one for good. *)
LEMMA ClosedRowsStep ==
  ASSUME IInv, RInv, NEW q \in Reconcilers, Reconcile(q) \/ GiveUp(q)
  PROVE  /\ ClosedRowsInLedger'
         /\ \A k \in Orders : orders[k] # None => orders'[k] = orders[k]
         /\ \A p \in Proposals : /\ rows[p].status \in Closed => rows'[p] = rows[p]
                                 /\ rows[p].status # "ABSENT" => rows'[p].binding = rows[p].binding
<1>1. \A k \in Orders : orders[k] # None => orders'[k] = orders[k]
  <2>1. CASE SpendsOrder(q)
    BY <2>1 DEF SpendsOrder
  <2> QED
    BY <2>1, RulingKinds DEF Reads, Spends, Saves, Commits
<1>2. CASE UNCHANGED rows
  BY <1>1, <1>2, NoneAssumption DEF RInv, ClosedRowsInLedger, Closing, ClosedStatus
<1>3. CASE Closes(target[q], order[q])
  <2>1. orders'[order[q]].order = order[q] /\ orders'[order[q]].action = target[q]
    <3>1. CASE SpendsOrder(q)
      BY <3>1 DEF SpendsOrder, ClosingOf
    <3>2. CASE Saves(q)
      <4>1. orders[order[q]] # None /\ Settles[order[q]] = rows[target[q]].binding /\ UNCHANGED orders
        BY <3>2 DEF Saves, RInv, OrdersAccepted, OrderAccepted
      <4> QED
        BY <1>3, <4>1, SettlesItsAction DEF RInv, Closes
    <3> QED
      BY <1>3, <3>1, <3>2, RulingKinds DEF Reads, Spends, Commits, Closes, actionVars, Closed
  <2>2. ASSUME NEW p \in Proposals, rows'[p].status \in Closed
        PROVE  /\ rows'[p].closing \in Closing /\ rows'[p].closing.action = p
               /\ orders'[rows'[p].closing.order] = rows'[p].closing
               /\ rows'[p].status = ClosedStatus(rows'[p].closing.order)
    <3>1. CASE p = target[q]
      BY <1>3, <2>1, <3>1 DEF Closes
    <3>2. CASE p # target[q]
      <4>1. /\ rows'[p] = rows[p] /\ rows[p].closing \in Closing
            /\ rows[p].closing.order \in Orders
            /\ orders[rows[p].closing.order] = rows[p].closing /\ rows[p].closing.action = p
            /\ rows[p].status = ClosedStatus(rows[p].closing.order)
        BY <1>3, <2>2, <3>2 DEF Closes, RInv, ClosedRowsInLedger, Closing
      <4> QED
        BY <1>1, <4>1, NoneAssumption
    <3> QED
      BY <3>1, <3>2
  <2>3. ClosedRowsInLedger'
    BY <2>2 DEF ClosedRowsInLedger, ClosedStatus
  <2> QED
    BY <1>1, <1>3, <2>3 DEF Closes, Closed
<1> QED
  BY <1>2, <1>3, RulingKinds, ClosesRow DEF Reads, Spends, Saves, Commits, actionVars

\* The other reconcilers neither move nor change what they know.
LeavesOtherReconcilers(q) ==
  \A s \in Reconcilers \ {q} :
    stage'[s] = stage[s] /\ target'[s] = target[s] /\ order'[s] = order[s] /\ ruling'[s] = ruling[s]

LEMMA LeavesOtherReconcilersStep ==
  ASSUME TypeOK, NEW q \in Reconcilers, Reconcile(q) \/ GiveUp(q)
  PROVE  LeavesOtherReconcilers(q)
<1> USE DEF TypeOK, LeavesOtherReconcilers, Enter, Rule
<1>1. CASE Locate(q) \/ RejectOrder(q) \/ AcceptOrder(q) \/ Replay(q)
  BY <1>1 DEF Locate, RejectOrder, AcceptOrder, Replay
<1>2. CASE TakeOrder(q) \/ RefuseOrder(q) \/ SaveClosed(q) \/ CloseAtomically(q)
  BY <1>2 DEF TakeOrder, RefuseOrder, SaveClosed, CloseAtomically
<1>3. CASE CollideAtomically(q) \/ ExpireAtomically(q) \/ GiveUp(q)
  BY <1>3 DEF CollideAtomically, ExpireAtomically, GiveUp
<1> QED
  BY <1>1, <1>2, <1>3 DEF Reconcile

(* A reconciler that is told an action is closed presented the order that did it. *)
LEMMA RulingHolds ==
  ASSUME IInv, RInv, NEW q \in Reconcilers, Reconcile(q) \/ GiveUp(q),
         stage[q] # "idle", ruling'[q] \in Closed
  PROVE  /\ stage'[q] = "done" /\ UNCHANGED <<target, order>> /\ target[q] \in Proposals
         /\ rows'[target[q]].status = ruling'[q] /\ rows'[target[q]].closing.order = order[q]
<1>1. /\ TypeOK /\ stage[q] \notin {"idle", "done"}
      /\ target[q] \in Proposals /\ order[q] \in Orders
      /\ rows[target[q]].status \in {"RECONCILIATION_REQUIRED"} \cup Closed
      /\ stage[q] \in {"closed", "replaying"} => rows[target[q]].status \in Closed
  <2>1. stage[q] # "done"
    BY DEF Reconcile, GiveUp, Locate, RejectOrder, AcceptOrder, Replay, TakeOrder, RefuseOrder,
           SaveClosed, CloseAtomically, CollideAtomically, ExpireAtomically
  <2> QED
    BY <2>1 DEF IInv, ReconcilersLocated, LocatedItsAction
<1>2. ruling[q] \notin Closed
  BY <1>1 DEF RInv, OrdersAccepted, OrderAccepted
<1>3. \A k \in Orders : orders[k] # None => orders[k].order = k
  BY DEF RInv, OrdersWellSpent, OrderWellSpent
<1>4. IInv'
  BY ReconcileInvariant
<1>5. ClosedRowsInLedger'
  BY ClosedRowsStep
<1>6. CASE Replay(q)
  <2>1. /\ stage'[q] = "done" /\ UNCHANGED <<rows, orders, target, order>>
        /\ rows[target[q]].closing = orders[order[q]] /\ ruling'[q] = rows[target[q]].status
        /\ rows[target[q]].status \in Closed
    BY <1>1, <1>6 DEF Replay, Rule, Enter, TypeOK, actionVars, Closed
  <2>2. orders[order[q]] # None
    BY <1>1, <2>1, NoneAssumption DEF RInv, ClosedRowsInLedger
  <2> QED
    BY <1>1, <1>3, <2>1, <2>2
<1>7. CASE SaveClosed(q)
  <2>1. /\ stage'[q] = "done" /\ UNCHANGED <<orders, target, order>>
        /\ rows'[target[q]].closing = orders[order[q]] /\ ruling'[q] = ClosedStatus(order[q])
        /\ orders[order[q]] # None
    BY <1>1, <1>7 DEF SaveClosed, Rule, Enter, TypeOK, Closed, RInv, OrdersAccepted, OrderAccepted
  <2>2. rows'[target[q]].status \in Closed
    BY <1>1, <1>4, <2>1 DEF IInv, RowsWellFormed, WellFormed
  <2> QED
    BY <1>1, <1>3, <1>5, <2>1, <2>2 DEF ClosedRowsInLedger, ClosedStatus
<1>8. CASE CloseAtomically(q)
  <2>1. stage'[q] = "done" /\ UNCHANGED <<target, order>> /\ ruling'[q] = ClosedStatus(order[q])
    BY <1>1, <1>8 DEF CloseAtomically, Rule, Enter, TypeOK
  <2>2. Closes(target[q], order[q]) /\ orders'[order[q]].order = order[q]
    <3>1. SpendsOrder(q)
      BY <1>8, SpendsOrderStep DEF CloseAtomically
    <3>2. ~Reads(q) /\ ~Spends(q) /\ ~Saves(q)
      <4>1. orders' # orders /\ AtomicAuthority
        <5>1. ClosingOf(q) \in Closing
          BY <1>1 DEF ClosingOf, Closing, TypeOK, ActionTypeOK
        <5> QED
          BY <1>8, <3>1, <5>1, NoneAssumption DEF SpendsOrder, CloseAtomically
      <4> QED
        BY <4>1 DEF Reads, Spends, Saves
    <3> QED
      BY <3>1, <3>2, RulingKinds, ClosesRow DEF Commits, SpendsOrder, ClosingOf
  <2> QED
    BY <1>1, <2>1, <2>2 DEF Closes
<1>9. CASE CollideAtomically(q)
  <2>1. /\ stage'[q] = "done" /\ UNCHANGED <<rows, orders, target, order>> /\ AlreadyClosedBy(q)
        /\ ruling'[q] = ClosedStatus(order[q])
    BY <1>1, <1>9 DEF CollideAtomically, Rule, Enter, TypeOK, actionVars, Closed
  <2> QED
    BY <1>1, <1>3, <2>1 DEF AlreadyClosedBy
<1>10. CASE AcceptOrder(q) \/ TakeOrder(q)
  BY <1>2, <1>10 DEF AcceptOrder, TakeOrder
<1>11. CASE Locate(q) \/ RejectOrder(q) \/ RefuseOrder(q) \/ ExpireAtomically(q) \/ GiveUp(q)
  BY <1>1, <1>11 DEF Locate, RejectOrder, RefuseOrder, ExpireAtomically, GiveUp, Rule, TypeOK, Closed
<1> QED
  BY <1>6, <1>7, <1>8, <1>9, <1>10, <1>11 DEF Reconcile

LEMMA OrdersAcceptedStep ==
  ASSUME IInv, RInv, NEW q \in Reconcilers, Reconcile(q) \/ GiveUp(q)
  PROVE  OrdersAccepted'
<1> SUFFICES ASSUME NEW s \in Reconcilers PROVE OrderAccepted(s)'
  BY DEF OrdersAccepted
<1>1. /\ TypeOK /\ OrderAccepted(s) /\ LocatedItsAction(s) /\ LocatedItsAction(q)
  BY DEF RInv, OrdersAccepted, IInv, ReconcilersLocated
<1>2. /\ \A k \in Orders : orders[k] # None => orders'[k] = orders[k]
      /\ \A p \in Proposals : /\ rows[p].status \in Closed => rows'[p] = rows[p]
                              /\ rows[p].status # "ABSENT" => rows'[p].binding = rows[p].binding
  BY ClosedRowsStep
<1>3. CASE s # q
  <2>1. /\ stage'[s] = stage[s] /\ target'[s] = target[s] /\ order'[s] = order[s]
        /\ ruling'[s] = ruling[s]
    BY <1>1, <1>3, LeavesOtherReconcilersStep DEF LeavesOtherReconcilers
  <2>2. stage[s] \in {"authorized", "replaying", "consumed"} =>
          /\ target[s] \in Proposals /\ order[s] \in Orders
          /\ rows'[target[s]].binding = rows[target[s]].binding
    BY <1>1, <1>2 DEF LocatedItsAction, Closed
  <2>3. stage[s] = "consumed" => orders'[order[s]] = orders[order[s]]
    BY <1>1, <1>2, <2>2 DEF OrderAccepted
  <2>4. ruling[s] \in Closed => rows'[target[s]] = rows[target[s]]
    BY <1>1, <1>2 DEF OrderAccepted
  <2> QED
    BY <1>1, <2>1, <2>2, <2>3, <2>4 DEF OrderAccepted
<1>4. CASE s = q
  <2>1. CASE Locate(q)
    BY <1>1, <1>4, <2>1 DEF Locate, Enter, Rule, TypeOK, OrderAccepted, Closed
  <2>2. CASE ~Locate(q)
    <3>1. \/ UNCHANGED <<target, order>> /\ stage[q] # "idle"
          \/ GiveUp(q)
      BY <2>2 DEF Reconcile, RejectOrder, AcceptOrder, Replay, TakeOrder, RefuseOrder, SaveClosed,
                  CloseAtomically, CollideAtomically, ExpireAtomically
    <3>2. CASE GiveUp(q)
      BY <1>1, <1>4, <3>2 DEF GiveUp, Rule, Enter, TypeOK, OrderAccepted, Closed
    <3>3. CASE AcceptOrder(q)
      BY <1>1, <1>4, <3>3
         DEF AcceptOrder, VerifiesOrder, Enter, TypeOK, OrderAccepted, Closed, actionVars
    <3>4. CASE TakeOrder(q)
      <4>1. /\ stage'[q] = "consumed" /\ UNCHANGED <<rows, target, order, ruling>>
            /\ stage[q] = "authorized" /\ order[q] \in Orders /\ target[q] \in Proposals
        BY <1>1, <3>4 DEF TakeOrder, Enter, TypeOK, LocatedItsAction, actionVars
      <4>2. orders'[order[q]] # None
        <5>1. ClosingOf(q) \in Closing
          BY <1>1, <4>1 DEF ClosingOf, Closing, TypeOK, ActionTypeOK
        <5> QED
          BY <1>1, <3>4, <4>1, <5>1, NoneAssumption DEF TakeOrder, ConsumeOrder, TypeOK
      <4> QED
        BY <1>1, <1>4, <4>1, <4>2 DEF OrderAccepted
    <3>5. CASE ~(GiveUp(q) \/ AcceptOrder(q) \/ TakeOrder(q))
      <4>1. stage'[q] = "done"
        BY <1>1, <2>2, <3>5
           DEF Reconcile, RejectOrder, Replay, RefuseOrder, SaveClosed, CloseAtomically,
               CollideAtomically, ExpireAtomically, Rule, Enter, TypeOK
      <4>2. ruling'[q] \in Closed =>
              /\ UNCHANGED <<target, order>> /\ target[q] \in Proposals
              /\ rows'[target[q]].status = ruling'[q]
              /\ rows'[target[q]].closing.order = order[q]
        BY <3>1, <3>5, RulingHolds
      <4> QED
        BY <1>4, <4>1, <4>2 DEF OrderAccepted
    <3> QED
      BY <3>2, <3>3, <3>4, <3>5
  <2> QED
    BY <2>1, <2>2
<1> QED
  BY <1>3, <1>4

(* Closing an action changes nothing of what a request was told. *)
LEMMA ReconcileFollows ==
  ASSUME IInv, RInv, NEW q \in Reconcilers, Reconcile(q) \/ GiveUp(q)
  PROVE  RInv' /\ RecordsTransitions
<1>1. ActionTypeOK /\ RowsWellFormed
  BY DEF IInv, TypeOK
<1>2. HistoriesBehind' /\ RecordsTransitions
  <2>1. CASE UNCHANGED <<rows, history>>
    BY <2>1 DEF RInv, HistoriesBehind, RecordsTransitions, Rank
  <2> QED
    BY <1>1, <2>1, RulingKinds, ClosesRow, WritesHistory
       DEF RInv, Reads, Spends, Saves, Commits, actionVars, Closes
<1>3. OrdersWellSpent' /\ ClosedRowsInLedger' /\ OrdersAccepted'
  BY OrdersWellSpentStep, ClosedRowsStep, OrdersAcceptedStep
<1>4. /\ UNCHANGED <<pc, binding, processed, answer, calls>>
      /\ \A p \in Proposals :
           \/ rows'[p] = rows[p]
           \/ /\ rows[p].status = "RECONCILIATION_REQUIRED" /\ rows'[p].status \in Closed
              /\ rows'[p].binding = rows[p].binding
  BY RulingKinds, ClosesRow DEF Reads, Spends, Saves, Commits, actionVars, Closes
<1>5. OutcomesWereCalled'
  BY <1>4 DEF RInv, OutcomesWereCalled, Effected, Closed
<1>6. AnswersStand'
  <2>1. ASSUME NEW r \in Requests PROVE AnswerStands(r)'
    <3>1. AnswerStands(r) /\ (CalledItself(r) => CalledItself(r)') /\ Action(r)' = Action(r)
      BY <1>4 DEF RInv, AnswersStand, CalledItself, Action
    <3>2. answer[r] \in {"EXECUTED", "RESULT_REJECTED"} => rows'[Action(r)] = rows[Action(r)]
      BY <1>4, <3>1, ActionIsProposal DEF AnswerStands
    <3> QED
      BY <1>4, <3>1, <3>2 DEF AnswerStands, Shows
  <2> QED
    BY <2>1 DEF AnswersStand
<1>7. CallersConclude'
  BY <1>4 DEF RInv, CallersConclude
<1> QED
  BY <1>2, <1>3, <1>5, <1>6, <1>7 DEF RInv

-----------------------------------------------------------------------------
(***************************************************************************)
(* The invariant, and what it says of answers, results and orders.         *)
(***************************************************************************)

LEMMA InitFollows == Init => RInv
<1> SUFFICES ASSUME Init PROVE RInv
  OBVIOUS
<1>1. HistoriesBehind
  BY DEF Init, ActionInit, HistoriesBehind
<1>2. OrdersWellSpent /\ ClosedRowsInLedger /\ OutcomesWereCalled /\ CallersConclude
  BY DEF Init, ActionInit, OrdersWellSpent, ClosedRowsInLedger, OutcomesWereCalled, CallersConclude,
         Absent, Closed, Effected
<1>3. OrdersAccepted
  BY NoneAssumption DEF Init, OrdersAccepted, OrderAccepted, Closed, Answers, Statuses
<1>4. AnswersStand
  BY NoneAssumption
     DEF Init, ActionInit, AnswersStand, AnswerStands, Called, Shows, Answers, Statuses, Judged
<1> QED
  BY <1>1, <1>2, <1>3, <1>4 DEF RInv

(* The clock changes nothing of what was told, spent or recorded. *)
LEMMA TickFollows ==
  ASSUME RInv, Tick \/ UNCHANGED actionVars, UNCHANGED reconcilerVars
  PROVE  RInv' /\ RecordsTransitions
<1>1. UNCHANGED <<rows, history, ledger, pc, locals, receipt, answer, calls, reconcilerVars>>
  BY DEF Tick, actionVars, locals
<1>2. HistoriesBehind' /\ RecordsTransitions
  BY <1>1 DEF RInv, HistoriesBehind, RecordsTransitions, Rank
<1>3. OrdersWellSpent' /\ ClosedRowsInLedger' /\ OrdersAccepted'
  BY <1>1 DEF RInv, OrdersWellSpent, OrderWellSpent, ClosedRowsInLedger, OrdersAccepted,
              OrderAccepted, ClosedStatus, reconcilerVars
<1>4. OutcomesWereCalled' /\ CallersConclude'
  BY <1>1 DEF RInv, OutcomesWereCalled, CallersConclude
<1>5. AnswersStand'
  BY <1>1 DEF RInv, AnswersStand, AnswerStands, CalledItself, Shows, Action, locals
<1> QED
  BY <1>2, <1>3, <1>4, <1>5 DEF RInv

LEMMA NextFollows ==
  ASSUME IInv, RInv, [Next]_vars
  PROVE  RInv' /\ RecordsTransitions
<1>1. CASE \E r \in Requests : (Step(r) \/ Abandon(r)) /\ UNCHANGED reconcilerVars
  BY <1>1, RequestFollows, HistoriesStep DEF RInv
<1>2. CASE \E q \in Reconcilers : Reconcile(q) \/ GiveUp(q)
  BY <1>2, ReconcileFollows
<1>3. CASE Tick /\ UNCHANGED reconcilerVars
  BY <1>3, TickFollows
<1>4. CASE UNCHANGED vars
  BY <1>4, TickFollows DEF vars, reconcilerVars
<1> QED
  BY <1>1, <1>2, <1>3, <1>4 DEF Next, Finished

(* What the theorems below rest on: answers stand on calls and rows, an      *)
(* order of the ledger on the action it was signed for, and a history on the *)
(* statuses its action has passed.                                           *)
THEOREM WhatFollowsHolds == Spec => []RInv
<1>1. IInv /\ RInv /\ [Next]_vars => RInv'
  BY NextFollows
<1> QED
  BY <1>1, InitFollows, InvariantHolds, PTL DEF Spec

(* What a client is told of its action is what is recorded, and a request    *)
(* that was refused, conflicted or found the action taken called nothing.    *)
THEOREM AnswersAreTruthful == Spec => []TruthfulAnswers
<1>1. RInv => TruthfulAnswers
  <2> SUFFICES ASSUME RInv, NEW r \in Requests
               PROVE  /\ answer[r] \in {"EXECUTED", "RESULT_REJECTED"} =>
                           rows[Action(r)].status = answer[r]
                      /\ answer[r] \in {"CONFLICT", "VERIFICATION_FAILED", "CONSUMPTION_FAILED",
                                        "WAITING_APPROVAL", "PREPARED", "DISPATCHED"}
                           => ~\E c \in calls : c.by = r
    BY DEF TruthfulAnswers
  <2>1. AnswerStands(r)
    BY DEF RInv, AnswersStand
  <2>2. ASSUME NEW c \in calls, c.by = r
        PROVE  \/ answer[r] = None
               \/ answer[r] \in {"EXECUTED", "RESULT_REJECTED", "RECONCILIATION_REQUIRED", "ABANDONED"}
    BY <2>1, <2>2 DEF RInv, CallersConclude, AnswerStands, Called
  <2> QED
    BY <2>1, <2>2, NoneAssumption DEF AnswerStands, Answers, Statuses, Open
<1> QED
  BY <1>1, WhatFollowsHolds, PTL

(* What the loader's rule leaves of an accepted output: no secret is shown   *)
(* in any form, and what is shown as it is is closed text that is public or  *)
(* internal.                                                                 *)
LEMMA SafeOutputIsMinimal ==
  ASSUME NEW output, Accepted(output), NEW f \in DOMAIN SafeOutput(output)
  PROVE  /\ ResultSchema[f].classification # "AUTHENTICATION_SECRET"
         /\ SafeOutput(output)[f] # Masked =>
              /\ ResultSchema[f].closed
              /\ ResultSchema[f].classification \in {"PUBLIC", "INTERNAL"}
<1>1. /\ f \in DOMAIN output /\ ResultSchema[f].handling # "DROP"
      /\ SafeOutput(output)[f] # Masked => ResultSchema[f].handling = "RETURN"
  BY DEF SafeOutput
<1>2. f \in ResultFields
  BY <1>1 DEF Accepted
<1>3. ExposureIsSafe(ResultSchema[f]) /\ ResultSchema[f].classification \in Classifications
  BY <1>2, SchemaAssumption DEF Loads, ResultFields
<1> QED
  BY <1>1, <1>3 DEF ExposureIsSafe, Classifications

(* What a tool returned is shown once, to the request that called it, with   *)
(* its metadata on record; nothing sensitive or open is shown unmasked, and  *)
(* no secret at all; of any other end nothing is recorded.                   *)
THEOREM ResultsMinimised == Spec => []ResultsAreMinimised
<1>1. ASSUME TypeOK, RowsWellFormed, SingleToolExecution, AnswersStand
      PROVE  ResultsAreMinimised
  <2>1. ASSUME NEW r \in Requests, Shows(r)
        PROVE  AnswerStands(r) /\ binding[r] \in Binding /\ CalledItself(r)
    BY <1>1, <2>1 DEF AnswersStand, AnswerStands, Shows
  <2>2. ASSUME NEW r \in Requests, NEW s \in Requests, Shows(r), Shows(s), Action(r) = Action(s)
        PROVE  r = s
    <3>1. PICK c \in calls : c.by = r /\ c.binding = binding[r]
      BY <2>1, <2>2 DEF CalledItself
    <3>2. PICK d \in calls : d.by = s /\ d.binding = binding[s]
      BY <2>1, <2>2 DEF CalledItself
    <3>3. c = d
      BY <1>1, <2>2, <3>1, <3>2 DEF SingleToolExecution, Action
    <3> QED
      BY <3>1, <3>2, <3>3
  <2>3. ASSUME NEW r \in Requests, Shows(r), NEW f \in DOMAIN processed[r].safe
        PROVE  /\ ResultSchema[f].classification # "AUTHENTICATION_SECRET"
               /\ processed[r].safe[f] # Masked =>
                    /\ ResultSchema[f].closed
                    /\ ResultSchema[f].classification \in {"PUBLIC", "INTERNAL"}
    <3>1. PICK o \in Returnable : Accepted(o) /\ processed[r] = Process(o)
      BY <1>1, <2>3 DEF TypeOK, ActionTypeOK, Shows
    <3>2. processed[r].safe = SafeOutput(o)
      BY <3>1 DEF Process
    <3> QED
      BY <2>3, <3>1, <3>2, SafeOutputIsMinimal
  <2>4. ASSUME NEW r \in Requests, Shows(r)
        PROVE  /\ \E c \in calls : c.by = r
               /\ rows[Action(r)].result = [classifications |-> processed[r].classifications,
                                            exposed |-> DOMAIN processed[r].safe]
    BY <2>1, <2>4 DEF AnswerStands, CalledItself, Metadata
  <2>5. \A p \in Proposals : rows[p].result # None <=> rows[p].status = "EXECUTED"
    BY <1>1 DEF RowsWellFormed, WellFormed
  <2> QED
    BY <2>2, <2>3, <2>4, <2>5 DEF ResultsAreMinimised
<1>2. IInv /\ RInv => ResultsAreMinimised
  BY <1>1 DEF IInv, RInv
<1> QED
  BY <1>2, InvariantHolds, WhatFollowsHolds, PTL

(* An action is closed only if its tool was called with an uncertain end,    *)
(* and by one order: signed for its binding, for the outcome now recorded,   *)
(* and kept in the ledger as the row shows it.                               *)
THEOREM OrdersCloseActions == Spec => []ClosedByOrder
<1>1. ASSUME IInv, RInv, NEW p \in Proposals, rows[p].status \in Closed
      PROVE  LET j == rows[p].closing.order IN
               /\ rows[p].closing # None /\ orders[j] = rows[p].closing
               /\ Settles[j] = rows[p].binding /\ rows[p].status = ClosedStatus(j)
               /\ \E c \in calls : c.binding = rows[p].binding
  <2>1. PICK j \in Orders : j = rows[p].closing.order
    BY <1>1 DEF RInv, ClosedRowsInLedger, Closing
  <2>2. /\ rows[p].closing # None /\ orders[j] = rows[p].closing /\ rows[p].closing.action = p
        /\ rows[p].status = ClosedStatus(j)
    BY <1>1, <2>1, NoneAssumption DEF RInv, ClosedRowsInLedger
  <2>3. Settles[j] = rows[p].binding
    BY <1>1, <2>2 DEF RInv, OrdersWellSpent, OrderWellSpent
  <2>4. \E c \in calls : c.binding = rows[p].binding
    BY <1>1 DEF RInv, OutcomesWereCalled, Effected, Closed
  <2> QED
    BY <2>1, <2>2, <2>3, <2>4
<1>2. IInv /\ RInv => ClosedByOrder
  BY <1>1 DEF ClosedByOrder
<1> QED
  BY <1>2, InvariantHolds, WhatFollowsHolds, PTL

(* No two orders are spent on one action, and an order in the ledger closed  *)
(* its action or has an action that still waits for it.                      *)
THEOREM NoOrderSpentInVain == Spec => []OrdersAreNotWasted
<1>1. RInv => OrdersAreNotWasted
  BY DEF RInv, OrdersWellSpent, OrderWellSpent, OrdersAreNotWasted
<1> QED
  BY <1>1, WhatFollowsHolds, PTL

(* With PostgreSQL an order in the ledger is an action it closed.            *)
THEOREM OrdersCommitClosings ==
  ASSUME AtomicAuthority
  PROVE  Spec => []OrdersClose
<1>1. RInv => OrdersClose
  BY DEF RInv, OrdersWellSpent, OrderWellSpent, OrdersClose
<1> QED
  BY <1>1, WhatFollowsHolds, PTL

(* A reconciler that is told the action is closed presented the order that   *)
(* closed it, and the outcome it is told is the recorded one.                *)
THEOREM RulingsAreTruthful == Spec => []TruthfulRulings
<1>1. RInv => TruthfulRulings
  BY DEF RInv, OrdersAccepted, OrderAccepted, TruthfulRulings
<1> QED
  BY <1>1, WhatFollowsHolds, PTL

(* Every change of the status of an action appends one event with the new    *)
(* status: no action re-enters a status, so the triggers skip none.          *)
THEOREM TransitionsRecorded == Spec => EveryTransitionRecorded
<1>1. IInv /\ RInv /\ [Next]_vars => [RecordsTransitions]_<<rows, history>>
  BY NextFollows
<1> QED
  BY <1>1, InvariantHolds, WhatFollowsHolds, PTL
     DEF Spec, EveryTransitionRecorded, RecordsTransitions

-----------------------------------------------------------------------------
(***************************************************************************)
(* Tool actions implement AuthorizedEffect: the initial state and each     *)
(* kind of step, mapped.                                                   *)
(***************************************************************************)

Authorised == {b \in Binding : ApprovalsSpentOn(b) # {}}
Attempted  == {c.binding : c \in calls}
Outcomes   == [b \in Binding |-> OutcomeOf(b)]

LEMMA ActionsInitMap == Init => Gate!Init
<1> SUFFICES ASSUME Init PROVE Gate!Init
  OBVIOUS
<1>1. \A b \in Binding : ApprovalsSpentOn(b) = {} /\ OutcomeOf(b) = "open"
  BY DEF Init, ActionInit, ApprovalsSpentOn, OutcomeOf, EffectOf, Absent, Binding
<1>2. SpentOn = [b \in Binding |-> None]
  BY <1>1 DEF SpentOn
<1>3. {c.binding : c \in calls} = {}
  BY DEF Init, ActionInit
<1> QED
  BY <1>1, <1>2, <1>3 DEF Gate!Init

(* While the ledger stands still, what was spent on a binding does too. *)
LEMMA LedgerKeepsSpent ==
  ASSUME UNCHANGED ledger
  PROVE  UNCHANGED <<SpentOn, Authorised>>
BY DEF SpentOn, ApprovalsSpentOn, Authorised

(* The one row that is written decides the outcome of its binding. *)
LEMMA RowDecidesOutcome ==
  ASSUME NEW b \in Binding, NEW p \in Proposals, p = b.proposal,
         rows[p].binding = b, rows'[p].binding = b,
         \A i \in Proposals \ {p} : rows'[i] = rows[i]
  PROVE  Outcomes' = [Outcomes EXCEPT ![b] = EffectOf(rows'[p].status)]
<1>1. \A k \in Binding : k.proposal \in Proposals
  BY DEF Binding
<1>2. ASSUME NEW k \in Binding
      PROVE  OutcomeOf(k)' = IF k = b THEN EffectOf(rows'[p].status) ELSE OutcomeOf(k)
  <2>1. CASE k.proposal # p
    BY <1>1, <2>1 DEF OutcomeOf
  <2>2. CASE k.proposal = p
    BY <2>2 DEF OutcomeOf
  <2> QED
    BY <2>1, <2>2
<1> QED
  BY <1>2 DEF Outcomes

(* A write that changes no effect is not seen. *)
LEMMA UnseenMaps ==
  ASSUME UNCHANGED <<ledger, calls>>, Outcomes' = Outcomes
  PROVE  UNCHANGED Gate!vars
<1>1. UNCHANGED <<SpentOn, Authorised, Attempted>>
  BY LedgerKeepsSpent DEF Attempted
<1> QED
  BY <1>1 DEF Gate!vars, Outcomes, Authorised, Attempted

(* A refusal refuses an effect that nothing authorised. *)
LEMMA RefusalMaps ==
  ASSUME IInv, NEW p \in Proposals, NEW b \in Binding, p = b.proposal,
         rows[p].binding = b, rows'[p].binding = b,
         EffectOf(rows[p].status) = "open", rows'[p].status = "APPROVAL_FAILED",
         \/ rows[p].status = "PREPARED"
         \/ \E r \in Requests : pc[r] = "claimed" /\ Action(r) = p,
         \A i \in Proposals \ {p} : rows'[i] = rows[i],
         UNCHANGED <<ledger, calls>>
  PROVE  Gate!Refuse(b)
<1>1. Outcomes' = [Outcomes EXCEPT ![b] = "refused"] /\ OutcomeOf(b) = "open"
  BY RowDecidesOutcome DEF EffectOf, OutcomeOf
<1>2. b \notin Authorised
  BY DEF IInv, ApprovalsWellSpent, WellSpent, Authorised, ApprovalsSpentOn, Effected, Closed
<1>3. Outcomes[b] = "open" /\ UNCHANGED <<SpentOn, Authorised, Attempted>>
  BY <1>1, LedgerKeepsSpent DEF Outcomes, Attempted
<1> QED
  BY <1>1, <1>2, <1>3 DEF Gate!Refuse, Outcomes, Authorised, Attempted

(* The judgement of a call, or the closing of its action, concludes the effect. *)
LEMMA ConclusionMaps ==
  ASSUME NEW p \in Proposals, NEW b \in Binding, p = b.proposal,
         rows[p].binding = b, rows'[p].binding = b,
         rows[p].status \in {"DISPATCHED", "RECONCILIATION_REQUIRED"},
         EffectOf(rows'[p].status) \in {"succeeded", "failed"},
         \E c \in calls : c.binding = b,
         \A i \in Proposals \ {p} : rows'[i] = rows[i],
         UNCHANGED <<ledger, calls>>
  PROVE  Gate!Conclude(b)
<1>1. Outcomes' = [Outcomes EXCEPT ![b] = EffectOf(rows'[p].status)] /\ OutcomeOf(b) = "open"
  BY RowDecidesOutcome DEF EffectOf, OutcomeOf
<1>2. b \in Attempted
  BY DEF Attempted
<1>3. Outcomes[b] = "open" /\ UNCHANGED <<SpentOn, Authorised, Attempted>>
  BY <1>1, LedgerKeepsSpent DEF Outcomes, Attempted
<1> QED
  BY <1>1, <1>2, <1>3 DEF Gate!Conclude, Outcomes, Authorised, Attempted

(* A request that stands aside is not seen, or refuses an action that is prepared. *)
LEMMA AsideMaps ==
  ASSUME IInv, NEW r \in Requests, StandsAside(r)
  PROVE  Gate!Next \/ UNCHANGED Gate!vars
<1>1. UNCHANGED <<ledger, calls>> /\ ActionTypeOK /\ RowsWellFormed
  BY DEF StandsAside, IInv, TypeOK
<1>2. CASE UNCHANGED rows
  <2>1. \A b \in Binding : OutcomeOf(b)' = OutcomeOf(b)
    BY <1>2 DEF OutcomeOf
  <2> QED
    BY <1>1, <2>1, UnseenMaps DEF Outcomes
<1>3. ASSUME NEW p \in Proposals, NEW row \in Row, Writes(p, row), rows[p].status \in Unclaimed,
             row.status \in Open
      PROVE  UNCHANGED Gate!vars
  <2>1. rows'[p] = row /\ \A i \in Proposals \ {p} : rows'[i] = rows[i]
    BY <1>1, <1>3, WritesType
  <2>2. EffectOf(rows[p].status) = "open" /\ EffectOf(rows'[p].status) = "open"
    BY <1>3, <2>1 DEF EffectOf, Unclaimed, Open
  <2>3. \A b \in Binding : OutcomeOf(b)' = OutcomeOf(b)
    BY <2>1, <2>2 DEF OutcomeOf, Binding
  <2> QED
    BY <1>1, <2>3, UnseenMaps DEF Outcomes
<1>4. ASSUME NEW p \in Proposals, NEW row \in Row, Writes(p, row), rows[p].status \in Unclaimed,
             row.status = "APPROVAL_FAILED"
      PROVE  Gate!Next
  <2>1. rows'[p] = row /\ \A i \in Proposals \ {p} : rows'[i] = rows[i]
    BY <1>1, <1>4, WritesType
  <2>2. /\ rows[p].status = "PREPARED" /\ row.binding = rows[p].binding
        /\ row.binding \in Binding /\ row.binding.proposal = p
    BY <1>4 DEF Writes, Advances, WellFormed, Open, Judged, Unclaimed
  <2>3. EffectOf(rows[p].status) = "open"
    BY <2>2 DEF EffectOf
  <2>4. Gate!Refuse(row.binding)
    BY <1>1, <1>4, <2>1, <2>2, <2>3, RefusalMaps
  <2> QED
    BY <2>2, <2>4 DEF Gate!Next
<1> QED
  BY <1>2, <1>3, <1>4 DEF StandsAside

(* The claim and the consumption change no outcome. *)
LEMMA ClaimKeepsOutcomes ==
  ASSUME NEW p \in Proposals,
         rows[p].status \in {"PREPARED", "DISPATCHED"}, rows'[p].status = "DISPATCHED",
         \A i \in Proposals \ {p} : rows'[i] = rows[i]
  PROVE  Outcomes' = Outcomes
<1>1. EffectOf(rows[p].status) = "open" /\ EffectOf(rows'[p].status) = "open"
  BY DEF EffectOf
<1>2. \A b \in Binding : OutcomeOf(b)' = OutcomeOf(b)
  BY <1>1 DEF OutcomeOf, Binding
<1> QED
  BY <1>2 DEF Outcomes

(* The consumption of an approval authorises the binding it is spent on. *)
LEMMA SpendingMaps ==
  ASSUME IInv, NEW r \in Requests, SpendsApproval(r),
         ConsumeApproval(r) \/ WinAtomicClaim(r)
  PROVE  Gate!AuthoriseWith(binding[r], assertion[r])
<1> DEFINE b == binding[r]
           a == assertion[r]
           p == Action(r)
<1>1. /\ ActionTypeOK /\ a \in Approvals /\ b \in Binding
      /\ p \in Proposals /\ p = b.proposal /\ rows[p].binding = b
      /\ UNCHANGED calls /\ b \in GrantedFor[a]
      /\ \A i \in Proposals \ {p} : rows'[i] = rows[i]
      /\ rows'[p].status = "DISPATCHED"
  BY DEF IInv, TypeOK, SpendsApproval, HoldsItsRow
<1>2. rows[p].status \in {"PREPARED", "DISPATCHED"}
  BY DEF IInv, ConsumeApproval, WinAtomicClaim, OwnersDispatch, Owning
<1>3. Outcomes' = Outcomes /\ Outcomes[b] = "open"
  <2>1. OutcomeOf(b) = "open"
    BY <1>1, <1>2 DEF OutcomeOf, EffectOf
  <2> QED
    BY <1>1, <1>2, <2>1, ClaimKeepsOutcomes DEF Outcomes
<1>4. ApprovalsSpentOn(b) = {}
  BY <1>1 DEF IInv, ApprovalsWellSpent, WellSpent, ApprovalsSpentOn, ConsumeApproval,
              WinAtomicClaim, Effected, Closed
<1>5. \A k \in Binding : ApprovalsSpentOn(k)' = IF k = b THEN {a} ELSE ApprovalsSpentOn(k)
  <2>1. /\ ledger[a] = None /\ ledger'[a] # None /\ ledger'[a].binding = b
        /\ \A c \in Approvals \ {a} : ledger'[c] = ledger[c]
    BY <1>1, SpentReceipt, NoneAssumption
  <2> HIDE DEF a, b
  <2> QED
    BY <1>1, <1>4, <2>1 DEF ApprovalsSpentOn
<1>6. b \notin Authorised /\ Authorised' = Authorised \cup {b}
  <2> HIDE DEF a, b
  <2> QED
    BY <1>1, <1>4, <1>5 DEF Authorised
<1>7. SpentOn' = [SpentOn EXCEPT ![b] = a]
  <2> DEFINE Pick(S) == IF S = {} THEN None ELSE CHOOSE c \in S : TRUE
  <2>1. /\ SpentOn  = [k \in Binding |-> Pick(ApprovalsSpentOn(k))]
        /\ SpentOn' = [k \in Binding |-> Pick(ApprovalsSpentOn(k)')]
    BY DEF SpentOn
  <2>2. Pick({a}) = a
    OBVIOUS
  <2> HIDE DEF Pick, a, b
  <2>3. \A k \in Binding : Pick(ApprovalsSpentOn(k)') = IF k = b THEN a ELSE Pick(ApprovalsSpentOn(k))
    BY <1>5, <2>2
  <2> QED
    BY <1>1, <2>1, <2>3
<1>8. \A k \in Binding : SpentOn[k] # a
  <2>1. ledger[a] = None /\ a # None
    BY <1>1, SpentReceipt, NoneAssumption
  <2> QED
    BY <2>1 DEF SpentOn, ApprovalsSpentOn
<1>9. UNCHANGED Attempted
  BY <1>1 DEF Attempted
<1> QED
  BY <1>1, <1>3, <1>6, <1>7, <1>8, <1>9
     DEF Gate!AuthoriseWith, Outcomes, Authorised, Attempted

(* The call of the tool port attempts the authorised effect, for the first time. *)
LEMMA ExecuteMaps ==
  ASSUME IInv, NEW r \in Requests, Execute(r), HoldsItsRow(r)
  PROVE  \E b \in Binding : Gate!Attempt(b)
<1> DEFINE b == binding[r]
           p == Action(r)
<1>1. /\ b \in Binding /\ p \in Proposals /\ p = b.proposal /\ rows[p].binding = b
      /\ pc[r] = "dispatched" /\ UNCHANGED <<rows, ledger>>
  BY DEF HoldsItsRow, Execute
<1>2. b \in Authorised
  <2>1. /\ receipt[r] \in Receipt /\ ledger[receipt[r].approval] = receipt[r]
        /\ receipt[r].binding = b
    BY <1>1 DEF IInv, OwnersHoldReceipts, Owning
  <2> QED
    BY <1>1, <2>1, NoneAssumption DEF Authorised, ApprovalsSpentOn, Receipt
<1>3. b \notin Attempted
  BY <1>1 DEF IInv, Attempted, CallsByOwner, Owns, Owning, Called
<1>4. Attempted' = Attempted \cup {b}
  <2> DEFINE call == [by |-> r, binding |-> b, receipt |-> receipt[r]]
  <2>1. calls' = calls \cup {call} /\ call.binding = b
    BY DEF Execute
  <2> HIDE DEF call, b
  <2> QED
    BY <2>1 DEF Attempted
<1>5. Outcomes' = Outcomes /\ Outcomes[b] = "open"
  <2>1. rows[p].status = "DISPATCHED"
    BY <1>1 DEF IInv, OwnersDispatch, Owning
  <2>2. OutcomeOf(b) = "open" /\ \A k \in Binding : OutcomeOf(k)' = OutcomeOf(k)
    BY <1>1, <2>1 DEF OutcomeOf, EffectOf
  <2> QED
    BY <1>1, <2>2 DEF Outcomes
<1> QED
  BY <1>1, <1>2, <1>3, <1>4, <1>5, LedgerKeepsSpent
     DEF Gate!Attempt, Outcomes, Authorised, Attempted

(* The end of a claim refuses the effect, concludes it, or leaves it open for an order. *)
LEMMA ConcludesMaps ==
  ASSUME IInv, AnswersStand, NEW r \in Requests, ConcludesRow(r), HoldsItsRow(r), RowsAdvance
  PROVE  Gate!Next \/ UNCHANGED Gate!vars
<1> DEFINE b == binding[r]
           p == Action(r)
<1>1. /\ b \in Binding /\ p \in Proposals /\ p = b.proposal /\ rows[p].binding = b
      /\ rows[p].status = "DISPATCHED" /\ UNCHANGED <<ledger, calls>>
      /\ \A i \in Proposals \ {p} : rows'[i] = rows[i]
  BY DEF HoldsItsRow, ConcludesRow
<1>2. rows'[p].binding = b
  BY <1>1, AdvancesKeepBinding
<1>3. CASE rows'[p].status = "APPROVAL_FAILED"
  <2>1. pc[r] = "claimed"
    BY <1>3 DEF ConcludesRow, Effected, Closed
  <2> QED
    BY <1>1, <1>2, <1>3, <2>1, RefusalMaps DEF EffectOf, Gate!Next
<1>4. CASE rows'[p].status \in {"EXECUTED", "RESULT_REJECTED"}
  <2>1. \E c \in calls : c.binding = b
    BY <1>4 DEF ConcludesRow, AnswersStand, AnswerStands, CalledItself
  <2>2. EffectOf(rows'[p].status) = "succeeded"
    BY <1>4 DEF EffectOf
  <2> QED
    BY <1>1, <1>2, <2>1, <2>2, ConclusionMaps DEF Gate!Next
<1>5. CASE rows'[p].status = "RECONCILIATION_REQUIRED"
  <2>1. EffectOf(rows[p].status) = "open" /\ EffectOf(rows'[p].status) = "open"
    BY <1>1, <1>5 DEF EffectOf
  <2>2. \A k \in Binding : OutcomeOf(k)' = OutcomeOf(k)
    BY <1>1, <2>1 DEF OutcomeOf, Binding
  <2> QED
    BY <1>1, <2>2, UnseenMaps DEF Outcomes
<1> QED
  BY <1>3, <1>4, <1>5 DEF ConcludesRow, Judged

(* The closing of an uncertain action concludes the effect of its call. *)
LEMMA ClosingMaps ==
  ASSUME IInv, RInv, NEW q \in Reconcilers, Reconcile(q) \/ GiveUp(q)
  PROVE  Gate!Next \/ UNCHANGED Gate!vars
<1>1. CASE UNCHANGED actionVars
  <2>1. UNCHANGED <<ledger, calls>> /\ \A b \in Binding : OutcomeOf(b)' = OutcomeOf(b)
    BY <1>1 DEF actionVars, OutcomeOf
  <2> QED
    BY <2>1, UnseenMaps DEF Outcomes
<1>2. CASE ClosesAction(q)
  <2> DEFINE p == target[q]
             b == rows[p].binding
  <2>1. Closes(p, order[q]) /\ UNCHANGED <<ledger, calls>>
    BY <1>2, ClosesRow DEF ClosesAction
  <2>2. /\ p \in Proposals /\ rows[p].status = "RECONCILIATION_REQUIRED"
        /\ rows'[p].binding = b /\ rows'[p].status \in Closed
        /\ \A i \in Proposals \ {p} : rows'[i] = rows[i]
    BY <2>1 DEF Closes
  <2>3. b \in Binding /\ b.proposal = p
    BY <2>2 DEF IInv, RowsWellFormed, WellFormed
  <2>4. \E c \in calls : c.binding = b
    BY <2>2 DEF RInv, OutcomesWereCalled, Effected
  <2>5. EffectOf(rows'[p].status) \in {"succeeded", "failed"}
    BY <2>2 DEF EffectOf, Closed
  <2>6. Gate!Conclude(b)
    BY <2>1, <2>2, <2>3, <2>4, <2>5, ConclusionMaps
  <2> QED
    BY <2>3, <2>6 DEF Gate!Next
<1> QED
  BY <1>1, <1>2, RulingKinds DEF Reads, Spends, Saves, Commits

LEMMA RequestMaps ==
  ASSUME IInv, RInv, NEW r \in Requests, Step(r) \/ Abandon(r)
  PROVE  Gate!Next \/ UNCHANGED Gate!vars
<1>1. CASE StandsAside(r)
  BY <1>1, AsideMaps
<1>2. CASE WinAtomicClaim(r) \/ ConsumeApproval(r)
  <2>1. SpendsApproval(r) /\ assertion[r] \in Approvals /\ binding[r] \in Binding
    BY <1>2, SpendsApprovalStep DEF IInv, TypeOK, SpendsApproval, HoldsItsRow
  <2> QED
    BY <1>2, <2>1, SpendingMaps DEF Gate!Next
<1>3. CASE WinsRow(r) /\ HoldsItsRow(r) /\ UNCHANGED <<ledger, calls>>
  BY <1>3, ClaimKeepsOutcomes, UnseenMaps DEF WinsRow, HoldsItsRow
<1>4. CASE ConcludesRow(r) /\ HoldsItsRow(r)
  BY <1>4, ConcludesMaps, RequestKinds DEF RInv
<1>5. CASE Execute(r) /\ HoldsItsRow(r)
  BY <1>5, ExecuteMaps DEF Gate!Next
<1> QED
  BY <1>1, <1>2, <1>3, <1>4, <1>5, RequestKinds DEF WinsRow

(* Every behaviour of requests and reconcilers, with every race, expiry,     *)
(* abandonment and replay, is a behaviour of AuthorizedEffect: one           *)
(* authorisation and one attempt for each binding, one effect for each       *)
(* approval, and a closing concludes what was attempted.                     *)
THEOREM ToolActionsImplementAuthorizedEffect == Spec => ImplementsAuthorizedEffect
<1>1. IInv /\ RInv /\ [Next]_vars => [Gate!Next]_(Gate!vars)
  <2> SUFFICES ASSUME IInv, RInv, [Next]_vars PROVE Gate!Next \/ UNCHANGED Gate!vars
    OBVIOUS
  <2>1. CASE \E r \in Requests : (Step(r) \/ Abandon(r)) /\ UNCHANGED reconcilerVars
    BY <2>1, RequestMaps
  <2>2. CASE \E q \in Reconcilers : Reconcile(q) \/ GiveUp(q)
    BY <2>2, ClosingMaps
  <2>3. CASE Tick \/ UNCHANGED vars
    <3>1. UNCHANGED <<ledger, calls>> /\ \A b \in Binding : OutcomeOf(b)' = OutcomeOf(b)
      BY <2>3 DEF Tick, vars, actionVars, OutcomeOf
    <3> QED
      BY <3>1, UnseenMaps DEF Outcomes
  <2> QED
    BY <2>1, <2>2, <2>3 DEF Next, Finished
<1> QED
  BY <1>1, ActionsInitMap, InvariantHolds, WhatFollowsHolds, PTL
     DEF Spec, ImplementsAuthorizedEffect, Gate!Spec
=============================================================================
