---------------------------- MODULE TimelineProofs ----------------------------
(***************************************************************************)
(* Proofs about the operator timeline: for any number of proposals,        *)
(* requests and reconcilers, any limits on the lists, and both databases,  *)
(* a view that is composed of separate reads is never torn.  They rest on  *)
(* the invariants of ToolActionProofs and ReconciliationProofs.            *)
(***************************************************************************)
EXTENDS TimelineInvariant, ReconciliationProofs, FiniteSetTheorems, SequenceTheorems

-----------------------------------------------------------------------------
(***************************************************************************)
(* The tables.                                                             *)
(***************************************************************************)

HistoriesGrow == \A p \in Proposals : GoesOnFrom(history[p], history'[p])

RowsRecorded ==
  \A p \in Proposals : rows[p].status # "ABSENT" =>
    \E i \in DOMAIN history[p] : history[p][i] = rows[p].status

(* The triggers only append, and leave every status with its event. *)
LEMMA WritesRecords ==
  ASSUME ActionTypeOK, RowsWellFormed, RowsRecorded,
         NEW p \in Proposals, NEW row \in Row, Writes(p, row)
  PROVE  RowsRecorded' /\ HistoriesGrow
<1>1. /\ rows'[p] = row /\ \A i \in Proposals \ {p} : rows'[i] = rows[i]
      /\ history \in [Proposals -> Seq(Statuses)] /\ history[p] \in Seq(Statuses)
      /\ history' = Events(p, row.status)
  BY WritesType DEF ActionTypeOK, Writes, Store
<1>2. row.status \in Statuses /\ (rows[p].status = row.status => rows[p].status # "ABSENT")
  BY RankAdvances DEF Writes, Statuses, Open, Judged, Closed
<1>3. \A i \in Proposals : Len(history[i]) \in Nat /\ DOMAIN history[i] = 1..Len(history[i])
  BY <1>1
<1>4. CASE rows[p].status = row.status \/ \E i \in DOMAIN history[p] : history[p][i] = row.status
  <2>1. UNCHANGED history
    BY <1>1, <1>4 DEF Events
  <2>2. \E i \in DOMAIN history[p] : history[p][i] = row.status
    BY <1>2, <1>4 DEF RowsRecorded
  <2> QED
    BY <1>1, <1>3, <2>1, <2>2 DEF RowsRecorded, HistoriesGrow, GoesOnFrom
<1>5. CASE ~(rows[p].status = row.status \/ \E i \in DOMAIN history[p] : history[p][i] = row.status)
  <2>1. history' = [history EXCEPT ![p] = Append(@, row.status)]
    BY <1>1, <1>5 DEF Events
  <2>2. /\ history'[p] = Append(history[p], row.status)
        /\ \A i \in Proposals \ {p} : history'[i] = history[i]
    BY <1>1, <2>1
  <2>3. /\ Len(history'[p]) = Len(history[p]) + 1
        /\ DOMAIN history'[p] = 1..(Len(history[p]) + 1)
        /\ history'[p][Len(history[p]) + 1] = row.status
        /\ \A i \in 1..Len(history[p]) : history'[p][i] = history[p][i]
    BY <1>1, <1>2, <2>2, AppendProperties
  <2>4. \E i \in DOMAIN history'[p] : history'[p][i] = rows'[p].status
    BY <1>1, <1>3, <2>3
  <2>5. RowsRecorded'
    BY <1>1, <2>2, <2>4 DEF RowsRecorded
  <2>6. HistoriesGrow
    BY <1>3, <2>2, <2>3 DEF HistoriesGrow, GoesOnFrom
  <2> QED
    BY <2>5, <2>6
<1> QED
  BY <1>4, <1>5

\* A row that shows a receipt shows one for its own binding.
RowsPaidForThemselves ==
  \A p \in Proposals : rows[p].approval # None => rows[p].approval.binding = rows[p].binding

\* A closed row has the execution its order confirms.
ClosedAsConfirmed ==
  \A p \in Proposals : rows[p].status \in Closed =>
    LET j == rows[p].closing.order
    IN rows[p].execution = IF Verdict[j] = "EXECUTED" THEN j ELSE None

LEMMA RowsFitParts == RowsFit <=> RowsPaidForThemselves /\ ClosedAsConfirmed /\ RowsRecorded
BY DEF RowsFit, RowFits, RowsPaidForThemselves, ClosedAsConfirmed, RowsRecorded

(* A request puts a receipt on the row of its binding only. *)
LEMMA PaidStep ==
  ASSUME IInv, RowsPaidForThemselves, NEW r \in Requests, Step(r) \/ Abandon(r)
  PROVE  RowsPaidForThemselves'
<1> SUFFICES ASSUME NEW p \in Proposals, rows'[p].approval # None
             PROVE  rows'[p].approval.binding = rows'[p].binding
  BY DEF RowsPaidForThemselves
<1>1. CASE rows'[p] = rows[p]
  BY <1>1 DEF RowsPaidForThemselves
<1>2. CASE rows'[p] # rows[p]
  <2>1. HoldsItsRow(r) /\ p = Action(r) /\ (WinsRow(r) \/ ConcludesRow(r))
    BY <1>2, RequestKinds DEF SparesClaimed, HoldsItsRow, ConsumeApproval, Execute
  <2>2. rows[p].binding = binding[r] /\ rows'[p].binding = binding[r]
    BY <2>1, RequestKinds, AdvancesKeepBinding DEF HoldsItsRow, WinsRow, ConcludesRow
  <2>3. CASE WinsRow(r)
    BY <2>1, <2>2, <2>3 DEF WinsRow, ReceiptOf
  <2>4. CASE ConcludesRow(r)
    <3>1. rows'[p].approval = rows[p].approval \/ rows'[p].approval.binding = binding[r]
      BY <2>1, <2>4 DEF ConcludesRow, IInv, OwnersHoldReceipts, Owning, Called
    <3> QED
      BY <2>2, <3>1 DEF RowsPaidForThemselves
  <2> QED
    BY <2>1, <2>3, <2>4
<1> QED
  BY <1>1, <1>2

LEMMA RequestFits ==
  ASSUME IInv, SInv, NEW r \in Requests, Step(r) \/ Abandon(r), UNCHANGED reconcilerVars
  PROVE  SInv' /\ HistoriesGrow
<1>1. RowsPaidForThemselves'
  BY PaidStep, RowsFitParts DEF SInv
<1>2. ClosedAsConfirmed'
  <2>1. \A p \in Proposals : rows'[p].status \in Closed => rows'[p] = rows[p]
    BY RequestKinds DEF RowsAdvance, Advances, SparesJudged, Open, Judged, Closed
  <2> QED
    BY <2>1, RowsFitParts DEF SInv, ClosedAsConfirmed
<1>3. RowsRecorded' /\ HistoriesGrow
  <2>1. CASE UNCHANGED <<rows, history>>
    <3>1. \A p \in Proposals : Len(history[p]) \in Nat
      BY DEF IInv, TypeOK, ActionTypeOK
    <3> QED
      BY <2>1, <3>1, RowsFitParts DEF SInv, RowsRecorded, HistoriesGrow, GoesOnFrom
  <2>2. CASE \E p \in Proposals, row \in Row : Writes(p, row)
    BY <2>2, WritesRecords, RowsFitParts DEF SInv, IInv, TypeOK
  <2> QED
    BY <2>1, <2>2, StepWrites DEF IInv, TypeOK
<1>4. OrdersInWindow'
  BY DEF SInv, OrdersInWindow, reconcilerVars
<1>5. RowsFit'
  BY <1>1, <1>2, <1>3 DEF RowsFit, RowFits, RowsPaidForThemselves, ClosedAsConfirmed, RowsRecorded
<1> QED
  BY <1>3, <1>4, <1>5 DEF SInv

(* The row a reconciler leaves keeps its receipt, and has the execution its  *)
(* order confirms.                                                           *)
LEMMA ClosesFits ==
  ASSUME IInv, RInv, RowsPaidForThemselves, ClosedAsConfirmed, RowsRecorded,
         NEW q \in Reconcilers, Reconcile(q) \/ GiveUp(q), ClosesAction(q)
  PROVE  RowsPaidForThemselves' /\ ClosedAsConfirmed' /\ RowsRecorded' /\ HistoriesGrow
<1> DEFINE p == target[q]
           j == order[q]
<1>1. PICK closing \in Closing :
        LET row == ClosedRow(p, j, closing) IN
          /\ Writes(p, row) /\ row \in Row
          /\ row.status = ClosedStatus(j) /\ row.status \in Closed
          /\ row.approval = rows[p].approval /\ row.closing = closing
          /\ orders'[j] = closing
  BY DEF ClosesAction
<1>2. /\ ActionTypeOK /\ RowsWellFormed /\ p \in Proposals /\ j \in Orders /\ rows[p] \in Row
      /\ rows[p].status = "RECONCILIATION_REQUIRED"
  BY DEF ClosesAction, IInv, TypeOK, ActionTypeOK
<1>3. /\ rows'[p] = ClosedRow(p, j, closing)
      /\ \A i \in Proposals \ {p} : rows'[i] = rows[i]
  BY <1>1, <1>2, WritesType
<1>4. rows'[p].binding = rows[p].binding /\ rows'[p].approval = rows[p].approval
  BY <1>1, <1>3, ClosesRow DEF Closes
<1>5. RowsPaidForThemselves'
  BY <1>3, <1>4 DEF RowsPaidForThemselves
<1>6. RowsRecorded' /\ HistoriesGrow
  BY <1>1, <1>2, WritesRecords
<1>7. rows'[p].execution = IF Verdict[j] = "EXECUTED" THEN j ELSE None
  BY <1>2, <1>3 DEF ClosedRow, Row
<1>8. rows'[p].closing.order = j
  <2>1. rows'[p].closing = orders'[j]
    BY <1>1, <1>3
  <2>2. CASE SpendsOrder(q)
    BY <2>1, <2>2 DEF SpendsOrder, ClosingOf
  <2>3. CASE Saves(q)
    <3>1. orders[j] # None /\ Settles[j] = rows[p].binding /\ UNCHANGED orders
      BY <2>3 DEF Saves, RInv, OrdersAccepted, OrderAccepted
    <3>2. orders[j].order = j
      BY <1>2, <3>1, SettlesItsAction DEF RInv
    <3> QED
      BY <2>1, <3>1, <3>2
  <2>4. ~Reads(q)
    <3>1. rows'[p].status # rows[p].status
      BY <1>1, <1>2, <1>3 DEF Closed
    <3> QED
      BY <3>1 DEF Reads, actionVars
  <2>5. ~Spends(q) \/ SpendsOrder(q)
    BY DEF Spends
  <2>6. ~Commits(q) \/ SpendsOrder(q)
    BY DEF Commits
  <2> QED
    BY <2>2, <2>3, <2>4, <2>5, <2>6, RulingKinds
<1>9. ClosedAsConfirmed'
  BY <1>3, <1>7, <1>8 DEF ClosedAsConfirmed
<1> QED
  BY <1>5, <1>6, <1>9

(* The ledger takes an order inside its window, whichever database it is in. *)
LEMMA OrdersInWindowStep ==
  ASSUME IInv, RInv, OrdersInWindow, NEW q \in Reconcilers, Reconcile(q) \/ GiveUp(q)
  PROVE  OrdersInWindow'
<1>1. UNCHANGED orders \/ (ConsumeOrder(q) /\ InWindow(order[q]) /\ stage[q] = "authorized")
  BY DEF Reconcile, GiveUp, Locate, RejectOrder, AcceptOrder, Replay, TakeOrder, RefuseOrder,
         SaveClosed, CloseAtomically, CollideAtomically, ExpireAtomically
<1>2. CASE UNCHANGED orders
  BY <1>2 DEF OrdersInWindow
<1>3. CASE ConsumeOrder(q) /\ InWindow(order[q]) /\ stage[q] = "authorized"
  <2>1. orders \in [Orders -> Closing \cup {None}] /\ order[q] \in Orders
    BY <1>3 DEF IInv, TypeOK, ReconcilersLocated, LocatedItsAction
  <2>2. /\ orders'[order[q]].at = now /\ IssuedAt[order[q]] <= now /\ now < ExpiresAt[order[q]]
        /\ \A k \in Orders \ {order[q]} : orders'[k] = orders[k]
    BY <1>3, <2>1 DEF ConsumeOrder, ClosingOf, InWindow
  <2> QED
    BY <2>2 DEF OrdersInWindow
<1> QED
  BY <1>1, <1>2, <1>3

LEMMA TablesStep ==
  ASSUME IInv, RInv, SInv, [Next]_vars
  PROVE  SInv' /\ HistoriesGrow
<1>1. CASE UNCHANGED <<rows, history, orders>>
  <2>1. \A p \in Proposals : Len(history[p]) \in Nat
    BY DEF IInv, TypeOK, ActionTypeOK
  <2> QED
    BY <1>1, <2>1 DEF SInv, RowsFit, RowFits, OrdersInWindow, HistoriesGrow, GoesOnFrom
<1>2. ASSUME NEW q \in Reconcilers, Reconcile(q) \/ GiveUp(q) PROVE SInv' /\ HistoriesGrow
  <2>1. OrdersInWindow'
    BY <1>2, OrdersInWindowStep DEF SInv
  <2>2. CASE UNCHANGED actionVars
    <3>1. \A p \in Proposals : Len(history[p]) \in Nat
      BY DEF IInv, TypeOK, ActionTypeOK
    <3> QED
      BY <2>1, <2>2, <3>1 DEF actionVars, SInv, RowsFit, RowFits, HistoriesGrow, GoesOnFrom
  <2>3. CASE ClosesAction(q)
    <3>1. RowsPaidForThemselves' /\ ClosedAsConfirmed' /\ RowsRecorded' /\ HistoriesGrow
      BY <1>2, <2>3, RowsFitParts, ClosesFits DEF SInv
    <3>2. RowsFit'
      BY <3>1 DEF RowsFit, RowFits, RowsPaidForThemselves, ClosedAsConfirmed, RowsRecorded
    <3> QED
      BY <2>1, <3>1, <3>2 DEF SInv
  <2> QED
    BY <1>2, <2>2, <2>3, ReconcileKinds
<1>3. CASE \E r \in Requests : (Step(r) \/ Abandon(r)) /\ UNCHANGED reconcilerVars
  BY <1>3, RequestFits
<1> QED
  BY <1>1, <1>2, <1>3 DEF Next, Finished, Tick, vars, actionVars, reconcilerVars

LEMMA InitFits == Init => SInv
<1> SUFFICES ASSUME Init PROVE SInv
  OBVIOUS
<1>1. \A p \in Proposals : rows[p].approval = None /\ rows[p].status = "ABSENT"
  BY DEF Init, ActionInit, Absent
<1>2. RowsFit
  BY <1>1 DEF RowsFit, RowFits, Closed
<1>3. OrdersInWindow
  BY DEF Init, OrdersInWindow
<1> QED
  BY <1>2, <1>3 DEF SInv

-----------------------------------------------------------------------------
(***************************************************************************)
(* What the query reads.                                                   *)
(***************************************************************************)

(* A row read whole is one that a reader accepts. *)
LEMMA RowsAreConsistent ==
  ASSUME IInv, RInv, SInv, NEW p \in Proposals
  PROVE  RowIsConsistent(p, rows[p])
<1>1. /\ rows[p] \in Row /\ WellFormed(p, rows[p]) /\ RowFits(p)
      /\ ledger \in [Approvals -> Receipt \cup {None}]
      /\ orders \in [Orders -> Closing \cup {None}]
  BY DEF IInv, SInv, RowsFit, TypeOK, ActionTypeOK, RowsWellFormed
<1>2. ApprovalIsConsistent(p, rows[p])
  <2>1. SUFFICES ASSUME rows[p].approval # None
                 PROVE  /\ rows[p].approval.binding = rows[p].binding
                        /\ rows[p].binding.proposal = p
                        /\ IssuedAt[rows[p].approval.approval] <= rows[p].approval.at
                        /\ rows[p].approval.at <= ExpiresAt[rows[p].approval.approval]
    BY DEF ApprovalIsConsistent
  <2> DEFINE a == rows[p].approval.approval
  <2>2. rows[p].status # "ABSENT"
    BY <1>1, <2>1 DEF WellFormed, Absent
  <2>3. rows[p].approval \in Receipt /\ a \in Approvals /\ rows[p].approval.at \in Time
    BY <1>1, <2>1 DEF Row, Receipt
  <2>4. ledger[a] = rows[p].approval /\ WellSpent(a)
    BY <2>1, <2>3 DEF IInv, RowsHoldReceipts, ApprovalsWellSpent
  <2>5. IssuedAt[a] \in Nat /\ ExpiresAt[a] \in Nat /\ rows[p].approval.at \in Nat
    BY <2>3, GrantAssumption, TimeAssumption DEF Time
  <2>6. IssuedAt[a] <= rows[p].approval.at /\ rows[p].approval.at <= ExpiresAt[a]
    BY <2>3, <2>4, <2>5 DEF WellSpent
  <2> QED
    BY <1>1, <2>1, <2>2, <2>6 DEF RowFits, WellFormed
<1>3. ReconciliationIsConsistent(p, rows[p])
  <2>1. CASE rows[p].closing = None
    BY <2>1, NoneAssumption DEF RInv, ClosedRowsInLedger, ReconciliationIsConsistent, Closing
  <2>2. CASE rows[p].closing # None
    <3> DEFINE j == rows[p].closing.order
    <3>1. rows[p].status \in Closed
      BY <1>1, <2>2 DEF WellFormed
    <3>2. /\ rows[p].closing \in Closing /\ j \in Orders /\ rows[p].closing.at \in Time
          /\ rows[p].closing.action = p
          /\ orders[j] = rows[p].closing /\ rows[p].status = ClosedStatus(j)
      BY <3>1 DEF RInv, ClosedRowsInLedger, Closing
    <3>3. Settles[j] = rows[p].binding
      BY <2>2, <3>2 DEF RInv, OrdersWellSpent, OrderWellSpent
    <3>4. IssuedAt[j] <= rows[p].closing.at /\ rows[p].closing.at < ExpiresAt[j]
      BY <2>2, <3>2 DEF SInv, OrdersInWindow
    <3>5. ExpiresAt[j] \in Nat /\ rows[p].closing.at \in Nat
      BY <3>2, GrantAssumption, TimeAssumption DEF Time
    <3>6. IssuedAt[j] <= rows[p].closing.at /\ rows[p].closing.at <= ExpiresAt[j]
      BY <3>2, <3>4, <3>5
    <3>7. rows[p].execution = IF Verdict[j] = "EXECUTED" THEN j ELSE None
      BY <1>1, <3>1 DEF RowFits
    <3> QED
      BY <2>2, <3>2, <3>3, <3>6, <3>7 DEF ReconciliationIsConsistent
  <2> QED
    BY <2>1, <2>2
<1> QED
  BY <1>2, <1>3 DEF RowIsConsistent

(* A proposal that had events when it was asked for has a row. *)
LEMMA AskedForExist ==
  ASSUME IInv, RInv, AskedFirst, reading # "enforcement", NEW p \in Proposals, asked[p] # <<>>
  PROVE  p \in Existing
<1>1. /\ asked[p] \in Seq(Statuses) /\ history[p] \in Seq(Statuses)
      /\ GoesOnFrom(asked[p], history[p])
  BY DEF AskedFirst, IInv, TypeOK, ActionTypeOK
<1>2. Len(asked[p]) \in Nat /\ Len(asked[p]) # 0
  BY <1>1, EmptySeq
<1>3. 1 \in DOMAIN history[p] /\ history[p][1] \in Statuses
  BY <1>1, <1>2 DEF GoesOnFrom
<1>4. Rank(history[p][1]) <= Rank(rows[p].status)
  BY <1>3 DEF RInv, HistoriesBehind
<1>5. \A s \in Statuses : Rank(s) \in 1..5
  BY DEF Rank, Statuses, Open, Judged, Closed
<1>6. Rank("ABSENT") = 0
  BY DEF Rank, Judged, Closed
<1>7. rows[p].status # "ABSENT"
  BY <1>3, <1>4, <1>5, <1>6
<1> QED
  BY <1>7 DEF Existing, Absent

LEMMA GoesOnIsTransitive ==
  ASSUME NEW s \in Seq(Statuses), NEW t \in Seq(Statuses), NEW u \in Seq(Statuses),
         GoesOnFrom(s, t), GoesOnFrom(t, u)
  PROVE  GoesOnFrom(s, u)
BY DEF GoesOnFrom

(* What goes on from a history starts with it. *)
LEMMA GoesOnStarts ==
  ASSUME NEW s \in Seq(Statuses), NEW t \in Seq(Statuses), GoesOnFrom(s, t)
  PROVE  Len(s) <= Len(t) /\ SubSeq(t, 1, Len(s)) = s
<1>1. Len(s) \in Nat /\ Len(s) <= Len(t) /\ \A i \in 1..Len(s) : t[i] = s[i] /\ t[i] \in Statuses
  BY DEF GoesOnFrom
<1>2. /\ SubSeq(t, 1, Len(s)) \in Seq(Statuses)
      /\ Len(SubSeq(t, 1, Len(s))) = IF 1 <= Len(s) THEN Len(s) - 1 + 1 ELSE 0
      /\ \A i \in 1..(Len(s) - 1 + 1) : SubSeq(t, 1, Len(s))[i] = t[1 + i - 1]
  BY <1>1, SubSeqProperties
<1>3. /\ Len(SubSeq(t, 1, Len(s))) = Len(s)
      /\ \A i \in 1..Len(s) : SubSeq(t, 1, Len(s))[i] = s[i]
  BY <1>1, <1>2
<1> QED
  BY <1>1, <1>2, <1>3, SeqEqual

(* The tables move on under the query. *)
LEMMA TablesMoveOn ==
  ASSUME IInv, IInv', SInv, QInv, HistoriesGrow, UNCHANGED readerVars,
         parent' \in 0..Len(Path), parent <= parent'
  PROVE  QInv'
<1>1. UNCHANGED <<reading, found, listed, timeline, asked>>
  BY DEF readerVars
<1>2. AskedFirst'
  <2>1. SUFFICES ASSUME reading # "enforcement", NEW p \in Proposals
                 PROVE  /\ asked \in [Proposals -> Seq(Statuses)]
                        /\ GoesOnFrom(asked[p], history'[p])
    BY <1>1 DEF AskedFirst, QInv, GoesOnFrom
  <2>2. /\ asked \in [Proposals -> Seq(Statuses)] /\ GoesOnFrom(asked[p], history[p])
        /\ GoesOnFrom(history[p], history'[p])
        /\ history[p] \in Seq(Statuses) /\ history'[p] \in Seq(Statuses)
    BY <2>1 DEF QInv, AskedFirst, HistoriesGrow, IInv, TypeOK, ActionTypeOK
  <2> QED
    BY <2>2, GoesOnIsTransitive
<1>3. FoundOnPath'
  BY <1>1 DEF QInv, FoundOnPath, Path
<1>4. Listed'
  <2>1. ASSUME reading = "events", NEW p \in DOMAIN listed
        PROVE  /\ RowIsConsistent(p, listed[p])
               /\ \E i \in DOMAIN history'[p] : history'[p][i] = listed[p].status
    <3>1. /\ p \in Proposals /\ RowIsConsistent(p, listed[p])
          /\ history[p] \in Seq(Statuses) /\ history'[p] \in Seq(Statuses)
          /\ GoesOnFrom(history[p], history'[p])
      BY <2>1 DEF QInv, Listed, HistoriesGrow, IInv, TypeOK, ActionTypeOK
    <3>2. PICK i \in DOMAIN history[p] : history[p][i] = listed[p].status
      BY <2>1 DEF QInv, Listed
    <3>3. i \in DOMAIN history'[p] /\ history'[p][i] = listed[p].status
      BY <3>1, <3>2 DEF GoesOnFrom
    <3> QED
      BY <3>1, <3>3
  <2>2. \A p : RowIsConsistent(p, listed[p])' <=> RowIsConsistent(p, listed'[p])
    BY DEF RowIsConsistent, ApprovalIsConsistent, ReconciliationIsConsistent, ClosedStatus
  <2> QED
    BY <1>1, <2>1, <2>2 DEF QInv, Listed
<1>5. TimelinesAreWhole'
  BY <1>1 DEF QInv, TimelinesAreWhole
<1> QED
  BY <1>2, <1>3, <1>4, <1>5 DEF QInv

LEMMA ReadEnforcementStep ==
  ASSUME IInv, QInv, ReadEnforcement
  PROVE  QInv'
<1>1. /\ asked' = history /\ UNCHANGED <<history, parent>> /\ parent \in 0..Len(Path)
      /\ history \in [Proposals -> Seq(Statuses)]
      /\ reading' = "NOT_FOUND" \/ (reading' = "actions" /\ found' = Path[parent] /\ parent # 0)
  BY DEF ReadEnforcement, QInv, IInv, TypeOK, ActionTypeOK, vars, actionVars
<1>2. AskedFirst'
  BY <1>1 DEF AskedFirst, GoesOnFrom
<1>3. FoundOnPath'
  BY <1>1 DEF FoundOnPath, Path
<1>4. Listed' /\ TimelinesAreWhole'
  BY <1>1 DEF Listed, TimelinesAreWhole
<1> QED
  BY <1>1, <1>2, <1>3, <1>4 DEF QInv

(* The list is short only because there is no more. *)
LEMMA ShortListIsWhole ==
  ASSUME NEW s \in Listings, Cardinality(s) <= MaxActions
  PROVE  s = Existing
<1>1. IsFiniteSet(Existing) /\ Cardinality(Existing) \in Nat
  BY ProposalsAssumption, FS_Subset, FS_CardinalityType DEF Existing
<1>2. s \in SUBSET Existing /\ Cardinality(s) = Lesser(Cardinality(Existing), MaxActions + 1)
  BY DEF Listings
<1>3. Cardinality(s) = Cardinality(Existing)
  BY <1>1, <1>2, LimitAssumption DEF Lesser
<1> QED
  BY <1>1, <1>2, <1>3, FS_Subset

LEMMA ReadActionsStep ==
  ASSUME IInv, RInv, SInv, QInv, ReadActions
  PROVE  QInv'
<1>1. PICK s \in Listings : listed' = [p \in s |-> rows[p]]
  BY DEF ReadActions
<1>2. /\ reading = "actions" /\ reading' = "events"
      /\ UNCHANGED <<vars, parent, found, timeline, asked>>
      /\ UNCHANGED <<rows, history>>
      /\ DOMAIN listed' = s /\ s \subseteq Existing /\ Existing \subseteq Proposals
      /\ \A p \in s : listed'[p] = rows[p]
  BY <1>1 DEF ReadActions, vars, actionVars, Listings, Existing
<1>3. ASSUME NEW p \in s
      PROVE  /\ RowIsConsistent(p, listed'[p])
             /\ \E i \in DOMAIN history[p] : history[p][i] = listed'[p].status
  <2>1. p \in Proposals /\ rows[p] # Absent /\ listed'[p] = rows[p]
    BY <1>2, <1>3 DEF Existing
  <2>2. rows[p].status # "ABSENT"
    BY <2>1 DEF IInv, RowsWellFormed, WellFormed
  <2> QED
    BY <2>1, <2>2, RowsAreConsistent DEF SInv, RowsFit, RowFits
<1>4. ASSUME Cardinality(s) <= MaxActions, NEW p \in Proposals, asked[p] # <<>> PROVE p \in s
  BY <1>2, <1>4, ShortListIsWhole, AskedForExist DEF QInv
<1>5. Listed'
  <2>1. \A p : RowIsConsistent(p, listed[p])' <=> RowIsConsistent(p, listed'[p])
    BY DEF RowIsConsistent, ApprovalIsConsistent, ReconciliationIsConsistent, ClosedStatus
  <2> QED
    BY <1>2, <1>3, <1>4, <2>1 DEF Listed
<1>6. AskedFirst' /\ FoundOnPath' /\ TimelinesAreWhole'
  BY <1>2 DEF QInv, AskedFirst, FoundOnPath, TimelinesAreWhole
<1> QED
  BY <1>2, <1>5, <1>6 DEF QInv

(* Whatever was torn, what was read is consistent and covered by its events. *)
LEMMA ReadsAreCovered ==
  ASSUME QInv, reading = "events", NEW shown \in SUBSET DOMAIN listed
  PROVE  Consistent /\ Covers(shown)
BY DEF QInv, FoundOnPath, Listed, RowIsConsistent, Consistent, Covers

(* A list that was not cut is shown. *)
LEMMA WholeListIsShown ==
  ASSUME QInv, reading = "events", NEW shown \in SUBSET DOMAIN listed,
         Cardinality(shown) = Lesser(Cardinality(DOMAIN listed), MaxActions),
         ~(Cardinality(DOMAIN listed) > MaxActions)
  PROVE  Cardinality(DOMAIN listed) <= MaxActions /\ shown = DOMAIN listed
<1>1. IsFiniteSet(DOMAIN listed) /\ Cardinality(DOMAIN listed) \in Nat
  BY ProposalsAssumption, FS_Subset, FS_CardinalityType DEF QInv, Listed
<1>2. Cardinality(shown) = Cardinality(DOMAIN listed) /\ Cardinality(DOMAIN listed) <= MaxActions
  BY <1>1, LimitAssumption DEF Lesser
<1> QED
  BY <1>1, <1>2, FS_Subset

LEMMA ComposeStep ==
  ASSUME IInv, QInv, Compose
  PROVE  QInv'
<1> DEFINE cutActions == Cardinality(DOMAIN listed) > MaxActions
           cutEvents  == EventTotal > MaxEvents
<1>1. /\ reading = "events" /\ reading' = "ANSWERED"
      /\ UNCHANGED <<vars, parent, found, listed, asked>> /\ UNCHANGED history
  BY ReadsAreCovered DEF Compose, vars, actionVars
<1>2. PICK shown \in SUBSET DOMAIN listed :
        /\ Cardinality(shown) = Lesser(Cardinality(DOMAIN listed), MaxActions)
        /\ timeline' =
             [shown |-> shown, history |-> history,
              attention |-> {p \in shown : NeedsAttention(listed[p].status)},
              truncated |-> cutActions \/ cutEvents,
              complete  |-> ~ cutActions /\ ~ cutEvents /\ Covers(shown)]
  BY <1>1, ReadsAreCovered DEF Compose
<1>3. Covers(shown)
  BY <1>1, ReadsAreCovered
<1>4. /\ timeline'.shown = shown /\ timeline'.history = history
      /\ timeline'.truncated = (cutActions \/ cutEvents)
      /\ timeline'.complete = (~ cutActions /\ ~ cutEvents /\ Covers(shown))
  BY <1>2
<1> HIDE DEF cutActions, cutEvents
<1>5. timeline'.complete = ~ timeline'.truncated /\ (timeline'.complete => ~ cutActions)
  BY <1>3, <1>4, Zenon
<1>6. ASSUME timeline'.complete, NEW p \in Proposals
      PROVE  /\ asked[p] # <<>> => p \in timeline'.shown
             /\ Len(asked[p]) <= Len(timeline'.history[p])
             /\ SubSeq(timeline'.history[p], 1, Len(asked[p])) = asked[p]
  <2>1. Cardinality(DOMAIN listed) <= MaxActions /\ shown = DOMAIN listed
    BY <1>1, <1>2, <1>5, <1>6, WholeListIsShown DEF cutActions
  <2>2. asked[p] # <<>> => p \in shown
    BY <1>1, <1>6, <2>1 DEF QInv, Listed
  <2>3. /\ asked[p] \in Seq(Statuses) /\ history[p] \in Seq(Statuses)
        /\ GoesOnFrom(asked[p], history[p])
    BY <1>1, <1>6 DEF QInv, AskedFirst, IInv, TypeOK, ActionTypeOK
  <2>4. Len(asked[p]) <= Len(history[p]) /\ SubSeq(history[p], 1, Len(asked[p])) = asked[p]
    BY <2>3, GoesOnStarts
  <2> QED
    BY <1>4, <2>2, <2>4
<1>7. TimelinesAreWhole'
  BY <1>1, <1>5, <1>6 DEF TimelinesAreWhole
<1>8. AskedFirst' /\ FoundOnPath' /\ Listed'
  BY <1>1 DEF QInv, AskedFirst, FoundOnPath, Listed
<1> QED
  BY <1>1, <1>7, <1>8 DEF QInv

-----------------------------------------------------------------------------
(***************************************************************************)
(* The invariant, and what it says of timelines.                           *)
(***************************************************************************)

(* The query and the enforcement leave the tables alone. *)
LEMMA TimelineMoves ==
  ASSUME [TimelineNext]_<<vars, parent, readerVars>>
  PROVE  [Next]_vars
BY DEF TimelineNext, AdvanceParent, ReadEnforcement, ReadActions, Compose

LEMMA TimelineRuns == TimelineSpec => Spec
<1>1. TimelineInit => Init
  BY DEF TimelineInit
<1> QED
  BY <1>1, TimelineMoves, PTL DEF TimelineSpec, Spec

LEMMA TimelineInitHolds == TimelineInit => SInv /\ QInv
<1> SUFFICES ASSUME TimelineInit PROVE SInv /\ QInv
  OBVIOUS
<1>1. SInv
  BY InitFits DEF TimelineInit
<1>2. parent = 0 /\ reading = "enforcement"
  BY DEF TimelineInit
<1>3. QInv
  BY <1>2 DEF QInv, AskedFirst, FoundOnPath, Listed, TimelinesAreWhole, Path
<1> QED
  BY <1>1, <1>3

LEMMA TimelineStep ==
  ASSUME IInv, IInv', RInv, SInv, QInv, [TimelineNext]_<<vars, parent, readerVars>>
  PROVE  SInv' /\ QInv'
<1>1. SInv' /\ HistoriesGrow
  BY TimelineMoves, TablesStep
<1>2. Len(Path) = 3 /\ parent \in 0..Len(Path)
  BY DEF Path, QInv
<1>3. CASE UNCHANGED parent /\ UNCHANGED readerVars
  BY <1>1, <1>2, <1>3, TablesMoveOn DEF Path
<1>4. CASE AdvanceParent
  BY <1>1, <1>2, <1>4, TablesMoveOn DEF AdvanceParent, Path
<1>5. CASE ReadEnforcement \/ ReadActions \/ Compose
  BY <1>1, <1>5, ReadEnforcementStep, ReadActionsStep, ComposeStep
<1> QED
  BY <1>1, <1>3, <1>4, <1>5 DEF TimelineNext

(* What the proof rests on: rows, receipts and events fit together, and what *)
(* the query has read stays covered by what it has yet to read.              *)
THEOREM TimelineInvariantHolds == TimelineSpec => [](SInv /\ QInv)
<1>1. IInv /\ IInv' /\ RInv /\ SInv /\ QInv /\ [TimelineNext]_<<vars, parent, readerVars>>
        => SInv' /\ QInv'
  BY TimelineStep
<1> QED
  BY <1>1, TimelineInitHolds, TimelineRuns, InvariantHolds, WhatFollowsHolds, PTL DEF TimelineSpec

(* A timeline composed of separate reads is never torn: it is incomplete     *)
(* only when a list was cut, and a complete one shows every action and every *)
(* transition that was committed when it was asked for.                      *)
THEOREM TimelinesWhole == TimelineSpec => []TimelinesAreWhole
<1>1. QInv => TimelinesAreWhole
  BY DEF QInv
<1> QED
  BY <1>1, TimelineInvariantHolds, PTL
=============================================================================
