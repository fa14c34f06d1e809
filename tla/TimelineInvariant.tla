--------------------------- MODULE TimelineInvariant ---------------------------
(***************************************************************************)
(* The inductive invariant of OperatorTimeline.  SInv is about the tables: *)
(* a row, its receipts and its events always fit together, so a row read   *)
(* whole is consistent.  QInv is about the query: what it has read is      *)
(* still covered by what it will read.                                     *)
(***************************************************************************)
EXTENDS OperatorTimeline, ToolActionInvariant

\* A row shows a receipt for its own binding, the execution its order confirms, and a
\* status that its events have.
RowFits(p) ==
  /\ rows[p].approval # None => rows[p].approval.binding = rows[p].binding
  /\ rows[p].status \in Closed =>
       LET j == rows[p].closing.order
       IN rows[p].execution = IF Verdict[j] = "EXECUTED" THEN j ELSE None
  /\ rows[p].status # "ABSENT" =>
       \E i \in DOMAIN history[p] : history[p][i] = rows[p].status

RowsFit == \A p \in Proposals : RowFits(p)

OrdersInWindow ==
  \A j \in Orders : orders[j] # None =>
    IssuedAt[j] <= orders[j].at /\ orders[j].at < ExpiresAt[j]

(* The tables, relative to IInv and RInv. *)
SInv == RowsFit /\ OrdersInWindow

-----------------------------------------------------------------------------
RowIsConsistent(p, row) ==
  ApprovalIsConsistent(p, row) /\ ReconciliationIsConsistent(p, row)

\* t goes on where s ends.
GoesOnFrom(s, t) == Len(s) <= Len(t) /\ \A i \in 1..Len(s) : t[i] = s[i]

\* The histories go on from those that were there when the timeline was asked for.
AskedFirst ==
  reading # "enforcement" =>
    /\ asked \in [Proposals -> Seq(Statuses)]
    /\ \A p \in Proposals : GoesOnFrom(asked[p], history[p])

\* The status found was reached.
FoundOnPath == reading \in {"actions", "events"} => \E k \in 1..parent : Path[k] = found

\* The actions listed are whole rows with their events; unless there are too many, none
\* that was asked for is missing.
Listed ==
  reading = "events" =>
    /\ DOMAIN listed \subseteq Proposals
    /\ \A p \in DOMAIN listed :
         /\ RowIsConsistent(p, listed[p])
         /\ \E i \in DOMAIN history[p] : history[p][i] = listed[p].status
    /\ Cardinality(DOMAIN listed) <= MaxActions =>
         \A p \in Proposals : asked[p] # <<>> => p \in DOMAIN listed

(* The query, relative to IInv, RInv and SInv. *)
QInv ==
  /\ parent \in 0..Len(Path)
  /\ AskedFirst /\ FoundOnPath /\ Listed
  /\ TimelinesAreWhole
=============================================================================
