--------------------------- MODULE OperatorTimeline ---------------------------
(***************************************************************************)
(* GetOperatorTimeline beside the requests and reconcilers that change     *)
(* what it reads: the enforcement, its actions and their lifecycle events  *)
(* are read in transactions of their own, in this order, and one answer is *)
(* composed of them.  (The evidence is read between the first two; it is   *)
(* written before the enforcement and never changes.)                      *)
(*                                                                         *)
(* All proposals are of one enforcement, which passes through Path before  *)
(* any of them can be bound.  The lists are bounded; which elements of a   *)
(* list that is too long are shown (the oldest) is left open, since the    *)
(* creation times are not modelled.                                        *)
(***************************************************************************)
EXTENDS ToolActionReconciliation

CONSTANTS
  MaxActions, \* _MAX_ACTIONS
  MaxEvents   \* _MAX_EVENTS

ASSUME LimitAssumption == MaxActions \in Nat \ {0} /\ MaxEvents \in Nat \ {0}

\* One enforcement has finitely many proposals; their lists can be counted.
ASSUME ProposalsAssumption == IsFiniteSet(Proposals)

VARIABLES
  parent,   \* how far the enforcement is on its path
  reading,  \* the query: what it reads next, or how it ended,
  found,    \* the status of the enforcement it found,
  listed,   \* the actions it found, with their rows,
  timeline, \* and its answer
  asked     \* observation: the histories when the query was made

readerVars == <<reading, found, listed, timeline, asked>>

Path == <<"PREPARED", "DISPATCHED", "EXECUTED">>

TimelineInit ==
  /\ Init
  /\ parent = 0 /\ reading = "enforcement" /\ found = None /\ listed = <<>>
  /\ timeline = None /\ asked = None

-----------------------------------------------------------------------------
Existing == {p \in Proposals : rows[p] # Absent}

Lesser(n, limit) == IF n < limit THEN n ELSE limit

\* Faulty variant: only as many are asked for as are shown.
ListingsUpToLimit ==
  LET n == Lesser(Cardinality(Existing), MaxActions)
  IN {s \in SUBSET Existing : Cardinality(s) = n}

\* What list_for_enforcement may return for a limit of one more than is shown.
Listings ==
  LET n == Lesser(Cardinality(Existing), MaxActions + 1)
  IN {s \in SUBSET Existing : Cardinality(s) = n}

ApprovalIsConsistent(p, row) ==
  row.approval # None =>
    /\ row.approval.binding = row.binding /\ row.binding.proposal = p
    /\ IssuedAt[row.approval.approval] <= row.approval.at
    /\ row.approval.at <= ExpiresAt[row.approval.approval]

ReconciliationIsConsistent(p, row) ==
  IF row.closing = None THEN row.status \notin Closed
  ELSE LET j == row.closing.order
       IN /\ row.status = ClosedStatus(j)
          /\ row.closing.action = p /\ Settles[j] = row.binding
          /\ row.execution = (IF Verdict[j] = "EXECUTED" THEN j ELSE None)
          /\ IssuedAt[j] <= row.closing.at /\ row.closing.at <= ExpiresAt[j]

Consistent ==
  \A p \in DOMAIN listed :
    ApprovalIsConsistent(p, listed[p]) /\ ReconciliationIsConsistent(p, listed[p])

NeedsAttention(status) ==
  status \in {"WAITING_APPROVAL", "APPROVAL_FAILED", "DISPATCHED",
              "RECONCILIATION_REQUIRED", "RESULT_REJECTED"}

\* The evaluation, the enforcement and the actions each have their events.
EventTotal == 1 + parent + Cardinality({e \in Proposals \X (1..Cardinality(Statuses)) :
                                          e[2] <= Len(history[e[1]])})

\* Every status shown has its event.
Covers(shown) ==
  /\ \E i \in 1..parent : Path[i] = found
  /\ \A p \in shown : \E i \in DOMAIN history[p] : history[p][i] = listed[p].status

-----------------------------------------------------------------------------
AdvanceParent ==
  /\ parent < Len(Path)
  /\ parent' = parent + 1
  /\ UNCHANGED <<vars, readerVars>>

ReadEnforcement ==
  /\ reading = "enforcement"
  /\ asked' = history
  /\ IF parent = 0
     THEN reading' = "NOT_FOUND" /\ UNCHANGED found
     ELSE reading' = "actions" /\ found' = Path[parent]
  /\ UNCHANGED <<vars, parent, listed, timeline>>

ReadActions ==
  /\ reading = "actions"
  /\ \E s \in Listings : listed' = [p \in s |-> rows[p]]
  /\ reading' = "events"
  /\ UNCHANGED <<vars, parent, found, timeline, asked>>

\* The last read, and the answer.
Compose ==
  /\ reading = "events"
  /\ reading' = IF Consistent THEN "ANSWERED" ELSE "INTEGRITY_FAILED"
  /\ IF ~ Consistent THEN UNCHANGED timeline
     ELSE LET actionsTruncated == Cardinality(DOMAIN listed) > MaxActions
              eventsTruncated  == EventTotal > MaxEvents
          IN \E shown \in SUBSET DOMAIN listed :
               /\ Cardinality(shown) = Lesser(Cardinality(DOMAIN listed), MaxActions)
               /\ timeline' =
                    [shown |-> shown, history |-> history,
                     attention |-> {p \in shown : NeedsAttention(listed[p].status)},
                     truncated |-> actionsTruncated \/ eventsTruncated,
                     complete  |-> ~ actionsTruncated /\ ~ eventsTruncated /\ Covers(shown)]
  /\ UNCHANGED <<vars, parent, found, listed, asked>>

TimelineNext ==
  \/ parent = Len(Path) /\ Next /\ UNCHANGED <<parent, readerVars>>
  \/ AdvanceParent
  \/ ReadEnforcement \/ ReadActions \/ Compose

TimelineSpec == TimelineInit /\ [][TimelineNext]_<<vars, parent, readerVars>>

-----------------------------------------------------------------------------
(* However the four reads are torn by what happens between them, they never  *)
(* look inconsistent; only a list that was cut makes the history incomplete, *)
(* because the events are read last and every status read before has its     *)
(* event; and a history that is called complete shows every action and       *)
(* transition that was committed when the timeline was asked for.            *)
TimelinesAreWhole ==
  /\ reading # "INTEGRITY_FAILED"
  /\ reading = "ANSWERED" =>
    /\ timeline.complete = ~ timeline.truncated
    /\ timeline.complete =>
         \A p \in Proposals :
           /\ asked[p] # <<>> => p \in timeline.shown
           /\ Len(asked[p]) <= Len(timeline.history[p])
           /\ SubSeq(timeline.history[p], 1, Len(asked[p])) = asked[p]
===============================================================================
