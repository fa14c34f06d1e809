------------------------ MODULE EnforcementInvariant ------------------------
(***************************************************************************)
(* The inductive invariants of EnforcementLifecycle.  The safety           *)
(* properties speak of the calls and the database; what keeps them true is *)
(* who owns a row: the one request that won its claim, until it answers    *)
(* (IInv).  RInv, relative to it, is about what is left on record: events, *)
(* receipts and answers.                                                   *)
(***************************************************************************)
EXTENDS EnforcementLifecycle

Owning   == {"claimed", "dispatched", "executed", "unconfirmed"}
Called   == {"executed", "unconfirmed"}
Effected == {"DISPATCHED", "EXECUTED", "EXECUTION_FAILED"}

Owns(r, id) == pc[r] \in Owning /\ Target(r) = id

\* What a request knows of itself at each of its labels.
KnowsItself(r) ==
  /\ pc[r] \notin {"idle", "done"} => evaluation[r] \in Evaluations
  /\ pc[r] \in {"ready", "saved", "prepared"} /\ NeedsApproval(evaluation[r])
       => assertion[r] \in Approvals /\ GrantedFor[assertion[r]] = evaluation[r]
  /\ pc[r] = "claimed" => /\ NeedsApproval(evaluation[r])
                          /\ assertion[r] \in Approvals
                          /\ GrantedFor[assertion[r]] = evaluation[r]
  /\ pc[r] \in {"saved", "prepared", "reading"} => rows[Target(r)].status # "ABSENT"

RequestsKnowThemselves == \A r \in Requests : KnowsItself(r)

\* A row has one owner, and stays dispatched while it is owned.
OwnersDispatch ==
  \A r \in Requests : pc[r] \in Owning => rows[Target(r)].status = "DISPATCHED"
OneOwner ==
  \A r, s \in Requests : pc[r] \in Owning /\ Owns(s, Target(r)) => r = s

\* A call was made for a row whose claim was won, and by its owner if it still has one.
CallsEffected ==
  \A c \in calls : rows[c.id].status \in Effected
CallsByOwner ==
  \A c \in calls, r \in Requests : Owns(r, c.id) => c.by = r /\ pc[r] \in Called

\* What the ledger holds of an approval.
WellSpent(a) ==
  /\ ledger[a].approval = a
  /\ ledger[a].evaluation = GrantedFor[a]
  /\ ledger[a].enforcement.evaluation = GrantedFor[a]
  /\ IssuedAt[a] <= ledger[a].at /\ ledger[a].at < ExpiresAt[a]
  /\ rows[ledger[a].enforcement].status \in Effected
  /\ \A r \in Requests : ~(pc[r] = "claimed" /\ Target(r) = ledger[a].enforcement)

ApprovalsWellSpent == \A a \in Approvals : ledger[a] # None => WellSpent(a)

\* A receipt that is still in a request's hands is the ledger's.
OwnersHoldReceipts ==
  \A r \in Requests :
    pc[r] \in Owning \ {"claimed"} /\ NeedsApproval(evaluation[r]) =>
      /\ receipt[r] \in Receipt
      /\ ledger[receipt[r].approval] = receipt[r]
      /\ receipt[r].enforcement = Target(r)

(* The inductive invariant. *)
IInv ==
  /\ TypeOK
  /\ RequestsKnowThemselves
  /\ OwnersDispatch /\ OneOwner
  /\ CallsEffected /\ CallsByOwner
  /\ ApprovalsWellSpent /\ OwnersHoldReceipts
  /\ SingleProviderCall /\ AuthorizedCalls

-----------------------------------------------------------------------------
\* A row is dispatched from PREPARED, so this event comes first.
DispatchesPrepared ==
  \A id \in Identity : \A j \in DOMAIN history[id] :
    history[id][j] = "DISPATCHED" =>
      \E i \in DOMAIN history[id] : i < j /\ history[id][i] = "PREPARED"

CallsRecorded ==
  \A c \in calls :
    /\ c.id.evaluation \in evidence
    /\ \E j \in DOMAIN history[c.id] : history[c.id][j] = "DISPATCHED"

\* An executed row names the request that called.
ExecutedRowsWereCalled ==
  \A id \in Identity : rows[id].status = "EXECUTED" =>
    \E c \in calls : c.id = id /\ c.by = rows[id].provider

\* What a request did on the way, and what its answer leaves true.
Accounts(r) ==
  /\ pc[r] \notin {"idle", "done"} => evaluation[r] \in evidence
  /\ receipt[r] # None =>
       /\ pc[r] \notin {"idle", "evaluated"}
       /\ receipt[r].enforcement = Target(r)
       /\ ledger[receipt[r].approval] = receipt[r]
  /\ pc[r] \in Called => \E c \in calls : c.by = r /\ c.id = Target(r)
  /\ answer[r] # None => pc[r] = "done"
  /\ answer[r] = "EXECUTED" =>
       evaluation[r] \in Evaluations /\ rows[Target(r)].status = "EXECUTED"
  /\ ~AtomicAuthority /\ answer[r] = "CONSUMPTION_FAILED" =>
       evaluation[r] \in Evaluations /\ rows[Target(r)].status = "APPROVAL_FAILED"

RequestsAccount == \A r \in Requests : Accounts(r)

CallersConclude ==
  \A c \in calls :
    \/ pc[c.by] \in Called
    \/ pc[c.by] = "done" /\ answer[c.by] \in {"EXECUTED", "EXECUTION_FAILED", "ABANDONED"}

(* The inductive invariant of what is on record, relative to IInv. *)
RInv ==
  /\ HistoryCoversStatus /\ DispatchesPrepared /\ CallsRecorded
  /\ ExecutedRowsWereCalled /\ RequestsAccount /\ CallersConclude
  /\ RowReceiptsInLedger /\ (AtomicAuthority => ClaimCarriesReceipt)
=============================================================================
