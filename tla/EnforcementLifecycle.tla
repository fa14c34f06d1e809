------------------------ MODULE EnforcementLifecycle ------------------------
(***************************************************************************)
(* The enforcement of one governed AI operation: EnforceAiOperation over   *)
(* the enforcement repository, the evidence repository and the ledger of   *)
(* consumed decision approvals.                                            *)
(*                                                                         *)
(* A request is one call of EnforceAiOperation.execute.  Every transaction *)
(* it makes against the database is an action of its own, so the requests  *)
(* of several replicas interleave between transactions and a request may   *)
(* be abandoned (crash, killed worker, failed repository call) before any  *)
(* of them.  Identical requests share one enforcement row: its identifier  *)
(* is a digest of the evaluation, the transformed output and the family of *)
(* the status.                                                             *)
(*                                                                         *)
(* An evaluation is identified with the digest of its decision, which is   *)
(* what an approval is granted for (the evaluation id is that digest).     *)
(***************************************************************************)
EXTENDS Naturals, Sequences, FiniteSets

CONSTANTS
  Requests,        \* calls of EnforceAiOperation.execute
  Evaluations,     \* decision digests the evaluator can produce
  Outputs,         \* digests of the transformed operation
  Approvals,       \* approval ids issued by the external approver
  Outcome,         \* evaluation -> its decision outcome
  GrantedFor,      \* approval -> the evaluation it was signed for
  IssuedAt,        \* approval -> first instant of its validity
  ExpiresAt,       \* approval -> first instant after its validity
  MaxTime,         \* bound on the clock
  AtomicAuthority, \* TRUE: PostgreSQL claims and consumes in one transaction
  None             \* the null of the database and of the program

Outcomes == {"DENY", "ALLOW", "ALLOW_WITH_TRANSFORMATION", "REQUIRE_APPROVAL"}

ASSUME OutcomeAssumption == Outcome \in [Evaluations -> Outcomes]
ASSUME GrantAssumption   == /\ GrantedFor \in [Approvals -> Evaluations]
                            /\ IssuedAt   \in [Approvals -> Nat]
                            /\ ExpiresAt  \in [Approvals -> Nat]
ASSUME TimeAssumption    == MaxTime \in Nat
ASSUME BackendAssumption == AtomicAuthority \in BOOLEAN

(***************************************************************************)
(* Statuses of a row.  Frozen is the set the upsert never leaves, but for  *)
(* the conclusion of a dispatched row.                                     *)
(***************************************************************************)
Concluded == {"EXECUTED", "APPROVAL_FAILED", "EXECUTION_FAILED"}
Frozen    == Concluded \cup {"DISPATCHED"}
Statuses  == Frozen \cup {"BLOCKED_DENY", "TRANSFORMATION_FAILED",
                          "WAITING_APPROVAL", "PREPARED"}

ExecutionFamily == Frozen \cup {"WAITING_APPROVAL", "PREPARED"}
StatusFamily(status) == IF status \in ExecutionFamily THEN "execution" ELSE status

Identity == [evaluation : Evaluations, output : Outputs \cup {None},
             family : {"execution", "BLOCKED_DENY", "TRANSFORMATION_FAILED"}]
EnforcementId(e, o, status) ==
  [evaluation |-> e, output |-> o, family |-> StatusFamily(status)]

Time    == 0..MaxTime
Receipt == [approval : Approvals, evaluation : Evaluations,
            enforcement : Identity, at : Time]
Row     == [status : Statuses \cup {"ABSENT"}, receipt : Receipt \cup {None},
            provider : Requests \cup {None}]
Absent  == [status |-> "ABSENT", receipt |-> None, provider |-> None]

Labels  == {"idle", "evaluated", "transformed", "ready", "saved", "prepared", "reading",
            "claimed", "dispatched", "executed", "unconfirmed", "done"}
Answers == Statuses \cup {"VERIFICATION_FAILED", "CONSUMPTION_FAILED", "ABANDONED"}

ASSUME NoneAssumption ==
  None \notin Requests \cup Outputs \cup Approvals \cup Evaluations \cup Receipt \cup Answers

VARIABLES
  \* the database
  rows,        \* enforcement table
  ledger,      \* approval_consumption table
  evidence,    \* evaluations whose evidence is persisted
  history,     \* operator_lifecycle_event rows of each enforcement, in order
  now,         \* the clock
  \* each request
  pc, evaluation, assertion, output, receipt, answer,
  \* observation: the calls made of the execution port, with their plans
  calls

vars == <<rows, ledger, evidence, history, now, pc, evaluation, assertion, output,
          receipt, answer, calls>>

\* The row a request works on.
Target(r) == EnforcementId(evaluation[r], output[r], "PREPARED")
NeedsApproval(e) == Outcome[e] = "REQUIRE_APPROVAL"

TypeOK ==
  /\ rows       \in [Identity -> Row]
  /\ ledger     \in [Approvals -> Receipt \cup {None}]
  /\ evidence   \subseteq Evaluations
  /\ history    \in [Identity -> Seq(Statuses)]
  /\ now        \in Time
  /\ pc         \in [Requests -> Labels]
  /\ evaluation \in [Requests -> Evaluations \cup {None}]
  /\ assertion  \in [Requests -> Approvals \cup {None}]
  /\ output     \in [Requests -> Outputs \cup {None}]
  /\ receipt    \in [Requests -> Receipt \cup {None}]
  /\ answer     \in [Requests -> Answers \cup {None}]
  /\ calls      \subseteq [by : Requests, id : Identity, receipt : Receipt \cup {None}]

Init ==
  /\ rows       = [id \in Identity |-> Absent]
  /\ ledger     = [a \in Approvals |-> None]
  /\ evidence   = {}
  /\ history    = [id \in Identity |-> <<>>]
  /\ now        = 0
  /\ pc         = [r \in Requests |-> "idle"]
  /\ evaluation = [r \in Requests |-> None]
  /\ assertion  = [r \in Requests |-> None]
  /\ output     = [r \in Requests |-> None]
  /\ receipt    = [r \in Requests |-> None]
  /\ answer     = [r \in Requests |-> None]
  /\ calls      = {}

-----------------------------------------------------------------------------
(***************************************************************************)
(* The statements of the enforcement repository.                           *)
(***************************************************************************)

\* Faulty variant: the upsert protects concluded rows only.
MayReplaceUnlessConcluded(old, new) == old \notin Concluded

\* The WHERE clause of the upsert: a frozen row only concludes its dispatch.
MayReplace(old, new) ==
  old \notin Frozen \/ (old = "DISPATCHED" /\ new \in Concluded)

\* Faulty variants: one of the two triggers is missing.
EventsOnInsert(id, status) ==
  IF history[id] # <<>> THEN history ELSE [history EXCEPT ![id] = Append(@, status)]
EventsOnUpdate(id, status) ==
  IF rows[id] = Absent THEN history ELSE [history EXCEPT ![id] = Append(@, status)]

\* The lifecycle triggers: one event per row and status, the first time it is reached.
Events(id, status) ==
  IF \E i \in DOMAIN history[id] : history[id][i] = status
    THEN history ELSE [history EXCEPT ![id] = Append(@, status)]

Store(id, row) ==
  /\ rows'    = [rows EXCEPT ![id] = row]
  /\ history' = Events(id, row.status)

Upsert(id, row) ==
  IF MayReplace(rows[id].status, row.status)
    THEN Store(id, row) ELSE UNCHANGED <<rows, history>>

NewRow(status) == [Absent EXCEPT !.status = status]

Goto(r, label) == pc' = [pc EXCEPT ![r] = label]

Reply(r, a) ==
  /\ Goto(r, "done")
  /\ answer' = [answer EXCEPT ![r] = a]

(***************************************************************************)
(* Approvals: what inspect accepts and what the ledger accepts.            *)
(***************************************************************************)
InWindow(a)    == IssuedAt[a] <= now /\ now < ExpiresAt[a]
Verifies(a, e) == GrantedFor[a] = e /\ InWindow(a)
ConsumableOnce(a) == ledger[a] = None \* faulty variant: no second look at the clock
Consumable(a)     == InWindow(a) /\ ledger[a] = None

ReceiptOf(r) == [approval |-> assertion[r], evaluation |-> evaluation[r],
                 enforcement |-> Target(r), at |-> now]

Consume(r) ==
  /\ ledger'  = [ledger EXCEPT ![assertion[r]] = ReceiptOf(r)]
  /\ receipt' = [receipt EXCEPT ![r] = ReceiptOf(r)]

-----------------------------------------------------------------------------
(***************************************************************************)
(* Faulty variants of the steps, each a plausible slip in the code.  They  *)
(* are used by no specification; each is what a property is there to catch. *)
(***************************************************************************)

\* The approval is consumed when it is verified, before the claim.
AcceptAndConsume(r) ==
  /\ pc[r] = "transformed"
  /\ assertion[r] # None
  /\ Verifies(assertion[r], evaluation[r])
  /\ Consumable(assertion[r])
  /\ Consume(r)
  /\ Goto(r, "ready")
  /\ UNCHANGED <<rows, evidence, history, now, evaluation, assertion, output, answer, calls>>

\* Whatever froze the row is reported as success.
ReadAnySuccess(r) ==
  /\ pc[r] = "saved"
  /\ IF rows[Target(r)].status \in Frozen
       THEN Reply(r, "EXECUTED") ELSE Goto(r, "prepared") /\ UNCHANGED answer
  /\ UNCHANGED <<rows, ledger, evidence, history, now, evaluation, assertion, output,
                 receipt, calls>>

\* The claim does not test the status it advances from.
ClaimAnyRow(r) ==
  /\ pc[r] = "prepared"
  /\ ~(AtomicAuthority /\ NeedsApproval(evaluation[r]))
  /\ Store(Target(r), [rows[Target(r)] EXCEPT !.status = "DISPATCHED"])
  /\ Goto(r, IF NeedsApproval(evaluation[r]) THEN "claimed" ELSE "dispatched")
  /\ UNCHANGED <<ledger, evidence, now, evaluation, assertion, output, receipt, answer, calls>>

\* The atomic claim writes the status and forgets the receipt column.
AtomicClaimWithoutReceipt(r) ==
  /\ pc[r] = "prepared"
  /\ AtomicAuthority /\ NeedsApproval(evaluation[r])
  /\ rows[Target(r)].status = "PREPARED"
  /\ Consumable(assertion[r])
  /\ Store(Target(r), [rows[Target(r)] EXCEPT !.status = "DISPATCHED"])
  /\ Consume(r)
  /\ Goto(r, "dispatched")
  /\ UNCHANGED <<evidence, now, evaluation, assertion, output, answer, calls>>

\* The atomic claim updates the row and never inserts the consumption.
AtomicClaimWithoutLedger(r) ==
  /\ pc[r] = "prepared"
  /\ AtomicAuthority /\ NeedsApproval(evaluation[r])
  /\ rows[Target(r)].status = "PREPARED"
  /\ Consumable(assertion[r])
  /\ Store(Target(r), [rows[Target(r)] EXCEPT !.status = "DISPATCHED", !.receipt = ReceiptOf(r)])
  /\ receipt' = [receipt EXCEPT ![r] = ReceiptOf(r)]
  /\ Goto(r, "dispatched")
  /\ UNCHANGED <<ledger, evidence, now, evaluation, assertion, output, answer, calls>>

\* A refused consumption fails the request and leaves the row dispatched.
RefuseWithoutRecord(r) ==
  /\ pc[r] = "claimed"
  /\ ~Consumable(assertion[r])
  /\ Reply(r, "CONSUMPTION_FAILED")
  /\ UNCHANGED <<rows, history, ledger, evidence, now, evaluation, assertion, output, receipt,
                 calls>>

\* The completed record is built from the claimed one, without the receipt.
SaveExecutedBare(r) ==
  /\ pc[r] = "executed"
  /\ Upsert(Target(r), [status |-> "EXECUTED", receipt |-> None, provider |-> r])
  /\ Reply(r, "EXECUTED")
  /\ UNCHANGED <<ledger, evidence, now, evaluation, assertion, output, receipt, calls>>

\* A failed execution is raised to the client and not recorded.
RaiseExecutionFailed(r) ==
  /\ pc[r] = "unconfirmed"
  /\ Reply(r, "EXECUTION_FAILED")
  /\ UNCHANGED <<rows, history, ledger, evidence, now, evaluation, assertion, output, receipt,
                 calls>>

\* The reason of a parked request is written in the status column.
ParkWithReason(r) ==
  /\ pc[r] = "transformed"
  /\ assertion[r] = None
  /\ Upsert(Target(r), NewRow("HUMAN_APPROVAL_REQUIRED"))
  /\ Goto(r, "reading")
  /\ UNCHANGED <<ledger, evidence, now, evaluation, assertion, output, receipt, answer, calls>>

-----------------------------------------------------------------------------
(***************************************************************************)
(* The steps of a request.                                                 *)
(***************************************************************************)

\* Evaluate the operation and persist its evidence, before anything else.
Evaluate(r) ==
  /\ pc[r] = "idle"
  /\ \E e \in Evaluations, a \in Approvals \cup {None} :
       /\ evaluation' = [evaluation EXCEPT ![r] = e]
       /\ assertion'  = [assertion EXCEPT ![r] = a]
       /\ evidence'   = evidence \cup {e}
  /\ Goto(r, "evaluated")
  /\ UNCHANGED <<rows, ledger, history, now, output, receipt, answer, calls>>

\* A denied operation is recorded and answered; nothing is transformed.
BlockDeny(r) ==
  /\ pc[r] = "evaluated"
  /\ Outcome[evaluation[r]] = "DENY"
  /\ Upsert(EnforcementId(evaluation[r], None, "BLOCKED_DENY"), NewRow("BLOCKED_DENY"))
  /\ Reply(r, "BLOCKED_DENY")
  /\ UNCHANGED <<ledger, evidence, now, evaluation, assertion, output, receipt, calls>>

FailTransformation(r) ==
  /\ pc[r] = "evaluated"
  /\ Outcome[evaluation[r]] # "DENY"
  /\ Upsert(EnforcementId(evaluation[r], None, "TRANSFORMATION_FAILED"),
            NewRow("TRANSFORMATION_FAILED"))
  /\ Reply(r, "TRANSFORMATION_FAILED")
  /\ UNCHANGED <<ledger, evidence, now, evaluation, assertion, output, receipt, calls>>

\* The transformed output decides the row; replicas with different tokenizer keys
\* transform one operation into different outputs.
Transform(r) ==
  /\ pc[r] = "evaluated"
  /\ Outcome[evaluation[r]] # "DENY"
  /\ \E o \in Outputs : output' = [output EXCEPT ![r] = o]
  /\ Goto(r, IF NeedsApproval(evaluation[r]) THEN "transformed" ELSE "ready")
  /\ UNCHANGED <<rows, ledger, evidence, history, now, evaluation, assertion, receipt,
                 answer, calls>>

\* No assertion: park the row; the answer is what the row then holds.
AwaitApproval(r) ==
  /\ pc[r] = "transformed"
  /\ assertion[r] = None
  /\ Upsert(Target(r), NewRow("WAITING_APPROVAL"))
  /\ Goto(r, "reading")
  /\ UNCHANGED <<ledger, evidence, now, evaluation, assertion, output, receipt, answer, calls>>

\* An assertion that does not verify parks the row and fails the request.
RejectAssertion(r) ==
  /\ pc[r] = "transformed"
  /\ assertion[r] # None
  /\ ~Verifies(assertion[r], evaluation[r])
  /\ Upsert(Target(r), NewRow("WAITING_APPROVAL"))
  /\ Reply(r, "VERIFICATION_FAILED")
  /\ UNCHANGED <<ledger, evidence, now, evaluation, assertion, output, receipt, calls>>

AcceptAssertion(r) ==
  /\ pc[r] = "transformed"
  /\ assertion[r] # None
  /\ Verifies(assertion[r], evaluation[r])
  /\ Goto(r, "ready")
  /\ UNCHANGED <<rows, ledger, evidence, history, now, evaluation, assertion, output,
                 receipt, answer, calls>>

SavePrepared(r) ==
  /\ pc[r] = "ready"
  /\ Upsert(Target(r), NewRow("PREPARED"))
  /\ Goto(r, "saved")
  /\ UNCHANGED <<ledger, evidence, now, evaluation, assertion, output, receipt, answer, calls>>

\* save reads the row back in a second transaction, where another request may have
\* written; a frozen row answers the request.
ReadPrepared(r) ==
  /\ pc[r] = "saved"
  /\ IF rows[Target(r)].status \in Frozen
       THEN Reply(r, rows[Target(r)].status)
       ELSE Goto(r, "prepared") /\ UNCHANGED answer
  /\ UNCHANGED <<rows, ledger, evidence, history, now, evaluation, assertion, output,
                 receipt, calls>>

\* Claim and consumption share a transaction only with PostgreSQL, and only for a grant.
ClaimsAtomically(r) == AtomicAuthority /\ NeedsApproval(evaluation[r])

WinClaim(r) ==
  /\ pc[r] = "prepared"
  /\ ~ClaimsAtomically(r)
  /\ rows[Target(r)].status = "PREPARED"
  /\ Store(Target(r), [rows[Target(r)] EXCEPT !.status = "DISPATCHED"])
  /\ Goto(r, IF NeedsApproval(evaluation[r]) THEN "claimed" ELSE "dispatched")
  /\ UNCHANGED <<ledger, evidence, now, evaluation, assertion, output, receipt, answer, calls>>

WinAtomicClaim(r) ==
  /\ pc[r] = "prepared"
  /\ ClaimsAtomically(r)
  /\ rows[Target(r)].status = "PREPARED"
  /\ Consumable(assertion[r])
  /\ Store(Target(r), [rows[Target(r)] EXCEPT !.status = "DISPATCHED", !.receipt = ReceiptOf(r)])
  /\ Consume(r)
  /\ Goto(r, "dispatched")
  /\ UNCHANGED <<evidence, now, evaluation, assertion, output, answer, calls>>

\* An expired grant, or a grant already consumed: the transaction rolls back.
FailAtomicClaim(r) ==
  /\ pc[r] = "prepared"
  /\ ClaimsAtomically(r)
  /\ \/ ~InWindow(assertion[r])
     \/ rows[Target(r)].status = "PREPARED" /\ ledger[assertion[r]] # None
  /\ Reply(r, "CONSUMPTION_FAILED")
  /\ UNCHANGED <<rows, ledger, evidence, history, now, evaluation, assertion, output,
                 receipt, calls>>

LoseClaim(r) ==
  /\ pc[r] = "prepared"
  /\ rows[Target(r)].status # "PREPARED"
  /\ ClaimsAtomically(r) => InWindow(assertion[r])
  /\ Goto(r, "reading")
  /\ UNCHANGED <<rows, ledger, evidence, history, now, evaluation, assertion, output,
                 receipt, answer, calls>>

\* The get that ends a parked or a lost request.
ReadBack(r) ==
  /\ pc[r] = "reading"
  /\ Reply(r, rows[Target(r)].status)
  /\ UNCHANGED <<rows, ledger, evidence, history, now, evaluation, assertion, output,
                 receipt, calls>>

ConsumeApproval(r) ==
  /\ pc[r] = "claimed"
  /\ Consumable(assertion[r])
  /\ Consume(r)
  /\ Goto(r, "dispatched")
  /\ UNCHANGED <<rows, evidence, history, now, evaluation, assertion, output, answer, calls>>

FailConsumption(r) ==
  /\ pc[r] = "claimed"
  /\ ~Consumable(assertion[r])
  /\ Upsert(Target(r), NewRow("APPROVAL_FAILED"))
  /\ Reply(r, "CONSUMPTION_FAILED")
  /\ UNCHANGED <<ledger, evidence, now, evaluation, assertion, output, receipt, calls>>

\* The one call of the execution port.  It may take effect and still fail.
Execute(r) ==
  /\ pc[r] = "dispatched"
  /\ calls' = calls \cup {[by |-> r, id |-> Target(r), receipt |-> receipt[r]]}
  /\ Goto(r, "executed") \/ Goto(r, "unconfirmed")
  /\ UNCHANGED <<rows, ledger, evidence, history, now, evaluation, assertion, output,
                 receipt, answer>>

SaveExecuted(r) ==
  /\ pc[r] = "executed"
  /\ Upsert(Target(r), [status |-> "EXECUTED", receipt |-> receipt[r], provider |-> r])
  /\ Reply(r, "EXECUTED")
  /\ UNCHANGED <<ledger, evidence, now, evaluation, assertion, output, receipt, calls>>

SaveExecutionFailed(r) ==
  /\ pc[r] = "unconfirmed"
  /\ Upsert(Target(r), [status |-> "EXECUTION_FAILED", receipt |-> receipt[r],
                        provider |-> None])
  /\ Reply(r, "EXECUTION_FAILED")
  /\ UNCHANGED <<ledger, evidence, now, evaluation, assertion, output, receipt, calls>>

\* The process dies, or a repository call raises: the request makes no further step.
Abandon(r) ==
  /\ pc[r] # "done"
  /\ Reply(r, "ABANDONED")
  /\ UNCHANGED <<rows, ledger, evidence, history, now, evaluation, assertion, output,
                 receipt, calls>>

Tick ==
  /\ now < MaxTime
  /\ now' = now + 1
  /\ UNCHANGED <<rows, ledger, evidence, history, pc, evaluation, assertion, output,
                 receipt, answer, calls>>

\* Every request is answered: the instance has nothing left to do.
Finished == (\A r \in Requests : pc[r] = "done") /\ UNCHANGED vars

Step(r) ==
  \/ Evaluate(r) \/ BlockDeny(r) \/ FailTransformation(r) \/ Transform(r)
  \/ AwaitApproval(r) \/ RejectAssertion(r) \/ AcceptAssertion(r)
  \/ SavePrepared(r) \/ ReadPrepared(r)
  \/ WinClaim(r) \/ WinAtomicClaim(r) \/ FailAtomicClaim(r) \/ LoseClaim(r) \/ ReadBack(r)
  \/ ConsumeApproval(r) \/ FailConsumption(r)
  \/ Execute(r) \/ SaveExecuted(r) \/ SaveExecutionFailed(r)

Next == (\E r \in Requests : Step(r) \/ Abandon(r)) \/ Tick \/ Finished

Spec == Init /\ [][Next]_vars

\* A worker that is not abandoned runs on; nothing obliges a client to call.
Progress(r) == pc[r] # "idle" /\ Step(r)
FairSpec == Spec /\ \A r \in Requests : WF_vars(Progress(r))

-----------------------------------------------------------------------------
(***************************************************************************)
(* Properties.                                                             *)
(***************************************************************************)

(* Whatever requests are repeated, raced or abandoned, the execution port is *)
(* called at most once for an enforcement.                                   *)
SingleProviderCall ==
  \A c, d \in calls : c.id = d.id => c = d

(* The port is called for an operation that requires approval only with the  *)
(* receipt of an approval that the ledger gives to this very enforcement,    *)
(* granted for this decision and consumed inside its window; and one         *)
(* approval never backs the calls of two enforcements.                       *)
AuthorizedCalls ==
  \A c \in calls : NeedsApproval(c.id.evaluation) =>
    /\ c.receipt # None
    /\ LET a == c.receipt.approval IN
         /\ ledger[a] = c.receipt
         /\ c.receipt.enforcement = c.id
         /\ GrantedFor[a] = c.id.evaluation
         /\ IssuedAt[a] <= c.receipt.at /\ c.receipt.at < ExpiresAt[a]

(* An approval is consumed only by a request that owns the dispatch: the row *)
(* it was spent on is never left waiting, prepared or refused, whatever is   *)
(* abandoned between the claim, the consumption and the call.                *)
NoApprovalSpentInVain ==
  \A a \in Approvals : ledger[a] # None =>
    rows[ledger[a].enforcement].status \in {"DISPATCHED", "EXECUTED", "EXECUTION_FAILED"}

(* The receipt a row shows is the ledger's, and an operation that required   *)
(* approval is never concluded by execution without one.                     *)
RowReceiptsInLedger ==
  \A id \in Identity :
    /\ rows[id].receipt # None =>
         /\ rows[id].receipt.enforcement = id
         /\ ledger[rows[id].receipt.approval] = rows[id].receipt
    /\ (rows[id].status \in {"EXECUTED", "EXECUTION_FAILED"} /\ NeedsApproval(id.evaluation))
         => rows[id].receipt # None

(* A consumed approval and the claim it pays for commit together: no         *)
(* dispatched row is without its receipt (PostgreSQL).                       *)
ClaimCarriesReceipt ==
  \A id \in Identity :
    rows[id].status = "DISPATCHED" /\ NeedsApproval(id.evaluation) => rows[id].receipt # None

(* The port is only reached through the record: before a call, the evidence  *)
(* of the evaluation, the PREPARED event and then the DISPATCHED event are    *)
(* persisted.                                                                *)
RecordedBeforeCall ==
  \A c \in calls :
    /\ c.id.evaluation \in evidence
    /\ \E i, j \in DOMAIN history[c.id] :
         i < j /\ history[c.id][i] = "PREPARED" /\ history[c.id][j] = "DISPATCHED"

(* What a client is told is true: an operation answered EXECUTED is recorded *)
(* with the identifier its provider returned, and a request answered with a  *)
(* refusal never reached the provider.                                       *)
TruthfulAnswers ==
  \A r \in Requests :
    /\ answer[r] = "EXECUTED" =>
         /\ rows[Target(r)].status = "EXECUTED"
         /\ \E c \in calls : c.id = Target(r) /\ c.by = rows[Target(r)].provider
    /\ answer[r] \in {"VERIFICATION_FAILED", "CONSUMPTION_FAILED", "WAITING_APPROVAL",
                       "BLOCKED_DENY", "TRANSFORMATION_FAILED"}
         => ~\E c \in calls : c.by = r

(* The recorded lifecycle covers the present status of every row.            *)
HistoryCoversStatus ==
  \A id \in Identity : rows[id].status # "ABSENT" =>
    \E i \in DOMAIN history[id] : history[id][i] = rows[id].status

(* A dispatch is never taken back: a dispatched row only concludes, and a    *)
(* concluded row never changes again, receipt and provider id included.      *)
DispatchIsFinal ==
  [][\A id \in Identity :
       /\ rows[id].status = "DISPATCHED" => rows'[id].status \in Frozen
       /\ rows[id].status \in Concluded => rows'[id] = rows[id]]_rows

(* Requests are finitely many, and in the end no row is left dispatched but  *)
(* one a request for which was abandoned.                                    *)
DispatchConcludes ==
  <>[]\A id \in Identity :
        rows[id].status = "DISPATCHED" =>
          \E r \in Requests : answer[r] = "ABANDONED" /\ Target(r) = id

(* What docs/API_CONTRACT.md says of a grant that verified and then could    *)
(* not be consumed: the failure "records terminal APPROVAL_FAILED".          *)
ConsumptionFailureIsTerminal ==
  \A r \in Requests :
    answer[r] = "CONSUMPTION_FAILED" => rows[Target(r)].status = "APPROVAL_FAILED"

(* What docs/adr/0012 says of the triggers: every status change of a row     *)
(* appends an event in the same transaction.                                 *)
EveryTransitionRecorded ==
  [][\A id \in Identity :
       rows'[id].status # rows[id].status =>
         /\ Len(history'[id]) = Len(history[id]) + 1
         /\ history'[id][Len(history'[id])] = rows'[id].status]_<<rows, history>>
=============================================================================
