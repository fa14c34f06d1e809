# Verification of the RegulaAI control plane

TLA+ modules, TLC configurations and TLAPS proofs for `regulated-ai-control-plane`: an enforcement
point that evaluates AI operations against signed policies, transforms their data, asks external
authority for approval, and calls a provider or a tool at most once for each governed effect.
Source paths are relative to `src/src/regulated_ai/` unless they start with `docs/` or `migrations/`.

## 1. The system

| Component | Code | State it keeps | Operations |
|---|---|---|---|
| Operation evaluation | `application/evaluate_operation.py` | none but the evidence it writes | `EvaluateAiOperation.execute`: match policies, expand obligations, check provider capability facts, decide, persist evidence |
| Enforcement | `application/enforce_operation.py` | none; one call per request | `EnforceAiOperation.execute`: evaluate, transform, verify approval, prepare, claim, consume, call the provider, conclude |
| Enforcement repository | `adapters/evidence_sqlite.py`, `adapters/evidence_postgres.py` | `enforcement` table | guarded upsert (`save`), `get`, conditional `claim_execution` |
| Lifecycle events | SQL triggers of the two databases | `operator_lifecycle_event` table, append-only | one event per row and status |
| Decision approvals | `adapters/approval.py`, `adapters/authority_postgres.py` | `approval_consumption` ledger | `inspect` (stateless), `consume`, and with PostgreSQL `claim_execution`, which claims and consumes in one transaction |
| Tool actions | `application/execute_tool_action.py`, `adapters/action_approval.py` | `tool_action` table, `action_approval_consumption` ledger | bind a proposal, approve, claim, execute, judge the result |
| Tool-action reconciliation | `application/reconcile_tool_action.py`, `adapters/reconciliation.py` | reconciliation ledger | close an uncertain action with a signed outcome |
| Operator timeline | `application/get_operator_timeline.py` | none | compose one view from four reads |
| Operator authority | `adapters/operator_authority.py`, `adapters/trust_key_lifecycle.py` | the operator document a process has loaded | verify Ed25519 assertions under key windows and revocation |
| Review workflows | `application/review_*.py`, `analyze_control_pack_diff.py`, `replay_control_pack_scenarios.py` | review files | judge detailed reviews of a changed artifact, report the changes between two packs and what a scenario suite makes of them |
| Release | `application/assemble_release_evidence.py`, `authorize_release_promotion.py`, `scripts/` | staged packs, attestations, bundles: files | sign, attest, assemble evidence, attest and evaluate a promotion |
| Trust distribution | `adapters/trust_store_lineage.py`, `application/verify_trust_store_rollout.py`, `verify_runtime_trust_state.py` | checkpoints and receipts: files; the store each target installed and each process loaded | sign and verify checkpoints, acknowledge, attest, report coverage |
| API identity | `adapters/enterprise_identity.py`, the middleware of `entrypoints/api.py` | the issuer's keys a process has loaded | verify a bearer token, ask for the role of the route |
| Parsers, custody, HTTP, dashboard | the rest | none | file checking, HTTP translation, views |

Components meet in the database. Several replicas run the same service on one database; a request
holds no lock between its transactions, so what it read may be stale by its next statement. The
application calls its ports synchronously; the provider and the tools are outside, and a failed
call says nothing of its effect. Approvals come from an external approver as signed assertions with
a validity window; the same assertion may be presented many times. The release and distribution of
control packs and keys has no server: offline tools read and write files that people carry between
them, in any order, and a running process sees none of it until it starts again.

**What is hard.** Identical requests race for one row. A request is verified at one instant, claims
at a second and consumes at a third. A process may die between any two transactions. An upsert that
runs late must not take back what an earlier transaction decided. With SQLite the claim and the
consumption are two transactions, with PostgreSQL one: the two backends fail differently. The
`hazards` of `PROJECT.json` list each of these at its line.

**What makes each component correct.**

- *Enforcement*: at most one provider call per enforcement; no call for a gated operation without an
  approval granted for this decision and consumed for this enforcement in its window; nothing
  consumed for a row that is not dispatched; nothing called that is not on record; what clients are
  told is what is recorded; a running dispatch is concluded.
- *Approvals*: one approval buys one enforcement; expiry is judged when it is spent.
- *Lifecycle events*: the events of a row cover its status.
- *Tool actions*: at most one tool call for a proposal, under the binding it was given first and an
  approval signed for that binding and spent on nothing else; an uncertain action is never executed
  again.
- *Reconciliation*: an uncertain action is closed once, by an order signed for it and with the
  outcome that order confirms; no order is spent in vain, and who is told of a closing presented
  its order.
- *Tool results*: what a tool returns is shown once, minimised, and only its metadata is kept.
- *Timeline*: a view never looks inconsistent because it was read in pieces, and one that calls
  itself complete shows everything that was committed when it was asked for.
- *Evaluation*: more to be careful about never weakens a decision, and time alone changes one only on
  the day after a required fact reached its maximum age, at high assurance; every rule that applies gets the
  treatment it asks for or the operation stops; equal input has an equal digest.
- *Release*: a promoted pack carries an approval of every change in it, of exactly this content, and
  a quorum of distinct keys valid at the evaluated instant; what changes a decision is announced.
- *API identity*: a production process serves nobody but bearers of a short-lived token of its issuer
  whose roles cover the route.
- *Trust distribution and operator authority*: no target goes back behind a checkpoint it accepted,
  no process starts with another store than that of the furthest one, a target that anchors by
  predecessor only stays on one branch of a fork, a report claims no more than targets did, and keys count only inside their windows.

## 2. Modules

| Module | What it is |
|---|---|
| `AuthorizedEffect` | abstract specification: a job is authorised at most once, a gated one with a ticket that covers it and is spent on nothing else; it is attempted at most once and only what was attempted is concluded |
| `EnforcementLifecycle` | the component: requests over the repository, the ledger, the evidence and the lifecycle triggers; its properties |
| `EnforcementRefinement` | the mapping under which `EnforcementLifecycle` implements `AuthorizedEffect` |
| `EnforcementInvariant` | its inductive invariants: `IInv` for calls and approvals, `RInv` for what is on record |
| `EnforcementProofs`, `EnforcementRecordProofs` | the theorems that rest on `IInv`; those that rest on `RInv`, and the refinement |
| `ToolActionLifecycle` | requests that execute a tool call, over the action table, its triggers and the approval ledger |
| `ToolActionReconciliation` | extends it with the reconcilers and their ledger; the specification and its properties |
| `ToolActionRefinement` | the mapping under which both together implement `AuthorizedEffect` |
| `ToolActionInvariant` | their inductive invariants: `IInv` for executing, `RInv` for what follows |
| `ToolActionProofs`, `ReconciliationProofs` | the theorems that rest on `IInv`; those that rest on `RInv`, and the refinement |
| `ToolResults` | which output schemas load, which results are accepted, what is shown and recorded of them; used by `ToolActionLifecycle` |
| `OperatorTimeline` | extends `ToolActionReconciliation` with the timeline query, whose reads interleave with it |
| `TimelineInvariant`, `TimelineProofs` | the inductive invariant of the tables (`SInv`) and of the query (`QInv`), and the theorems |
| `OperationEvaluation` | `EvaluateAiOperation` and the transformations of enforcement, as operators over a pack, a context and a date |
| `EvaluationProofs` | theorems about the operators of `OperationEvaluation` |
| `EvaluationReplicas` | processes that evaluate the same operations, each with the order its hash seed gives to sets |
| `ControlPacks` | what a control pack is once loaded: the shapes the parsers admit |
| `ControlPackDiff`, `ScenarioReplay`, `UpdateReviews` | the static diff, the replay of a suite, the three detailed reviews |
| `ReleaseEvidence` | attestations, changed artifacts and the evidence bundle |
| `ReleasePromotion`, `ReleaseProperties` | the release as a state machine over files, and what it guarantees |
| `ReleaseInvariant`, `ReleaseProofs` | the inductive invariant of the release, and the theorems, those about the reviews and the analysis included |
| `TrustKeys` | the lifecycle of a verification key, shared by release, distribution and operators |
| `TrustStoreLineage`, `OperatorAuthority`, `ApiIdentity` | checkpoints, anchors, receipts and coverage; which operator assertions verify; which callers a route lets in |
| `TrustDistribution`, `TrustProperties` | the distribution authority, targets, processes and operators as a state machine, and what may be relied on |
| `TrustInvariant`, `TrustProofs` | the inductive invariant of the distribution, and the theorems |
| `MCEnforcement`, `MCToolAction`, `MCTimeline`, `MCRelease`, `MCTrust`, `MCReplicas` | instances for TLC |

### How `EnforcementLifecycle` corresponds to the code

A *request* is one call of `EnforceAiOperation.execute`; `pc` is the point between two of its
transactions. Each action is one transaction, with everything the code does up to the next one:

| Action | Code |
|---|---|
| `Evaluate` | the evaluator call; evidence is persisted before any decision is used |
| `BlockDeny`, `FailTransformation` | the two early exits, each with its own record |
| `Transform` | `_apply_transformations`; the transformed output decides the identity of the row |
| `AwaitApproval`, `RejectAssertion`, `AcceptAssertion` | no assertion, an assertion that `inspect` refuses, one that it accepts |
| `SavePrepared`, `ReadPrepared` | the two transactions of `save(prepared)` and the early return on a frozen row |
| `WinClaim`, `LoseClaim`, `ReadBack` | the conditional update and, for the loser, the read that answers it |
| `WinAtomicClaim`, `FailAtomicClaim` | PostgreSQL `claim_execution`: commit of claim and consumption, or rollback |
| `ConsumeApproval`, `FailConsumption` | `consume`, or its refusal and the `APPROVAL_FAILED` record |
| `Execute` | the one call of the execution port, which may take effect and still raise |
| `SaveExecuted`, `SaveExecutionFailed` | the two concluding upserts |
| `Abandon` | the process dies or a repository call raises: the request makes no further step |
| `Tick` | the clock, which decides approval windows |

`rows` is the enforcement table, keyed by identity: `_record` derives the identifier from the
evaluation, the output digest and the *family* of the status, so parked, prepared and dispatched
requests for one output share a row and a denial has another. `Upsert` is the SQL upsert with its
`WHERE` clause (`MayReplace`), `Events` the triggers with their `UNIQUE(entity, status)`. `ledger`
is the consumption table, with the approval id as its unique key. `calls` observes the execution
port and is read by no action.

Abstracted: digests are the values they are computed from; an evaluation is identified with the
digest of its decision; signatures, the reason codes and the columns of a row that no property
tells apart are left out; `CONSTANT AtomicAuthority` selects the backend. The read inside
`FailConsumption` and the concluding saves (the second transaction of `save`) is folded into the
write, because a concluded row cannot change afterwards (`DispatchIsFinal`). The operators between
the repository's statements and the steps whose comments call them faulty variants are used by no
specification: they are the mutated forms that show each property can fail.

### How the tool-action modules correspond to the code

A *request* is one call of `ExecuteToolAction.execute`, a *reconciler* one call of
`ReconcileToolAction.execute`. An action row belongs to a proposal (`_action_id`) and holds the
*binding* its first request gave it: the model keeps the proposal and an idempotency key, which
stands for everything else a client may bind differently (arguments, workload). Approvals and orders
are signed for a binding, as the code signs them for an action digest.

| Action | Code |
|---|---|
| `Bind` | the first `save`, up to its commit; the checks before it read what no longer changes |
| `RefuseBinding`, `AnswerStored`, `Resume` | the row read back: another binding, a status to answer, or one to go on from |
| `RejectAssertion`, `AcceptAssertion` | `_inspect_approval` |
| `SavePrepared`, `ReadPrepared` | the two transactions of `save(prepared)`, skipped when the row was found `PREPARED` |
| `WinClaim`, `LoseClaim`, `ReadBack` | the conditional update, and the read that answers a loser |
| `WinAtomicClaim`, `ExpireAtomicClaim` | PostgreSQL `claim_execution`: the commit, or the refusal before its transaction |
| `RollBackAtomicClaim`, `RecordRefusal` | its rollback, and the separate transaction that records `APPROVAL_FAILED` |
| `ConsumeApproval`, `FailConsumption` | `_consume_approval` with SQLite |
| `Execute` (`Raise`, `Receive`) | the one call of the tool port: it raises, or a response comes that echoes this action or another and holds a result to be accepted or rejected |
| `SaveExecuted`, `SaveRejected`, `SaveUncertain` | the three judgements |
| `Locate`, `RejectOrder`, `AcceptOrder` | reconciliation reads the action once, then `_inspect` |
| `Replay` | a closed action answers the order that closed it |
| `TakeOrder`, `RefuseOrder`, `SaveClosed` | SQLite: consume in one transaction, close in another |
| `CloseAtomically`, `CollideAtomically`, `ExpireAtomically` | PostgreSQL `reconcile`: both in one, the unique violation, the refusal before it |
| `Abandon`, `GiveUp`, `Tick` | a process dies or a repository raises; the clock |

`MayAdvance` is the `WHERE` clause of the upsert. An approval id may be signed for several actions,
since only the ledger keeps it from being spent twice; an order id is taken to be signed once.

`ToolResults` treats a string as a value that a field admits or not. The rule of the loader
(`ExposureIsSafe`) is an assumption on the schema and is evaluated again on each result, as in the
code. `processed` is what a request made of the result of its call, of which `safe` is shown in its
answer; `rows[p].result` is what is recorded. The digests of results, and the limits on their size,
are left out. The adapters differ in what a response must echo; `Receive` is the state-changing one.

Enforcement and tool actions meet only in that a proposal exists when its enforcement is `EXECUTED`,
which is final (`DispatchIsFinal`), so neither module needs the other's steps.

### How `OperatorTimeline` corresponds to the code

`ReadEnforcement`, `ReadActions` and `Compose` are the transactions of `GetOperatorTimeline.execute`
in their order; the evidence, read between the first two, never changes. `parent` is how far the
enforcement is on its way to having proposals. The repositories return one element more than is
shown, which is how truncation is noticed; which elements are cut is left open. `Consistent` is the
cross-check of every action with its receipts, `Covers` the test that every status has its event.

### How the release modules correspond to the code

A pack is its parsed content with a digest that stands for its signed bytes. `Stage` and `SignPack`
are an author and `sign_control_pack.py`; `WriteReview` and `AttestReview` are reviewers, who look at
what is staged at that moment; `Assemble` is `assemble_release_evidence.py`, which refuses or writes
one bundle; `AttestPromotion` is a promoter with the bundle at hand, `Authorize`
`authorize_release_promotion.py` over any set of statements and for any instant; `Withdraw` takes a
key out of its trust store. What the tools check is the code's; who runs which tool when is left
open. `OperationEvaluation` is used twice: inside the replay that a bundle reports, and for the two
properties of evaluation itself, `CautionIsMonotone` and `TransformationsAreExact`, which are
checked for every candidate pack. Jurisdiction, sector and status of a policy set are one field
`metadata`: a review must list what changed of each, and no property tells them apart.

### How the trust modules correspond to the code

`CreateCheckpoint` and `Install` are the two commands of `manage_trust_store_lineage.py`; a target
keeps what it installed and anchors at it, by sequence or by predecessor, in the ways its operators
use (`Anchoring`). `Start` is a process that
loads the installed store, the operator document and the issuer's JWKS and keeps them. `Acknowledge` and `Attest` are
receipts, signed honestly about the target's own state but possibly under the name of a target of
another host: that a receipt carries the signature of its key is assumed, forged ones are left out. The reports `RolloutAcknowledged` and `RuntimeStateCurrent` change nothing and are
quantified in the properties over everything they can be given. `Grant` is a request that
carries an operator's assertion: the middleware lets it in by its token (`LetsIn`), the verifier
accepts the assertion, the ledger, that of the lifecycle modules, is reduced to a set. A request
without an assertion changes no state here, so whether it is let in is quantified over in
`CallersAreEntitled`. A token is its claims, its type, the key id it names and the key that signed
it; the syntax of headers and the encodings are left out.

## 3. What is checked

| Run | Instance | Shows |
|---|---|---|
| `enforcement_sqlite` | 3 requests, 1 gated operation, 2 outputs, 2 approvals, clock to 2, SQLite | `TypeOK`, `SingleProviderCall`, `AuthorizedCalls`, `NoApprovalSpentInVain`, `RecordedBeforeCall`, `TruthfulAnswers`, `HistoryCoversStatus`, `ConsumptionFailureIsTerminal`, `DispatchIsFinal` |
| `enforcement_postgres` | 2 requests under weak fairness, a gated, an ungated and a denied operation, PostgreSQL | `RowReceiptsInLedger`, `ClaimCarriesReceipt`, `ImplementsAuthorizedEffect`, `DispatchConcludes` |
| `enforcement_consumption_failure` | PostgreSQL | violation of `ConsumptionFailureIsTerminal` (see findings) |
| `enforcement_history` | 3 requests, SQLite | violation of `EveryTransitionRecorded` (see findings) |
| `tool_action_sqlite` | 2 requests, 2 reconcilers, 1 proposal, 2 keys, 3 approvals, 3 orders, a result schema with a field of each handling and 5 results, SQLite | `TypeOK`, `SingleToolExecution`, `AuthorizedExecutions`, `TruthfulAnswers`, `ResultsAreMinimised`, `ClosedByOrder`, `OrdersAreNotWasted`, `ActionsMoveForward`, `EveryTransitionRecorded` |
| `tool_action_postgres` | 3 requests, 1 reconciler, 2 proposals, 2 approvals, one of them signed for both, PostgreSQL, and the timeline with limits of 1 action and 8 events | `AuthorizedExecutions`, `NoApprovalSpentInVain`, `ClaimCarriesReceipt`, `TimelinesAreWhole` |
| `reconciliation_postgres` | 2 requests and 2 reconcilers under weak fairness, 2 contradictory orders, PostgreSQL | `OrdersClose`, `TruthfulRulings`, `ImplementsAuthorizedEffect`, `DispatchConcludes` |
| `reconciliation_recovery` | 1 request, 2 reconcilers, SQLite | violation of `ConsumedOrdersRecover` (see findings) |
| `reconciliation_conflict` | 1 request, 2 reconcilers, PostgreSQL | violation of `OtherOrdersConflict` (see findings) |
| `release_promotion` | a base pack and its edits (policy set, provider records, catalog), a suite of scenarios, 2 promoters, 2 promotion statements, 1 restaging, 1 withdrawal, clock to 1 | `EveryChangeReviewed`, `PromotedByQuorum`, `DecisionChangesExplained`, `CautionIsMonotone`, `TransformationsAreExact` |
| `trust_distribution` | 2 targets, 2 stores, 3 checkpoints, 3 receipt keys, 2 receipts, 2 operator documents, 6 assertions, 3 documents of the issuer's keys, 8 tokens, a target with and one without authentication, clock to 2 | `NoRollback`, `RolloutIsAccepted`, `RuntimeIsLoaded`, `GrantsFollowKeys`, `CallersAreEntitled` |
| `evaluation_replicas` | 2 processes, 1 pack, hash orders of two obligations | violation of `SameInputSameDigest` (see findings) |

Properties that are theorems for both databases are run on one of them.

**Bounds.** Three requests are one that owns a row, one that races it and one that arrives late; two
outputs are what it takes to present one approval for two enforcements of one decision; two
approvals with overlapping windows [0,2) and [1,3) under a clock that stops at 2 let an approval
expire between verification, claim and consumption, and let a second replace it. For tool actions,
two keys are two clients that bind one proposal differently, and two proposals are what it takes to
present one approval id twice; two reconcilers with two contradictory orders are the race that
reconciliation must decide, and the second of them may be the first one's retry. Requests,
reconcilers and outputs are symmetric in the runs without fairness. `MaxTime` is the only bound of
the lifecycle modules. In the timeline, two actions against a limit of one and up to nine events
against a limit of eight make each list just full and one too long.

The release has bounds of its own: edits, withdrawals, attestations and promotion statements, each
set so that the hazard fits in (one restaging after the review, one withdrawal after the signature,
two statements for a quorum of two). Three checkpoints are a chain that advances twice or a fork;
two receipts are what a quorum of two targets needs, by three keys of which one serves both targets.
Three runs carry a state constraint (`Explored`, with its reasons in the MC module) that leaves
combinations out whose parts do not meet: several requests beside the reads of a timeline after a
reconciler began; reviews of a pack that is only there for the analysis; operator and
issuer keys beside receipts. Every single part, and the pairs that interact, are explored. One of the
two targets anchors as it likes, the other by predecessor only. The candidates have edits in at most
two of three parts, and decisions are compared from one day to the next over the 31 days on either
side of the day of the suite, which hold the limits of all dated facts.

**Fairness.** `FairSpec` asks weak fairness of every request and every reconciler that has begun,
and of nothing else: the code runs a request synchronously to its end, a thread that is not killed
runs on, and the database answers or raises. Clients need not call, the clock need not advance,
nothing is abandoned necessarily.

**Findings.** Five statements of the documents do not hold of the code.

- `docs/API_CONTRACT.md` says a failure to consume a verified grant records terminal
  `APPROVAL_FAILED`. With SQLite it does (`ConsumptionFailureIsTerminal` passes); with the atomic
  PostgreSQL port the transaction rolls back, nothing is recorded and the row stays `PREPARED`.
- `docs/adr/0012` says each status change appends an event in the same transaction. The table keeps
  one event per row and status, so a row that returns to `WAITING_APPROVAL` or `PREPARED` changes
  without one. What does hold is `HistoryCoversStatus`.
- The reconciliation adapter promises "exact recovery after a partial local failure" and a test of the
  adapter shows it after expiry. The service then refuses the expired grant the adapter accepted
  (`_validate_grant`), and since the ledger has one order for an action, an action whose
  reconciler died between the two SQLite transactions can never be closed once its order expired.
- `docs/API_CONTRACT.md` says another binding is a conflict (409). With PostgreSQL a reconciler that
  loses to another order after it was authorised is answered `503`, like a database failure.
- `docs/EVAL_STRATEGY.md` asks that identical versioned input has an identical decision digest.
  `evaluate_operation.py` sorts a set of obligations by type, target and reason; obligations that
  agree in these and differ in parameters or control objectives keep the order of the set, which
  follows the hash seed of the process. Another replica, or the same one after a restart, computes
  another digest, so another evaluation and enforcement, and an approval signed for the first does
  not verify for the second.

**Further divergences** met while modelling, for which there is no run:

- `deploy/kubernetes/runtime-trust-verifier-cronjob.yaml` gives the verifier no rollback anchor, and
  `verify_trust_store_checkpoint` refuses to verify without one: the job as shipped always fails.
- ADR 0028 says that forks and skipped sequences fail closed. With a predecessor or a pinned digest
  they do; with a minimum sequence as the only anchor either branch of a fork and any later
  checkpoint verify, and neither the store id nor its kind is bound by that anchor.
- `docs/OPERATOR_AUTHORITY.md` expects reconciliations to remain idempotent after a rotation.
  `KeyFits` requires the key to be active at use, so an order whose key is retired cannot be repeated.
- A change of the control objectives of a rule is `EVIDENCE` for the static diff and `DECISION` for
  the replay; `DecisionChangesExplained` therefore compares obligations without them.
- The diff lists the rules that depend on a provider by matching the primary provider only, while
  evaluation requires capabilities of the fallbacks too; the property allows for it.
- `create_release_custody` (`adapters/release_custody.py`) renames the new archive into place before
  it verifies it, and the verification refuses two artifacts of one kind and name: a creation that
  fails this way leaves an archive behind, although it is documented as atomic, and the path cannot
  be used again.
- The loader of the tool catalog does not compile patterns: a malformed one is found when a result
  with that field is judged, after the effect, and the result is rejected.

## 4. What is proved

Every safety invariant, every action property and both refinements that the runs check are theorems:
they hold for any sets of requests, reconcilers, proposals, approvals, orders, packs, stores, keys and
targets, any windows and bounds, and, where nothing else is said, for both databases.

| Module | Theorem | Property |
|---|---|---|
| `EnforcementProofs` | `InvariantHolds` | `[]IInv` |
| | `TypeCorrect` | `[]TypeOK` |
| | `AtMostOneCall` | `[]SingleProviderCall` |
| | `OnlyAuthorizedCalls` | `[]AuthorizedCalls` |
| | `ApprovalsBuyDispatches` | `[]NoApprovalSpentInVain` |
| | `DispatchesAreFinal` | `DispatchIsFinal` |
| `EnforcementRecordProofs` | `RecordsHold` | `[]RInv` |
| | `CallsAreRecordedFirst` | `[]RecordedBeforeCall` |
| | `AnswersAreTruthful` | `[]TruthfulAnswers` |
| | `HistoriesCoverStatuses` | `[]HistoryCoversStatus` |
| | `RowsShowReceipts` | `[]RowReceiptsInLedger` |
| | `ClaimsCarryReceipts` | `[]ClaimCarriesReceipt`, with PostgreSQL |
| | `FailedConsumptionsAreTerminal` | `[]ConsumptionFailureIsTerminal`, with SQLite |
| | `EnforcementImplementsAuthorizedEffect` | `ImplementsAuthorizedEffect` |
| `ToolActionProofs` | `InvariantHolds` | `[]IInv` |
| | `TypeCorrect` | `[]TypeOK` |
| | `AtMostOneExecution` | `[]SingleToolExecution` |
| | `OnlyAuthorizedExecutions` | `[]AuthorizedExecutions` |
| | `ApprovalsBuyDispatches` | `[]NoApprovalSpentInVain` |
| | `ClaimsCarryReceipts` | `[]ClaimCarriesReceipt`, with PostgreSQL |
| | `ActionsAdvance` | `ActionsMoveForward` |
| `ReconciliationProofs` | `WhatFollowsHolds` | `[]RInv` |
| | `AnswersAreTruthful` | `[]TruthfulAnswers` |
| | `ResultsMinimised` | `[]ResultsAreMinimised` |
| | `OrdersCloseActions` | `[]ClosedByOrder` |
| | `NoOrderSpentInVain` | `[]OrdersAreNotWasted` |
| | `OrdersCommitClosings` | `[]OrdersClose`, with PostgreSQL |
| | `RulingsAreTruthful` | `[]TruthfulRulings` |
| | `TransitionsRecorded` | `EveryTransitionRecorded` |
| | `ToolActionsImplementAuthorizedEffect` | `ImplementsAuthorizedEffect` |
| `TimelineProofs` | `TimelineInvariantHolds` | `[](SInv /\ QInv)` |
| | `TimelinesWhole` | `[]TimelinesAreWhole` |
| `TrustProofs` | `TrustInvariantHolds` | `[]IInv` |
| | `TargetsNeverRollBack` | `NoRollback`, an action property |
| | `GrantsComeFromKeys` | `[]GrantsFollowKeys` |
| | `OnlyTheEntitledCall` | `[]CallersAreEntitled` |
| | `ReportedRolloutsAreAccepted` | `[]RolloutIsAccepted` |
| | `ReportedRuntimesAreLoaded` | `[]RuntimeIsLoaded` |
| `EvaluationProofs` | `EvaluationIsMonotone`, `TreatmentIsAsked` | of any well-formed pack and any contexts, no state machine |
| `ReleaseProofs` | `ReleaseInvariantHolds` | `[]IInv` |
| | `PromotionsHaveQuorum` | `[]PromotedByQuorum` |
| | `ChangesAreReviewed` | `[]EveryChangeReviewed` |
| | `DecisionsAreExplained` | `[]DecisionChangesExplained` |
| | `CautionNeverWeakens` | `[]CautionIsMonotone` |
| | `TransformationsAreAsAsked` | `[]TransformationsAreExact` |

**Assumptions.** Only those the modules state of their constants, which TLC evaluates on the
instances: their types; that the null is none of the identifiers, receipts or answers
(`NoneAssumption`); that a schema passes the checks of its loader (`SchemaAssumption`); that packs,
reviews, keys, stores, receipt keys, coverage and runtime policies, operator documents, tokens and
the configuration of the issuer have the shapes their loaders admit, and that a digest identifies its
pack (`PackAssumption` to `PolicyAssumption`, `StoreAssumption` to `IdentityAssumption`); and that one
enforcement has finitely many proposals (`ProposalsAssumption`). Part of
`ReceiptAssumption` is about people: the targets that a receipt key is registered for do hold it.

**Enforcement.** None of the properties is inductive: that no second call happens depends on who may
still call. `IInv` makes that explicit with *owners*, the requests between a won claim and their
answer: a row has one owner (`OneOwner`) and is `DISPATCHED` while it has one (`OwnersDispatch`);
calls belong to owners that already called and to dispatched or executed rows (`CallsByOwner`,
`CallsEffected`); the ledger holds approvals spent in their window on rows whose owner has passed
the consumption (`ApprovalsWellSpent`), and the receipt in an owner's hands is the ledger's
(`OwnersHoldReceipts`). `StepKinds` reduces the nineteen steps to five kinds: standing aside, winning
a row, paying, calling and concluding. Each conjunct is then preserved by a short case analysis, and
`UpsertSparesFrozen` is what makes the late upserts of other requests harmless.

`RInv` is inductive relative to `IInv` and says what is on record: that a history covers its status,
has `PREPARED` before `DISPATCHED` and `DISPATCHED` before a call; that an executed row names the
request that called; what a request still owes or has answered (`Accounts`). That a client is told
the truth needs one thing more than `IInv`: a caller is concluding, or it answered as a caller does
(`CallersConclude`).

**Tool actions and reconciliation.** The same owners, over rows that hold a binding: the binding a
row got first is the one every later label of a request carries (`KnowsItself`), and a row with
a receipt shows the ledger's (`RowsHoldReceipts`). `RInv` adds the *rank* of a status. Actions only
ever rise in rank, so the histories stay behind the row (`HistoriesBehind`) and the uniqueness of
events never swallows one: this is why `EveryTransitionRecorded` holds here and fails for
enforcements, whose rows go back. An order in the ledger was signed for the row it names, is alone in
naming it, and has closed it, with PostgreSQL at once and with SQLite unless the row still waits
(`OrderWellSpent`).

**Refinements.** Each kind of step maps to one step of `AuthorizedEffect` or to a stutter: winning an
ungated row and paying for a gated one authorise it, the call attempts it, judging, closing and
concluding conclude it. The mapped state is a function of rows, ledger and calls; a request that
stands aside writes open rows only, which the mapping does not tell apart. The invariants are
needed to show that no effect is authorised twice, attempted without authority or concluded without
an attempt.

**Timeline.** `TimelineSpec` implements `Spec`, so `IInv` and `RInv` carry over. `SInv` says that a
row, its receipts and its events fit together at every instant; since the repository reads a row
whole, a row read at any time is consistent. `QInv` says that histories only go on from what they
were when the query began, so that events read last cover rows read before: the order of the reads is
what makes a timeline whole.

**Trust distribution.** The properties are about reports and grants long after the fact. `IInv` keeps
what each owes to an earlier step: an installed checkpoint is the furthest its target accepted, a
receipt was signed by a host that had what it says, a consumed order was accepted inside its window. `NoRollback` needs more of it where there are forks:
what a target without sequence anchoring accepted lies on one branch, each acceptance naming the
one before it (`BranchesAreKept`), so that the furthest is one checkpoint and a start loads its store.
A complete report then counts receipts of distinct targets, whose hosts each had what was reported.

**Evaluation and release.** The strongest outcome of more outcomes is at least as strong; more
labels, tools and fallbacks match more rules, and fewer assertions and later days fail more
capabilities; so a decision is monotone (`EvaluationIsMonotone`). Between two days a requirement comes
to fail only by a fact that reached its limit (`FactsLapse`, `DecisionsLapse`). A bundle and an authorization carry
what they were made from, and `IInv` says so without the files, which change. Keys only retire, so a
key that was active in the trust store as it was read was active in the store as it was. From there
the chain of `ChangesAreReviewed`: a rule, fact or tool that differs is a changed artifact; a complete
bundle has an attestation of it that approves; a modification binds a detailed review of this content
without findings; and such a review accepts this very item.

`DecisionsAreExplained` goes the other way round: rules, facts and tools are *alike* when they agree
in what the evaluation looks at, packs that are alike in what a scenario needs decide and treat it
alike (`AlikeDecideAlike`), and whatever is not alike is in the report with impact `DECISION`
(`SetsAnnounced`, `RulesAnnounced`, `ToolsAnnounced`, `FactsAnnounced`). It shows which
fields the static diff must rank as `DECISION`: those of `RulesAlike`, `FactsAlike` and `ToolsAlike`.

**Model-checked only.** `DispatchConcludes`: liveness under fairness is out of the prover's reach. The
five violations of section 3 are counterexamples. That each property can fail at all is shown by the
faulty variants, on the instances.

## 5. Plan

What runs check of safety is proved. What is left, in order:

1. Lemmas of independent use that the proofs have inline: that the events of a row never repeat, that
   `Upsert` is idempotent for a request that repeats its save, and that `AuthorizedEffect` by itself
   allows one effect for each ticket (its own invariants as theorems, which both refinements inherit).
2. The statements that the violations leave standing: what recovers of a consumed order while it is
   not expired, and which evaluations have one digest whatever the order of sets.
3. The safety half of `DispatchConcludes`: that a request under way always has a step to take.

No module declares a RECURSIVE operator, so that each can be proved about.

## 6. Not modelled

Parsing, canonical bytes, digests and signatures of files and assertions, OCI custody and RFC 3161
timestamps, HTTP translation, dashboards, telemetry and the financial pilot: sequential input
checking with no state between calls, which the unit tests reach. The transports of provider
and tool adapters are I/O; their two outcomes are modelled.
