# A TLA+ development of the Tyrion Control Plane

Tyrion's daemon (`tyriond`) accepts a *Commission* from a *Principal*, plans it
into *Assignments*, hands each Assignment to a sandboxed Worker as an *Attempt*,
verifies and integrates what the Worker returns, and asks for help when it
cannot go on.  Its state is one SQLite database (`src/src/store.rs`,
`src/src/store/`), a git repository per Commission
(`src/src/worker/contained_codex.rs`) and what the process holds in memory
(`src/src/worker.rs`, `src/src/daemon.rs`).

The modules here model the parts of it whose correctness depends on an order
of events no test fixes: Worker threads, the Watchdog, Principal requests and
crashes, interleaved between any two transactions.

## 1. Inventory

| Component | State | Operations | Correct when |
|---|---|---|---|
| Attempt life cycle (`store.rs` `run_ready_assignment`, `finish_planned_assignment`, `require_reconciliation`, `fail_attempt`) | `assignments`, `attempts`, `worker_leases`, `resource_reservations`, `results`, `attempt_recoveries`, `blockers`, `attention_conditions` | dispatch, submit, verify, integrate, accept, reconcile, fail, replace | one running Attempt per Assignment; holds released on every path; nothing contained is accepted; every stop is explained |
| Watchdog (`watchdog_sweep`) | reads all of the above, writes `sandbox_cleanups` | observe, fence, fail, clean | ends what is stuck or lost, never what was accepted |
| Restart recovery (`recover_stranded_attempts`, `recover_stranded_operations`, pending cleanups) | the whole database | one transaction each, at startup | settles all stranded work; the daemon starts |
| Commission controls (`change_dispatch_state`, `cancel_commission`, `interrupt_worker`, `retry_worker`) | `commissions.status` and what hangs on it | pause, resume, cancel, interrupt, retry | final is final; a cancellation reaches everything |
| Amendments (`amend_verification`, `accept_commission_amendment`) | `commissions.revision`, authority, Assignments | propose, accept, reopen | no work of the old revision is accepted under the new one |
| Integration repository (`integrate`, `rollback_integration`, `restore_integration_repository`) | git HEAD; `commissions.artifact_revision`; in-process and file lock | merge, record, undo, restore | HEAD and record agree; accepted work is kept, undone work gone |
| Operations and approval gates (`propose_operation` ... `reconcile_operation`) | `operation_requests`, `approval_gates`, the target file | propose, approve, execute, reconcile, recover | an effect happens at most once, as approved; an uncertain one stops the Commission |
| Credential broker (`credential.rs`) | `credential_grants`, exposure grants, broker process and Effect Sandbox, the Keychain | grant, deliver, contain, revoke, recover | nothing keeps the secret once an operation is settled; the report is true |
| Verification and evidence (`record_verification_evidence`, `refresh_*`, `route_result_rework`) | `evidence`, `criteria`, `verification_gates`, `verification_recoveries` | record, decide, rework, revalidate, complete | completion only on current evidence; bad news is followed up |
| Planning and the plan DAG, competing candidates (`store/planning.rs`, `complete_planning`, `advance_plan_after_evidence`) | `planned_assignments`, dependencies, competition groups | propose, validate, advance, compare, replace | work starts on finished work; overlapping writers are ordered; no silent stop |
| Profile and memory | `profile_claims`, `learning_observations`, boundaries, receipts, bundles | state, infer, promote, correct, forget, export, import | budgets are kept; a boundary or suppression is never undone by learning |
| Attachments, idempotent requests, request queue (`daemon.rs`, `attachment.rs`) | `attachments`, `idempotency_keys`, queue of 64, 16 threads | connect, take control, downgrade, repeat | a repeated request changes nothing and is answered alike |
| Worker control outbox (`control_worker`, `worker.rs`) | `worker_commands`, the control registry | steer, interrupt | delivered at most once |
| Dispatch loop (`daemon.rs`) | threads of a round | dispatch round, join | ready work is dispatched |
| Frontier and host capacity (`store/frontier.rs`) | reservations | select | ceilings of Commission and host are kept; scopes disjoint |
| Worker routing (`worker/routing.rs`) | configurations, telemetry | rank, select | eligible only, deterministic |
| Adapter contract, sandbox pools and container runtime | processes, containers, networks | | I/O |
| Schema, projection, protocol types, CLI and installation | none of their own | | data and I/O |

How they interact.  A request thread or the dispatch loop calls a method of
`Store`; each method opens its own short transactions, so a *transaction* is the
unit of atomicity and everything else may run between two of them.  A Worker
thread walks through seven or so transactions.  Each of them starts with
`attempt_continuation`, which asks whether the Attempt is still the current one;
that check is the only thing that keeps out work the Watchdog, a cancellation or
an amendment has already ended.  Around Integration two locks are taken: an
in-process mutex per Commission, shared with cancellation, mandate amendments,
operations and the Watchdog's cleanup, and a file lock in the repository.  A
crash loses the threads, the locks and the control registry; database,
repository and containers stay.

Hard behaviours, listed line by line under `hazards` in `PROJECT.json`: the
interleavings above; the Watchdog acting on what it read before; a HEAD that
moves before the transaction that records it; undoing one of two concurrent
Integrations; a crash at any step; a restart that has to succeed; a retry beside a
container that is still alive; amendments under running work; a process that
holds a secret when the daemon dies; Evidence that comes while its Result is
being integrated; a replacement that inherits a competition; a repeated request
served beside the first.

## 2. Modules

| Module | Models | Proved about |
|---|---|---|
| `Attempts` | the Attempts of one planned `codex_git` Commission: dispatch, Worker threads, failures, Watchdog, controls, amendments, crash and restart | in `AttemptsProofs` |
| `AttemptLedger` | what the life cycle promises: start once, end once, accept once | as the abstract side of a refinement |
| `Integration` | HEAD against `artifact_revision`, both locks, rollback, restore, crash | in `IntegrationProofs` |
| `Operations` | gates and effects of one Commission: propose, approve, execute one system call at a time beside other writers, reconcile, crash | in `OperationsProofs` |
| `...Proofs` | inductive invariants, lemmas and theorems, one module per component (section 4) | |
| `Credentials` | effects that need a secret: grant, broker process or one-shot sandbox, containment, revocation, recovery | in `CredentialsProofs` |
| `Evidence` | criteria, Evidence, gates, rework and completion of a Commission with one Assignment | in `EvidenceProofs` |
| `Planning` | a plan's validation, its rows, the frontier's scope rule, competitions, replacements and reconciliations | in `PlanningProofs` |
| `Memory` | Profile Claims, observations, boundaries, forgetting, export and import | in `MemoryProofs` |
| `Requests` | queue and threads, idempotency, Attachments and control, the steer and interrupt outbox | in `RequestsProofs` |
| `MC...` | the instances TLC checks, one module per component | |

The modules overlap where components do: `Attempts` owns the life of an Attempt
and takes the verdicts as given, `Evidence` decides them and takes the Attempt's
failures as given, `Planning` decides which Assignments exist, `Integration` what
their work becomes in the repository.  Each keeps of the others what its own
guards read, and says so in its header.

`PROJECT.json` maps each definition to the lines it stands for.

### Attempts

*State.*  One variable per column the code decides on: `cStatus`, `cRev`,
`artifact` (commissions); `aStatus`, `group`, `plannedGroup`, `excluded`,
`latest` (assignments and their planning rows); `tStatus`, `tOwner`, `tRev`,
`tConf`, `tBase`, `lease`, `resv`, `result`, `integrated`, `rKey`, `rAct`,
`failing`, `cleanup` (attempts and what belongs to one); `blockers` and
`attention`; and the process: `ctl` (the control registry), `pc` and `err` (a
Worker thread), `mutex`, `flock`, `wd` (the Watchdog's position), `sandbox` (live
containers), `phase` (daemon up, down, cleaning up before it serves).

*Actions.*  One per transaction.  `StartAttempt`, `BlockReadyAssignment` and
`RouteOnly` are the outcomes of the dispatch transaction, routing included.
`ExecuteReturns`, `SubmitResult`, `CandidatePasses`/`CandidateFails`/
`VerifierUnrunnable`, `LockIntegration`, `Integrate`, `CommitIntegration`,
`AssembledStateFails`/`AcceptPlannedResult`/`FinishNoncurrent`,
`RequireReconciliation` and `Fail` are the thread; `ThreadError` is any `?` that
leaves it early.  `WatchdogObserve`, `WatchdogFence`, `WatchdogFail`,
`WatchdogCleanup` are the four steps of a sweep for one Attempt.  The Principal
has one action per control and amendment.  `Crash`, `RecoverStrandedAttempts` and
`StartupCleanup` are the process.  `ExecuteReturns` with a Result implies that the
sandbox was deleted (the hand-over ends in `sandbox.delete()` and returns its error);
every other way out of the session tears it down at best effort and drops the error
(`src/src/worker/contained_codex.rs:447`, `1873`), so the sandbox may stay.

*Abstractions.*  Which eligible configuration is chosen, and which ready
Assignment goes first, is left open: any.  Goals, paths, digests and clocks are
left out; a deadline may pass at any time when `ClockCeilings` says so.  All
planned Assignments are ready at once.  An Assignment the code creates
(reconciliation, replacement) has the name of the Attempt that caused it.

### Integration

A revision is the sequence of picks from the base revision, so "is an ancestor of"
is the prefix order.  `Merge` is `integrate` as far as HEAD goes;
`HeadAfterFailure` says what HEAD may be when it fails: unchanged, with the first
commits of a candidate whose later commit conflicts, or fully merged when the
bundle or the storage ceiling fails afterwards.  `slips` is history: it records
that one of these left commits behind (`"stray"`), or that an undo set the record
back past accepted work (`"regressed"`, section 6), so that the properties can say
what holds in all other behaviours.  An assembled state that fails is undone in three
steps, as in the code: git is rolled back, a transaction records it
(`AssembledStateFails`; `RollbackUncommitted` when the process or that transaction
fails after git has moved), and `RequireReconciliation` ends the Attempt in another,
with errors, containment and crashes between them.  Reasons for failing are left to
`Attempts`.

### Operations

*State.*  `oStatus`, `gate`, `oAttempt`, `oRev`, `bound` are the columns of
`operation_requests` and `approval_gates`; `executed` and `answered` the
execution identities and their stored results; `exec` the thread that holds the
Integration mutex, with the step it has reached; `target`, `temp` and `aside` the
file system, where a file is its inode and its content.  `theirs`, `applied`,
`mandate` and `oMandate` are history: they only serve the properties.

*Actions.*  `StartOperation` is the first transaction of `execute_operation`.
`Recheck`, `WriteTemporary`, `CheckTarget`, `Displace`, `InspectDisplaced`,
`Replace`, `Restore` and `UnlinkDisplaced` are the system calls of
`execute_file_replacement` with their failures, `RecordOutcome` the last
transaction and `RecordFails` its failure.  `ObserveTarget` and
`ReconcileOperation` are the two halves of `reconcile_operation`.  Others write
the target between any two of them (`WriterReplaces`, `WriterEdits`).

*Abstractions.*  Any class may be the result of `classify_operation`, and any
check may find a deadline passed.  All operations write one target; a writer
opens it by name, so nobody keeps writing to a file that was moved aside.  One
Attempt runs at a time and may end at any moment.  The content an operation writes
is named after the operation, and those names are not among the ones for the content
of others.  Credentialed effects are in `Credentials`.

### Credentials

*State.*  Grants, operations and their registered process as rows; per Commission
the thread that holds its Integration mutex and the step it has reached; and what
no transaction covers: the Keychain (the number of the secret stored under a
reference), the `curl` process and the sandbox of each operation, with whether they
hold the secret.  A process may also be an orphaned group whose leader is gone, or
its PID reused by another program.

*Actions.*  Brokered: `ReadSecret`, `Spawn`, `Register` (the callback stores the
PID before a byte is written), `WriteSecret`, `AwaitProcess`.  One-shot:
`OpenEgress`, `CreateSandbox`, `Deliver`, `FinishExec`, `CleanSandbox`.  Both end in
`RevokeAndVerify` and `RecordOutcome`.  After a crash `CleanStranded` contains and
revokes for each started operation, then `RecoverStrandedOperations` settles them.
`CleanBeforeObserving` and `ReconcileOperation` are `reconcile_operation`.

*Abstractions.*  Any Keychain, Docker or signal call may fail; a sandbox stands
for container, relay and networks; a destination refuses a request without the
secret.

### Evidence

One Assignment, as `validate_plan_against` demands of plans with criteria that are
not deterministic.  The Worker's thread submits, verifies, integrates and finishes
in separate steps; Entry Sessions submit Evidence between any two of them, also
after an amendment or for a Result that has lost its currency.  The evidence table
is kept as the last verdict per Result, criterion and verifier identity plus the
contradictions, which is all its queries tell apart.  An artifact is known by its
content, as in the code, so it may come back after another one (`CameBack`).
`Dispatch` resolves every scheduled rework (`ReworkStarted`): from then on it is the
Attempt, and no longer a `verification_recoveries` row, that follows up the failure.

### Planning

A row is a `planned_assignments` row with its Assignment.  A plan is any sequence
of items with dependencies, a write scope and a group that passes the code's
validation: TLC enumerates all of them up to `MaxItems`.  `Dispatch` applies the
frontier's scope and concurrency rules, and the actions of `Settle` are the ways
an Attempt ends: accepted, a competing candidate, a comparison, a failed
verification with retry or replacement, a conflict that needs a reconciliation, a
planning round.  Attempts whose Worker Configuration was unavailable are counted in
`excused`: dispatch and `fail_attempt` do not hold them against `max_attempts`, the
validation of a proposed plan and `recover_failed_verification` do.  A comparison owns
what was planned for its group, also for a member that has left it.  Groups of the plan and groups the code makes up for a reconciliation
(`reconciliation-` and the UUID of an Assignment, `src/src/store.rs:9017`) are never the same: the former are
the members of `Group`, the latter row numbers, and `PlanningAssumption` keeps the
two apart.

### Memory

Each request is one transaction and one action.  A statement is its fingerprint
with a weight in tokens, and the tokens of a set of claims are counted as the size of
a disjoint union (`TokensOf`), which needs no recursion; support is fresh or older than 180 days; a bundle is the
export of some earlier state, of this installation or of the one before it, so an
import may bring back what was forgotten in the meantime.  An observation knows the
Commission that showed it (`source`, history) and the row it is counted under (`at`,
0 for a local one): the code compares rows, the property looks at the Commissions.
`HalfYear` ages the claims of bundles too, which carry the time of their last support.
Whether Evidence or an uncertain effect retains a Commission's material is left open
in `MaintainMemory`.

### Requests

A connection is queued, refused when the queue is full, and served by one of
`Threads` threads; a sender may repeat any request it has sent, answered or not.
`TakeControl`, `UpdateAttachmentCapabilities` and `ConnectAttachment` are single
transactions.  `PostCommand`, `Deliver` and `RecordDelivery` are the two
transactions of `control_worker` and the delivery between them.  An answer is the
control revision it reports; the hash of a request is the request.  A clarification is
kept before it is written, so it stays behind when the write fails (`Undelivered`), and
a cancellation interrupts the Worker before it commits (`CancelFails`).

## 3. Runs

| Run | Instance | Shows |
|---|---|---|
| `faults` | 1 Assignment, 2 configurations, 3 Attempts, 2 faults | holds never leak; nothing contained is accepted; no retry beside the sandbox of a contained or stranded Attempt; every stop is explained; a running Assignment has an Attempt; `AttemptLedger` is implemented |
| `amendments` | 2 Assignments at once, every ceiling, 1 fault, 1 amendment of either kind | Attempts and Assignments stay in step under a change of revision; completion is earned; final is final |
| `progress` | 2 Assignments at once, 1 fault, fairness | every running Attempt ends; the daemon comes back |
| `integration` | 4 Attempts by 2 Workers, 2 faults | HEAD equals the record whenever nothing is under way, except after a stray or regressed integration; only a regression loses accepted work; accepted revisions are linear; undone work is never accepted, and gone once that is recorded |
| `effects` | 2 operations on one target, 2 writes by others, 1 fault, 1 amendment | an effect happens at most once and not after its approval is withdrawn; others' work is never lost; receipts are true; an uncertain effect stops the Commission; each execution is answered |
| `credentials` | 2 operations with 2 grants of up to 2 Commissions on one Keychain entry, 2 secrets, 1 fault | once an operation is settled nothing holds its secret; outcomes are true; whatever may hold a secret is registered; no secret is delivered after a withdrawal |
| `evidence` | 2 criteria of either kind, 2 verifiers, 2 artifacts, 2 Attempts, 1 amendment, 3 submissions | a passed criterion is earned on the artifact and mandate at hand and closes its gate; failures have a recovery or their rework has begun; what was given up stays so |
| `planning` | every valid plan of up to 3 items over 2 files, with one competition, `max_attempts` 3 or 5, 3 failed Attempts | work starts on finished work; ordered writers never meet; a valid plan has the Attempts it needs; idle means blocked |
| `memory` | 3 finished Commissions of 2 Projects and one active, 2 statements, 3 claims, 3 observations, 3 events | budgets hold; inference needs two Commissions unless a bundle brought one back; nothing is learned across a boundary; only a correction brings back what was suppressed |
| `requests` | 2 Attachments, 2 keys, 3 connections, a queue of 1, 2 threads, 1 fault | a key is applied once; answers agree; control passes only from an Attachment the new one saw |
| `restart_after_amendment`, `integration_regression` | the smallest instance with the behaviour | violations, section 6 |

*Bounds and why they are enough.*  Two Assignments give every interference
between siblings (the locks, `latest`, a revision raised under the other one);
a third would only repeat a pair.  Three Attempts of one Assignment give first
failure, equivalent second failure and what comes after, which is as far as the
counting rules (`PriorEquivalent`, `max_attempts`) look back.  Two faults give a
fault during the recovery from a fault.  One amendment is one change of revision;
the theorems below cover any number.  `AttemptBound`, `MaxFaults` and
`MaxAmendments` only cut behaviours short.  The five classes of execution error
(`ExecErrors`) are divided among the runs: `faults` has expired leases, interruptions
and unavailable Workers, `amendments` plain failures, `progress` exceeded storage;
the theorems allow any of them together.  Four Attempts in `integration` are
needed for one that starts from a revision which is undone later and is accepted
after yet another: with three, a consequence of the regression stayed hidden.  In
`effects`, two operations give one that runs while another waits or was left
uncertain, and two writes by others give a writer that fills the place of a
displaced file another writer had already changed.  In `credentials` one shared
entry and two secrets give an operation that revokes a secret stored after the one
it used.  In `evidence` three submissions give pass, failure and pass again, or
two verifiers who disagree and one who decides; two Attempts give one rework (a third,
without amendments, was checked separately: 418,135 states; the theorems of section 4
cover any number).  In `planning` three items give a competition of two with a dependent, a chain, and two
overlapping writers beside a third; three failures give a replacement that is
replaced or reconciled.  In `memory` three events give, for instance, an export, a
forgetting and an import, which with two observations is the exception
of `InferenceIsIndependent`: without it the run fails after six states.  In `requests` three connections give a request, its
repeat and somebody else's; a queue of one is full with one.

Deadlock is not checked: a Commission legitimately stops when it waits for its
Principal, is finished, or has used up a bound.  Symmetry is used in safety runs
only, over sets whose members are interchangeable.

*Fairness.*  `Fairness` gives weak fairness to each Worker thread (a thread runs
until it returns; its execution has a deadline and its lock waits end when the
holder does), to the Watchdog (the daemon sweeps every 25 ms) and to restart (the
service manager starts the daemon again).  Nothing is assumed of the Principal,
and nothing of dispatch: its loop ends with the first error of a round.  The other
modules claim safety only and state no fairness.

Each property of a passing run has a mutant in `PROJECT.json`: a changed
definition, kept next to the original in the module and marked `Mutant:`, under
which that property is violated.

## 4. Proofs

Each component has a module of proofs, `<component>Proofs`.  Its theorems hold for
every value of the constants that satisfies the assumption in the component's
module; the bounds of section 3 play no role.  None of the properties is inductive
as it stands.  Each proof strengthens it to an inductive invariant, which was first
checked with TLC on the instances of section 3, and shows its preservation with one
lemma per action or, where several actions do the same, one per shape of step.

### Attempts

| Theorem | States |
|---|---|
| `TypeCorrect` | `Spec => []TypeOK` |
| `HoldsCorrect` | a lease and a reservation are active exactly while the Attempt runs |
| `OwnershipCorrect` | a running Attempt's Assignment is running, and has no other |
| `AcceptanceCorrect` | an accepted Result's Attempt ended well and was never contained |
| `FinalityCorrect` | no step leaves a final status |
| `LedgerKept` | `Attempts` implements `AttemptLedger` |
| `ContainmentCorrect` | no retry beside a live sandbox of an Attempt that was contained or stranded |
| `StoppedCorrect` | what is stopped has a Blocker, an open condition or an Assignment in its stead |
| `CompletionCorrect` | a complete Commission's Assignments are accepted, or superseded by ones that are |
| `OccupiedCorrect` | without amendments, a running Assignment has a running Attempt |

*Argument.*  `OwnershipInv` is `TypeOK` with `RunningWasStarted` (a running Attempt
has an owner), `WatchdogHasTarget`, `HoldsMatchAttempts`,
`RunningAttemptOwnsAssignment`, `StartedInOrder` (Attempts are numbered without
gaps, so that the next number is free) and `NothingPlannedYet` (an Assignment named
after an Attempt does not exist before the Attempt is over).  Lemma `EveryStep`
shows that any step either starts one Attempt (`StartsAttempt`) or ends a set of
them (`EndsAttempts`), and the preservation of ownership and holds is proved from
these two shapes rather than from twenty-odd actions.  `AcceptanceInv` adds that a
running Attempt's Result is undecided, that a thread about to finish has integrated
its Result, and that an accepted Assignment has nothing running; with it
`attempt_continuation` turns out to be enough.  Finality and the refinement follow
step by step from both.

The other four each add an invariant to these.  `ContainmentInv`: a live sandbox
belongs to an Attempt that is running or cancelled, has a pending cleanup, or failed by
an error of its own thread (`SandboxIsFenced`, which also says that behind every signal
a thread can act on there is a pending cleanup), and a Watchdog past its fence has
recorded that cleanup (`WatchdogHasFenced`).  Containment and restart thus pass a
`sandbox_cleanups` row before a retry; a thread's own failure does not, which is why
the property excepts it (`FailedOnItsOwn`, section 6).  `ExplanationInv`: Blockers and planned Assignments stay,
and a status that asks for an explanation is written only by a transaction that
writes one.  `CompletionInv`: an Assignment is in the group it was planned for or
in its own (`GroupsAgree`), and a superseded one has a replacement or an accepted
reconciliation (`SupersededIsReplaced`), so the count that completes a Commission
overlooks nobody.  `OccupiedInv`: what a reconciliation is planned for is
`verification_failed` until the reconciliation is closed (`ReconcilesFailed`) and
waits for one only (`OneReconciles`).  A chain of reconciliations of
reconciliations has a beginning, since each is planned after the one it is for
(`PlannedLater`); that is the one argument by well-foundedness.  It is what makes
sure that superseding a group never reaches an Assignment whose Attempt still runs.
With amendments the property is false (section 6, first observation), so the
theorem assumes `Amendments = {}`, as run `faults` does.

### Operations

| Theorem | States |
|---|---|
| `OperationTypes` | `Spec => []TypeOK` |
| `AppliedOnceCorrect` | an operation's file is put in place at most once |
| `UncertainCorrect` | an uncertain effect's Commission is not active |
| `AnswerCorrect` | an execution that is over has a stored answer |
| `WithdrawalCorrect` | nothing is applied after cancellation or a mandate amendment |
| `ReceiptCorrect` | a confirmed operation was applied, a failed one is not in place |
| `OthersWorkCorrect` | what others left at the target is there, set aside, or what was approved to be replaced |

*Argument.*  `IndInv` adds three facts.  `ThreadOwnsOperation`: the holder of the
mutex is a thread of the running daemon, and the operation it executes is
`started`; nobody else moves an operation out of that status while the mutex is
held.  `NotYetApplied`: before the rename, and before an operation is started,
its file was never in place; since nothing started is authorized again, the
rename is reached once.  `RevisionFixesMandate`: an operation of the current
revision was proposed under the current mandate, and before the rename the
executing one still is, because amendments and cancellation need the mutex.  The
system calls other than the rename are one case (`QuietStep`).  The last two
theorems need `FileInv` beside it: an operation's content is nowhere before its
rename (`ContentIsApplied`), nothing is aside for an operation that has not come
that far (`NotYetDisplaced`), and what the thread found aside is still there when it
renames or removes it, while others write the target (`ThreadKnowsFiles`).

### Requests

| Theorem | States |
|---|---|
| `AppliedOnceCorrect` | a key is recorded once and heard by the Worker at most once |
| `AnswersCorrect` | an answer that reports success says what the store says of the key |
| `TakeoverCorrect` | control passes only from the Attachment the sender saw in control |

*Argument.*  `KeyIsStoredOnce`: the transaction that stores a key is the one that
records its effect.  `ControlRemembers`: while the Worker's control exists, a
command it does not list as delivered was not written, and before the adapter is
attached not queued either; what a failing write leaves queued later is never read,
since nobody attaches a second adapter.  `RevisionTellsHolder`: a request
composed at the current control revision names the current controller, since every
change of control raises the revision.

### Credentials

| Theorem | States |
|---|---|
| `SettledCorrect` | a settled operation left nobody with its secret, and no secret it could have read |
| `OutcomeCorrect` | failed means no effect, confirmed means an effect |
| `HolderCorrect` | whatever holds a secret is registered with a started or uncertain operation |
| `WithdrawalCorrect` | no secret leaves the Keychain after its grant was withdrawn |

*Argument.*  `Stage` says what each step of a thread may assume about process,
sandbox and Keychain entry of its operation; `Rows` what the rows say when no thread
is at work, in particular between a crash and the end of recovery.  An operation
only its own thread touches (`MutexHolder`), so all actions but the thread's own are
one case (`SameOp`).  `SecretsAge` (a reference's secrets are numbered upwards) is
why revoking a secret stored since does not count as leaving one behind, and
`NamesAgree` why a withdrawn grant meets no thread before delivery.

### Evidence

| Theorem | States |
|---|---|
| `TypesCorrect` | `Spec => []TypeOK` |
| `EarnedCorrect` | a passed criterion has the verdicts its depth asks for, on artifact and mandate at hand |
| `GateCorrect` | a passed Principal criterion has its gate closed |
| `FollowUpCorrect` | bad news nobody contradicts has a recovery, or its rework has begun |
| `GivenUpCorrect` | a Result given up is never a candidate again |

*Argument.*  `Ledger` orders Attempts, Results, mandates and artifacts: only the
newest Attempt runs or has a candidate, and only under today's mandate
(`NewestCounts`); mandates grow with the Attempts (`MandatesGrow`); the artifact is
what was integrated last (`ArtifactIsNewest`).  `Opinion` adds what statuses, gates
and recoveries owe to the verdicts on that artifact.  That rework has begun is stable,
since no step takes back a started Attempt or a Result's being given up (`GoesOn`,
from which `GivenUpCorrect` follows too).  The proof of `GateCorrect` and
`FollowUpCorrect` failed at one place, a step that integrates an artifact that had
been replaced before; that is the returning artifact of section 6, which the two
properties now except (`CameBack`).

### Integration

| Theorem | States |
|---|---|
| `TypesCorrect` | `Spec => []TypeOK` |
| `HeadCorrect` | HEAD equals the record whenever nothing is under way and nothing slipped |
| `WorkKeptCorrect` | only a regression loses accepted work |
| `RollbackCorrect` | what was rolled back is never accepted, and once recorded neither in HEAD nor in the record |
| `AcceptedOrderCorrect` | accepted revisions extend each other unless the record was set back |

*Argument.*  `Locked` says which steps hold which lock, `Merged` that a thread that
holds the repository has exactly its own commit on top of what it found, `Absent`
that an author is in no history before its `integrate` and after its rollback was
recorded.
`AcceptedBelow` puts every accepted revision below every revision HEAD can be set
to, the ones threads remember included, until the record was set back; `Accounted`
that HEAD and record differ only while a thread, a pending cleanup or a restore will
bring them together.

### Memory

| Theorem | States |
|---|---|
| `TypesCorrect` | `Spec => []TypeOK` |
| `BudgetCorrect` | every scope keeps to its budget of claims and tokens |
| `IndependenceCorrect` | an inferred claim in use rests on two Commissions, one of them strongly, unless history returned |
| `BoundaryCorrect` | nothing becomes active, or changes while active, across a Learning Boundary |
| `CorrectionCorrect` | only a correction brings back what was suppressed or contradicted |

*Argument.*  `Table`: each claim, of the store and of every bundle, is sound with
respect to the observations beside it (`Sound`).  An import mixes two tables, so the
invariant also says that an id names the same observation in both (`SameHistory`),
that a Commission row shows a preference once (`ShownOnce`) and that bundles hold
known ids only (`BundlesSound`): two observations are then two Commission rows.
`LocalIsLast` adds that a row made here is the last its Commission made of the
preference, so two rows of one Commission are an imported one followed by another,
which is the exception the property names (`HistoryReturned`).
`BudgetKept` is inductive with these, by lemmas on what adding, replacing and
removing one claim does to the counts.

### Planning

| Theorem | States |
|---|---|
| `StartsCorrect` | an Assignment exists only on accepted work, for every valid plan |
| `WritersCorrect` | in a planning Worker's plan, writers of one file are never open together |
| `BudgetCorrect` | while nothing failed, the ceiling covers all Attempts to come |
| `IdleCorrect` | a Commission with nothing ready and nothing running is complete or has asked for help, except for the two cases `IdleIsBlocked` names |
| `OverCorrect` | a complete Commission has accepted work for every item, and no row of it is ready, running, waiting or failed |

*Argument.*  Rows come and go, items stay.  `Well` ties each row to the items it owns
(`Rooted`, `ReconcilesAll`), allows an item one row that is not superseded
(`OneRowPerItem`), and says that what has started rests on `Finished` items
(`StartsFinished`), which stay finished, while what waits knows a row for every
dependency (`WaitsFor`).  `Phases`: planning ends before the planned work begins.
`Covered` counts what is still to be dispatched, the comparisons that have no row yet
included.

`IdleCorrect` needs `ProgressInv` beside these.  `Waiting` holds always: a row without
an Assignment has a dependency that is not settled (`WaitsForSomebody`), an item that
has not passed has a row that is not settled (`ItemsAreCared`), and members of a
competition wait for the same rows, so together (`CompeteTogether`).  `GoesOn` and
`EndIsSeen` hold while the run is `Clean`, that is without a Blocker and without the
two excepted cases; once it is not, it never is again (`CalmBefore`).  `GoesOn`: what
failed has an open reconciliation, and a competition whose members wait has a member
that is open or an open comparison.  `EndIsSeen`: an acceptance that leaves nothing to
do completes the Commission.  When nothing is ready or running, whoever is left would
have to wait for a dependency that waits too; a dependency has fewer items below it
than what depends on it (`DependencyIsLower`), and plans are acyclic, so the chain
ends and nobody waits (`NobodyWaits`).

`OverCorrect` needs `EndInv`.  `finish_planned_assignment` counts the plan's own
Assignments and not the reconciliations; it need not, since a reconciliation that is
not settled is there for a row of the plan that is not settled (`IsNeeded`).  That is
inductive because a group has one open reconciliation (`ReconciledOnce`), is compared
after all its members came to an end (`ComparedIsOver`), and because a row whose
reconciliation was reconciled itself stays behind unsettled (`Stranded`): the second
observation of section 6 blocks a Commission, but never completes it too early.
`PlanIsOver` is a property of `PlanningProofs` and has no run of its own.

*Only model-checked.*  `AttemptsEnd` and `DaemonComesBack` (fairness and `ENABLED` are
beyond the proof system).  `Attempts!RunningAssignmentHasAttempt` is proved without
amendments, and is false with them.  The `TypeOK` theorems are not repeated as runs.

## 5. Not modelled

The execution itself (containers, networks, the agent process and its line
protocol), git's own merging, wall-clock time, and the content of goals, evidence,
messages, requests and responses.  The dispatch loop's rounds; the frontier's
storage and spend rules and the host's capacity, which is shared between
Commissions while the modules follow one (`Credentials`: two); the ranking of Worker
routing; the proposal and diff of an amendment; launch tokens, session resumption and event
replay, which read what others wrote; projection, digest, schema migrations, CLI
and installation.  `PROJECT.json` gives the reason for each component.

## 6. Findings

Two disagreements have a run that exhibits them:

1. `integration_regression`: when an assembled state regresses,
   `finish_planned_assignment` writes back the `artifact_revision` read at
   dispatch (`src/src/store.rs:8440`, `8524`).  If a sibling was accepted in
   between, the record loses it.
2. `restart_after_amendment`: a Blocker is never deleted and is unique per
   Assignment; `recover_stranded_attempts` inserts another for an Assignment that
   was reopened by an amendment, and the daemon fails to start each time.

Others are in the models as the code has them, and the properties name them as
exceptions or stop short of them (lines of `src/src/store.rs` unless said
otherwise):

- `amend_verification` makes a sibling's Attempt stale; `retain_noncurrent_result`
  (12698) releases the Attempt and leaves its Assignment `running` for good.
- A reconciliation that is itself reconciled is never superseded (12053), and a
  competition that lost a member to a replacement or a reconciliation never
  reaches its comparison (8728): the Commission stays active with nothing to do
  and nothing asked.  `IdleIsBlocked` names both.
- `complete_planned_commission` (12272, called at 8664) asks nothing of the gates;
  `complete_commission`, the path without a plan, does (11900).
- Evidence submitted while its Attempt is still running can complete the
  Commission, and the thread that comes late then marks the accepted Result
  superseded (11769, 12690).
- A passing verdict on one run outweighs a failure by another verifier when the
  depth is standard (11755); a failed verdict while the Attempt runs leaves a
  pending recovery (12434); rework at the ceiling meets an old Blocker (12471).
- The teardown of an adapter session that ends without a Result is best effort and
  drops its error (`src/src/worker/contained_codex.rs:447`, `1873`), and `fail_attempt`
  then writes no `sandbox_cleanups` row: the retry may run beside the old sandbox.
  `NoRetryBesideLiveSandbox` excepts it as `FailedOnItsOwn`.
- git is rolled back before the transaction that records it commits (8434 and 8443,
  8518 and 8532).  A failing commit or a crash in between leaves the rolled-back
  revision recorded, and the next restore sets HEAD to it again, although it failed
  its verification.  `RolledBackIsGone` claims nothing of HEAD in that case.
- One Commission can be counted twice: exported, forgotten and imported, what it showed
  carries a new `commission_id` (14766); the duplicate check (699-706) and the count of
  independent Commissions (878) compare local ids, so observing the same Commission again
  promotes a claim it alone supports.  The refusal at 709 says "one Commission can
  contribute at most one observation per preference", and
  `src/tests/learning.rs:744` asks for independent support.
  `InferenceIsIndependent` excepts exactly this (`HistoryReturned`); without the
  exception TLC finds it within the bounds of run `memory` (observe, export, forget,
  import, observe).
- A cancellation that fails to commit has already interrupted the Worker (3061): the
  Commission stays active and its Attempt ends as interrupted.
- A cherry-pick that conflicts halfway leaves the earlier commits of the candidate
  in HEAD (`src/src/worker/contained_codex.rs:1241`).
- An artifact's revision is a hash of its content (`src/src/artifact.rs:7`), so rework
  may bring back an artifact that another one had replaced under the same mandate.
  Its old Evidence then counts again (8305), but its gate is refreshed only when
  Evidence is recorded (7047) and recoveries were resolved per criterion, whatever
  the artifact (6991): the criterion can be passed with its gate open.  It takes three
  Attempts and three submissions; `PassedClosesGate` and `BadNewsIsFollowedUp` name it
  as `CameBack`.
- A `worker_commands` row may say `failed` of a command that was delivered, when a
  cancellation comes between delivery and record (3169, 9900).

## 7. Plan

Every safety property a passing run checks is stated by a theorem.  What is left, within the
limits of the runs: the dispatch loop with the frontier's other rules (liveness of
ready work), and the ranking of routing as a pure algorithm.
