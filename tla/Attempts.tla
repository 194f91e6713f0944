------------------------------ MODULE Attempts ------------------------------
(***************************************************************************)
(* The life of the Attempts of one Commission: dispatch, the Worker        *)
(* thread's walk from execution to acceptance, failure handling, the       *)
(* Watchdog, the Principal's controls, and Control Plane crash and restart.*)
(*                                                                         *)
(* One action is one SQLite transaction of src/src/store.rs together with  *)
(* the in-memory effects that go with it.  Between two transactions of a   *)
(* Worker thread every other actor may run: that is where the code's       *)
(* `attempt_continuation` check has to hold the line.                      *)
(*                                                                         *)
(* Abstracted: goals, paths, digests, clocks and telemetry (data), the     *)
(* ranking of Worker Configurations (any eligible one may be chosen) and   *)
(* the order in which the frontier prefers ready Assignments (any may be   *)
(* first).  Every planned Assignment is ready from the start: dependencies *)
(* and competing candidates belong to the plan, not to this module.  The   *)
(* execution is `codex_git`; `assignments.plan_revision` is left out since *)
(* the only statement that changes it also changes commissions.revision.   *)
(***************************************************************************)
EXTENDS Integers, FiniteSets

CONSTANTS
    Work,            \* the Assignments of the accepted plan
    Configs,         \* the Worker Configurations of the host
    ExecErrors,      \* the error classes an execution may end with
    MaxAttempts,     \* resource_ceilings.max_attempts
    MaxConcurrency,  \* resource_ceilings.max_worker_concurrency
    ClockCeilings,   \* may max_elapsed_seconds or the lease deadline run out?
    MaxFailing,      \* most criteria one candidate verification can fail
    AttemptBound,    \* bound: Attempts ever started
    MaxFaults,       \* bound: crashes, thread errors and stalls
    MaxAmendments,   \* bound: amendments of either kind
    Amendments       \* the kinds the Principal makes: "verification", "mandate"

Attempt == 1..AttemptBound

\* The Assignment that Attempt t causes to be planned (a reconciliation or a
\* replacement) is named t: an Attempt plans at most one.
Assignment == Work \union Attempt

NoOne == 0           \* no Attempt, no Assignment, the base artifact

Signals == {"invalid_authority", "lost_liveness", "stall",
            "unhealthy_retry_pattern", "repeated_verification_failure"}

AllExecErrors == {"lease_expired", "interrupted", "storage", "unavailable", "failed"}

ASSUME ConstantsAssumption ==
    /\ Work \intersect Attempt = {} /\ NoOne \notin Work
    /\ ExecErrors \subseteq AllExecErrors
    /\ Amendments \subseteq {"verification", "mandate"}
    /\ MaxAttempts \in Nat /\ MaxConcurrency \in Nat
    /\ MaxFailing \in Nat \ {0} /\ ClockCeilings \in BOOLEAN
    /\ AttemptBound \in Nat /\ MaxFaults \in Nat /\ MaxAmendments \in Nat

VARIABLES
    \* commissions
    cStatus, cRev, artifact, uncovered,
    \* assignments, assignment_metadata and planned_assignments
    aStatus, group, plannedGroup, excluded, latest, blockers, attention,
    \* attempts, worker_leases, resource_reservations, results,
    \* attempt_recoveries, evidence and sandbox_cleanups
    tStatus, tOwner, tRev, tConf, tBase, lease, resv, result, integrated,
    rKey, rAct, failing, cleanup,
    \* the process: Worker control registry, threads, locks, the Watchdog
    ctl, pc, err, mutex, flock, wd, sandbox, phase,
    \* the bounds' counters
    faults, amendments

commissionVars == <<cStatus, cRev, artifact, uncovered>>
planVars       == <<group, plannedGroup, excluded, latest>>
attemptIdVars  == <<tOwner, tRev, tConf, tBase>>
holdVars       == <<tStatus, lease, resv>>
recoveryVars   == <<rKey, rAct, blockers, attention>>
lockVars       == <<mutex, flock>>
threadVars     == <<ctl, pc, err, mutex, flock>>
boundVars      == <<faults, amendments>>

vars == <<commissionVars, aStatus, planVars, recoveryVars, holdVars, attemptIdVars,
          result, integrated, failing, cleanup, threadVars, wd, sandbox, phase, boundVars>>

CommissionStatus == {"active", "paused", "cancelled", "verified_complete"}
AssignmentStatus == {"none", "ready", "running", "verification_failed", "attention_required",
                     "resource_blocked", "accepted", "superseded", "cancelled"}
AttemptStatus    == {"none", "running", "succeeded", "failed", "timed_out", "interrupted",
                     "cancelled"}
Keys             == Signals \union
                    {"none", "worker_timed_out", "integrated_revalidation", "max_storage_bytes",
                     "principal_interruption", "worker_configuration_unavailable",
                     "worker_execution_failed", "verification_failure", "principal_cancellation"}
RecoveryActions  == {"none", "retry", "replan", "block", "await_principal", "reroute", "cancel"}
AttentionCodes   == {"worker_interrupted", "integrated_revalidation", "replan_required",
                     "worker_configuration_unavailable"}
ThreadSteps      == {"none", "execute", "submit", "fail", "verify", "lock", "integrate",
                     "commit", "finish", "reconcile", "end"}

Idle == [step |-> "idle", attempt |-> NoOne, signal |-> "stall"]

(***************************************************************************)
(* What the queries of store.rs read.                                      *)
(***************************************************************************)

Started == {t \in Attempt : tStatus[t] # "none"}
Running == {t \in Attempt : tStatus[t] = "running"}
AttemptsOf(a) == {t \in Attempt : tOwner[t] = a}
Dispatchable == cStatus \in {"active", "paused"}

ConfigurationFailures == {t \in Attempt : rKey[t] = "worker_configuration_unavailable"}

\* Attempts charged against max_attempts: those of the whole Commission, less
\* the ones that only found a configuration unavailable.
CountedAttempts == Cardinality(Started \ ConfigurationFailures)

\* Configurations an Assignment may still be routed to.
Eligible(a) ==
    Configs \ (excluded[a] \union
               {tConf[t] : t \in AttemptsOf(a) \intersect
                                 (ConfigurationFailures \union {t \in Attempt : rAct[t] = "replan"})})

AttemptsExhausted == CountedAttempts >= MaxAttempts

PriorEquivalent(a, key) == \E t \in AttemptsOf(a) : rKey[t] = key

AuthorityIsCurrent(t) == tOwner[t] \notin uncovered

\* results.integrated_artifact_revision = commissions.artifact_revision
AcknowledgedState(t) == integrated[t] /\ artifact = t

\* Mutant: a contained Attempt is still taken for the current one.
ContinuationWithoutFence(t) ==
    IF cStatus = "cancelled" \/ tStatus[t] = "cancelled" THEN "Cancelled"
    ELSE IF Dispatchable /\ cRev = tRev[t] /\ aStatus[tOwner[t]] = "running" THEN "Current"
    ELSE "Stale"

AttemptContinuation(t) ==
    LET a == tOwner[t]
    IN  IF cStatus = "cancelled" \/ aStatus[a] = "cancelled" \/ tStatus[t] = "cancelled"
        THEN "Cancelled"
        ELSE IF /\ Dispatchable
                /\ cRev = tRev[t]
                /\ aStatus[a] = "running"
                /\ tStatus[t] = "running"
                /\ t \notin cleanup
                /\ AuthorityIsCurrent(t)
             THEN "Current"
             ELSE "Stale"

IsCurrent(t) == AttemptContinuation(t) = "Current"

(***************************************************************************)
(* Pieces that several transactions share.                                 *)
(***************************************************************************)

\* Set an attempt's row, lease and reservation together.
Hold(t, status, leaseStatus, resvStatus) ==
    /\ tStatus' = [tStatus EXCEPT ![t] = status]
    /\ lease' = [lease EXCEPT ![t] = leaseStatus]
    /\ resv' = [resv EXCEPT ![t] = resvStatus]

ReleaseSuccessfulAttempt(t) == Hold(t, "succeeded", "released", "released")

RecordRecovery(t, key, action) ==
    /\ rKey' = [rKey EXCEPT ![t] = key]
    /\ rAct' = [rAct EXCEPT ![t] = action]

\* The end of run_ready_assignment: both locks and the control are dropped.
EndThread(t) ==
    /\ pc' = [pc EXCEPT ![t] = "end"]
    /\ ctl' = [ctl EXCEPT ![t] = "none"]
    /\ mutex' = IF mutex = t THEN NoOne ELSE mutex
    /\ flock' = IF flock = t THEN NoOne ELSE flock
    /\ err' = [err EXCEPT ![t] = "none"]

GoTo(t, step) ==
    /\ pc' = [pc EXCEPT ![t] = step]
    /\ UNCHANGED <<ctl, err>>

FailWith(t, error) ==
    /\ pc' = [pc EXCEPT ![t] = "fail"]
    /\ err' = [err EXCEPT ![t] = error]
    /\ UNCHANGED ctl

\* Mutant: the late thread of an Attempt that was already ended ends it again.
EndsLate(t) == AttemptContinuation(t) = "Stale"

\* Does the late thread still have its Attempt to end?
EndsStale(t) == AttemptContinuation(t) = "Stale" /\ tStatus[t] = "running" /\ t \notin cleanup

\* retain_noncurrent_result, followed by the thread's return.
RetainNoncurrentResult(t) ==
    /\ result' = [result EXCEPT ![t] = "superseded"]
    /\ IF EndsStale(t)
       THEN ReleaseSuccessfulAttempt(t)
       ELSE UNCHANGED holdVars
    /\ EndThread(t)
    /\ UNCHANGED <<commissionVars, aStatus, planVars, recoveryVars, integrated, failing>>

(***************************************************************************)
(* Dispatch: route_ready_assignments and the transaction that follows it.  *)
(***************************************************************************)

RoutingCode == "worker_configuration_unavailable"

\* Mutant: routing does not look at the Assignment's status.
RoutedWhateverStatus ==
    {a \in Assignment : aStatus[a] \in {"ready", "running", "attention_required"}
                        /\ \A c \in AttentionCodes \ {RoutingCode} : <<a, c>> \notin attention}

\* Assignments routing may move: ready ones, and those waiting for attention
\* for no other reason than routing itself.
Routed ==
    {a \in Assignment :
        \/ aStatus[a] = "ready"
        \/ aStatus[a] = "attention_required"
           /\ \A c \in AttentionCodes \ {RoutingCode} : <<a, c>> \notin attention}

RoutedStatus ==
    [a \in Assignment |->
        IF a \notin Routed THEN aStatus[a]
        ELSE IF Eligible(a) = {} THEN "attention_required" ELSE "ready"]

\* A selected route resolves what a waiting Assignment had open; without one,
\* every open condition of the Assignment becomes the routing condition.
RoutedAttention ==
    {x \in attention : x[1] \notin Routed
                       \/ (aStatus[x[1]] = "ready" /\ Eligible(x[1]) # {})}
        \union {<<a, RoutingCode>> : a \in {b \in Routed : Eligible(b) = {}}}

\* Mutant: a pending sandbox cleanup does not hold its Assignment back.
CandidatesBesideCleanup ==
    {a \in Assignment : cStatus = "active" /\ RoutedStatus[a] = "ready"}

Candidates ==
    {a \in Assignment : /\ cStatus = "active"
                        /\ RoutedStatus[a] = "ready"
                        /\ AttemptsOf(a) \intersect cleanup = {}}

\* frontier::select over Workers of one slot each; disjoint write scopes.
FrontierSelects(a) ==
    /\ a \in Candidates
    /\ Cardinality({t \in Attempt : resv[t] = "active"}) < MaxConcurrency

\* No candidate: only the routing decisions are committed.
RouteOnly ==
    /\ phase = "up" /\ Candidates = {}
    /\ <<aStatus, attention>> # <<RoutedStatus, RoutedAttention>>
    /\ aStatus' = RoutedStatus /\ attention' = RoutedAttention
    /\ UNCHANGED <<commissionVars, planVars, rKey, rAct, blockers, holdVars, attemptIdVars,
                   result, integrated, failing, cleanup, threadVars, wd, sandbox, phase,
                   boundVars>>

CeilingReached == AttemptsExhausted \/ ClockCeilings

\* block_ready_assignment: its plain INSERT fails, and with it the whole
\* dispatch, when the Assignment already has a Blocker.
BlockReadyAssignment(a) ==
    /\ phase = "up" /\ FrontierSelects(a) /\ CeilingReached
    /\ a \notin blockers
    /\ aStatus' = [RoutedStatus EXCEPT ![a] = "resource_blocked"]
    /\ attention' = RoutedAttention
    /\ blockers' = blockers \union {a}
    /\ UNCHANGED <<commissionVars, planVars, rKey, rAct, holdVars, attemptIdVars,
                   result, integrated, failing, cleanup, threadVars, wd, sandbox, phase,
                   boundVars>>

\* The Attempt, its lease, its reservation and the Worker control appear together.
StartAttempt(a, c) ==
    LET t == Cardinality(Started) + 1
    IN  /\ phase = "up" /\ FrontierSelects(a) /\ c \in Eligible(a)
        /\ ~AttemptsExhausted
        /\ t \in Attempt
        /\ tOwner' = [tOwner EXCEPT ![t] = a]
        /\ tRev' = [tRev EXCEPT ![t] = cRev]
        /\ tConf' = [tConf EXCEPT ![t] = c]
        /\ tBase' = [tBase EXCEPT ![t] = artifact]
        /\ Hold(t, "running", "active", "active")
        /\ aStatus' = [RoutedStatus EXCEPT ![a] = "running"]
        /\ attention' = RoutedAttention
        /\ ctl' = [ctl EXCEPT ![t] = "live"]
        /\ pc' = [pc EXCEPT ![t] = "execute"]
        /\ sandbox' = sandbox \union {t}
        /\ UNCHANGED <<commissionVars, planVars, rKey, rAct, blockers, result, integrated,
                       failing, cleanup, err, lockVars, wd, phase, boundVars>>

(***************************************************************************)
(* The Worker thread, one action per transaction.                          *)
(***************************************************************************)

\* Everything but what a step of a thread may change.
ThreadFrame == UNCHANGED <<uncovered, attemptIdVars, cleanup, wd, phase, boundVars>>

\* execute: a control flag raised while it ran overrides its outcome.  A Result
\* implies that the sandbox was deleted; every other way out ends the session at
\* best effort, drops the error of that and leaves no cleanup behind.
ExecuteReturns(t) ==
    /\ phase = "up" /\ pc[t] = "execute"
    /\ \/ /\ ctl[t] = "live" /\ GoTo(t, "submit")
          /\ sandbox' = sandbox \ {t}
       \/ /\ \/ ctl[t] = "live" /\ \E e \in ExecErrors \ {"interrupted"} : FailWith(t, e)
             \/ ctl[t] \in {"interrupted"} \union Signals /\ FailWith(t, ctl[t])
          /\ sandbox' \in {sandbox, sandbox \ {t}}
    /\ UNCHANGED <<cStatus, cRev, artifact, aStatus, planVars, recoveryVars, holdVars,
                   result, integrated, failing, lockVars>>
    /\ ThreadFrame

\* The Result is stored; one that leaves its declared scope is reconciled
\* instead of verified.
SubmitResult(t) ==
    /\ phase = "up" /\ pc[t] = "submit"
    /\ \/ /\ AttemptContinuation(t) = "Cancelled"
          /\ EndThread(t)
          /\ UNCHANGED <<cStatus, cRev, artifact, aStatus, planVars, recoveryVars, holdVars,
                         result, integrated, failing>>
       \/ /\ AttemptContinuation(t) = "Stale"
          /\ RetainNoncurrentResult(t)
       \/ /\ IsCurrent(t)
          /\ result' = [result EXCEPT ![t] = "candidate"]
          /\ \E step \in {"verify", "reconcile"} : GoTo(t, step)
          /\ UNCHANGED <<cStatus, cRev, artifact, aStatus, planVars, recoveryVars, holdVars,
                         integrated, failing, lockVars>>
    /\ UNCHANGED sandbox
    /\ ThreadFrame

VerifierErrors == ExecErrors \intersect {"lease_expired", "storage", "failed"}

\* verify_candidate could not be run at all, or integrate failed: fail_attempt next.
StepErrs(t) ==
    \/ /\ pc[t] = "verify"
       /\ UNCHANGED lockVars
    \/ /\ pc[t] = "integrate" /\ flock = NoOne
       /\ mutex' = NoOne /\ UNCHANGED flock

VerifyOrIntegrateErrs(t) ==
    /\ phase = "up"
    /\ StepErrs(t)
    /\ \E e \in VerifierErrors : FailWith(t, e)
    /\ UNCHANGED <<cStatus, cRev, artifact, aStatus, planVars, recoveryVars, holdVars,
                   result, integrated, failing, sandbox>>
    /\ ThreadFrame

\* Candidate verification passed, or the thread is no longer the current one.
CandidatePasses(t) ==
    /\ phase = "up" /\ pc[t] = "verify"
    /\ IF IsCurrent(t)
       THEN /\ GoTo(t, "lock")
            /\ UNCHANGED <<cStatus, cRev, artifact, aStatus, planVars, recoveryVars, holdVars,
                           result, integrated, failing, lockVars>>
       ELSE RetainNoncurrentResult(t)
    /\ UNCHANGED sandbox
    /\ ThreadFrame


\* A second Assignment in the place of a, planned because of a's Attempt t.
InsertReadyAssignment(t, g, excl) ==
    /\ plannedGroup' = [plannedGroup EXCEPT ![t] = g]
    /\ excluded' = [excluded EXCEPT ![t] = excl]
    /\ latest' = t

\* recover_failed_verification: block at the ceiling, retry the first time,
\* replace the Assignment the second time.
RecoverFailedVerification(t) ==
    LET a == tOwner[t]
    IN  \/ /\ Cardinality(Started) >= MaxAttempts
           /\ aStatus' = [aStatus EXCEPT ![a] = "verification_failed"]
           /\ blockers' = blockers \union {a}
           /\ RecordRecovery(t, "verification_failure", "block")
           /\ UNCHANGED <<result, planVars>>
        \/ /\ Cardinality(Started) < MaxAttempts
           /\ ~PriorEquivalent(a, "verification_failure")
           /\ aStatus' = [aStatus EXCEPT ![a] = "ready"]
           /\ RecordRecovery(t, "verification_failure", "retry")
           /\ result' = [result EXCEPT ![t] = "superseded"]
           /\ UNCHANGED <<blockers, planVars>>
        \/ /\ Cardinality(Started) < MaxAttempts
           /\ PriorEquivalent(a, "verification_failure")
           /\ aStatus' = [aStatus EXCEPT ![a] = "superseded", ![t] = "ready"]
           /\ RecordRecovery(t, "verification_failure", "replan")
           /\ result' = [result EXCEPT ![t] = "superseded"]
           /\ InsertReadyAssignment(t, plannedGroup[a], excluded[a] \union {tConf[t]})
           /\ group' = [group EXCEPT ![t] = plannedGroup[a]]
           /\ UNCHANGED blockers

CandidateFails(t) ==
    /\ phase = "up" /\ pc[t] = "verify" /\ IsCurrent(t)
    /\ \E n \in 1..MaxFailing : failing' = [failing EXCEPT ![t] = n]
    /\ ReleaseSuccessfulAttempt(t)
    /\ RecoverFailedVerification(t)
    /\ EndThread(t)
    /\ UNCHANGED <<cStatus, cRev, artifact, attention, integrated, sandbox>>
    /\ ThreadFrame

\* block_on_unrunnable_verifier, unless its plain INSERT meets an old Blocker:
\* then the transaction is rolled back and the thread ends with an error.
VerifierUnrunnable(t) ==
    /\ phase = "up" /\ pc[t] = "verify" /\ IsCurrent(t)
    /\ IF tOwner[t] \in blockers
       THEN UNCHANGED <<failing, holdVars, aStatus, blockers>>
       ELSE /\ \E n \in 1..MaxFailing : failing' = [failing EXCEPT ![t] = n]
            /\ ReleaseSuccessfulAttempt(t)
            /\ aStatus' = [aStatus EXCEPT ![tOwner[t]] = "verification_failed"]
            /\ blockers' = blockers \union {tOwner[t]}
    /\ EndThread(t)
    /\ UNCHANGED <<cStatus, cRev, artifact, planVars, rKey, rAct, attention, result,
                   integrated, sandbox>>
    /\ ThreadFrame

\* The in-process Integration lock, then a look at whether the work is still wanted.
LockIntegration(t) ==
    /\ phase = "up" /\ pc[t] = "lock" /\ mutex = NoOne
    /\ IF IsCurrent(t)
       THEN /\ mutex' = t
            /\ GoTo(t, "integrate")
            /\ UNCHANGED <<cStatus, cRev, artifact, aStatus, planVars, recoveryVars, holdVars,
                           result, integrated, failing, flock>>
       ELSE RetainNoncurrentResult(t)
    /\ UNCHANGED sandbox
    /\ ThreadFrame

\* worker.integrate: waits for the repository's file lock, which it keeps when it
\* succeeds; a stale base or a conflict drops both locks and is reconciled.
Integrate(t) ==
    /\ phase = "up" /\ pc[t] = "integrate" /\ flock = NoOne
    /\ \/ flock' = t /\ UNCHANGED mutex /\ GoTo(t, "commit")
       \/ mutex' = NoOne /\ UNCHANGED flock /\ GoTo(t, "reconcile")
    /\ UNCHANGED <<cStatus, cRev, artifact, aStatus, planVars, recoveryVars, holdVars,
                   result, integrated, failing, sandbox>>
    /\ ThreadFrame

CommitIntegration(t) ==
    /\ phase = "up" /\ pc[t] = "commit"
    /\ IF IsCurrent(t)
       THEN /\ integrated' = [integrated EXCEPT ![t] = TRUE]
            /\ artifact' = t
            /\ mutex' = NoOne
            /\ GoTo(t, "finish")
            /\ UNCHANGED <<cStatus, cRev, aStatus, planVars, recoveryVars, holdVars, result,
                           failing, flock>>
       ELSE RetainNoncurrentResult(t)
    /\ UNCHANGED sandbox
    /\ ThreadFrame

\* finish_planned_assignment when the assembled state regressed or could not be
\* verified: the Integration is undone, and the Commission's artifact goes back
\* to what it was when this Attempt was dispatched.
AssembledStateFails(t) ==
    /\ phase = "up" /\ pc[t] = "finish" /\ IsCurrent(t)
    /\ integrated' = [integrated EXCEPT ![t] = FALSE]
    /\ artifact' = tBase[t]
    /\ GoTo(t, "reconcile")
    /\ UNCHANGED <<cStatus, cRev, aStatus, planVars, recoveryVars, holdVars, result, failing,
                   lockVars, sandbox>>
    /\ ThreadFrame

IsReconciliation(a) == plannedGroup[a] # NoOne

\* Assignment statuses after a's Result is accepted; a reconciliation also
\* supersedes the failed members of its group.
StatusAfterAccepting(a) ==
    [b \in Assignment |->
        IF b = a THEN "accepted"
        ELSE IF /\ IsReconciliation(a) /\ ~IsReconciliation(b)
                /\ group[b] = group[a] /\ aStatus[b] = "verification_failed"
             THEN "superseded" ELSE aStatus[b]]

\* Mutant: an Assignment that stopped does not count against completion.
PlanHasNothingReady(status) == \A b \in Assignment : status[b] \notin {"ready", "running"}

PlanIsAccepted(status) ==
    \A b \in Assignment : status[b] # "none" /\ ~IsReconciliation(b)
                              => status[b] \in {"accepted", "superseded"}

\* finish_planned_assignment when every expected criterion passed.
AcceptPlannedResult(t) ==
    LET a == tOwner[t]
    IN  /\ phase = "up" /\ pc[t] = "finish" /\ IsCurrent(t)
        /\ result[t] = "candidate"
        /\ aStatus' = StatusAfterAccepting(a)
        /\ result' = [s \in Attempt |->
                        IF s = t THEN "accepted"
                        ELSE IF /\ IsReconciliation(a) /\ result[s] = "candidate"
                                /\ ~IsReconciliation(tOwner[s])
                                /\ group[tOwner[s]] = group[a]
                             THEN "superseded" ELSE result[s]]
        /\ ReleaseSuccessfulAttempt(t)
        /\ artifact' = t
        /\ IF PlanIsAccepted(StatusAfterAccepting(a))
           THEN cStatus' = "verified_complete" /\ cRev' = cRev + 1
           ELSE UNCHANGED <<cStatus, cRev>>
        /\ EndThread(t)
        /\ UNCHANGED <<planVars, recoveryVars, integrated, failing, sandbox>>
        /\ ThreadFrame

\* finish_planned_assignment when the thread is no longer the current one.
FinishNoncurrent(t) ==
    /\ phase = "up" /\ pc[t] = "finish" /\ ~IsCurrent(t)
    /\ RetainNoncurrentResult(t)
    /\ UNCHANGED sandbox
    /\ ThreadFrame

RequireReconciliation(t) ==
    LET a == tOwner[t]
    IN  /\ phase = "up" /\ pc[t] = "reconcile"
        /\ IF IsCurrent(t)
           THEN /\ ReleaseSuccessfulAttempt(t)
                /\ aStatus' = [aStatus EXCEPT ![a] = "verification_failed", ![t] = "ready"]
                /\ group' = [group EXCEPT ![a] = a, ![t] = a]
                /\ InsertReadyAssignment(t, a, {})
                /\ EndThread(t)
                /\ UNCHANGED <<cStatus, cRev, artifact, recoveryVars, result, integrated,
                               failing>>
           ELSE RetainNoncurrentResult(t)
        /\ UNCHANGED sandbox
        /\ ThreadFrame

(***************************************************************************)
(* fail_attempt, for a Worker thread's error and for the Watchdog's signal.*)
(***************************************************************************)

EquivalenceKey(e) ==
    CASE e = "lease_expired" -> "worker_timed_out"
      [] e = "interrupted"   -> "principal_interruption"
      [] e = "storage"       -> "max_storage_bytes"
      [] e = "unavailable"   -> "worker_configuration_unavailable"
      [] e = "failed"        -> "worker_execution_failed"
      [] OTHER               -> e

\* Lease expiry and containment are transient: retried once, then replanned,
\* and blocked when max_attempts leaves no room.
Transient(e) == e = "lease_expired" \/ e \in Signals

TransientAction(a, e) ==
    IF AttemptsExhausted THEN "block"
    ELSE IF PriorEquivalent(a, EquivalenceKey(e)) THEN "replan" ELSE "retry"

RecoveryAction(t, e) ==
    CASE AcknowledgedState(t) -> "block"
      [] ~AcknowledgedState(t) /\ Transient(e) -> TransientAction(tOwner[t], e)
      [] ~AcknowledgedState(t) /\ e = "interrupted" -> "await_principal"
      [] ~AcknowledgedState(t) /\ e = "unavailable" -> "reroute"
      [] OTHER -> "block"

\* Mutant: a failure that is not retried leaves the Assignment as it was.
StatusAfterRetry(t, e) ==
    IF RecoveryAction(t, e) \in {"retry", "reroute"} THEN "ready" ELSE aStatus[tOwner[t]]

StatusAfterFailure(t, e) ==
    LET action == RecoveryAction(t, e)
    IN  CASE AcknowledgedState(t)            -> "verification_failed"
          [] action \in {"retry", "reroute"} -> "ready"
          [] action = "replan" \/ action = "await_principal" -> "attention_required"
          [] OTHER -> IF Transient(e) \/ e = "storage" THEN "resource_blocked"
                      ELSE "verification_failed"

FailAttempt(t, e) ==
    LET a      == tOwner[t]
        ack    == AcknowledgedState(t)
        action == RecoveryAction(t, e)
    IN  IF tStatus[t] # "running"
        THEN UNCHANGED <<holdVars, result, aStatus, recoveryVars>>
        ELSE /\ Hold(t,
                     IF e = "interrupted" THEN "interrupted"
                     ELSE IF e \in Signals THEN "timed_out" ELSE "failed",
                     IF e = "lease_expired" THEN "expired" ELSE "revoked",
                     "revoked")
             /\ result' = [result EXCEPT ![t] =
                             IF @ \in {"none", "accepted"} THEN @
                             ELSE IF ack THEN "candidate" ELSE "superseded"]
             /\ aStatus' = [aStatus EXCEPT ![a] = StatusAfterFailure(t, e)]
             /\ RecordRecovery(t, IF ack THEN "integrated_revalidation" ELSE EquivalenceKey(e),
                               action)
             /\ attention' = attention \union
                    (IF e = "interrupted"
                     THEN {<<a, IF ack THEN "integrated_revalidation" ELSE "worker_interrupted">>}
                     ELSE IF action = "replan" THEN {<<a, "replan_required">>} ELSE {})
             /\ blockers' = IF action = "block" /\ e # "interrupted"
                            THEN blockers \union {a} ELSE blockers

Fail(t) ==
    /\ phase = "up" /\ pc[t] = "fail"
    /\ FailAttempt(t, err[t])
    /\ EndThread(t)
    /\ UNCHANGED <<cStatus, cRev, artifact, planVars, integrated, failing, sandbox>>
    /\ ThreadFrame

\* Any statement of a thread may fail (a busy database, a full disk): the `?`
\* ends the thread, rolls the transaction back and leaves the Attempt running.
ThreadError(t) ==
    /\ phase = "up" /\ pc[t] \notin {"none", "execute", "end"} /\ faults < MaxFaults
    /\ faults' = faults + 1
    /\ EndThread(t)
    /\ UNCHANGED <<commissionVars, aStatus, planVars, recoveryVars, holdVars, attemptIdVars,
                   result, integrated, failing, cleanup, wd, sandbox, phase, amendments>>

(***************************************************************************)
(* watchdog_sweep: observe, fence, fail, clean up.                         *)
(***************************************************************************)

FailedEvidence(a) ==
    LET ts == AttemptsOf(a) IN
    \/ \E t \in ts : failing[t] >= 2
    \/ \E t, u \in ts : t # u /\ failing[t] >= 1 /\ failing[u] >= 1

RepeatedRecovery(a) ==
    \E t, u \in AttemptsOf(a) : t # u /\ rKey[t] = rKey[u] /\ rKey[t] # "none"

\* Mutant: an Attempt without a control is not noticed.
SignalForLive(t, stalled) ==
    IF ~AuthorityIsCurrent(t) THEN "invalid_authority"
    ELSE IF stalled /\ ctl[t] # "none" THEN "stall" ELSE "none"

\* The first signal that applies; a stall is up to the clock.  abnormal_resource_use
\* is left out: no dispatch takes the reservations past a ceiling.
SignalFor(t, stalled) ==
    IF ~AuthorityIsCurrent(t) THEN "invalid_authority"
    ELSE IF ctl[t] = "none" THEN "lost_liveness"
    ELSE IF stalled THEN "stall"
    ELSE IF RepeatedRecovery(tOwner[t]) THEN "unhealthy_retry_pattern"
    ELSE IF FailedEvidence(tOwner[t]) THEN "repeated_verification_failure"
    ELSE "none"

WatchdogFrame == UNCHANGED <<commissionVars, planVars, attemptIdVars, integrated, failing,
                             pc, err, lockVars, phase, amendments>>

\* The signals are read outside any transaction.
WatchdogObserve(t) ==
    /\ phase = "up" /\ wd = Idle
    /\ tStatus[t] = "running" /\ Dispatchable
    /\ \E stalled \in BOOLEAN :
        LET signal == SignalFor(t, stalled)
        IN  /\ signal # "none"
            /\ stalled => signal = "stall" /\ faults < MaxFaults
            /\ faults' = faults + (IF signal = "stall" THEN 1 ELSE 0)
            /\ wd' = [step |-> "fence", attempt |-> t, signal |-> signal]
    /\ WatchdogFrame
    /\ UNCHANGED <<aStatus, recoveryVars, holdVars, result, cleanup, ctl, sandbox>>

\* The fence: a running Attempt gets a pending cleanup, which makes its thread
\* stale; then its control is told to stop.
WatchdogFence ==
    LET t == wd.attempt
    IN  /\ phase = "up" /\ wd.step = "fence"
        /\ IF tStatus[t] = "running"
           THEN /\ cleanup' = cleanup \union {t}
                /\ ctl' = [ctl EXCEPT ![t] = IF @ = "none" THEN @ ELSE wd.signal]
                /\ wd' = [wd EXCEPT !.step = "fail"]
           ELSE wd' = Idle /\ UNCHANGED <<cleanup, ctl>>
        /\ WatchdogFrame
        /\ UNCHANGED <<aStatus, recoveryVars, holdVars, result, sandbox, faults>>

WatchdogFail ==
    /\ phase = "up" /\ wd.step = "fail"
    /\ FailAttempt(wd.attempt, wd.signal)
    /\ wd' = [wd EXCEPT !.step = "clean"]
    /\ WatchdogFrame
    /\ UNCHANGED <<cleanup, ctl, sandbox, faults>>

\* cleanup_stranded_attempt under both locks; when it fails the sweep ends and
\* the cleanup stays pending until the next start of the Control Plane.
WatchdogCleanup ==
    /\ phase = "up" /\ wd.step = "clean" /\ mutex = NoOne /\ flock = NoOne
    /\ wd' = Idle
    /\ \/ /\ cleanup' = cleanup \ {wd.attempt}
          /\ sandbox' = sandbox \ {wd.attempt}
          /\ UNCHANGED faults
       \/ /\ faults < MaxFaults /\ faults' = faults + 1
          /\ UNCHANGED <<cleanup, sandbox>>
    /\ WatchdogFrame
    /\ UNCHANGED <<aStatus, recoveryVars, holdVars, result, ctl>>

(***************************************************************************)
(* The Principal.                                                          *)
(***************************************************************************)

PrincipalFrame == UNCHANGED <<tOwner, tRev, tConf, tBase, integrated, failing, cleanup,
                              pc, err, lockVars, wd, sandbox, phase, faults>>

ChangeDispatchState(from, to) ==
    /\ phase = "up" /\ cStatus = from
    /\ cStatus' = to
    /\ PrincipalFrame
    /\ UNCHANGED <<cRev, artifact, uncovered, aStatus, planVars, recoveryVars, holdVars,
                   result, ctl, amendments>>

PauseCommission  == ChangeDispatchState("active", "paused")
ResumeCommission == ChangeDispatchState("paused", "active")

\* runtime.cancel_attempt: a control that is already told to stop keeps its reason.
Interrupted(ts) ==
    [t \in Attempt |-> IF t \in ts /\ ctl[t] = "live" THEN "interrupted" ELSE ctl[t]]

\* Mutant: the reservations are forgotten.
RevokeLeases(ts) ==
    /\ tStatus' = [t \in Attempt |-> IF t \in ts THEN "cancelled" ELSE tStatus[t]]
    /\ lease' = [t \in Attempt |-> IF lease[t] = "active" THEN "revoked" ELSE lease[t]]
    /\ ctl' = Interrupted(ts)
    /\ UNCHANGED resv

\* End the holds of several Attempts at once; their leases and reservations are revoked.
RevokeAll(ts) ==
    /\ tStatus' = [t \in Attempt |-> IF t \in ts THEN "cancelled" ELSE tStatus[t]]
    /\ lease' = [t \in Attempt |-> IF lease[t] = "active" THEN "revoked" ELSE lease[t]]
    /\ resv' = [t \in Attempt |-> IF resv[t] = "active" THEN "revoked" ELSE resv[t]]
    /\ ctl' = Interrupted(ts)

CancelCommission ==
    /\ phase = "up" /\ Dispatchable /\ mutex = NoOne
    /\ cStatus' = "cancelled"
    /\ aStatus' = [a \in Assignment |->
                    IF aStatus[a] \in {"none", "accepted", "superseded"}
                    THEN aStatus[a] ELSE "cancelled"]
    /\ RevokeAll(Running)
    /\ rKey' = [t \in Attempt |-> IF t \in Running THEN "principal_cancellation" ELSE rKey[t]]
    /\ rAct' = [t \in Attempt |-> IF t \in Running THEN "cancel" ELSE rAct[t]]
    /\ PrincipalFrame
    /\ UNCHANGED <<cRev, artifact, uncovered, planVars, blockers, attention, result, amendments>>

\* control_worker with the interrupt action, delivered while the Worker executes.
InterruptWorker(t) ==
    /\ phase = "up" /\ cStatus = "active"
    /\ tStatus[t] = "running" /\ pc[t] = "execute" /\ ctl[t] = "live"
    /\ "interrupted" \in ExecErrors
    /\ ctl' = Interrupted({t})
    /\ PrincipalFrame
    /\ UNCHANGED <<commissionVars, aStatus, planVars, recoveryVars, holdVars, result, amendments>>

RetryWorker(a) ==
    /\ phase = "up" /\ cStatus = "active"
    /\ aStatus[a] = "attention_required"
    /\ \E t \in AttemptsOf(a) : tStatus[t] = "interrupted"
    /\ <<a, "worker_interrupted">> \in attention
    /\ ~AttemptsExhausted
    /\ aStatus' = [aStatus EXCEPT ![a] = "ready"]
    /\ attention' = attention \ {<<a, "worker_interrupted">>}
    /\ PrincipalFrame
    /\ UNCHANGED <<commissionVars, planVars, rKey, rAct, blockers, holdVars, result, ctl,
                   amendments>>

\* amend_verification reopens the Assignment created last, and no other.
AmendVerification ==
    /\ "verification" \in Amendments /\ amendments < MaxAmendments
    /\ phase = "up" /\ cStatus = "active"
    /\ aStatus[latest] = "verification_failed"
    /\ cRev' = cRev + 1
    /\ result' = [t \in Attempt |->
                    IF t \in AttemptsOf(latest) /\ result[t] = "candidate"
                    THEN "superseded" ELSE result[t]]
    /\ aStatus' = [aStatus EXCEPT ![latest] = "ready"]
    /\ amendments' = amendments + 1
    /\ PrincipalFrame
    /\ UNCHANGED <<cStatus, artifact, uncovered, planVars, recoveryVars, holdVars, ctl>>

\* accept_commission_amendment: every leased Attempt is cancelled and its
\* Assignment made ready under the new revision; the new authority may leave
\* the write scopes of some Assignments uncovered.
AcceptCommissionAmendment ==
    /\ "mandate" \in Amendments /\ amendments < MaxAmendments
    /\ phase = "up" /\ Dispatchable /\ mutex = NoOne
    /\ cRev' = cRev + 1
    /\ \E u \in SUBSET {a \in Assignment : aStatus[a] # "none"} : uncovered' = u
    /\ RevokeAll({t \in Running : lease[t] = "active"})
    /\ aStatus' = [a \in Assignment |->
                    IF /\ aStatus[a] = "running"
                       /\ \E t \in AttemptsOf(a) : lease[t] = "active"
                    THEN "ready" ELSE aStatus[a]]
    /\ amendments' = amendments + 1
    /\ PrincipalFrame
    /\ UNCHANGED <<cStatus, artifact, planVars, recoveryVars, result>>

(***************************************************************************)
(* The Control Plane process dies and is started again.  The database, the *)
(* repository and the sandboxes survive it; everything else is gone.       *)
(***************************************************************************)

Crash ==
    /\ phase # "down" /\ faults < MaxFaults
    /\ phase' = "down" /\ faults' = faults + 1
    /\ pc' = [t \in Attempt |-> IF pc[t] = "none" THEN "none" ELSE "end"]
    /\ ctl' = [t \in Attempt |-> "none"] /\ err' = [t \in Attempt |-> "none"]
    /\ mutex' = NoOne /\ flock' = NoOne
    /\ wd' = Idle
    /\ UNCHANGED <<commissionVars, aStatus, planVars, recoveryVars, holdVars, attemptIdVars,
                   result, integrated, failing, cleanup, sandbox, amendments>>

Stranded == IF Dispatchable THEN Running ELSE {}

\* What restart decides for a stranded Attempt; here every Attempt counts
\* against max_attempts.
RestartAction(t) ==
    IF AcknowledgedState(t) \/ ~AuthorityIsCurrent(t) \/ Cardinality(Started) >= MaxAttempts
    THEN "block"
    ELSE IF PriorEquivalent(tOwner[t], "lost_liveness") THEN "replan" ELSE "retry"

StatusAfterRestart(t) ==
    IF AcknowledgedState(t) THEN "verification_failed"
    ELSE IF RestartAction(t) = "retry" THEN "ready"
    ELSE IF RestartAction(t) = "replan" THEN "attention_required" ELSE "resource_blocked"

\* Mutant: the Blockers that are there already are inserted once more.
BlockedAgain == blockers \union {tOwner[t] : t \in {s \in Stranded : RestartAction(s) = "block"}}

\* Mutant: retained work is left without a Blocker.
BlockedWithoutRevalidation ==
    {tOwner[t] : t \in {s \in Stranded : RestartAction(s) = "block" /\ ~AcknowledgedState(s)}}

\* The Assignments restart leaves with a Blocker, by a plain INSERT.
BlockedByRestart == {tOwner[t] : t \in {s \in Stranded : RestartAction(s) = "block"}}

\* recover_stranded_attempts is one transaction: when one INSERT fails, it is
\* rolled back as a whole and the daemon does not start.
RecoverStrandedAttempts ==
    /\ phase = "down"
    /\ BlockedByRestart \intersect blockers = {}
    /\ phase' = "cleaning"
    /\ cleanup' = cleanup \union Stranded
    /\ tStatus' = [t \in Attempt |-> IF t \in Stranded THEN "failed" ELSE tStatus[t]]
    /\ lease' = [t \in Attempt |->
                    IF t \in Stranded /\ lease[t] = "active" THEN "expired" ELSE lease[t]]
    /\ resv' = [t \in Attempt |->
                    IF t \in Stranded /\ resv[t] = "active" THEN "revoked" ELSE resv[t]]
    /\ result' = [t \in Attempt |->
                    IF t \notin Stranded \/ result[t] = "none" THEN result[t]
                    ELSE IF AcknowledgedState(t) THEN "candidate"
                    ELSE IF result[t] = "accepted" THEN "accepted" ELSE "superseded"]
    /\ aStatus' = [a \in Assignment |->
                    IF aStatus[a] = "running" /\ AttemptsOf(a) \intersect Stranded # {}
                    THEN StatusAfterRestart(CHOOSE t \in AttemptsOf(a) \intersect Stranded : TRUE)
                    ELSE aStatus[a]]
    /\ rKey' = [t \in Attempt |->
                    IF t \notin Stranded THEN rKey[t]
                    ELSE IF AcknowledgedState(t) THEN "integrated_revalidation"
                    ELSE "lost_liveness"]
    /\ rAct' = [t \in Attempt |-> IF t \in Stranded THEN RestartAction(t) ELSE rAct[t]]
    /\ blockers' = blockers \union BlockedByRestart
    /\ attention' = attention \union
            {<<tOwner[t], "replan_required">> : t \in {s \in Stranded : RestartAction(s) = "replan"}}
    /\ UNCHANGED <<commissionVars, planVars, attemptIdVars, integrated, failing, threadVars,
                   wd, sandbox, boundVars>>

\* The cleanups that succeed before the daemon serves; the others stay pending.
StartupCleanup ==
    /\ phase = "cleaning"
    /\ phase' = "up"
    /\ \E done \in SUBSET cleanup :
        /\ faults + Cardinality(cleanup \ done) <= MaxFaults
        /\ faults' = faults + Cardinality(cleanup \ done)
        /\ cleanup' = cleanup \ done
        /\ sandbox' = sandbox \ done
    /\ UNCHANGED <<commissionVars, aStatus, planVars, recoveryVars, holdVars, attemptIdVars,
                   result, integrated, failing, threadVars, wd, amendments>>

(***************************************************************************)
(* The specification.                                                      *)
(***************************************************************************)

\* An accepted Commission: its plan is ready and nothing has run.  The planned
\* Assignments are created in the same second, so any may be the "latest".
Init ==
    /\ cStatus = "active" /\ cRev = 1 /\ artifact = NoOne /\ uncovered = {}
    /\ aStatus = [a \in Assignment |-> IF a \in Work THEN "ready" ELSE "none"]
    /\ group = [a \in Assignment |-> NoOne]
    /\ plannedGroup = [a \in Assignment |-> NoOne]
    /\ excluded = [a \in Assignment |-> {}]
    /\ latest \in Work
    /\ blockers = {} /\ attention = {}
    /\ tStatus = [t \in Attempt |-> "none"]
    /\ tOwner = [t \in Attempt |-> NoOne]
    /\ tRev = [t \in Attempt |-> 0]
    /\ tConf = [t \in Attempt |-> NoOne]
    /\ tBase = [t \in Attempt |-> NoOne]
    /\ lease = [t \in Attempt |-> "none"] /\ resv = [t \in Attempt |-> "none"]
    /\ result = [t \in Attempt |-> "none"] /\ integrated = [t \in Attempt |-> FALSE]
    /\ rKey = [t \in Attempt |-> "none"] /\ rAct = [t \in Attempt |-> "none"]
    /\ failing = [t \in Attempt |-> 0] /\ cleanup = {}
    /\ ctl = [t \in Attempt |-> "none"] /\ pc = [t \in Attempt |-> "none"]
    /\ err = [t \in Attempt |-> "none"]
    /\ mutex = NoOne /\ flock = NoOne /\ wd = Idle /\ sandbox = {}
    /\ phase = "up" /\ faults = 0 /\ amendments = 0

Dispatch ==
    \/ RouteOnly
    \/ \E a \in Assignment : BlockReadyAssignment(a)
    \/ \E a \in Assignment, c \in Configs : StartAttempt(a, c)

ThreadStep(t) ==
    \/ ExecuteReturns(t) \/ SubmitResult(t) \/ VerifyOrIntegrateErrs(t)
    \/ CandidatePasses(t) \/ CandidateFails(t) \/ VerifierUnrunnable(t)
    \/ LockIntegration(t) \/ Integrate(t) \/ CommitIntegration(t)
    \/ AssembledStateFails(t) \/ AcceptPlannedResult(t) \/ FinishNoncurrent(t)
    \/ RequireReconciliation(t) \/ Fail(t)

Watchdog ==
    \/ \E t \in Attempt : WatchdogObserve(t)
    \/ WatchdogFence \/ WatchdogFail \/ WatchdogCleanup

Principal ==
    \/ PauseCommission \/ ResumeCommission \/ CancelCommission
    \/ \E t \in Attempt : InterruptWorker(t)
    \/ \E a \in Assignment : RetryWorker(a)
    \/ AmendVerification \/ AcceptCommissionAmendment

Restart == RecoverStrandedAttempts \/ StartupCleanup

Next ==
    \/ Dispatch
    \/ \E t \in Attempt : ThreadStep(t) \/ ThreadError(t)
    \/ Watchdog
    \/ Principal
    \/ Crash
    \/ Restart

Spec == Init /\ [][Next]_vars

\* A thread runs until it returns, the Watchdog sweeps every 25 ms and the daemon
\* is started again after a crash.  Nothing makes the Principal act, and nothing
\* is assumed of dispatch: its loop ends when a round of it meets an error.
Fairness ==
    /\ \A t \in Attempt : WF_vars(ThreadStep(t))
    /\ WF_vars(Watchdog)
    /\ WF_vars(Restart)

FairSpec == Spec /\ Fairness

(***************************************************************************)
(* Properties.                                                             *)
(***************************************************************************)

\* Every variable holds a value of its column or field.
TypeOK ==
    /\ cStatus \in CommissionStatus /\ cRev \in Nat /\ artifact \in {NoOne} \union Attempt
    /\ uncovered \subseteq Assignment
    /\ aStatus \in [Assignment -> AssignmentStatus]
    /\ group \in [Assignment -> {NoOne} \union Assignment]
    /\ plannedGroup \in [Assignment -> {NoOne} \union Assignment]
    /\ excluded \in [Assignment -> SUBSET Configs]
    /\ latest \in Assignment
    /\ blockers \subseteq Assignment /\ attention \subseteq Assignment \X AttentionCodes
    /\ tStatus \in [Attempt -> AttemptStatus]
    /\ tOwner \in [Attempt -> {NoOne} \union Assignment]
    /\ tRev \in [Attempt -> Nat]
    /\ tConf \in [Attempt -> {NoOne} \union Configs]
    /\ tBase \in [Attempt -> {NoOne} \union Attempt]
    /\ lease \in [Attempt -> {"none", "active", "released", "revoked", "expired"}]
    /\ resv \in [Attempt -> {"none", "active", "released", "revoked"}]
    /\ result \in [Attempt -> {"none", "candidate", "accepted", "superseded"}]
    /\ integrated \in [Attempt -> BOOLEAN]
    /\ rKey \in [Attempt -> Keys] /\ rAct \in [Attempt -> RecoveryActions]
    /\ failing \in [Attempt -> 0..MaxFailing] /\ cleanup \subseteq Attempt
    /\ ctl \in [Attempt -> {"none", "live", "interrupted"} \union Signals]
    /\ pc \in [Attempt -> ThreadSteps]
    /\ err \in [Attempt -> {"none"} \union AllExecErrors \union Signals]
    /\ mutex \in {NoOne} \union Attempt /\ flock \in {NoOne} \union Attempt
    /\ wd \in [step : {"idle", "fence", "fail", "clean"},
               attempt : {NoOne} \union Attempt, signal : Signals]
    /\ sandbox \subseteq Attempt
    /\ phase \in {"up", "down", "cleaning"}
    /\ faults \in 0..MaxFaults /\ amendments \in 0..MaxAmendments

\* A lease and a reservation are active exactly while their Attempt is running:
\* no path (acceptance, failure, containment, cancellation, amendment, restart)
\* leaks host capacity or leaves an Attempt running without a lease.
HoldsMatchAttempts ==
    \A t \in Attempt : /\ lease[t] = "active" <=> tStatus[t] = "running"
                       /\ resv[t] = "active" <=> tStatus[t] = "running"

\* An Assignment has at most one running Attempt, and is itself running while it
\* has one: no transaction moves an Assignment on and leaves its Attempt behind.
RunningAttemptOwnsAssignment ==
    \A t \in Running : /\ aStatus[tOwner[t]] = "running"
                       /\ \A u \in Running : tOwner[u] = tOwner[t] => u = t

\* An accepted Result belongs to an Attempt that ended well: one that was never
\* failed, contained, cancelled or stranded, whatever raced its thread.
AcceptedWasNeverContained ==
    \A t \in Attempt : result[t] = "accepted" =>
        /\ tStatus[t] = "succeeded" /\ rKey[t] = "none"
        /\ t \notin cleanup /\ integrated[t]
        /\ aStatus[tOwner[t]] = "accepted"

\* The Attempt ended on an error of its own thread, not by containment or restart.
FailedOnItsOwn(t) == \E e \in AllExecErrors : rKey[t] = EquivalenceKey(e)

\* After containment or a restart, no new Attempt of the Assignment starts while
\* the old one's sandbox may be alive ("Retry only after sandbox cleanup
\* confirms containment").  The exceptions are an amendment's replacement and an
\* Attempt whose own thread failed: nobody confirms that its sandbox went.
NoRetryBesideLiveSandbox ==
    \A t, u \in Attempt :
        t \in sandbox /\ u \in Running /\ t # u /\ tOwner[t] = tOwner[u]
            => tStatus[t] = "cancelled" \/ FailedOnItsOwn(t)

\* An Assignment that stopped says what it needs: a Blocker, an open condition,
\* or an Assignment planned in its stead.
StoppedIsExplained ==
    \A a \in Assignment :
        /\ aStatus[a] = "resource_blocked" => a \in blockers
        /\ aStatus[a] = "attention_required" => \E c \in AttentionCodes : <<a, c>> \in attention
        /\ aStatus[a] = "verification_failed" =>
              \/ a \in blockers
              \/ \E t \in AttemptsOf(a) : aStatus[t] # "none" /\ plannedGroup[t] = a

\* Verified Completion means every planned Assignment was accepted or replaced,
\* and whatever replaced it was accepted too.
CompletionIsEarned ==
    cStatus = "verified_complete" =>
        \A a \in Assignment : aStatus[a] # "none" /\ ~IsReconciliation(a) =>
            \/ aStatus[a] = "accepted"
            \/ aStatus[a] = "superseded" /\
               \E b \in Assignment : /\ aStatus[b] \in {"accepted", "superseded"}
                                     /\ \/ b \in AttemptsOf(a)
                                        \/ plannedGroup[b] = a

\* Nothing leaves a final status: an accepted or superseded Assignment, a
\* finished Attempt and an ended Commission stay as they are.
FinalIsFinal ==
    [][/\ cStatus \in {"cancelled", "verified_complete"} => cStatus' = cStatus
       /\ \A a \in Assignment : aStatus[a] \in {"accepted", "superseded", "cancelled"}
                                    => aStatus'[a] = aStatus[a]
       /\ \A t \in Attempt : /\ tStatus[t] \notin {"none", "running"} => tStatus'[t] = tStatus[t]
                             /\ result[t] = "accepted" => result'[t] = "accepted"]_vars

Accepted == {t \in Attempt : result[t] = "accepted"}

Ledger == INSTANCE AttemptLedger WITH
    Nobody <- NoOne, status <- tStatus, owner <- tOwner, accepted <- Accepted

\* Whatever runs, fails, contains, cancels, amends or restarts, the Attempts keep
\* the promise of AttemptLedger: no Assignment ever has two Attempts running or
\* two Results accepted, and no Attempt or acceptance is taken back.
KeepsLedger == Ledger!Spec

\* Every running Attempt ends: its thread finishes, or the Watchdog or a restart ends it.
AttemptsEnd == \A t \in Attempt : tStatus[t] = "running" ~> tStatus[t] # "running"

\* After a crash the daemon comes up again: no durable state makes
\* recover_stranded_attempts fail on every start.
DaemonComesBack == phase = "down" ~> phase = "up"

\* A running Assignment has a running Attempt: whatever ends an Attempt also
\* decides what becomes of its Assignment.
RunningAssignmentHasAttempt ==
    \A a \in Assignment : aStatus[a] = "running" => AttemptsOf(a) \intersect Running # {}

=============================================================================
