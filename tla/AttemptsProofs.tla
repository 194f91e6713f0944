--------------------------- MODULE AttemptsProofs ---------------------------
(***************************************************************************)
(* Proofs about module Attempts, for every number of Assignments, Attempts *)
(* and Worker Configurations and every value of the ceilings and bounds.   *)
(*                                                                         *)
(* IndInv strengthens the safety properties to an inductive invariant.     *)
(* What it adds is what the code relies on without saying it: a running    *)
(* Attempt has an owner and a configuration, Attempts are numbered in the  *)
(* order they start, an Attempt that is not over has not planned anything  *)
(* yet, and a thread about to accept has integrated.                       *)
(*                                                                         *)
(* Four more invariants stand on IndInv, one for each further property:    *)
(* ContainmentInv (who answers for a live sandbox), ExplanationInv (what   *)
(* explains a stopped Assignment stays), CompletionInv (what stands in for *)
(* a superseded Assignment) and, without amendments, OccupiedInv (what a   *)
(* reconciliation is planned for waits for it alone).                      *)
(***************************************************************************)
EXTENDS Attempts, TLAPS, FiniteSetTheorems, WellFoundedInduction

\* A running Attempt was started for an Assignment on a configuration.
RunningWasStarted ==
    \A t \in Attempt : tStatus[t] = "running" => tOwner[t] \in Assignment /\ tConf[t] \in Configs

\* The Watchdog is past observing only with an Attempt in hand.
WatchdogHasTarget == wd.step # "idle" => wd.attempt \in Attempt

TypeInv == TypeOK /\ RunningWasStarted /\ WatchdogHasTarget

\* Attempts start in the order of their numbers.
StartedInOrder == \E k \in 0..AttemptBound : Started = 1..k

\* The Assignment an Attempt may plan does not exist before the Attempt is over.
NothingPlannedYet == \A t \in Attempt : tStatus[t] \in {"none", "running"} => aStatus[t] = "none"

OwnershipInv ==
    /\ TypeInv /\ HoldsMatchAttempts /\ RunningAttemptOwnsAssignment
    /\ StartedInOrder /\ NothingPlannedYet

\* No recovery was recorded for an Attempt that is not over, and nothing accepted.
UndecidedWhileRunning ==
    \A t \in Attempt : tStatus[t] \in {"none", "running"} => rKey[t] = "none" /\ result[t] # "accepted"

FinishingIsIntegrated == \A t \in Attempt : pc[t] = "finish" => integrated[t]

AcceptedIsOver ==
    \A t \in Attempt : result[t] = "accepted" => pc[t] = "end" /\ tOwner[t] \in Assignment

IndInv ==
    /\ OwnershipInv /\ AcceptedWasNeverContained
    /\ UndecidedWhileRunning /\ FinishingIsIntegrated /\ AcceptedIsOver

(***************************************************************************)
(* Type correctness.                                                       *)
(***************************************************************************)

USE DEF commissionVars, planVars, attemptIdVars, holdVars, recoveryVars, lockVars, threadVars,
        boundVars

\* The initial states of an accepted Commission are typed.
LEMMA InitTyped == Init => TypeInv
BY ConstantsAssumption
   DEF Init, TypeInv, TypeOK, RunningWasStarted, WatchdogHasTarget, Assignment, NoOne, Idle,
       CommissionStatus, AssignmentStatus, AttemptStatus, Keys, RecoveryActions, ThreadSteps,
       Signals

\* Ending a thread keeps the thread's variables typed.
LEMMA EndThreadTyped ==
    ASSUME TypeInv, NEW t \in Attempt, EndThread(t)
    PROVE  /\ pc' \in [Attempt -> ThreadSteps]
           /\ ctl' \in [Attempt -> {"none", "live", "interrupted"} \union Signals]
           /\ err' \in [Attempt -> {"none"} \union AllExecErrors \union Signals]
           /\ mutex' \in {NoOne} \union Attempt /\ flock' \in {NoOne} \union Attempt
BY DEF TypeInv, TypeOK, EndThread, ThreadSteps

\* So does release_successful_attempt for an Attempt and what it holds.
LEMMA ReleaseTyped ==
    ASSUME TypeInv, NEW t \in Attempt, ReleaseSuccessfulAttempt(t)
    PROVE  /\ tStatus' \in [Attempt -> AttemptStatus]
           /\ lease' \in [Attempt -> {"none", "active", "released", "revoked", "expired"}]
           /\ resv' \in [Attempt -> {"none", "active", "released", "revoked"}]
           /\ \A s \in Attempt : tStatus'[s] = "running" => tStatus[s] = "running"
BY DEF TypeInv, TypeOK, ReleaseSuccessfulAttempt, Hold, AttemptStatus

\* fail_attempt keeps what it writes typed, and starts no Attempt.
LEMMA FailAttemptTyped ==
    ASSUME TypeInv, NEW t \in Attempt,
           NEW e \in {"none"} \union AllExecErrors \union Signals, FailAttempt(t, e)
    PROVE  /\ tStatus' \in [Attempt -> AttemptStatus]
           /\ lease' \in [Attempt -> {"none", "active", "released", "revoked", "expired"}]
           /\ resv' \in [Attempt -> {"none", "active", "released", "revoked"}]
           /\ result' \in [Attempt -> {"none", "candidate", "accepted", "superseded"}]
           /\ aStatus' \in [Assignment -> AssignmentStatus]
           /\ rKey' \in [Attempt -> Keys] /\ rAct' \in [Attempt -> RecoveryActions]
           /\ blockers' \subseteq Assignment /\ attention' \subseteq Assignment \X AttentionCodes
           /\ \A s \in Attempt : tStatus'[s] = "running" => tStatus[s] = "running"
<1> DEFINE a == tOwner[t]
<1>1. CASE tStatus[t] # "running"
      BY <1>1 DEF FailAttempt, TypeInv, TypeOK
<1>2. CASE tStatus[t] = "running"
  <2>1. a \in Assignment
        BY <1>2 DEF TypeInv, RunningWasStarted
  <2>2. RecoveryAction(t, e) \in RecoveryActions
        BY DEF RecoveryAction, TransientAction, RecoveryActions
  <2>3. StatusAfterFailure(t, e) \in AssignmentStatus
        BY DEF StatusAfterFailure, AssignmentStatus
  <2>4. EquivalenceKey(e) \in Keys
        BY DEF EquivalenceKey, Keys, AllExecErrors
  <2>5. /\ tStatus' \in [Attempt -> AttemptStatus]
        /\ lease' \in [Attempt -> {"none", "active", "released", "revoked", "expired"}]
        /\ resv' \in [Attempt -> {"none", "active", "released", "revoked"}]
        /\ \A s \in Attempt : tStatus'[s] = "running" => tStatus[s] = "running"
    <3> DEFINE end == IF e = "interrupted" THEN "interrupted"
                      ELSE IF e \in Signals THEN "timed_out" ELSE "failed"
    <3>1. end \in AttemptStatus /\ end # "running"
          BY DEF AttemptStatus
    <3>2. Hold(t, end, IF e = "lease_expired" THEN "expired" ELSE "revoked", "revoked")
          BY <1>2 DEF FailAttempt
    <3> HIDE DEF end
    <3> QED BY <3>1, <3>2 DEF Hold, TypeInv, TypeOK
  <2>6. result' \in [Attempt -> {"none", "candidate", "accepted", "superseded"}]
        BY <1>2 DEF FailAttempt, TypeInv, TypeOK
  <2>7. aStatus' \in [Assignment -> AssignmentStatus]
        BY <1>2, <2>1, <2>3 DEF FailAttempt, TypeInv, TypeOK
  <2>8. rKey' \in [Attempt -> Keys] /\ rAct' \in [Attempt -> RecoveryActions]
        BY <1>2, <2>2, <2>4 DEF FailAttempt, RecordRecovery, TypeInv, TypeOK, Keys
  <2>9. blockers' \subseteq Assignment /\ attention' \subseteq Assignment \X AttentionCodes
        BY <1>2, <2>1 DEF FailAttempt, TypeInv, TypeOK, AttentionCodes
  <2> QED BY <2>5, <2>6, <2>7, <2>8, <2>9
<1> QED BY <1>1, <1>2

\* Retaining a late Result keeps everything typed and starts no Attempt.
LEMMA RetainTyped ==
    ASSUME TypeInv, NEW t \in Attempt, RetainNoncurrentResult(t),
           UNCHANGED sandbox, ThreadFrame
    PROVE  TypeInv'
BY EndThreadTyped, SMTT(30)
   DEF TypeInv, TypeOK, RunningWasStarted, WatchdogHasTarget, RetainNoncurrentResult,
       ReleaseSuccessfulAttempt, Hold, AttemptStatus, ThreadFrame, vars

\* Routing leaves statuses and conditions typed.
LEMMA RoutedTyped ==
    ASSUME TypeInv
    PROVE  /\ RoutedStatus \in [Assignment -> AssignmentStatus]
           /\ RoutedAttention \subseteq Assignment \X AttentionCodes
<1>1. RoutedStatus \in [Assignment -> AssignmentStatus]
      BY DEF TypeInv, TypeOK, RoutedStatus, AssignmentStatus
<1>2. Routed \subseteq Assignment
      BY DEF Routed
<1>3. RoutedAttention \subseteq Assignment \X AttentionCodes
      BY <1>2 DEF TypeInv, TypeOK, RoutedAttention, RoutingCode, AttentionCodes
<1> QED BY <1>1, <1>3

\* Dispatch keeps the state typed.
LEMMA DispatchTyped == TypeInv /\ Dispatch => TypeInv'
<1> SUFFICES ASSUME TypeInv, Dispatch PROVE TypeInv'
    OBVIOUS
<1>1. CASE RouteOnly
      BY <1>1, RoutedTyped
      DEF RouteOnly, TypeInv, TypeOK, RunningWasStarted, WatchdogHasTarget
<1>2. ASSUME NEW a \in Assignment, BlockReadyAssignment(a) PROVE TypeInv'
      BY <1>2, RoutedTyped
      DEF BlockReadyAssignment, TypeInv, TypeOK, RunningWasStarted, WatchdogHasTarget,
          AssignmentStatus
<1>3. ASSUME NEW a \in Assignment, NEW c \in Configs, StartAttempt(a, c) PROVE TypeInv'
      BY <1>3, RoutedTyped
      DEF StartAttempt, Hold, TypeInv, TypeOK, RunningWasStarted, WatchdogHasTarget,
          AssignmentStatus, AttemptStatus, ThreadSteps
<1> QED BY <1>1, <1>2, <1>3 DEF Dispatch

\* Every step of a Worker thread keeps the state typed.
LEMMA ThreadTyped == ASSUME NEW t \in Attempt PROVE TypeInv /\ ThreadStep(t) => TypeInv'
<1> SUFFICES ASSUME TypeInv, ThreadStep(t) PROVE TypeInv'
    OBVIOUS
<1> USE DEF TypeInv, TypeOK, RunningWasStarted, WatchdogHasTarget
<1>0. /\ t \in Assignment
      /\ IsCurrent(t) => tOwner[t] \in Assignment /\ tConf[t] \in Configs
      BY DEF Assignment, IsCurrent, AttemptContinuation
<1>1. CASE ExecuteReturns(t)
  <2>1. CASE GoTo(t, "submit")
        BY <1>1, <2>1 DEF ExecuteReturns, GoTo, ThreadFrame, ThreadSteps
  <2>2. ASSUME NEW e \in AllExecErrors \union Signals, FailWith(t, e) PROVE TypeInv'
        BY <1>1, <2>2 DEF ExecuteReturns, FailWith, ThreadFrame, ThreadSteps
  <2> QED BY <1>1, <2>1, <2>2, ConstantsAssumption DEF ExecuteReturns, AllExecErrors
<1>2. CASE SubmitResult(t)
  <2>1. CASE AttemptContinuation(t) = "Stale" /\ RetainNoncurrentResult(t)
        BY <1>2, <2>1, RetainTyped DEF SubmitResult
  <2>2. CASE EndThread(t) /\ UNCHANGED <<cStatus, cRev, artifact, aStatus, planVars, recoveryVars, holdVars,
                         result, integrated, failing>>
        BY <1>2, <2>2, EndThreadTyped DEF SubmitResult, ThreadFrame
  <2>3. CASE /\ IsCurrent(t)
             /\ result' = [result EXCEPT ![t] = "candidate"]
             /\ \E step \in {"verify", "reconcile"} : GoTo(t, step)
             /\ UNCHANGED <<cStatus, cRev, artifact, aStatus, planVars, recoveryVars, holdVars,
                         integrated, failing, lockVars>>
        BY <1>2, <2>3 DEF SubmitResult, ThreadFrame, GoTo, ThreadSteps
  <2> QED BY <1>2, <2>1, <2>2, <2>3 DEF SubmitResult
<1>3. CASE VerifyOrIntegrateErrs(t)
      BY <1>3, ConstantsAssumption
      DEF VerifyOrIntegrateErrs, StepErrs, VerifierErrors, FailWith, ThreadFrame, ThreadSteps,
          AllExecErrors
<1>4. CASE CandidatePasses(t)
      BY <1>4, RetainTyped DEF CandidatePasses, GoTo, ThreadFrame, ThreadSteps
<1>5. CASE CandidateFails(t)
  <2> DEFINE a == tOwner[t]
  <2>1. a \in Assignment /\ tConf[t] \in Configs
        BY <1>5, <1>0 DEF CandidateFails
  <2>2. /\ aStatus' \in [Assignment -> AssignmentStatus]
        /\ group' \in [Assignment -> {NoOne} \union Assignment]
        /\ plannedGroup' \in [Assignment -> {NoOne} \union Assignment]
        /\ excluded' \in [Assignment -> SUBSET Configs]
        /\ latest' \in Assignment
        BY <1>5, <1>0, <2>1, SMTT(30)
        DEF CandidateFails, RecoverFailedVerification, InsertReadyAssignment, AssignmentStatus
  <2>3. /\ blockers' \subseteq Assignment
        /\ rKey' \in [Attempt -> Keys] /\ rAct' \in [Attempt -> RecoveryActions]
        /\ result' \in [Attempt -> {"none", "candidate", "accepted", "superseded"}]
        BY <1>5, <2>1, SMTT(30)
        DEF CandidateFails, RecoverFailedVerification, RecordRecovery, Keys, RecoveryActions
  <2>4. failing' \in [Attempt -> 0..MaxFailing]
        BY <1>5, ConstantsAssumption DEF CandidateFails
  <2> QED BY <1>5, <2>2, <2>3, <2>4, ReleaseTyped, EndThreadTyped
          DEF CandidateFails, ThreadFrame
<1>6. CASE VerifierUnrunnable(t)
  <2>1. failing' \in [Attempt -> 0..MaxFailing]
        BY <1>6, ConstantsAssumption DEF VerifierUnrunnable
  <2>2. /\ aStatus' \in [Assignment -> AssignmentStatus]
        /\ blockers' \subseteq Assignment
        BY <1>6, <1>0 DEF VerifierUnrunnable, AssignmentStatus
  <2>3. /\ tStatus' \in [Attempt -> AttemptStatus]
        /\ lease' \in [Attempt -> {"none", "active", "released", "revoked", "expired"}]
        /\ resv' \in [Attempt -> {"none", "active", "released", "revoked"}]
        /\ RunningWasStarted'
        BY <1>6, ReleaseTyped DEF VerifierUnrunnable, ThreadFrame
  <2> QED BY <1>6, <2>1, <2>2, <2>3, EndThreadTyped DEF VerifierUnrunnable, ThreadFrame
<1>7. CASE LockIntegration(t)
      BY <1>7, RetainTyped, SMTT(30) DEF LockIntegration, GoTo, ThreadFrame, ThreadSteps
<1>8. CASE Integrate(t)
      BY <1>8 DEF Integrate, GoTo, ThreadFrame, ThreadSteps
<1>9. CASE CommitIntegration(t)
      BY <1>9, RetainTyped, ZenonT(40) DEF CommitIntegration, GoTo, ThreadFrame, ThreadSteps
<1>10. CASE AssembledStateFails(t)
      BY <1>10 DEF AssembledStateFails, GoTo, ThreadFrame, ThreadSteps
<1>11. CASE AcceptPlannedResult(t)
      BY <1>11, <1>0, ReleaseTyped, EndThreadTyped
      DEF AcceptPlannedResult, StatusAfterAccepting, ThreadFrame, AssignmentStatus,
          CommissionStatus
<1>12. CASE FinishNoncurrent(t)
      BY <1>12, RetainTyped DEF FinishNoncurrent
<1>13. CASE RequireReconciliation(t)
  <2>1. CASE ~IsCurrent(t)
        BY <1>13, <2>1, RetainTyped DEF RequireReconciliation
  <2>2. CASE IsCurrent(t)
    <3>1. /\ aStatus' \in [Assignment -> AssignmentStatus]
          /\ group' \in [Assignment -> {NoOne} \union Assignment]
          /\ plannedGroup' \in [Assignment -> {NoOne} \union Assignment]
          /\ excluded' \in [Assignment -> SUBSET Configs]
          /\ latest' \in Assignment
          BY <1>13, <1>0, <2>2, SMTT(30)
          DEF RequireReconciliation, InsertReadyAssignment, AssignmentStatus
    <3> QED BY <1>13, <2>2, <3>1, ReleaseTyped, EndThreadTyped
            DEF RequireReconciliation, ThreadFrame
  <2> QED BY <2>1, <2>2
<1>14. CASE Fail(t)
      BY <1>14, FailAttemptTyped, EndThreadTyped DEF Fail, ThreadFrame
<1> QED BY <1>1, <1>2, <1>3, <1>4, <1>5, <1>6, <1>7, <1>8, <1>9, <1>10, <1>11, <1>12, <1>13,
           <1>14 DEF ThreadStep

\* A thread error and a crash only lose what is in memory.
LEMMA FaultTyped == TypeInv /\ ((\E t \in Attempt : ThreadError(t)) \/ Crash) => TypeInv'
<1> USE DEF TypeInv, TypeOK, RunningWasStarted, WatchdogHasTarget
<1>1. ASSUME TypeInv, NEW t \in Attempt, ThreadError(t) PROVE TypeInv'
      BY <1>1, EndThreadTyped, ConstantsAssumption DEF ThreadError
<1>2. ASSUME TypeInv, Crash PROVE TypeInv'
      BY <1>2, ConstantsAssumption DEF Crash, Idle, Signals, ThreadSteps
<1> QED BY <1>1, <1>2

\* The Watchdog keeps the state typed, and does not forget which Attempt it contains.
LEMMA WatchdogTyped == TypeInv /\ Watchdog => TypeInv'
<1> SUFFICES ASSUME TypeInv, Watchdog PROVE TypeInv'
    OBVIOUS
<1> USE DEF TypeInv, TypeOK, RunningWasStarted, WatchdogHasTarget
<1>1. ASSUME NEW t \in Attempt, WatchdogObserve(t) PROVE TypeInv'
  <2>1. PICK stalled \in BOOLEAN :
            /\ SignalFor(t, stalled) # "none"
            /\ stalled => SignalFor(t, stalled) = "stall" /\ faults < MaxFaults
            /\ faults' = faults + (IF SignalFor(t, stalled) = "stall" THEN 1 ELSE 0)
            /\ wd' = [step |-> "fence", attempt |-> t, signal |-> SignalFor(t, stalled)]
        BY <1>1 DEF WatchdogObserve
  <2>2. SignalFor(t, stalled) \in Signals /\ (SignalFor(t, stalled) = "stall" => stalled)
        BY <2>1 DEF SignalFor, Signals
  <2>3. faults' \in 0..MaxFaults
        BY <2>1, <2>2, ConstantsAssumption
  <2> QED BY <1>1, <2>1, <2>2, <2>3 DEF WatchdogObserve, WatchdogFrame
<1>2. CASE WatchdogFence
      BY <1>2 DEF WatchdogFence, WatchdogFrame, Idle, Signals
<1>3. CASE WatchdogFail
      BY <1>3, FailAttemptTyped DEF WatchdogFail, WatchdogFrame
<1>4. CASE WatchdogCleanup
      BY <1>4, ConstantsAssumption DEF WatchdogCleanup, WatchdogFrame, Idle, Signals
<1> QED BY <1>1, <1>2, <1>3, <1>4 DEF Watchdog

\* The Principal's operations keep the state typed.
LEMMA PrincipalTyped == TypeInv /\ Principal => TypeInv'
<1> SUFFICES ASSUME TypeInv, Principal PROVE TypeInv'
    OBVIOUS
<1> USE DEF TypeInv, TypeOK, RunningWasStarted, WatchdogHasTarget, PrincipalFrame
<1>1. CASE PauseCommission \/ ResumeCommission
      BY <1>1 DEF PauseCommission, ResumeCommission, ChangeDispatchState, CommissionStatus
<1>2. CASE CancelCommission
      BY <1>2
      DEF CancelCommission, RevokeAll, Interrupted, CommissionStatus, AssignmentStatus,
          AttemptStatus, Keys, RecoveryActions
<1>3. ASSUME NEW t \in Attempt, InterruptWorker(t) PROVE TypeInv'
      BY <1>3 DEF InterruptWorker, Interrupted
<1>4. ASSUME NEW a \in Assignment, RetryWorker(a) PROVE TypeInv'
      BY <1>4 DEF RetryWorker, AssignmentStatus
<1>5. CASE AmendVerification
      BY <1>5, ConstantsAssumption DEF AmendVerification, AssignmentStatus
<1>6. CASE AcceptCommissionAmendment
      BY <1>6, ConstantsAssumption
      DEF AcceptCommissionAmendment, RevokeAll, Interrupted, AssignmentStatus, AttemptStatus
<1> QED BY <1>1, <1>2, <1>3, <1>4, <1>5, <1>6 DEF Principal

\* So does the start of the Control Plane after a crash.
LEMMA RestartTyped == TypeInv /\ Restart => TypeInv'
<1> SUFFICES ASSUME TypeInv, Restart PROVE TypeInv'
    OBVIOUS
<1> USE DEF TypeInv, TypeOK, RunningWasStarted, WatchdogHasTarget
<1>1. CASE RecoverStrandedAttempts
  <2>1. Stranded \subseteq Attempt /\ \A t \in Stranded : tOwner[t] \in Assignment
        BY DEF Stranded, Running
  <2>2. BlockedByRestart \subseteq Assignment
        BY <2>1 DEF BlockedByRestart
  <2>3. \A t : StatusAfterRestart(t) \in AssignmentStatus /\ RestartAction(t) \in RecoveryActions
        BY DEF StatusAfterRestart, RestartAction, AssignmentStatus, RecoveryActions
  <2>4. aStatus' \in [Assignment -> AssignmentStatus]
        BY <1>1, <2>3 DEF RecoverStrandedAttempts
  <2>5. /\ tStatus' \in [Attempt -> AttemptStatus]
        /\ lease' \in [Attempt -> {"none", "active", "released", "revoked", "expired"}]
        /\ resv' \in [Attempt -> {"none", "active", "released", "revoked"}]
        /\ RunningWasStarted'
        BY <1>1 DEF RecoverStrandedAttempts, AttemptStatus
  <2>6. /\ result' \in [Attempt -> {"none", "candidate", "accepted", "superseded"}]
        /\ rKey' \in [Attempt -> Keys] /\ rAct' \in [Attempt -> RecoveryActions]
        BY <1>1, <2>3 DEF RecoverStrandedAttempts, Keys, Signals
  <2>7. /\ blockers' \subseteq Assignment
        /\ attention' \subseteq Assignment \X AttentionCodes
        /\ cleanup' \subseteq Attempt
        BY <1>1, <2>1, <2>2 DEF RecoverStrandedAttempts, AttentionCodes
  <2> QED BY <1>1, <2>4, <2>5, <2>6, <2>7 DEF RecoverStrandedAttempts
<1>2. CASE StartupCleanup
  <2>1. PICK done \in SUBSET cleanup :
            /\ faults + Cardinality(cleanup \ done) <= MaxFaults
            /\ faults' = faults + Cardinality(cleanup \ done)
            /\ cleanup' = cleanup \ done
            /\ sandbox' = sandbox \ done
        BY <1>2 DEF StartupCleanup
  <2>2. Cardinality(cleanup \ done) \in Nat
    <3>1. IsFiniteSet(Attempt)
          BY FS_Interval, ConstantsAssumption DEF Attempt
    <3> QED BY <3>1, FS_Subset, FS_CardinalityType
  <2>3. faults' \in 0..MaxFaults
        BY <2>1, <2>2, ConstantsAssumption
  <2> QED BY <1>2, <2>1, <2>3 DEF StartupCleanup
<1> QED BY <1>1, <1>2 DEF Restart

\* Every step keeps the state typed.
LEMMA NextTyped == TypeInv /\ [Next]_vars => TypeInv'
<1>1. TypeInv /\ UNCHANGED vars => TypeInv'
      BY DEF TypeInv, TypeOK, RunningWasStarted, WatchdogHasTarget, vars
<1> QED BY <1>1, DispatchTyped, ThreadTyped, FaultTyped, WatchdogTyped, PrincipalTyped,
           RestartTyped DEF Next

\* Every row and every field keeps a value of its column, in every execution:
\* in particular no step loses the owner of a running Attempt.
THEOREM TypeCorrect == Spec => []TypeOK
<1>1. TypeInv => TypeOK
      BY DEF TypeInv
<1> QED BY <1>1, InitTyped, NextTyped, PTL DEF Spec

(***************************************************************************)
(* Leases and reservations.                                                *)
(***************************************************************************)

\* What release_successful_attempt and fail_attempt do to an Attempt's holds.
LEMMA EndingKeepsHolds ==
    ASSUME TypeInv, HoldsMatchAttempts, NEW t \in Attempt,
           NEW e \in {"none"} \union AllExecErrors \union Signals,
           \/ UNCHANGED holdVars
           \/ ReleaseSuccessfulAttempt(t)
           \/ FailAttempt(t, e)
    PROVE  HoldsMatchAttempts'
<1> USE DEF TypeInv, TypeOK, HoldsMatchAttempts
<1>1. CASE UNCHANGED holdVars
      BY <1>1
<1>2. CASE ReleaseSuccessfulAttempt(t)
      BY <1>2 DEF ReleaseSuccessfulAttempt, Hold
<1>3. CASE FailAttempt(t, e)
  <2>1. CASE tStatus[t] # "running"
        BY <1>3, <2>1 DEF FailAttempt
  <2>2. CASE tStatus[t] = "running"
    <3>1. PICK s \in AttemptStatus, l \in {"expired", "revoked"} :
              s # "running" /\ Hold(t, s, l, "revoked")
          BY <1>3, <2>2 DEF FailAttempt, AttemptStatus
    <3> QED BY <3>1 DEF Hold
  <2> QED BY <2>1, <2>2
<1> QED BY <1>1, <1>2, <1>3

\* A step of a thread ends its own Attempt in one of the two ways, or leaves the
\* holds alone.
LEMMA ThreadHolds ==
    ASSUME NEW t \in Attempt, ThreadStep(t)
    PROVE  UNCHANGED holdVars \/ ReleaseSuccessfulAttempt(t) \/ FailAttempt(t, err[t])
BY Zenon
   DEF ThreadStep, ExecuteReturns, SubmitResult, RetainNoncurrentResult, VerifyOrIntegrateErrs,
       CandidatePasses, CandidateFails, VerifierUnrunnable, LockIntegration, Integrate,
       CommitIntegration, AssembledStateFails, AcceptPlannedResult, FinishNoncurrent,
       RequireReconciliation, Fail

\* No step leaks a lease or a reservation.
LEMMA HoldsKept == TypeInv /\ HoldsMatchAttempts /\ [Next]_vars => HoldsMatchAttempts'
<1> SUFFICES ASSUME TypeInv, HoldsMatchAttempts, [Next]_vars PROVE HoldsMatchAttempts'
    OBVIOUS
<1>1. ASSUME NEW t \in Attempt, ThreadStep(t) PROVE HoldsMatchAttempts'
      BY <1>1, ThreadHolds, EndingKeepsHolds DEF TypeInv, TypeOK
<1>2. CASE WatchdogFail
      BY <1>2, EndingKeepsHolds DEF WatchdogFail, TypeInv, TypeOK, WatchdogHasTarget
<1>3. ASSUME NEW a \in Assignment, NEW c \in Configs, StartAttempt(a, c)
      PROVE  HoldsMatchAttempts'
      BY <1>3 DEF StartAttempt, Hold, TypeInv, TypeOK, HoldsMatchAttempts
<1>4. CASE CancelCommission \/ AcceptCommissionAmendment
      BY <1>4 DEF CancelCommission, AcceptCommissionAmendment, RevokeAll, Running, TypeInv,
                  TypeOK, HoldsMatchAttempts
<1>5. CASE RecoverStrandedAttempts
      BY <1>5 DEF RecoverStrandedAttempts, Stranded, Running, TypeInv, TypeOK, HoldsMatchAttempts
<1>6. CASE UNCHANGED holdVars
      BY <1>6 DEF HoldsMatchAttempts
<1>7. CASE Next
      BY <1>7, <1>1, <1>2, <1>3, <1>4, <1>5, <1>6, Zenon
      DEF Next, Dispatch, RouteOnly, BlockReadyAssignment, ThreadError, Watchdog,
          WatchdogObserve, WatchdogFence, WatchdogCleanup, Principal, PauseCommission,
          ResumeCommission, ChangeDispatchState, InterruptWorker, RetryWorker,
          AmendVerification, Crash, Restart, StartupCleanup
<1>8. CASE UNCHANGED vars
      BY <1>8, <1>6 DEF vars
<1> QED BY <1>7, <1>8

\* Whatever ends an Attempt ends its lease and its reservation with it, and
\* nothing else does: over any sequence of acceptances, failures, containments,
\* cancellations, amendments, crashes and restarts, no capacity leaks and no
\* Attempt runs unleased.
THEOREM HoldsCorrect == Spec => []HoldsMatchAttempts
<1>1. Init => HoldsMatchAttempts
      BY DEF Init, HoldsMatchAttempts
<1> QED BY <1>1, InitTyped, NextTyped, HoldsKept, PTL DEF Spec

(***************************************************************************)
(* Ownership.  Every step starts one Attempt, or ends some (often none).   *)
(***************************************************************************)

Finished == AttemptStatus \ {"none", "running"}
Waiting == {"ready", "attention_required", "verification_failed"}
Closed == {"accepted", "superseded", "cancelled"}

\* The Attempts ts end; an Assignment moves only if it is not closed and no other
\* Attempt of it runs, and one comes into being only by an Attempt that ends.
EndsAttempts(ts) ==
    /\ ts \subseteq Running
    /\ \A t \in Attempt : IF t \in ts THEN tStatus'[t] \in Finished ELSE tStatus'[t] = tStatus[t]
    /\ UNCHANGED tOwner
    /\ \A b \in Assignment : aStatus'[b] # aStatus[b] =>
            /\ aStatus[b] \notin Closed
            /\ b \in ts \/ aStatus[b] # "none"
            /\ \A t \in Running \ ts : tOwner[t] # b

\* Attempt t starts for Assignment a, which was ready.
StartsAttempt(t, a) ==
    /\ t = Cardinality(Started) + 1 /\ t \in Attempt /\ a \in Assignment
    /\ RoutedStatus[a] = "ready"
    /\ tStatus' = [tStatus EXCEPT ![t] = "running"]
    /\ tOwner' = [tOwner EXCEPT ![t] = a]
    /\ aStatus' = [RoutedStatus EXCEPT ![a] = "running"]

\* What is moved by routing was neither running nor yet to be planned.
LEMMA RoutingMovesWaiting ==
    ASSUME NEW b \in Assignment, RoutedStatus[b] # aStatus[b] \/ RoutedStatus[b] = "ready"
    PROVE  aStatus[b] \in {"ready", "attention_required"}
BY DEF RoutedStatus, Routed

\* The number given to the next Attempt was not given before.
LEMMA NextAttemptIsNew ==
    ASSUME TypeInv, StartedInOrder, Cardinality(Started) + 1 \in Attempt
    PROVE  /\ tStatus[Cardinality(Started) + 1] = "none"
           /\ Started \union {Cardinality(Started) + 1} = 1..(Cardinality(Started) + 1)
<1>1. PICK k \in 0..AttemptBound : Started = 1..k
      BY DEF StartedInOrder
<1>2. k \in Nat /\ Cardinality(1..k) = k
      BY FS_Interval, ConstantsAssumption
<1>3. Cardinality(Started) = k
      BY <1>1, <1>2
<1>4. k + 1 \in Attempt /\ k + 1 \notin 1..k /\ (1..k) \union {k + 1} = 1..(k + 1)
      BY <1>2, <1>3
<1>5. tStatus[k + 1] = "none"
      BY <1>1, <1>4 DEF Started
<1> QED BY <1>1, <1>3, <1>4, <1>5

\* Ending Attempts keeps ownership.
LEMMA EndingKeepsOwnership ==
    ASSUME OwnershipInv, NEW ts, EndsAttempts(ts)
    PROVE  RunningAttemptOwnsAssignment' /\ StartedInOrder' /\ NothingPlannedYet'
<1>1. \A t \in Attempt : tStatus'[t] = "running" => t \in Running \ ts
      BY DEF EndsAttempts, Finished, Running
<1>2. \A t \in Running \ ts : tOwner[t] \in Assignment /\ aStatus'[tOwner[t]] = "running"
      BY DEF EndsAttempts, OwnershipInv, TypeInv, RunningWasStarted, Running,
             RunningAttemptOwnsAssignment
<1>3. RunningAttemptOwnsAssignment'
      BY <1>1, <1>2 DEF EndsAttempts, OwnershipInv, Running, RunningAttemptOwnsAssignment
<1>4. Started' = Started
      BY DEF EndsAttempts, Started, Running, Finished
<1>5. NothingPlannedYet'
      BY DEF EndsAttempts, Finished, OwnershipInv, NothingPlannedYet, Assignment
<1> QED BY <1>3, <1>4, <1>5 DEF OwnershipInv, StartedInOrder

\* Starting one keeps ownership.
LEMMA StartingKeepsOwnership ==
    ASSUME OwnershipInv, NEW t, NEW a, StartsAttempt(t, a)
    PROVE  RunningAttemptOwnsAssignment' /\ StartedInOrder' /\ NothingPlannedYet'
<1>1. tStatus[t] = "none" /\ Started \union {t} = 1..t
      BY NextAttemptIsNew DEF StartsAttempt, OwnershipInv
<1>2. \A u \in Running : /\ u # t /\ tOwner[u] \in Assignment /\ tOwner[u] # a
                         /\ RoutedStatus[tOwner[u]] = "running"
      BY <1>1, RoutingMovesWaiting
      DEF OwnershipInv, TypeInv, RunningWasStarted, Running, RunningAttemptOwnsAssignment,
          StartsAttempt
<1>3. RoutedStatus \in [Assignment -> AssignmentStatus]
      BY RoutedTyped DEF OwnershipInv
<1>4. Running' = Running \union {t}
      BY DEF StartsAttempt, Running, OwnershipInv, TypeInv, TypeOK
<1>5. RunningAttemptOwnsAssignment'
  <2>1. \A u \in Running : tOwner'[u] = tOwner[u] /\ aStatus'[tOwner[u]] = "running"
        BY <1>2, <1>3 DEF StartsAttempt, Running, OwnershipInv, TypeInv, TypeOK
  <2>2. tOwner'[t] = a /\ aStatus'[a] = "running"
        BY <1>3 DEF StartsAttempt, OwnershipInv, TypeInv, TypeOK
  <2>3. \A u, v \in Running : tOwner[u] = tOwner[v] => u = v
        BY DEF OwnershipInv, RunningAttemptOwnsAssignment
  <2>4. \A u \in Running \union {t} : aStatus'[tOwner'[u]] = "running"
        BY <2>1, <2>2
  <2>5. \A u, v \in Running \union {t} : tOwner'[u] = tOwner'[v] => u = v
        BY <1>2, <2>1, <2>2, <2>3
  <2> QED BY <1>4, <2>4, <2>5 DEF RunningAttemptOwnsAssignment
<1>6. Started' = Started \union {t}
  <2>1. /\ t \in Attempt
        /\ \A u \in Attempt : tStatus'[u] = IF u = t THEN "running" ELSE tStatus[u]
        BY DEF StartsAttempt, OwnershipInv, TypeInv, TypeOK
  <2> QED BY <2>1 DEF Started
<1>7. StartedInOrder'
      BY <1>1, <1>6, ConstantsAssumption DEF StartedInOrder, StartsAttempt, Attempt
<1>8. NothingPlannedYet'
  <2> SUFFICES ASSUME NEW s \in Attempt, tStatus'[s] \in {"none", "running"}
               PROVE  aStatus'[s] = "none"
      BY DEF NothingPlannedYet
  <2>1. s \in Assignment /\ aStatus[s] = "none"
        BY <1>1 DEF OwnershipInv, TypeInv, TypeOK, NothingPlannedYet, StartsAttempt, Assignment
  <2>2. RoutedStatus[s] = "none" /\ s # a
        BY <2>1, RoutingMovesWaiting DEF StartsAttempt
  <2> QED BY <2>1, <2>2, <1>3 DEF StartsAttempt
<1> QED BY <1>5, <1>7, <1>8

\* fail_attempt ends the Attempt if it runs, and else does nothing.
LEMMA FailingEnds ==
    ASSUME OwnershipInv, NEW t \in Attempt, NEW e, FailAttempt(t, e), UNCHANGED tOwner
    PROVE  \E ts \in SUBSET Attempt : EndsAttempts(ts)
<1>1. CASE tStatus[t] # "running"
  <2>1. EndsAttempts({})
        BY <1>1 DEF FailAttempt, EndsAttempts
  <2> QED BY <2>1
<1>2. CASE tStatus[t] = "running"
  <2>1. tStatus' = [tStatus EXCEPT ![t] = IF e = "interrupted" THEN "interrupted"
                                          ELSE IF e \in Signals THEN "timed_out" ELSE "failed"]
        BY <1>2 DEF FailAttempt, Hold
  <2>2. \A b \in Assignment : aStatus'[b] # aStatus[b] => b = tOwner[t]
        BY <1>2 DEF FailAttempt, OwnershipInv, TypeInv, TypeOK
  <2>3. aStatus[tOwner[t]] = "running" /\ \A u \in Running : tOwner[u] = tOwner[t] => u = t
        BY <1>2 DEF OwnershipInv, RunningAttemptOwnsAssignment, Running
  <2>4. EndsAttempts({t})
        BY <1>2, <2>1, <2>2, <2>3
        DEF EndsAttempts, Running, Finished, Closed, AttemptStatus, OwnershipInv, TypeInv, TypeOK
  <2> QED BY <2>4
<1> QED BY <1>1, <1>2

\* A step that ends no Attempt and moves only what waits.
LEMMA WaitingMoves ==
    ASSUME OwnershipInv, UNCHANGED <<tStatus, tOwner>>,
           \A b \in Assignment : aStatus'[b] # aStatus[b] => aStatus[b] \in Waiting
    PROVE  \E ts \in SUBSET Attempt : EndsAttempts(ts)
<1>1. EndsAttempts({})
      BY DEF EndsAttempts, OwnershipInv, RunningAttemptOwnsAssignment, Waiting, Closed
<1> QED BY <1>1

\* A thread that ends its own, current Attempt well: it moves its Assignment, may
\* plan the Assignment named after it, and supersedes only what had failed.
LEMMA ReleaseEnds ==
    ASSUME OwnershipInv, NEW t \in Attempt, tStatus[t] = "running",
           ReleaseSuccessfulAttempt(t), UNCHANGED tOwner,
           \A b \in Assignment : aStatus'[b] # aStatus[b] =>
                b = tOwner[t] \/ b = t \/ aStatus[b] = "verification_failed"
    PROVE  \E ts \in SUBSET Attempt : EndsAttempts(ts)
<1>1. tStatus' = [tStatus EXCEPT ![t] = "succeeded"]
      BY DEF ReleaseSuccessfulAttempt, Hold
<1>2. aStatus[tOwner[t]] = "running" /\ aStatus[t] = "none"
      BY DEF OwnershipInv, RunningAttemptOwnsAssignment, Running, NothingPlannedYet
<1>3. \A u \in Running : aStatus[tOwner[u]] = "running" /\ (tOwner[u] = tOwner[t] => u = t)
      BY DEF OwnershipInv, RunningAttemptOwnsAssignment, Running
<1>4. EndsAttempts({t})
      BY <1>1, <1>2, <1>3
      DEF EndsAttempts, Running, Finished, Closed, AttemptStatus, OwnershipInv, TypeInv, TypeOK
<1> QED BY <1>4

\* Retaining a late Result moves no Assignment.
LEMMA RetainEnds ==
    ASSUME OwnershipInv, NEW t \in Attempt, RetainNoncurrentResult(t), UNCHANGED tOwner
    PROVE  \E ts \in SUBSET Attempt : EndsAttempts(ts)
<1>1. UNCHANGED aStatus
      BY DEF RetainNoncurrentResult
<1>2. CASE EndsStale(t)
      BY <1>1, <1>2, ReleaseEnds DEF RetainNoncurrentResult, EndsStale
<1>3. CASE ~EndsStale(t)
      BY <1>1, <1>3, WaitingMoves DEF RetainNoncurrentResult
<1> QED BY <1>2, <1>3

\* Every step of a thread ends its Attempt, or none.
LEMMA ThreadEnds ==
    ASSUME OwnershipInv, NEW t \in Attempt, ThreadStep(t)
    PROVE  \E ts \in SUBSET Attempt : EndsAttempts(ts)
<1>1. UNCHANGED tOwner
      BY Zenon
      DEF ThreadStep, ExecuteReturns, SubmitResult, VerifyOrIntegrateErrs, CandidatePasses,
          CandidateFails, VerifierUnrunnable, LockIntegration, Integrate, CommitIntegration,
          AssembledStateFails, AcceptPlannedResult, FinishNoncurrent, RequireReconciliation,
          Fail, ThreadFrame
<1>2. CASE RetainNoncurrentResult(t)
      BY <1>1, <1>2, RetainEnds
<1>3. CASE UNCHANGED <<tStatus, aStatus>>
      BY <1>1, <1>3, WaitingMoves
<1>4. IsCurrent(t) => tStatus[t] = "running" /\ tOwner[t] \in Assignment
      BY DEF IsCurrent, AttemptContinuation, OwnershipInv, TypeInv, RunningWasStarted
<1>5. CASE CandidateFails(t)
  <2>1. \A b \in Assignment : aStatus'[b] # aStatus[b] => b = tOwner[t] \/ b = t
        BY <1>5 DEF CandidateFails, RecoverFailedVerification, OwnershipInv, TypeInv, TypeOK
  <2> QED BY <1>1, <1>4, <1>5, <2>1, ReleaseEnds DEF CandidateFails
<1>6. CASE VerifierUnrunnable(t) /\ tOwner[t] \notin blockers
  <2>1. \A b \in Assignment : aStatus'[b] # aStatus[b] => b = tOwner[t]
        BY <1>6 DEF VerifierUnrunnable, OwnershipInv, TypeInv, TypeOK
  <2> QED BY <1>1, <1>4, <1>6, <2>1, ReleaseEnds DEF VerifierUnrunnable
<1>7. CASE AcceptPlannedResult(t)
  <2>1. \A b \in Assignment : aStatus'[b] # aStatus[b] =>
            b = tOwner[t] \/ aStatus[b] = "verification_failed"
        BY <1>7 DEF AcceptPlannedResult, StatusAfterAccepting
  <2> QED BY <1>1, <1>4, <1>7, <2>1, ReleaseEnds DEF AcceptPlannedResult
<1>8. CASE RequireReconciliation(t) /\ IsCurrent(t)
  <2>1. \A b \in Assignment : aStatus'[b] # aStatus[b] => b = tOwner[t] \/ b = t
        BY <1>8 DEF RequireReconciliation, OwnershipInv, TypeInv, TypeOK
  <2> QED BY <1>1, <1>4, <1>8, <2>1, ReleaseEnds DEF RequireReconciliation
<1>9. CASE Fail(t)
      BY <1>1, <1>9, FailingEnds DEF Fail
<1> QED BY <1>2, <1>3, <1>5, <1>6, <1>7, <1>8, <1>9, Zenon
        DEF ThreadStep, ExecuteReturns, SubmitResult, VerifyOrIntegrateErrs, CandidatePasses,
            VerifierUnrunnable, LockIntegration, Integrate, CommitIntegration,
            AssembledStateFails, FinishNoncurrent, RequireReconciliation

\* Cancelling, amending and restarting end several Attempts at once.
LEMMA ManyEnd ==
    ASSUME OwnershipInv,
           CancelCommission \/ AcceptCommissionAmendment \/ RecoverStrandedAttempts
    PROVE  \E ts \in SUBSET Attempt : EndsAttempts(ts)
<1> USE DEF OwnershipInv, TypeInv, TypeOK
<1>0. \A t \in Running : tOwner[t] \in Assignment /\ aStatus[tOwner[t]] = "running"
      BY DEF RunningAttemptOwnsAssignment, RunningWasStarted, Running
<1>1. CASE CancelCommission
  <2>1. EndsAttempts(Running)
        BY <1>1 DEF CancelCommission, RevokeAll, PrincipalFrame, EndsAttempts, Running, Finished,
                    Closed, AttemptStatus
  <2> QED BY <2>1 DEF Running
<1>2. CASE AcceptCommissionAmendment
  <2>1. \A t \in Running : lease[t] = "active"
        BY DEF HoldsMatchAttempts, Running
  <2>2. {t \in Running : lease[t] = "active"} = Running
        BY <2>1
  <2>3. EndsAttempts(Running)
        BY <1>2, <2>2
        DEF AcceptCommissionAmendment, RevokeAll, PrincipalFrame, EndsAttempts, Running, Finished,
            Closed, AttemptStatus
  <2> QED BY <2>3 DEF Running
<1>3. CASE RecoverStrandedAttempts
  <2>1. Stranded \subseteq Running
        BY DEF Stranded
  <2>2. \A t \in Running \ Stranded : Stranded = {}
        BY DEF Stranded
  <2>3. \A b \in Assignment : aStatus'[b] # aStatus[b] =>
            aStatus[b] = "running" /\ Stranded # {}
        BY <1>3 DEF RecoverStrandedAttempts
  <2>4. /\ UNCHANGED tOwner
        /\ \A t \in Attempt : IF t \in Stranded THEN tStatus'[t] \in Finished
                              ELSE tStatus'[t] = tStatus[t]
        BY <1>3 DEF RecoverStrandedAttempts, Finished, AttemptStatus
  <2>5. EndsAttempts(Stranded)
        BY <2>1, <2>2, <2>3, <2>4 DEF EndsAttempts, Closed
  <2> QED BY <2>1, <2>5 DEF Running
<1> QED BY <1>1, <1>2, <1>3

\* Every step starts one Attempt or ends some.
LEMMA EveryStep ==
    ASSUME OwnershipInv, [Next]_vars
    PROVE  \/ \E t \in Attempt, a \in Assignment, c \in Configs :
                    StartAttempt(a, c) /\ StartsAttempt(t, a)
           \/ \E ts \in SUBSET Attempt : EndsAttempts(ts)
<1>1. ASSUME NEW a \in Assignment, NEW c \in Configs, StartAttempt(a, c)
      PROVE  \E t \in Attempt : StartsAttempt(t, a)
      BY <1>1 DEF StartAttempt, StartsAttempt, FrontierSelects, Candidates, Hold
<1>2. CASE RouteOnly \/ \E a \in Assignment : BlockReadyAssignment(a)
  <2>1. \A b \in Assignment : aStatus'[b] # aStatus[b] => aStatus[b] \in Waiting
    <3>1. CASE RouteOnly
          BY <3>1, RoutingMovesWaiting DEF RouteOnly, Waiting
    <3>2. ASSUME NEW a \in Assignment, BlockReadyAssignment(a),
                 NEW b \in Assignment, aStatus'[b] # aStatus[b]
          PROVE  aStatus[b] \in Waiting
          BY <3>2, RoutingMovesWaiting, RoutedTyped
          DEF BlockReadyAssignment, FrontierSelects, Candidates, OwnershipInv, Waiting
    <3> QED BY <1>2, <3>1, <3>2
  <2> QED BY <1>2, <2>1, WaitingMoves DEF RouteOnly, BlockReadyAssignment
<1>3. CASE WatchdogFail
      BY <1>3, FailingEnds
      DEF WatchdogFail, WatchdogFrame, OwnershipInv, TypeInv, WatchdogHasTarget
<1>4. CASE (\E a \in Assignment : RetryWorker(a)) \/ AmendVerification
  <2>1. \A b \in Assignment : aStatus'[b] # aStatus[b] => aStatus[b] \in Waiting
        BY <1>4, ZenonT(40) DEF RetryWorker, AmendVerification, OwnershipInv, TypeInv, TypeOK, Waiting
  <2> QED BY <1>4, <2>1, WaitingMoves DEF RetryWorker, AmendVerification, PrincipalFrame
<1>5. CASE UNCHANGED <<tStatus, tOwner, aStatus>>
      BY <1>5, WaitingMoves
<1>6. CASE UNCHANGED vars
      BY <1>5, <1>6 DEF vars
<1>7. CASE Next
      BY <1>7, <1>1, <1>2, <1>3, <1>4, <1>5, ThreadEnds, ManyEnd, Zenon
      DEF Next, Dispatch, ThreadError, Watchdog, WatchdogObserve, WatchdogFence, WatchdogCleanup,
          WatchdogFrame, Principal, PauseCommission, ResumeCommission, ChangeDispatchState,
          InterruptWorker, PrincipalFrame, Crash, Restart, StartupCleanup
<1> QED BY <1>6, <1>7

\* Ownership is inductive.
LEMMA OwnershipKept == OwnershipInv /\ [Next]_vars => OwnershipInv'
BY NextTyped, HoldsKept, EveryStep, EndingKeepsOwnership, StartingKeepsOwnership
   DEF OwnershipInv

\* An accepted Commission starts with nothing running and nothing planned beyond its Work.
LEMMA InitOwnership == Init => OwnershipInv
<1> SUFFICES ASSUME Init PROVE OwnershipInv
    OBVIOUS
<1>1. HoldsMatchAttempts /\ RunningAttemptOwnsAssignment
      BY DEF Init, HoldsMatchAttempts, RunningAttemptOwnsAssignment, Running
<1>2. Started = 1..0
      BY DEF Init, Started
<1>3. NothingPlannedYet
      BY ConstantsAssumption DEF Init, NothingPlannedYet, Assignment
<1> QED BY <1>1, <1>2, <1>3, InitTyped, ConstantsAssumption DEF OwnershipInv, StartedInOrder

\* An Assignment never has two Attempts running, and is itself running while it has
\* one, although dispatch, threads, Watchdog, Principal and restart decide about
\* it in separate transactions.
THEOREM OwnershipCorrect == Spec => []RunningAttemptOwnsAssignment
<1>1. OwnershipInv => RunningAttemptOwnsAssignment
      BY DEF OwnershipInv
<1> QED BY <1>1, InitOwnership, OwnershipKept, PTL DEF Spec

(***************************************************************************)
(* Acceptance.                                                             *)
(***************************************************************************)

AcceptanceInv ==
    /\ AcceptedWasNeverContained /\ UndecidedWhileRunning
    /\ FinishingIsIntegrated /\ AcceptedIsOver

\* The step leaves what was accepted alone, accepts nothing, decides nothing about
\* an Attempt that goes on, and sends no thread on to accept.
AcceptsNothing ==
    /\ \A t \in Attempt : result[t] = "accepted" =>
            /\ result'[t] = "accepted" /\ tStatus'[t] = tStatus[t] /\ rKey'[t] = rKey[t]
            /\ tOwner'[t] = tOwner[t] /\ integrated'[t] = integrated[t]
            /\ t \notin cleanup => t \notin cleanup'
            /\ aStatus[tOwner[t]] = "accepted" => aStatus'[tOwner[t]] = "accepted"
            /\ pc[t] = "end" => pc'[t] = "end"
    /\ \A t \in Attempt : result'[t] = "accepted" => result[t] = "accepted"
    /\ \A t \in Attempt : tStatus'[t] \in {"none", "running"} =>
            tStatus[t] \in {"none", "running"} /\ rKey'[t] = rKey[t]
    /\ \A t \in Attempt : pc'[t] = "finish" => pc[t] = "finish" /\ integrated'[t] = integrated[t]

\* Such a step keeps the invariant.
LEMMA AcceptsNothingKeeps == ASSUME AcceptanceInv, AcceptsNothing PROVE AcceptanceInv'
BY DEF AcceptanceInv, AcceptsNothing, AcceptedWasNeverContained, UndecidedWhileRunning,
       FinishingIsIntegrated, AcceptedIsOver

\* fail_attempt leaves accepted Results and their Assignments alone.
LEMMA FailingAcceptsNothing ==
    ASSUME OwnershipInv, AcceptanceInv, NEW t \in Attempt,
           NEW e \in {"none"} \union AllExecErrors \union Signals, FailAttempt(t, e),
           UNCHANGED <<tOwner, integrated, cleanup>>,
           \A s \in Attempt : /\ pc[s] = "end" => pc'[s] = "end"
                              /\ pc'[s] = "finish" => pc[s] = "finish"
    PROVE  AcceptanceInv'
<1>1. CASE tStatus[t] # "running"
      BY <1>1, AcceptsNothingKeeps DEF FailAttempt, AcceptsNothing
<1>2. CASE tStatus[t] = "running"
  <2>1. result[t] # "accepted" /\ aStatus[tOwner[t]] = "running" /\ tOwner[t] \in Assignment
        BY <1>2 DEF AcceptanceInv, UndecidedWhileRunning, OwnershipInv, Running, TypeInv,
                    RunningAttemptOwnsAssignment, RunningWasStarted
  <2>2. \A s \in Attempt : s # t => /\ tStatus'[s] = tStatus[s] /\ result'[s] = result[s]
                                    /\ rKey'[s] = rKey[s]
        BY <1>2 DEF FailAttempt, Hold, RecordRecovery, OwnershipInv, TypeInv, TypeOK
  <2>3. tStatus'[t] \notin {"none", "running"}
        BY <1>2 DEF FailAttempt, Hold, OwnershipInv, TypeInv, TypeOK
  <2>4. result'[t] # "accepted"
        BY <1>2, <2>1 DEF FailAttempt, OwnershipInv, TypeInv, TypeOK
  <2>5. \A b \in Assignment : b # tOwner[t] => aStatus'[b] = aStatus[b]
        BY <1>2 DEF FailAttempt, OwnershipInv, TypeInv, TypeOK
  <2>6. \A s \in Attempt : result[s] = "accepted" => tOwner[s] \in Assignment
        BY DEF AcceptanceInv, AcceptedIsOver
  <2>7. AcceptsNothing
        BY <2>1, <2>2, <2>3, <2>4, <2>5, <2>6 DEF AcceptsNothing
  <2> QED BY <2>7, AcceptsNothingKeeps
<1> QED BY <1>1, <1>2

\* What a thread step has in common: it is not over, touches its own rows only, and
\* moves no Assignment that is accepted.
ThreadTouches(t) ==
    /\ pc[t] # "end"
    /\ \A s \in Attempt : s # t => /\ tStatus'[s] = tStatus[s] /\ result'[s] = result[s]
                                   /\ rKey'[s] = rKey[s] /\ integrated'[s] = integrated[s]
                                   /\ pc'[s] = pc[s]
    /\ \A b \in Assignment : aStatus[b] = "accepted" => aStatus'[b] = "accepted"
    /\ UNCHANGED <<tOwner, cleanup>>

\* What a thread does to its own Attempt leaves the other threads where they were.
LEMMA ThreadTouchesKeeps ==
    ASSUME OwnershipInv, AcceptanceInv, NEW t \in Attempt, ThreadTouches(t),
           result'[t] # "accepted", pc'[t] # "finish",
           tStatus'[t] \in {"none", "running"} => tStatus'[t] = tStatus[t] /\ rKey'[t] = rKey[t]
    PROVE  AcceptanceInv'
<1>1. result[t] # "accepted"
      BY DEF ThreadTouches, AcceptanceInv, AcceptedIsOver
<1>2. \A s \in Attempt : result[s] = "accepted" => tOwner[s] \in Assignment
      BY DEF AcceptanceInv, AcceptedIsOver
<1>3. AcceptsNothing
      BY <1>1, <1>2 DEF AcceptsNothing, ThreadTouches
<1> QED BY <1>3, AcceptsNothingKeeps

\* A late Result is not accepted.
LEMMA RetainAcceptsNothing ==
    ASSUME OwnershipInv, AcceptanceInv, NEW t \in Attempt, pc[t] # "end",
           RetainNoncurrentResult(t), UNCHANGED <<tOwner, cleanup>>
    PROVE  AcceptanceInv'
<1> USE DEF OwnershipInv, TypeInv, TypeOK
<1>1. ThreadTouches(t)
      BY DEF RetainNoncurrentResult, ReleaseSuccessfulAttempt, Hold, EndThread, ThreadTouches
<1>2. result'[t] # "accepted" /\ pc'[t] # "finish"
      BY DEF RetainNoncurrentResult, EndThread
<1>3. tStatus'[t] \in {"none", "running"} => tStatus'[t] = tStatus[t] /\ rKey'[t] = rKey[t]
      BY DEF RetainNoncurrentResult, ReleaseSuccessfulAttempt, Hold
<1> QED BY <1>1, <1>2, <1>3, ThreadTouchesKeeps

\* A thread on its way, or at the end of it without a Result to accept.
LEMMA WalkingAcceptsNothing ==
    ASSUME OwnershipInv, AcceptanceInv, NEW t \in Attempt, pc[t] # "end",
           UNCHANGED <<tStatus, aStatus, rKey, tOwner, cleanup>>,
           NEW step \in ThreadSteps \ {"finish"}, pc' = [pc EXCEPT ![t] = step],
           \/ UNCHANGED integrated
           \/ integrated' = [integrated EXCEPT ![t] = FALSE],
           UNCHANGED result \/ result' = [result EXCEPT ![t] = "candidate"]
    PROVE  AcceptanceInv'
<1> USE DEF OwnershipInv, TypeInv, TypeOK
<1>1. result[t] # "accepted"
      BY DEF AcceptanceInv, AcceptedIsOver
<1>2. ThreadTouches(t)
      BY DEF ThreadTouches
<1>3. result'[t] # "accepted" /\ pc'[t] # "finish"
      BY <1>1
<1> QED BY <1>2, <1>3, ThreadTouchesKeeps

\* A thread that releases its current Attempt without accepting its Result.
LEMMA ReleaseAcceptsNothing ==
    ASSUME OwnershipInv, AcceptanceInv, NEW t \in Attempt, pc[t] # "end", EndThread(t),
           tStatus[t] = "running", ReleaseSuccessfulAttempt(t),
           UNCHANGED <<tOwner, cleanup, integrated>>,
           NEW r, r # "accepted", UNCHANGED result \/ result' = [result EXCEPT ![t] = r],
           NEW k, UNCHANGED rKey \/ rKey' = [rKey EXCEPT ![t] = k],
           \A b \in Assignment : aStatus'[b] # aStatus[b] => b = tOwner[t] \/ b = t
    PROVE  AcceptanceInv'
<1> USE DEF OwnershipInv, TypeInv, TypeOK
<1>1. result[t] # "accepted" /\ aStatus[t] = "none" /\ aStatus[tOwner[t]] = "running"
      BY DEF AcceptanceInv, AcceptedIsOver, NothingPlannedYet, RunningAttemptOwnsAssignment,
             Running
<1>2. ThreadTouches(t)
      BY <1>1 DEF ThreadTouches, ReleaseSuccessfulAttempt, Hold, EndThread
<1>3. result'[t] # "accepted" /\ pc'[t] # "finish" /\ tStatus'[t] = "succeeded"
      BY <1>1 DEF ReleaseSuccessfulAttempt, Hold, EndThread
<1> QED BY <1>2, <1>3, ThreadTouchesKeeps

\* Only a finishing, current and integrated Attempt gets its Result accepted.
LEMMA AcceptKeeps ==
    ASSUME OwnershipInv, AcceptanceInv, NEW t \in Attempt, AcceptPlannedResult(t)
    PROVE  AcceptanceInv'
<1> USE DEF OwnershipInv, TypeInv, TypeOK
<1> DEFINE a == tOwner[t]
<1>1. /\ pc[t] = "finish" /\ tStatus[t] = "running" /\ t \notin cleanup
      /\ a \in Assignment /\ aStatus[a] = "running"
      BY DEF AcceptPlannedResult, IsCurrent, AttemptContinuation, RunningWasStarted
<1>2. integrated[t] /\ rKey[t] = "none"
      BY <1>1 DEF AcceptanceInv, FinishingIsIntegrated, UndecidedWhileRunning
<1>3. /\ tStatus' = [tStatus EXCEPT ![t] = "succeeded"]
      /\ pc' = [pc EXCEPT ![t] = "end"]
      /\ UNCHANGED <<tOwner, rKey, integrated, cleanup>>
      BY DEF AcceptPlannedResult, ReleaseSuccessfulAttempt, Hold, EndThread, ThreadFrame
<1>4. aStatus'[a] = "accepted"
      /\ \A b \in Assignment : aStatus[b] = "accepted" => aStatus'[b] = "accepted"
      BY <1>1 DEF AcceptPlannedResult, StatusAfterAccepting
<1>5. \A s \in Attempt : s # t => /\ result[s] = "accepted" => result'[s] = "accepted"
                                  /\ result'[s] = "accepted" => result[s] = "accepted"
      BY DEF AcceptPlannedResult
<1>6. AcceptedWasNeverContained' /\ AcceptedIsOver'
      BY <1>1, <1>2, <1>3, <1>4, <1>5
      DEF AcceptanceInv, AcceptedWasNeverContained, AcceptedIsOver
<1>7. UndecidedWhileRunning'
      BY <1>3, <1>5 DEF AcceptanceInv, UndecidedWhileRunning
<1>8. FinishingIsIntegrated'
      BY <1>3 DEF AcceptanceInv, FinishingIsIntegrated
<1> QED BY <1>6, <1>7, <1>8 DEF AcceptanceInv

\* Every step of a thread.
LEMMA ThreadKeepsAcceptance ==
    ASSUME OwnershipInv, AcceptanceInv, NEW t \in Attempt, ThreadStep(t)
    PROVE  AcceptanceInv'
<1>1. IsCurrent(t) => tStatus[t] = "running"
      BY DEF IsCurrent, AttemptContinuation
<1>2. CASE ExecuteReturns(t)
      BY <1>2, WalkingAcceptsNothing
      DEF ExecuteReturns, GoTo, FailWith, ThreadFrame, ThreadSteps
<1>3. CASE SubmitResult(t)
  <2>1. CASE RetainNoncurrentResult(t)
        BY <1>3, <2>1, RetainAcceptsNothing DEF SubmitResult, ThreadFrame
  <2>2. CASE ~RetainNoncurrentResult(t)
        BY <1>3, <2>2, WalkingAcceptsNothing
        DEF SubmitResult, EndThread, GoTo, ThreadFrame, ThreadSteps
  <2> QED BY <2>1, <2>2
<1>4. CASE VerifyOrIntegrateErrs(t)
      BY <1>4, WalkingAcceptsNothing
      DEF VerifyOrIntegrateErrs, StepErrs, FailWith, ThreadFrame, ThreadSteps
<1>5. CASE CandidatePasses(t)
      BY <1>5, RetainAcceptsNothing, WalkingAcceptsNothing
      DEF CandidatePasses, GoTo, ThreadFrame, ThreadSteps
<1>6. CASE CandidateFails(t)
  <2>1. \A b \in Assignment : aStatus'[b] # aStatus[b] => b = tOwner[t] \/ b = t
        BY <1>6 DEF CandidateFails, RecoverFailedVerification, OwnershipInv, TypeInv, TypeOK
  <2> QED BY <1>1, <1>6, <2>1, ReleaseAcceptsNothing
          DEF CandidateFails, RecoverFailedVerification, RecordRecovery, ThreadFrame
<1>7. CASE VerifierUnrunnable(t)
  <2>1. CASE tOwner[t] \in blockers
        BY <1>7, <2>1, WalkingAcceptsNothing
        DEF VerifierUnrunnable, EndThread, ThreadFrame, ThreadSteps
  <2>2. CASE tOwner[t] \notin blockers
    <3>1. \A b \in Assignment : aStatus'[b] # aStatus[b] => b = tOwner[t]
          BY <1>7, <2>2 DEF VerifierUnrunnable, OwnershipInv, TypeInv, TypeOK
    <3> QED BY <1>1, <1>7, <2>2, <3>1, ReleaseAcceptsNothing DEF VerifierUnrunnable, ThreadFrame
  <2> QED BY <2>1, <2>2
<1>8. CASE LockIntegration(t)
      BY <1>8, RetainAcceptsNothing, WalkingAcceptsNothing
      DEF LockIntegration, GoTo, ThreadFrame, ThreadSteps
<1>9. CASE Integrate(t)
      BY <1>9, WalkingAcceptsNothing DEF Integrate, GoTo, ThreadFrame, ThreadSteps
<1>10. CASE CommitIntegration(t)
  <2>1. CASE ~IsCurrent(t)
        BY <1>10, <2>1, RetainAcceptsNothing DEF CommitIntegration, ThreadFrame
  <2>2. CASE IsCurrent(t)
    <3>1. /\ pc[t] = "commit" /\ pc' = [pc EXCEPT ![t] = "finish"]
          /\ integrated' = [integrated EXCEPT ![t] = TRUE]
          /\ UNCHANGED <<tStatus, aStatus, rKey, result, tOwner, cleanup>>
          BY <1>10, <2>2 DEF CommitIntegration, GoTo, ThreadFrame
    <3>2. result[t] # "accepted"
          BY <3>1 DEF AcceptanceInv, AcceptedIsOver
    <3> QED BY <3>1, <3>2
            DEF AcceptanceInv, AcceptedWasNeverContained, UndecidedWhileRunning,
                FinishingIsIntegrated, AcceptedIsOver, OwnershipInv, TypeInv, TypeOK
  <2> QED BY <2>1, <2>2
<1>11. CASE AssembledStateFails(t)
      BY <1>11, WalkingAcceptsNothing DEF AssembledStateFails, GoTo, ThreadFrame, ThreadSteps
<1>12. CASE AcceptPlannedResult(t)
      BY <1>12, AcceptKeeps
<1>13. CASE FinishNoncurrent(t)
      BY <1>13, RetainAcceptsNothing DEF FinishNoncurrent, ThreadFrame
<1>14. CASE RequireReconciliation(t)
  <2>1. CASE ~IsCurrent(t)
        BY <1>14, <2>1, RetainAcceptsNothing DEF RequireReconciliation, ThreadFrame
  <2>2. CASE IsCurrent(t)
    <3>1. \A b \in Assignment : aStatus'[b] # aStatus[b] => b = tOwner[t] \/ b = t
          BY <1>14, <2>2 DEF RequireReconciliation, OwnershipInv, TypeInv, TypeOK
    <3> QED BY <1>1, <1>14, <2>2, <3>1, ReleaseAcceptsNothing
            DEF RequireReconciliation, ThreadFrame
  <2> QED BY <2>1, <2>2
<1>15. CASE Fail(t)
      BY <1>15, FailingAcceptsNothing
      DEF Fail, EndThread, ThreadFrame, OwnershipInv, TypeInv, TypeOK
<1> QED BY <1>2, <1>3, <1>4, <1>5, <1>6, <1>7, <1>8, <1>9, <1>10, <1>11, <1>12, <1>13, <1>14,
           <1>15 DEF ThreadStep

\* Every other step accepts nothing either.
LEMMA AcceptanceKept == OwnershipInv /\ AcceptanceInv /\ [Next]_vars => AcceptanceInv'
<1> SUFFICES ASSUME OwnershipInv, AcceptanceInv, [Next]_vars PROVE AcceptanceInv'
    OBVIOUS
<1>1. \A t \in Attempt : result[t] = "accepted" =>
          /\ tStatus[t] = "succeeded" /\ pc[t] = "end"
          /\ tOwner[t] \in Assignment /\ aStatus[tOwner[t]] = "accepted"
      BY DEF AcceptanceInv, AcceptedWasNeverContained, AcceptedIsOver
<1>2. CASE UNCHANGED <<aStatus, rKey, tStatus, tOwner, result, integrated, cleanup, pc>>
      BY <1>2, AcceptsNothingKeeps DEF AcceptsNothing
<1>3. CASE RouteOnly \/ \E a \in Assignment : BlockReadyAssignment(a)
  <2>1. \A b \in Assignment : aStatus[b] = "accepted" => aStatus'[b] = "accepted"
        BY <1>3, RoutingMovesWaiting, RoutedTyped
        DEF RouteOnly, BlockReadyAssignment, FrontierSelects, Candidates, OwnershipInv
  <2> QED BY <1>1, <1>3, <2>1, AcceptsNothingKeeps
          DEF RouteOnly, BlockReadyAssignment, AcceptsNothing
<1>4. ASSUME NEW a \in Assignment, NEW c \in Configs, StartAttempt(a, c) PROVE AcceptanceInv'
  <2> DEFINE n == Cardinality(Started) + 1
  <2>1. n \in Attempt /\ tStatus[n] = "none"
        BY <1>4, NextAttemptIsNew DEF StartAttempt, OwnershipInv
  <2>2. \A b \in Assignment : aStatus[b] = "accepted" => aStatus'[b] = "accepted"
        BY <1>4, RoutingMovesWaiting, RoutedTyped
        DEF StartAttempt, FrontierSelects, Candidates, OwnershipInv
  <2>3. /\ tStatus' = [tStatus EXCEPT ![n] = "running"]
        /\ tOwner' = [tOwner EXCEPT ![n] = a]
        /\ pc' = [pc EXCEPT ![n] = "execute"]
        /\ UNCHANGED <<rKey, result, integrated, cleanup>>
        BY <1>4 DEF StartAttempt, Hold
  <2> HIDE DEF n
  <2>4. AcceptsNothing
        BY <1>1, <2>1, <2>2, <2>3 DEF AcceptsNothing, OwnershipInv, TypeInv, TypeOK
  <2> QED BY <2>4, AcceptsNothingKeeps
<1>5. ASSUME NEW t \in Attempt, ThreadError(t) PROVE AcceptanceInv'
      BY <1>5, AcceptsNothingKeeps
      DEF ThreadError, EndThread, AcceptsNothing, OwnershipInv, TypeInv, TypeOK
<1>6. CASE WatchdogFence
      BY <1>1, <1>6, AcceptsNothingKeeps DEF WatchdogFence, WatchdogFrame, AcceptsNothing
<1>7. CASE WatchdogFail
      BY <1>7, FailingAcceptsNothing
      DEF WatchdogFail, WatchdogFrame, OwnershipInv, TypeInv, TypeOK, WatchdogHasTarget
<1>8. CASE WatchdogCleanup \/ StartupCleanup
      BY <1>8, AcceptsNothingKeeps
      DEF WatchdogCleanup, WatchdogFrame, StartupCleanup, AcceptsNothing
<1>9. CASE CancelCommission
      BY <1>1, <1>9, AcceptsNothingKeeps
      DEF CancelCommission, RevokeAll, PrincipalFrame, Running, AcceptsNothing
<1>10. ASSUME NEW a \in Assignment, RetryWorker(a) PROVE AcceptanceInv'
      BY <1>1, <1>10, AcceptsNothingKeeps
      DEF RetryWorker, PrincipalFrame, AcceptsNothing, OwnershipInv, TypeInv, TypeOK
<1>11. CASE AmendVerification
      BY <1>1, <1>11, AcceptsNothingKeeps
      DEF AmendVerification, PrincipalFrame, AcceptsNothing, OwnershipInv, TypeInv, TypeOK
<1>12. CASE AcceptCommissionAmendment
      BY <1>1, <1>12, AcceptsNothingKeeps
      DEF AcceptCommissionAmendment, RevokeAll, PrincipalFrame, Running, AcceptsNothing
<1>13. CASE Crash
      BY <1>1, <1>13, AcceptsNothingKeeps DEF Crash, AcceptsNothing
<1>14. CASE RecoverStrandedAttempts
      BY <1>1, <1>14, AcceptsNothingKeeps
      DEF RecoverStrandedAttempts, Stranded, Running, AcceptsNothing
<1>15. CASE UNCHANGED vars
      BY <1>2, <1>15 DEF vars
<1>16. CASE Next
      BY <1>16, <1>2, <1>3, <1>4, <1>5, <1>6, <1>7, <1>8, <1>9, <1>10, <1>11, <1>12, <1>13,
         <1>14, ThreadKeepsAcceptance, Zenon
      DEF Next, Dispatch, Watchdog, WatchdogObserve, WatchdogFrame, Principal, PauseCommission,
          ResumeCommission, ChangeDispatchState, InterruptWorker, PrincipalFrame, Restart
<1> QED BY <1>15, <1>16

\* An accepted Commission starts with nothing accepted.
LEMMA InitAcceptance == Init => AcceptanceInv
BY DEF Init, AcceptanceInv, AcceptedWasNeverContained, UndecidedWhileRunning,
       FinishingIsIntegrated, AcceptedIsOver

\* IndInv is an invariant.
LEMMA IndInvCorrect == Spec => []IndInv
<1>1. IndInv <=> OwnershipInv /\ AcceptanceInv
      BY DEF IndInv, AcceptanceInv
<1>2. Init => OwnershipInv /\ AcceptanceInv
      BY InitOwnership, InitAcceptance
<1>3. OwnershipInv /\ AcceptanceInv /\ [Next]_vars => (OwnershipInv /\ AcceptanceInv)'
      BY OwnershipKept, AcceptanceKept
<1> QED BY <1>1, <1>2, <1>3, PTL DEF Spec

\* An accepted Result is never one whose Attempt was contained, failed, cancelled or
\* stranded, however late its thread came back: the check of attempt_continuation
\* in the accepting transaction is enough.
THEOREM AcceptanceCorrect == Spec => []AcceptedWasNeverContained
<1>1. IndInv => AcceptedWasNeverContained
      BY DEF IndInv
<1> QED BY <1>1, IndInvCorrect, PTL

(***************************************************************************)
(* Finality, and the promise of AttemptLedger.                             *)
(***************************************************************************)

\* fail_attempt changes no acceptance.
LEMMA FailingKeepsAccepted ==
    ASSUME OwnershipInv, NEW t \in Attempt, NEW e, FailAttempt(t, e)
    PROVE  Accepted' = Accepted
<1>1. \A s \in Attempt : result'[s] = "accepted" <=> result[s] = "accepted"
  <2>1. CASE tStatus[t] # "running"
        BY <2>1 DEF FailAttempt
  <2>2. CASE tStatus[t] = "running"
        BY <2>2 DEF FailAttempt, OwnershipInv, TypeInv, TypeOK
  <2> QED BY <2>1, <2>2
<1> QED BY <1>1 DEF Accepted

\* Only acceptance itself changes which Results are accepted.
LEMMA AcceptedChanges ==
    ASSUME OwnershipInv, AcceptanceInv, [Next]_vars
    PROVE  Accepted' = Accepted \/ \E t \in Attempt : AcceptPlannedResult(t)
<1>1. ASSUME UNCHANGED result PROVE Accepted' = Accepted
      BY <1>1 DEF Accepted
<1>2. ASSUME NEW t \in Attempt, pc[t] # "end", NEW r, r # "accepted",
             result' = [result EXCEPT ![t] = r]
      PROVE  Accepted' = Accepted
  <2>1. result[t] # "accepted"
        BY <1>2 DEF AcceptanceInv, AcceptedIsOver
  <2>2. \A s \in Attempt : result'[s] = "accepted" <=> result[s] = "accepted"
        BY <1>2, <2>1 DEF OwnershipInv, TypeInv, TypeOK
  <2> QED BY <2>2 DEF Accepted
<1>3. ASSUME NEW t \in Attempt, pc[t] # "end", RetainNoncurrentResult(t)
      PROVE  Accepted' = Accepted
      BY <1>2, <1>3 DEF RetainNoncurrentResult
<1>4. ASSUME NEW t \in Attempt, ThreadStep(t)
      PROVE  Accepted' = Accepted \/ AcceptPlannedResult(t)
  <2>1. CASE SubmitResult(t)
        BY <2>1, <1>1, <1>2, <1>3 DEF SubmitResult
  <2>2. CASE CandidateFails(t)
        BY <2>2, <1>1, <1>2 DEF CandidateFails, RecoverFailedVerification
  <2>3. CASE CandidatePasses(t) \/ LockIntegration(t) \/ CommitIntegration(t)
             \/ FinishNoncurrent(t) \/ RequireReconciliation(t)
        BY <2>3, <1>1, <1>3
        DEF CandidatePasses, LockIntegration, CommitIntegration, FinishNoncurrent,
            RequireReconciliation
  <2>4. CASE Fail(t)
        BY <2>4, FailingKeepsAccepted DEF Fail
  <2>5. CASE ExecuteReturns(t) \/ VerifyOrIntegrateErrs(t) \/ VerifierUnrunnable(t)
             \/ Integrate(t) \/ AssembledStateFails(t)
        BY <2>5, <1>1
        DEF ExecuteReturns, VerifyOrIntegrateErrs, VerifierUnrunnable, Integrate,
            AssembledStateFails
  <2> QED BY <1>4, <2>1, <2>2, <2>3, <2>4, <2>5 DEF ThreadStep
<1>5. CASE WatchdogFail
      BY <1>5, FailingKeepsAccepted DEF WatchdogFail, OwnershipInv, TypeInv, WatchdogHasTarget
<1>6. CASE AmendVerification
      BY <1>6 DEF AmendVerification, Accepted
<1>7. CASE RecoverStrandedAttempts
  <2>1. \A t \in Stranded : result[t] # "accepted"
        BY DEF Stranded, Running, AcceptanceInv, UndecidedWhileRunning
  <2> QED BY <1>7, <2>1 DEF RecoverStrandedAttempts, Accepted
<1>8. CASE UNCHANGED vars
      BY <1>1, <1>8 DEF vars
<1>9. CASE Next
      BY <1>9, <1>1, <1>4, <1>5, <1>6, <1>7, Zenon
      DEF Next, Dispatch, RouteOnly, BlockReadyAssignment, StartAttempt, ThreadError, Watchdog,
          WatchdogObserve, WatchdogFence, WatchdogCleanup, Principal, PauseCommission,
          ResumeCommission, ChangeDispatchState, CancelCommission, InterruptWorker, RetryWorker,
          AcceptCommissionAmendment, Crash, Restart, StartupCleanup
<1> QED BY <1>8, <1>9

\* An ended Commission stays as it ended.
LEMMA CommissionIsFinal ==
    ASSUME [Next]_vars, cStatus \in {"cancelled", "verified_complete"}
    PROVE  UNCHANGED cStatus
<1>1. ~Dispatchable
      BY DEF Dispatchable
<1>2. \A t \in Attempt : ~IsCurrent(t)
      BY <1>1 DEF IsCurrent, AttemptContinuation
<1>3. ASSUME NEW t \in Attempt, ThreadStep(t) PROVE UNCHANGED cStatus
      BY <1>2, <1>3, Zenon
      DEF ThreadStep, ExecuteReturns, SubmitResult, RetainNoncurrentResult,
          VerifyOrIntegrateErrs, CandidatePasses, CandidateFails, VerifierUnrunnable,
          LockIntegration, Integrate, CommitIntegration, AssembledStateFails,
          AcceptPlannedResult, FinishNoncurrent, RequireReconciliation, Fail
<1>4. ~PauseCommission /\ ~ResumeCommission /\ ~CancelCommission
      BY <1>1 DEF PauseCommission, ResumeCommission, ChangeDispatchState, CancelCommission
<1>5. CASE Next
      BY <1>3, <1>4, <1>5, Zenon
      DEF Next, Dispatch, RouteOnly, BlockReadyAssignment, StartAttempt, ThreadError, Watchdog,
          WatchdogObserve, WatchdogFence, WatchdogFail, WatchdogCleanup, WatchdogFrame,
          Principal, InterruptWorker, RetryWorker, AmendVerification,
          AcceptCommissionAmendment, Crash, Restart, RecoverStrandedAttempts, StartupCleanup
<1> QED BY <1>5 DEF vars

\* Accepting ends exactly the Attempt whose Result is accepted.
LEMMA AcceptStep ==
    ASSUME OwnershipInv, NEW t \in Attempt, AcceptPlannedResult(t)
    PROVE  /\ tStatus[t] = "running" /\ tStatus' = [tStatus EXCEPT ![t] = "succeeded"]
           /\ UNCHANGED tOwner /\ Accepted' = Accepted \union {t}
<1>1. /\ tStatus[t] = "running" /\ tStatus' = [tStatus EXCEPT ![t] = "succeeded"]
      /\ UNCHANGED tOwner
      BY DEF AcceptPlannedResult, IsCurrent, AttemptContinuation, ReleaseSuccessfulAttempt, Hold,
             ThreadFrame
<1>2. \A s \in Attempt : result'[s] = "accepted" <=> s = t \/ result[s] = "accepted"
      BY DEF AcceptPlannedResult
<1> QED BY <1>1, <1>2 DEF Accepted

\* No step leaves a final status.
LEMMA StepsAreFinal ==
    ASSUME OwnershipInv, AcceptanceInv, [Next]_vars
    PROVE  /\ cStatus \in {"cancelled", "verified_complete"} => cStatus' = cStatus
           /\ \A a \in Assignment : aStatus[a] \in Closed => aStatus'[a] = aStatus[a]
           /\ \A t \in Attempt : /\ tStatus[t] \notin {"none", "running"}
                                        => tStatus'[t] = tStatus[t]
                                 /\ result[t] = "accepted" => result'[t] = "accepted"
<1>1. Accepted \subseteq Accepted'
      BY AcceptedChanges, AcceptStep
<1>2. ASSUME NEW ts \in SUBSET Attempt, EndsAttempts(ts)
      PROVE  /\ \A a \in Assignment : aStatus[a] \in Closed => aStatus'[a] = aStatus[a]
             /\ \A t \in Attempt : tStatus[t] \notin {"none", "running"}
                                        => tStatus'[t] = tStatus[t]
      BY <1>2 DEF EndsAttempts, Running
<1>3. ASSUME NEW n \in Attempt, NEW b \in Assignment, StartsAttempt(n, b)
      PROVE  /\ \A a \in Assignment : aStatus[a] \in Closed => aStatus'[a] = aStatus[a]
             /\ \A t \in Attempt : tStatus[t] \notin {"none", "running"}
                                        => tStatus'[t] = tStatus[t]
  <2>1. tStatus[n] = "none"
        BY <1>3, NextAttemptIsNew DEF StartsAttempt, OwnershipInv
  <2>2. \A a \in Assignment : aStatus[a] \in Closed => a # b /\ RoutedStatus[a] = aStatus[a]
        BY <1>3, RoutingMovesWaiting DEF Closed, StartsAttempt
  <2> QED BY <1>3, <2>1, <2>2, RoutedTyped
          DEF StartsAttempt, OwnershipInv, TypeInv, TypeOK
<1> QED BY <1>1, <1>2, <1>3, EveryStep, CommissionIsFinal DEF Accepted

\* An accepted, superseded or cancelled Assignment, a finished Attempt, an accepted
\* Result and an ended Commission stay as they are in every execution.
THEOREM FinalityCorrect == Spec => FinalIsFinal
<1>1. IndInv <=> OwnershipInv /\ AcceptanceInv
      BY DEF IndInv, AcceptanceInv
<1>2. IndInv /\ [Next]_vars =>
        [/\ cStatus \in {"cancelled", "verified_complete"} => cStatus' = cStatus
         /\ \A a \in Assignment : aStatus[a] \in {"accepted", "superseded", "cancelled"}
                                    => aStatus'[a] = aStatus[a]
         /\ \A t \in Attempt : /\ tStatus[t] \notin {"none", "running"} => tStatus'[t] = tStatus[t]
                               /\ result[t] = "accepted" => result'[t] = "accepted"]_vars
      BY <1>1, StepsAreFinal DEF Closed
<1> QED BY <1>2, IndInvCorrect, PTL DEF Spec, FinalIsFinal

\* Every step of the life cycle is a step of the ledger, or does not show in it.
LEMMA LedgerStep ==
    ASSUME OwnershipInv, AcceptanceInv, OwnershipInv', [Next]_vars
    PROVE  [Ledger!Next]_(Ledger!vars)
<1>1. ASSUME NEW t \in Attempt, AcceptPlannedResult(t) PROVE Ledger!Next
      BY <1>1, AcceptStep DEF Ledger!Next, Ledger!Accept
<1>2. ASSUME NEW t \in Attempt, NEW a \in Assignment, StartsAttempt(t, a), Accepted' = Accepted
      PROVE  Ledger!Next
  <2>1. tStatus[t] = "none"
        BY <1>2, NextAttemptIsNew DEF StartsAttempt, OwnershipInv
  <2>2. aStatus[a] \in {"ready", "attention_required"}
        BY <1>2, RoutingMovesWaiting DEF StartsAttempt
  <2>3. \A u \in Attempt : tOwner[u] = a => tStatus[u] # "running" /\ u \notin Accepted
        BY <2>2 DEF OwnershipInv, RunningAttemptOwnsAssignment, Running, AcceptanceInv,
                    AcceptedWasNeverContained, Accepted
  <2>4. Ledger!Start(t, a)
        BY <1>2, <2>1, <2>3 DEF StartsAttempt, Ledger!Start
  <2> QED BY <2>4 DEF Ledger!Next
<1>3. ASSUME NEW ts \in SUBSET Attempt, EndsAttempts(ts), Accepted' = Accepted
      PROVE  Ledger!Next
  <2> DEFINE over == [t \in ts |-> tStatus'[t]]
  <2>1. over \in [ts -> Ledger!Over]
        BY <1>3 DEF EndsAttempts, Finished, AttemptStatus, Ledger!Over
  <2>2. tStatus' = [t \in Attempt |-> IF t \in ts THEN over[t] ELSE tStatus[t]]
        BY <1>3 DEF EndsAttempts, OwnershipInv, TypeInv, TypeOK
  <2>3. (\A t \in ts : tStatus[t] = "running") /\ UNCHANGED tOwner
        BY <1>3 DEF EndsAttempts, Running
  <2>4. Ledger!End(ts)
        BY <1>3, <2>1, <2>2, <2>3 DEF Ledger!End
  <2> QED BY <2>4 DEF Ledger!Next
<1> QED BY <1>1, <1>2, <1>3, AcceptedChanges, EveryStep

\* The life cycle of Attempts implements AttemptLedger: for every plan, every number
\* of Attempts and every interleaving and crash, no Assignment has two running
\* Attempts or two accepted Results, and nothing in the ledger is taken back.
THEOREM LedgerKept == Spec => KeepsLedger
<1>1. Init => Ledger!Init
      BY DEF Init, Ledger!Init, Accepted
<1>2. IndInv /\ IndInv' /\ [Next]_vars => [Ledger!Next]_(Ledger!vars)
      BY LedgerStep DEF IndInv, AcceptanceInv
<1> QED BY <1>1, <1>2, IndInvCorrect, PTL DEF Spec, KeepsLedger, Ledger!Spec

(***************************************************************************)
(* Containment.                                                            *)
(***************************************************************************)

\* Work is integrated only by an Attempt that was started, and its thread is then
\* finishing or over.
IntegratedIsFinishing ==
    \A t \in Attempt : integrated[t] => pc[t] \in {"finish", "end"} /\ tStatus[t] # "none"

\* A thread leaves finish with its Integration only by ending, and enters it with one.
LEMMA ThreadKeepsIntegrated ==
    ASSUME OwnershipInv, IntegratedIsFinishing, NEW t \in Attempt, ThreadStep(t)
    PROVE  \A s \in Attempt : integrated'[s] =>
                \/ integrated[s] /\ pc'[s] \in {pc[s], "end"}
                \/ pc'[s] = "finish" /\ tStatus[s] = "running"
<1> USE DEF OwnershipInv, TypeInv, TypeOK
<1>1. ASSUME UNCHANGED integrated,
             (\E step : pc' = [pc EXCEPT ![t] = step] /\ (step = "end" \/ pc[t] # "finish")),
             pc[t] # "end"
      PROVE  \A s \in Attempt : integrated'[s] => integrated[s] /\ pc'[s] \in {pc[s], "end"}
      BY <1>1 DEF IntegratedIsFinishing
<1>2. CASE AssembledStateFails(t)
      BY <1>2 DEF AssembledStateFails, GoTo
<1>3. CASE CommitIntegration(t) /\ IsCurrent(t)
      BY <1>3 DEF CommitIntegration, GoTo, IsCurrent, AttemptContinuation
<1>4. CASE ~AssembledStateFails(t) /\ ~(CommitIntegration(t) /\ IsCurrent(t))
  <2>1. UNCHANGED integrated /\ pc[t] # "end"
        BY <1>4, Zenon
        DEF ThreadStep, ExecuteReturns, SubmitResult, RetainNoncurrentResult,
            VerifyOrIntegrateErrs, StepErrs, CandidatePasses, CandidateFails,
            VerifierUnrunnable, LockIntegration, Integrate, CommitIntegration,
            AcceptPlannedResult, FinishNoncurrent, RequireReconciliation, Fail
  <2>2. \E step : pc' = [pc EXCEPT ![t] = step] /\ (step = "end" \/ pc[t] # "finish")
        BY <1>4, Zenon
        DEF ThreadStep, ExecuteReturns, SubmitResult, RetainNoncurrentResult,
            VerifyOrIntegrateErrs, StepErrs, CandidatePasses, CandidateFails,
            VerifierUnrunnable, LockIntegration, Integrate, CommitIntegration,
            AcceptPlannedResult, FinishNoncurrent, RequireReconciliation, Fail,
            EndThread, GoTo, FailWith
  <2> QED BY <1>1, <2>1, <2>2
<1> QED BY <1>2, <1>3, <1>4

\* Every step leaves integrated work with a thread that is finishing or over.
LEMMA FinishingKept ==
    ASSUME OwnershipInv, IntegratedIsFinishing, [Next]_vars
    PROVE  IntegratedIsFinishing'
<1> USE DEF OwnershipInv, TypeInv, TypeOK
<1>1. \A t \in Attempt : tStatus[t] # "none" => tStatus'[t] # "none"
  <2>1. ASSUME NEW n \in Attempt, NEW a \in Assignment, StartsAttempt(n, a)
        PROVE  \A t \in Attempt : tStatus[t] # "none" => tStatus'[t] # "none"
        BY <2>1 DEF StartsAttempt
  <2> QED BY <2>1, EveryStep DEF EndsAttempts, Finished
<1>2. ASSUME UNCHANGED integrated, \A t \in Attempt : integrated[t] => pc'[t] \in {pc[t], "end"}
      PROVE  IntegratedIsFinishing'
      BY <1>1, <1>2 DEF IntegratedIsFinishing
<1>3. ASSUME NEW t \in Attempt, ThreadStep(t) PROVE IntegratedIsFinishing'
      BY <1>1, <1>3, ThreadKeepsIntegrated DEF IntegratedIsFinishing
<1>4. ASSUME NEW a \in Assignment, NEW c \in Configs, StartAttempt(a, c)
      PROVE  IntegratedIsFinishing'
  <2>1. PICK n \in Attempt : n = Cardinality(Started) + 1
        BY <1>4 DEF StartAttempt
  <2>2. pc' = [pc EXCEPT ![n] = "execute"] /\ UNCHANGED integrated /\ tStatus[n] = "none"
        BY <1>4, <2>1, NextAttemptIsNew DEF StartAttempt
  <2> QED BY <1>2, <2>2 DEF IntegratedIsFinishing
<1>5. ASSUME NEW t \in Attempt, ThreadError(t) PROVE IntegratedIsFinishing'
      BY <1>2, <1>5 DEF ThreadError, EndThread
<1>6. CASE Crash
      BY <1>6, <1>2 DEF Crash, IntegratedIsFinishing
<1>7. CASE UNCHANGED <<integrated, pc>>
      BY <1>2, <1>7
<1>8. CASE UNCHANGED vars
      BY <1>7, <1>8 DEF vars
<1>9. CASE Next
      BY <1>9, <1>3, <1>4, <1>5, <1>6, <1>7, Zenon
      DEF Next, Dispatch, RouteOnly, BlockReadyAssignment, Watchdog, WatchdogObserve,
          WatchdogFence, WatchdogFail, WatchdogCleanup, WatchdogFrame, Principal,
          PauseCommission, ResumeCommission, ChangeDispatchState, CancelCommission,
          InterruptWorker, RetryWorker, AmendVerification, AcceptCommissionAmendment,
          PrincipalFrame, Restart, RecoverStrandedAttempts, StartupCleanup
<1> QED BY <1>8, <1>9

\* A sandbox is alive while its Attempt executes or its teardown was lost; a pending
\* cleanup stands behind every signal, and a failed Attempt without one failed on its
\* own.  No Attempt with a sandbox has integrated work.
SandboxIsFenced ==
    \A t \in sandbox :
        /\ pc[t] \in {"execute", "fail", "end"} /\ ~integrated[t]
        /\ tStatus[t] \in {"running", "cancelled"} \/ t \in cleanup \/ FailedOnItsOwn(t)
        /\ ctl[t] \in Signals => t \in cleanup
        /\ pc[t] = "fail" => err[t] \in AllExecErrors \/ t \in cleanup

\* A Watchdog past its fence works on an Attempt with a pending cleanup, and it
\* does not outlive the process.
WatchdogHasFenced ==
    /\ phase # "up" => wd.step = "idle"
    /\ wd.step \in {"fail", "clean"} => wd.attempt \in cleanup

ContainmentInv ==
    SandboxIsFenced /\ WatchdogHasFenced /\ NoRetryBesideLiveSandbox /\ IntegratedIsFinishing

\* No Attempt starts, no sandbox appears, and an Attempt whose sandbox stays goes on,
\* is cancelled, fails on its own, or has a pending cleanup that stays too.
Contains ==
    /\ \A t \in Attempt : tStatus'[t] = "running" => tStatus[t] = "running"
    /\ sandbox' \subseteq sandbox
    /\ \A t \in sandbox' :
        /\ pc'[t] \in {"execute", "fail", "end"} /\ integrated'[t] = integrated[t]
        /\ \/ tStatus'[t] = tStatus[t] /\ rKey'[t] = rKey[t]
           \/ tStatus'[t] = "cancelled" \/ t \in cleanup' \/ FailedOnItsOwn(t)'
        /\ tStatus[t] # "running" => rKey'[t] = rKey[t]
        /\ t \in cleanup => t \in cleanup'
        /\ ctl'[t] \in Signals => ctl'[t] = ctl[t] \/ t \in cleanup'
        /\ pc'[t] = "fail" => (pc[t] = "fail" /\ err'[t] = err[t]) \/ err'[t] \in AllExecErrors
                               \/ t \in cleanup'

\* Such a step brings no retry beside a sandbox.
LEMMA ContainsKeeps ==
    ASSUME OwnershipInv, ContainmentInv, [Next]_vars, Contains
    PROVE  SandboxIsFenced' /\ NoRetryBesideLiveSandbox'
<1>0. PICK ts \in SUBSET Attempt : EndsAttempts(ts)
  <2>1. ASSUME NEW n \in Attempt, NEW b \in Assignment, StartsAttempt(n, b) PROVE FALSE
    <3>1. tStatus[n] = "none" /\ tStatus'[n] = "running"
          BY <2>1, NextAttemptIsNew DEF StartsAttempt, OwnershipInv, TypeInv, TypeOK
    <3> QED BY <3>1 DEF Contains
  <2> QED BY <2>1, EveryStep
<1>1. sandbox \subseteq Attempt
      BY DEF OwnershipInv, TypeInv, TypeOK
<1>2. SandboxIsFenced'
  <2> SUFFICES ASSUME NEW t \in sandbox'
               PROVE  /\ pc'[t] \in {"execute", "fail", "end"} /\ ~integrated'[t]
                      /\ tStatus'[t] \in {"running", "cancelled"} \/ t \in cleanup'
                         \/ FailedOnItsOwn(t)'
                      /\ ctl'[t] \in Signals => t \in cleanup'
                      /\ pc'[t] = "fail" => err'[t] \in AllExecErrors \/ t \in cleanup'
      BY DEF SandboxIsFenced
  <2>1. t \in sandbox
        BY DEF Contains
  <2>2. rKey'[t] = rKey[t] => (FailedOnItsOwn(t)' <=> FailedOnItsOwn(t))
        BY DEF FailedOnItsOwn
  <2> QED BY <2>1, <2>2 DEF ContainmentInv, SandboxIsFenced, Contains
<1>3. \A t \in Attempt : /\ tStatus'[t] = "running" => t \in Running
                         /\ tStatus[t] = "cancelled" => tStatus'[t] = "cancelled"
      BY <1>0 DEF EndsAttempts, Running, Finished
<1>4. UNCHANGED tOwner
      BY <1>0 DEF EndsAttempts
<1>5. NoRetryBesideLiveSandbox'
  <2> SUFFICES ASSUME NEW t \in Attempt, NEW u \in Attempt, t \in sandbox', u \in Running',
                      t # u, tOwner'[t] = tOwner'[u]
               PROVE  tStatus'[t] = "cancelled" \/ FailedOnItsOwn(t)'
      BY DEF NoRetryBesideLiveSandbox
  <2>1. t \in sandbox /\ u \in Running /\ tOwner[t] = tOwner[u]
        BY <1>3, <1>4 DEF Contains, Running
  <2>2. tStatus[t] # "running"
        BY <2>1 DEF OwnershipInv, RunningAttemptOwnsAssignment, Running
  <2>3. FailedOnItsOwn(t) => FailedOnItsOwn(t)'
        BY <2>2 DEF Contains, FailedOnItsOwn
  <2> QED BY <1>3, <2>1, <2>3 DEF ContainmentInv, NoRetryBesideLiveSandbox
<1> QED BY <1>2, <1>5

\* A thread touches its own control, error and recovery only.
LEMMA ThreadIsItsOwn ==
    ASSUME OwnershipInv, NEW t \in Attempt, ThreadStep(t)
    PROVE  \A u \in Attempt : u # t =>
                /\ tStatus'[u] = tStatus[u] /\ pc'[u] = pc[u] /\ ctl'[u] = ctl[u]
                /\ err'[u] = err[u] /\ rKey'[u] = rKey[u] /\ integrated'[u] = integrated[u]
<1> USE DEF OwnershipInv, TypeInv, TypeOK
<1>0. EndThread(t) \/ (\E step : GoTo(t, step)) \/ \E e : FailWith(t, e)
      BY Zenon
      DEF ThreadStep, ExecuteReturns, SubmitResult, VerifyOrIntegrateErrs, StepErrs,
          CandidatePasses, CandidateFails, VerifierUnrunnable, LockIntegration, Integrate,
          CommitIntegration, AssembledStateFails, AcceptPlannedResult, FinishNoncurrent,
          RequireReconciliation, Fail, RetainNoncurrentResult
<1>1. \A u \in Attempt : u # t => pc'[u] = pc[u] /\ ctl'[u] = ctl[u] /\ err'[u] = err[u]
      BY <1>0 DEF EndThread, GoTo, FailWith
<1>2. \A u \in Attempt : u # t => rKey'[u] = rKey[u]
  <2>1. UNCHANGED rKey \/ (\E k, x : RecordRecovery(t, k, x)) \/ FailAttempt(t, err[t])
        BY Zenon
        DEF ThreadStep, ExecuteReturns, SubmitResult, VerifyOrIntegrateErrs,
            CandidatePasses, CandidateFails, VerifierUnrunnable, LockIntegration, Integrate,
            CommitIntegration, AssembledStateFails, AcceptPlannedResult, FinishNoncurrent,
            RequireReconciliation, Fail, RetainNoncurrentResult, RecoverFailedVerification,
            recoveryVars
  <2> QED BY <2>1 DEF FailAttempt, RecordRecovery, recoveryVars
<1>3. integrated' = integrated \/ \E v : integrated' = [integrated EXCEPT ![t] = v]
      BY Zenon
      DEF ThreadStep, ExecuteReturns, SubmitResult, VerifyOrIntegrateErrs,
          CandidatePasses, CandidateFails, VerifierUnrunnable, LockIntegration, Integrate,
          CommitIntegration, AssembledStateFails, AcceptPlannedResult, FinishNoncurrent,
          RequireReconciliation, Fail, RetainNoncurrentResult
<1>4. \A u \in Attempt : u # t => tStatus'[u] = tStatus[u]
      BY ThreadHolds DEF ReleaseSuccessfulAttempt, FailAttempt, Hold
<1> QED BY <1>1, <1>2, <1>3, <1>4

\* A thread that delivered a Result has no sandbox; one whose teardown was lost fails
\* on its own, or for a signal that left a cleanup behind.
LEMMA ThreadContains ==
    ASSUME OwnershipInv, SandboxIsFenced, NEW t \in Attempt, ThreadStep(t)
    PROVE  Contains /\ UNCHANGED <<wd, phase, cleanup>>
<1> USE DEF OwnershipInv, TypeInv, TypeOK
<1>1. UNCHANGED <<wd, phase, cleanup>>
      BY Zenon
      DEF ThreadStep, ExecuteReturns, SubmitResult, VerifyOrIntegrateErrs, CandidatePasses,
          CandidateFails, VerifierUnrunnable, LockIntegration, Integrate, CommitIntegration,
          AssembledStateFails, AcceptPlannedResult, FinishNoncurrent, RequireReconciliation,
          Fail, ThreadFrame
<1>2. \/ ExecuteReturns(t) \/ Fail(t)
      \/ UNCHANGED sandbox /\ pc[t] \notin {"execute", "fail", "end"}
      BY DEF ThreadStep, SubmitResult, VerifyOrIntegrateErrs, StepErrs, CandidatePasses,
             CandidateFails, VerifierUnrunnable, LockIntegration, Integrate, CommitIntegration,
             AssembledStateFails, AcceptPlannedResult, FinishNoncurrent, RequireReconciliation
<1>3. sandbox' \subseteq sandbox
      BY <1>2 DEF ExecuteReturns, Fail
<1>4. tStatus'[t] = "running" => tStatus[t] = "running"
      BY ThreadHolds DEF ReleaseSuccessfulAttempt, FailAttempt, Hold
<1>5. ASSUME t \in sandbox'
      PROVE  /\ pc'[t] \in {"fail", "end"} /\ integrated'[t] = integrated[t]
             /\ \/ tStatus'[t] = tStatus[t] /\ rKey'[t] = rKey[t]
                \/ t \in cleanup \/ FailedOnItsOwn(t)'
             /\ tStatus[t] # "running" => rKey'[t] = rKey[t]
             /\ ctl'[t] \in Signals => ctl'[t] = ctl[t]
             /\ pc'[t] = "fail" => err'[t] \in AllExecErrors \/ t \in cleanup
  <2>1. t \in sandbox /\ ~integrated[t]
        BY <1>3, <1>5 DEF SandboxIsFenced
  <2>2. CASE ExecuteReturns(t)
    <3>1. /\ UNCHANGED <<tStatus, rKey, integrated, ctl>>
          /\ \E e \in AllExecErrors \union Signals : FailWith(t, e) /\ (e \in Signals => e = ctl[t])
          BY <1>5, <2>2, ConstantsAssumption
          DEF ExecuteReturns, FailWith, GoTo, recoveryVars, holdVars, AllExecErrors, Signals
    <3>2. PICK e \in AllExecErrors \union Signals : FailWith(t, e) /\ (e \in Signals => e = ctl[t])
          BY <3>1
    <3>3. pc'[t] = "fail" /\ err'[t] = e
          BY <3>2 DEF FailWith
    <3>4. e \in Signals => t \in cleanup
          BY <2>1, <3>2 DEF SandboxIsFenced
    <3> QED BY <3>1, <3>2, <3>3, <3>4
  <2>3. CASE Fail(t)
    <3>1. /\ pc[t] = "fail" /\ FailAttempt(t, err[t]) /\ integrated' = integrated
          /\ pc'[t] = "end" /\ ctl'[t] = "none"
          BY <2>3 DEF Fail, EndThread
    <3>2. err[t] \in AllExecErrors \/ t \in cleanup
          BY <2>1, <3>1 DEF SandboxIsFenced
    <3>3. tStatus[t] # "running" => tStatus'[t] = tStatus[t] /\ rKey'[t] = rKey[t]
          BY <3>1 DEF FailAttempt, holdVars, recoveryVars
    <3>4. tStatus[t] = "running" => rKey'[t] = EquivalenceKey(err[t])
      <4>1. ~AcknowledgedState(t)
            BY <2>1 DEF AcknowledgedState
      <4>2. tStatus[t] = "running" => RecordRecovery(t, EquivalenceKey(err[t]), RecoveryAction(t, err[t]))
            BY Zenon, <3>1, <4>1 DEF FailAttempt
      <4> QED BY <4>2 DEF RecordRecovery
    <3>5. tStatus[t] = "running" /\ err[t] \in AllExecErrors => FailedOnItsOwn(t)'
          BY <3>4 DEF FailedOnItsOwn
    <3>6. "none" \notin Signals
          BY DEF Signals
    <3> QED BY <3>1, <3>2, <3>3, <3>5, <3>6
  <2>4. CASE UNCHANGED sandbox /\ pc[t] \notin {"execute", "fail", "end"}
        BY <2>1, <2>4 DEF SandboxIsFenced
  <2> QED BY <1>2, <2>2, <2>3, <2>4
<1>6. ASSUME NEW u \in sandbox', u # t
      PROVE  /\ pc'[u] \in {"execute", "fail", "end"} /\ integrated'[u] = integrated[u]
             /\ tStatus'[u] = tStatus[u] /\ rKey'[u] = rKey[u]
             /\ ctl'[u] = ctl[u] /\ pc'[u] = pc[u] /\ err'[u] = err[u]
  <2>1. u \in sandbox /\ u \in Attempt
        BY <1>3, <1>6
  <2> QED BY <1>6, <2>1, ThreadIsItsOwn DEF SandboxIsFenced
<1>7. \A u \in Attempt : tStatus'[u] = "running" => tStatus[u] = "running"
      BY <1>4, ThreadIsItsOwn
<1>8. \A u \in sandbox' :
        /\ pc'[u] \in {"execute", "fail", "end"} /\ integrated'[u] = integrated[u]
        /\ \/ tStatus'[u] = tStatus[u] /\ rKey'[u] = rKey[u]
           \/ tStatus'[u] = "cancelled" \/ u \in cleanup' \/ FailedOnItsOwn(u)'
        /\ tStatus[u] # "running" => rKey'[u] = rKey[u]
        /\ u \in cleanup => u \in cleanup'
        /\ ctl'[u] \in Signals => ctl'[u] = ctl[u] \/ u \in cleanup'
        /\ pc'[u] = "fail" => (pc[u] = "fail" /\ err'[u] = err[u]) \/ err'[u] \in AllExecErrors
                               \/ u \in cleanup'
      BY <1>1, <1>5, <1>6
<1> QED BY <1>1, <1>3, <1>7, <1>8 DEF Contains

\* Steps of others: no thread goes on but to its end, and where an Attempt is ended
\* without being cancelled a cleanup is pending.
Fences ==
    /\ sandbox' \subseteq sandbox /\ UNCHANGED integrated
    /\ \A u \in Attempt :
        /\ tStatus'[u] = "running" => tStatus[u] = "running"
        /\ pc'[u] \in {pc[u], "end"} /\ (pc'[u] = "fail" => err'[u] = err[u])
        /\ \/ tStatus'[u] = tStatus[u] /\ rKey'[u] = rKey[u]
           \/ tStatus'[u] = "cancelled" \/ u \in cleanup'
        /\ tStatus[u] # "running" => rKey'[u] = rKey[u]
        /\ u \in cleanup => u \in cleanup' \/ u \notin sandbox'
        /\ ctl'[u] \in Signals => ctl'[u] = ctl[u] \/ u \in cleanup'

LEMMA FencesContains ==
    ASSUME OwnershipInv, SandboxIsFenced, Fences PROVE Contains
<1>1. sandbox \subseteq Attempt
      BY DEF OwnershipInv, TypeInv, TypeOK
<1>2. \A u \in sandbox' : u \in Attempt /\ u \in sandbox
      BY <1>1 DEF Fences
<1> QED BY <1>2 DEF Fences, Contains, SandboxIsFenced

\* So do the Watchdog, the Principal, a crash and a restart: each leaves a cleanup
\* behind where it leaves a sandbox.
LEMMA OthersContain ==
    ASSUME OwnershipInv, ContainmentInv,
           \/ RouteOnly \/ \E a \in Assignment : BlockReadyAssignment(a)
           \/ \E t \in Attempt : ThreadError(t)
           \/ Watchdog \/ Principal \/ Crash \/ Restart \/ UNCHANGED vars
    PROVE  Fences /\ WatchdogHasFenced'
<1> USE DEF OwnershipInv, TypeInv, TypeOK, ContainmentInv
<1>0. "none" \notin Signals /\ "interrupted" \notin Signals
      BY DEF Signals
<1>1. CASE /\ UNCHANGED <<sandbox, pc, tStatus, cleanup, err, integrated, rKey>>
           /\ ctl' = ctl \/ \E ts : ctl' = Interrupted(ts)
           /\ wd' = wd \/ wd'.step \in {"idle", "fence"}
           /\ phase' = phase
           /\ phase = "up" \/ wd' = wd
  <2>1. \A u \in Attempt : ctl'[u] \in Signals => ctl'[u] = ctl[u]
        BY <1>0, <1>1 DEF Interrupted
  <2> QED BY <1>1, <2>1 DEF Fences, WatchdogHasFenced
<1>2. ASSUME NEW t \in Attempt, ThreadError(t) PROVE Fences /\ WatchdogHasFenced'
      BY <1>0, <1>2 DEF ThreadError, EndThread, Fences, WatchdogHasFenced, recoveryVars, holdVars
<1>3. CASE WatchdogFence
      BY <1>3 DEF WatchdogFence, WatchdogFrame, Idle, Fences, WatchdogHasFenced, recoveryVars,
                  holdVars
<1>4. CASE WatchdogFail
  <2>1. wd.attempt \in cleanup /\ wd.attempt \in Attempt
        BY <1>4 DEF WatchdogFail, WatchdogHasFenced
  <2>2. \A s \in Attempt : s # wd.attempt => tStatus'[s] = tStatus[s] /\ rKey'[s] = rKey[s]
        BY <1>4, <2>1 DEF WatchdogFail, FailAttempt, Hold, RecordRecovery, recoveryVars, holdVars
  <2>3. /\ tStatus'[wd.attempt] = "running" => tStatus[wd.attempt] = "running"
        /\ tStatus[wd.attempt] # "running" => rKey'[wd.attempt] = rKey[wd.attempt]
        BY <1>4 DEF WatchdogFail, FailAttempt, recoveryVars, holdVars
  <2>4. UNCHANGED <<sandbox, pc, err, integrated, cleanup, ctl, phase>> /\ wd'.attempt = wd.attempt
        BY <1>4 DEF WatchdogFail, WatchdogFrame
  <2>5. phase = "up"
        BY <1>4 DEF WatchdogFail
  <2> QED BY <2>1, <2>2, <2>3, <2>4, <2>5 DEF Fences, WatchdogHasFenced
<1>5. CASE WatchdogCleanup
      BY <1>5 DEF WatchdogCleanup, WatchdogFrame, Idle, Fences, WatchdogHasFenced, recoveryVars,
                  holdVars
<1>6. CASE CancelCommission \/ AcceptCommissionAmendment
  <2>1. \A u \in Attempt : ctl'[u] \in Signals => ctl'[u] = ctl[u]
        BY <1>0, <1>6 DEF CancelCommission, AcceptCommissionAmendment, RevokeAll, Interrupted
  <2>2. \A u \in Attempt :
            /\ tStatus'[u] = "running" => tStatus[u] = "running"
            /\ (tStatus'[u] = tStatus[u] /\ rKey'[u] = rKey[u]) \/ tStatus'[u] = "cancelled"
            /\ tStatus[u] # "running" => rKey'[u] = rKey[u]
        BY <1>6 DEF CancelCommission, AcceptCommissionAmendment, RevokeAll, Running, recoveryVars
  <2>3. UNCHANGED <<sandbox, pc, err, integrated, cleanup, wd, phase>>
        BY <1>6 DEF CancelCommission, AcceptCommissionAmendment, PrincipalFrame, threadVars
  <2> QED BY <2>1, <2>2, <2>3 DEF Fences, WatchdogHasFenced
<1>7. CASE Crash
      BY <1>0, <1>7 DEF Crash, Idle, Fences, WatchdogHasFenced, recoveryVars, holdVars
<1>8. CASE RecoverStrandedAttempts
  <2>1. \A u \in Attempt :
            /\ tStatus'[u] = "running" => tStatus[u] = "running"
            /\ (tStatus'[u] = tStatus[u] /\ rKey'[u] = rKey[u]) \/ u \in cleanup'
            /\ tStatus[u] # "running" => rKey'[u] = rKey[u]
        BY <1>8 DEF RecoverStrandedAttempts, Stranded, Running
  <2>2. UNCHANGED <<sandbox, pc, err, ctl, integrated, wd>> /\ cleanup \subseteq cleanup'
        BY <1>8 DEF RecoverStrandedAttempts, threadVars
  <2>3. phase # "up"
        BY <1>8 DEF RecoverStrandedAttempts
  <2> QED BY <2>1, <2>2, <2>3 DEF Fences, WatchdogHasFenced
<1>9. CASE StartupCleanup
  <2>1. UNCHANGED <<tStatus, rKey, pc, err, ctl, integrated, wd>>
        BY <1>9 DEF StartupCleanup, threadVars, recoveryVars, holdVars
  <2>2. sandbox' \subseteq sandbox /\ \A u \in cleanup : u \in cleanup' \/ u \notin sandbox'
        BY <1>9 DEF StartupCleanup
  <2>3. wd.step = "idle"
        BY <1>9 DEF StartupCleanup, WatchdogHasFenced
  <2> QED BY <2>1, <2>2, <2>3 DEF Fences, WatchdogHasFenced
<1>10. ASSUME NEW t \in Attempt, WatchdogObserve(t) PROVE Fences /\ WatchdogHasFenced'
      BY <1>1, <1>10 DEF WatchdogObserve, WatchdogFrame, recoveryVars, holdVars
<1> QED BY <1>1, <1>2, <1>3, <1>4, <1>5, <1>6, <1>7, <1>8, <1>9, <1>10
        DEF RouteOnly, BlockReadyAssignment, Watchdog, Principal, PauseCommission,
            ResumeCommission, ChangeDispatchState, InterruptWorker, RetryWorker,
            AmendVerification, PrincipalFrame, Restart, vars, threadVars, recoveryVars, holdVars

\* Dispatch passes over an Assignment with a pending cleanup.
LEMMA StartKeepsContainment ==
    ASSUME OwnershipInv, ContainmentInv, NEW a \in Assignment, NEW c \in Configs,
           StartAttempt(a, c)
    PROVE  ContainmentInv'
<1> USE DEF OwnershipInv, TypeInv, TypeOK
<1>1. PICK n \in Attempt : n = Cardinality(Started) + 1
      BY DEF StartAttempt
<1>2. /\ tStatus' = [tStatus EXCEPT ![n] = "running"] /\ tOwner' = [tOwner EXCEPT ![n] = a]
      /\ pc' = [pc EXCEPT ![n] = "execute"] /\ sandbox' = sandbox \union {n}
      /\ ctl' = [ctl EXCEPT ![n] = "live"]
      /\ UNCHANGED <<cleanup, wd, phase, rKey, err, integrated>>
      BY <1>1 DEF StartAttempt, Hold
<1>3. tStatus[n] = "none"
      BY <1>1, NextAttemptIsNew
<1>4. aStatus[a] \in {"ready", "attention_required"} /\ AttemptsOf(a) \intersect cleanup = {}
      BY RoutingMovesWaiting DEF StartAttempt, FrontierSelects, Candidates
<1>5. \A t \in Attempt : tOwner[t] = a => tStatus[t] # "running" /\ t \notin cleanup
      BY <1>4 DEF RunningAttemptOwnsAssignment, Running, AttemptsOf
<1>8. \A t \in Attempt : FailedOnItsOwn(t)' <=> FailedOnItsOwn(t)
      BY <1>2 DEF FailedOnItsOwn
<1>9. ~integrated[n]
      BY <1>3 DEF ContainmentInv, IntegratedIsFinishing
<1>6. SandboxIsFenced' /\ WatchdogHasFenced'
  <2>1. WatchdogHasFenced'
        BY <1>2 DEF ContainmentInv, WatchdogHasFenced
  <2>2. /\ pc'[n] = "execute" /\ tStatus'[n] = "running" /\ ctl'[n] = "live" /\ "live" \notin Signals
        BY <1>2 DEF Signals
  <2>3. \A t \in Attempt : t # n =>
            pc'[t] = pc[t] /\ tStatus'[t] = tStatus[t] /\ ctl'[t] = ctl[t]
        BY <1>2
  <2> QED BY <1>2, <1>8, <1>9, <2>1, <2>2, <2>3 DEF ContainmentInv, SandboxIsFenced
<1>7. NoRetryBesideLiveSandbox'
  <2> SUFFICES ASSUME NEW t \in Attempt, NEW u \in Attempt, t \in sandbox', u \in Running',
                      t # u, tOwner'[t] = tOwner'[u]
               PROVE  tStatus'[t] = "cancelled" \/ FailedOnItsOwn(t)'
      BY DEF NoRetryBesideLiveSandbox
  <2>1. tStatus'[u] = "running"
        BY DEF Running
  <2>2. CASE u = n
    <3>1. t \in sandbox /\ tOwner[t] = a /\ tStatus'[t] = tStatus[t]
          BY <1>2, <2>2
    <3> QED BY <1>5, <1>8, <3>1 DEF ContainmentInv, SandboxIsFenced
  <2>3. CASE u # n
    <3>1. u \in Running /\ tOwner'[u] = tOwner[u]
          BY <1>2, <2>1, <2>3 DEF Running
    <3>2. t # n
          BY <1>2, <1>5, <3>1 DEF Running
    <3>3. t \in sandbox /\ tOwner[t] = tOwner[u] /\ tStatus'[t] = tStatus[t]
          BY <1>2, <3>1, <3>2
    <3> QED BY <1>8, <3>1, <3>3 DEF ContainmentInv, NoRetryBesideLiveSandbox
  <2> QED BY <2>2, <2>3
<1>10. IntegratedIsFinishing'
      BY FinishingKept DEF ContainmentInv, Next, Dispatch
<1> QED BY <1>6, <1>7, <1>10 DEF ContainmentInv

\* Containment is inductive beside ownership.
LEMMA ContainmentKept == OwnershipInv /\ ContainmentInv /\ [Next]_vars => ContainmentInv'
<1> SUFFICES ASSUME OwnershipInv, ContainmentInv, [Next]_vars PROVE ContainmentInv'
    OBVIOUS
<1>1. ASSUME NEW a \in Assignment, NEW c \in Configs, StartAttempt(a, c) PROVE ContainmentInv'
      BY <1>1, StartKeepsContainment
<1>2. ASSUME NEW t \in Attempt, ThreadStep(t) PROVE ContainmentInv'
      BY <1>2, ThreadContains, ContainsKeeps, FinishingKept DEF ContainmentInv, WatchdogHasFenced
<1>3. ASSUME Fences /\ WatchdogHasFenced' PROVE ContainmentInv'
      BY <1>3, FencesContains, ContainsKeeps, FinishingKept DEF ContainmentInv
<1> QED BY <1>1, <1>2, <1>3, OthersContain DEF Next, Dispatch

\* An accepted Commission starts without a sandbox.
LEMMA InitContainment == Init => ContainmentInv
BY DEF Init, ContainmentInv, SandboxIsFenced, WatchdogHasFenced, NoRetryBesideLiveSandbox, Idle,
       IntegratedIsFinishing

\* An Attempt that the Watchdog contained or that a crash stranded is retried only
\* after its sandbox is gone (sandbox_cleanups, watchdog_sweep, recover_stranded_attempts):
\* what leaves a sandbox beside a successor is a cancellation by the Principal, or a
\* teardown that the Attempt's own failing thread lost.
THEOREM ContainmentCorrect == Spec => []NoRetryBesideLiveSandbox
<1>1. ContainmentInv => NoRetryBesideLiveSandbox
      BY DEF ContainmentInv
<1> QED BY <1>1, InitOwnership, OwnershipKept, InitContainment, ContainmentKept, PTL DEF Spec

(***************************************************************************)
(* The plan: what is planned beside it, and what supersedes what.          *)
(***************************************************************************)

\* No Assignment comes into being, and none changes its group.
PlansNothing ==
    /\ UNCHANGED <<group, plannedGroup>>
    /\ \A b \in Assignment : aStatus'[b] = "none" <=> aStatus[b] = "none"

SupersedesNothing ==
    \A b \in Assignment : aStatus'[b] = "superseded" => aStatus[b] = "superseded"

\* fail_attempt moves the Attempt's Assignment to one of these.
LEMMA FailurePlansNothing ==
    ASSUME OwnershipInv, NEW t \in Attempt, NEW e, FailAttempt(t, e)
    PROVE  /\ \A b \in Assignment : aStatus'[b] = "none" <=> aStatus[b] = "none"
           /\ SupersedesNothing
<1>1. CASE tStatus[t] # "running"
      BY <1>1 DEF FailAttempt, SupersedesNothing
<1>2. CASE tStatus[t] = "running"
  <2>1. aStatus[tOwner[t]] = "running" /\ tOwner[t] \in Assignment
        BY <1>2 DEF OwnershipInv, Running, TypeInv, RunningAttemptOwnsAssignment,
                    RunningWasStarted
  <2>2. StatusAfterFailure(t, e) \in {"verification_failed", "ready", "attention_required",
                                      "resource_blocked"}
        BY DEF StatusAfterFailure
  <2>3. aStatus' = [aStatus EXCEPT ![tOwner[t]] = StatusAfterFailure(t, e)]
        BY <1>2 DEF FailAttempt
  <2> QED BY <2>1, <2>2, <2>3 DEF SupersedesNothing, OwnershipInv, TypeInv, TypeOK
<1> QED BY <1>1, <1>2

\* Only a failed verification and a reconciliation plan an Assignment, and only the
\* former and an acceptance supersede one.
LEMMA PlanStep ==
    ASSUME OwnershipInv, [Next]_vars
    PROVE  \/ PlansNothing /\ SupersedesNothing
           \/ PlansNothing /\ \E t \in Attempt : AcceptPlannedResult(t)
           \/ \E t \in Attempt : CandidateFails(t) \/ (RequireReconciliation(t) /\ IsCurrent(t))
<1> USE DEF OwnershipInv, TypeInv, TypeOK
<1>1. CASE UNCHANGED <<group, plannedGroup, aStatus>>
      BY <1>1 DEF PlansNothing, SupersedesNothing
<1>2. ASSUME NEW t \in Attempt, ThreadStep(t), ~CandidateFails(t),
             ~(RequireReconciliation(t) /\ IsCurrent(t)), ~AcceptPlannedResult(t)
      PROVE  PlansNothing /\ SupersedesNothing
  <2>1. CASE Fail(t)
        BY <2>1, FailurePlansNothing DEF Fail, PlansNothing
  <2>2. CASE VerifierUnrunnable(t)
    <3>1. UNCHANGED <<group, plannedGroup>>
          BY <2>2 DEF VerifierUnrunnable
    <3>2. tOwner[t] \in Assignment /\ aStatus[tOwner[t]] = "running"
          BY <2>2 DEF VerifierUnrunnable, IsCurrent, AttemptContinuation, RunningWasStarted
    <3>3. UNCHANGED aStatus \/ aStatus' = [aStatus EXCEPT ![tOwner[t]] = "verification_failed"]
          BY <2>2 DEF VerifierUnrunnable
    <3> QED BY <3>1, <3>2, <3>3 DEF PlansNothing, SupersedesNothing
  <2>3. CASE UNCHANGED <<group, plannedGroup, aStatus>>
        BY <2>3 DEF PlansNothing, SupersedesNothing
  <2> QED BY <1>2, <2>1, <2>2, <2>3, Zenon
          DEF ThreadStep, ExecuteReturns, SubmitResult, RetainNoncurrentResult,
              VerifyOrIntegrateErrs, CandidatePasses, LockIntegration, Integrate,
              CommitIntegration, AssembledStateFails, FinishNoncurrent, RequireReconciliation
<1>3. ASSUME NEW t \in Attempt, AcceptPlannedResult(t) PROVE PlansNothing
  <2>1. aStatus[tOwner[t]] = "running" /\ UNCHANGED <<group, plannedGroup>>
        BY <1>3 DEF AcceptPlannedResult, IsCurrent, AttemptContinuation
  <2>2. \A b \in Assignment : \/ aStatus'[b] = aStatus[b]
                              \/ aStatus'[b] = "accepted" /\ b = tOwner[t]
                              \/ aStatus'[b] = "superseded" /\ aStatus[b] = "verification_failed"
        BY <1>3 DEF AcceptPlannedResult, StatusAfterAccepting
  <2> QED BY <2>1, <2>2 DEF PlansNothing
<1>4. \A b \in Assignment : \/ RoutedStatus[b] = aStatus[b]
                            \/ /\ aStatus[b] \in {"ready", "attention_required"}
                               /\ RoutedStatus[b] \in {"ready", "attention_required"}
      BY DEF RoutedStatus, Routed
<1>5. CASE RouteOnly
      BY <1>4, <1>5 DEF RouteOnly, PlansNothing, SupersedesNothing
<1>6. ASSUME NEW a \in Assignment, BlockReadyAssignment(a) PROVE PlansNothing /\ SupersedesNothing
      BY <1>4, <1>6, RoutedTyped
      DEF BlockReadyAssignment, FrontierSelects, Candidates, PlansNothing, SupersedesNothing
<1>7. ASSUME NEW a \in Assignment, NEW c \in Configs, StartAttempt(a, c)
      PROVE  PlansNothing /\ SupersedesNothing
      BY <1>4, <1>7, RoutedTyped
      DEF StartAttempt, FrontierSelects, Candidates, PlansNothing, SupersedesNothing
<1>8. CASE WatchdogFail
      BY <1>8, FailurePlansNothing DEF WatchdogFail, WatchdogFrame, PlansNothing, WatchdogHasTarget
<1>9. CASE CancelCommission
      BY <1>9 DEF CancelCommission, PlansNothing, SupersedesNothing
<1>10. ASSUME NEW a \in Assignment, RetryWorker(a) PROVE PlansNothing /\ SupersedesNothing
      BY <1>10 DEF RetryWorker, PlansNothing, SupersedesNothing
<1>11. CASE AmendVerification
      BY <1>11 DEF AmendVerification, PlansNothing, SupersedesNothing
<1>12. CASE AcceptCommissionAmendment
      BY <1>12 DEF AcceptCommissionAmendment, PlansNothing, SupersedesNothing
<1>13. CASE RecoverStrandedAttempts
  <2>1. \A t : StatusAfterRestart(t) \in {"verification_failed", "ready", "attention_required",
                                          "resource_blocked"}
        BY DEF StatusAfterRestart
  <2>2. \A b \in Assignment : \/ aStatus'[b] = aStatus[b]
                              \/ aStatus[b] = "running" /\ \E t : aStatus'[b] = StatusAfterRestart(t)
        BY <1>13 DEF RecoverStrandedAttempts
  <2>3. UNCHANGED <<group, plannedGroup>>
        BY <1>13 DEF RecoverStrandedAttempts
  <2> QED BY <2>1, <2>2, <2>3 DEF PlansNothing, SupersedesNothing
<1>14. CASE UNCHANGED vars
      BY <1>1, <1>14 DEF vars
<1>15. CASE Next
      BY <1>15, <1>1, <1>2, <1>3, <1>5, <1>6, <1>7, <1>8, <1>9, <1>10, <1>11, <1>12, <1>13, Zenon
      DEF Next, Dispatch, ThreadError, Watchdog, WatchdogObserve, WatchdogFence, WatchdogCleanup,
          WatchdogFrame, Principal, PauseCommission, ResumeCommission, ChangeDispatchState,
          InterruptWorker, Crash, Restart, StartupCleanup
<1> QED BY <1>14, <1>15

\* What the two planning steps do: the Attempt t of a is over, and t itself is planned.
LEMMA FailedVerificationPlans ==
    ASSUME OwnershipInv, NEW t \in Attempt, CandidateFails(t)
    PROVE  /\ Dispatchable /\ aStatus[t] = "none" /\ t \in Assignment /\ UNCHANGED cStatus
           /\ tOwner[t] \in Assignment /\ tOwner[t] # t /\ tOwner' = tOwner
           /\ \/ PlansNothing /\ SupersedesNothing
              \/ /\ aStatus' = [aStatus EXCEPT ![tOwner[t]] = "superseded", ![t] = "ready"]
                 /\ plannedGroup' = [plannedGroup EXCEPT ![t] = plannedGroup[tOwner[t]]]
                 /\ group' = [group EXCEPT ![t] = plannedGroup[tOwner[t]]]
<1> USE DEF OwnershipInv, TypeInv, TypeOK
<1>1. /\ Dispatchable /\ tStatus[t] = "running" /\ aStatus[tOwner[t]] = "running"
      /\ tOwner[t] \in Assignment /\ t \in Assignment
      BY DEF CandidateFails, IsCurrent, AttemptContinuation, RunningWasStarted, Assignment
<1>2. aStatus[t] = "none" /\ tOwner[t] # t
      BY <1>1 DEF NothingPlannedYet
<1>3. UNCHANGED <<cStatus, tOwner>>
      BY DEF CandidateFails, ThreadFrame
<1>4. RecoverFailedVerification(t)
      BY DEF CandidateFails
<1>5. ASSUME NEW s \in {"verification_failed", "ready"}, UNCHANGED <<group, plannedGroup>>,
             aStatus' = [aStatus EXCEPT ![tOwner[t]] = s]
      PROVE  PlansNothing /\ SupersedesNothing
      BY <1>1, <1>5 DEF PlansNothing, SupersedesNothing
<1> QED BY <1>1, <1>2, <1>3, <1>4, <1>5 DEF RecoverFailedVerification, InsertReadyAssignment

\* A reconciliation is planned beside the Assignment it reconciles.
LEMMA ReconciliationPlans ==
    ASSUME OwnershipInv, NEW t \in Attempt, RequireReconciliation(t), IsCurrent(t)
    PROVE  /\ Dispatchable /\ aStatus[t] = "none" /\ t \in Assignment /\ UNCHANGED cStatus
           /\ tOwner[t] \in Assignment /\ tOwner[t] # t /\ tOwner' = tOwner
           /\ aStatus' = [aStatus EXCEPT ![tOwner[t]] = "verification_failed", ![t] = "ready"]
           /\ plannedGroup' = [plannedGroup EXCEPT ![t] = tOwner[t]]
           /\ group' = [group EXCEPT ![tOwner[t]] = tOwner[t], ![t] = tOwner[t]]
<1> USE DEF OwnershipInv, TypeInv, TypeOK
<1>1. /\ Dispatchable /\ tStatus[t] = "running" /\ aStatus[tOwner[t]] = "running"
      /\ tOwner[t] \in Assignment /\ t \in Assignment
      BY DEF IsCurrent, AttemptContinuation, RunningWasStarted, Assignment
<1>2. aStatus[t] = "none" /\ tOwner[t] # t
      BY <1>1 DEF NothingPlannedYet
<1> QED BY <1>1, <1>2 DEF RequireReconciliation, InsertReadyAssignment, ThreadFrame

\* What was planned stays planned, for the same group and by the same Attempt.
LEMMA PlanGrows ==
    ASSUME OwnershipInv, [Next]_vars
    PROVE  /\ \A a \in Assignment : aStatus[a] # "none" =>
                    aStatus'[a] # "none" /\ plannedGroup'[a] = plannedGroup[a]
           /\ \A t \in Attempt : aStatus[t] # "none" => tOwner'[t] = tOwner[t]
<1> USE DEF OwnershipInv, TypeInv, TypeOK
<1>1. \A a \in Assignment : aStatus[a] # "none" =>
            aStatus'[a] # "none" /\ plannedGroup'[a] = plannedGroup[a]
  <2>1. CASE PlansNothing
        BY <2>1 DEF PlansNothing
  <2>2. ASSUME NEW t \in Attempt, CandidateFails(t), ~PlansNothing
        PROVE  \A a \in Assignment : aStatus[a] # "none" =>
                    aStatus'[a] # "none" /\ plannedGroup'[a] = plannedGroup[a]
        BY <2>2, FailedVerificationPlans
  <2>3. ASSUME NEW t \in Attempt, RequireReconciliation(t), IsCurrent(t)
        PROVE  \A a \in Assignment : aStatus[a] # "none" =>
                    aStatus'[a] # "none" /\ plannedGroup'[a] = plannedGroup[a]
        BY <2>3, ReconciliationPlans
  <2> QED BY <2>1, <2>2, <2>3, PlanStep
<1>2. ASSUME NEW n \in Attempt, NEW a \in Assignment, StartsAttempt(n, a)
      PROVE  \A t \in Attempt : aStatus[t] # "none" => tOwner'[t] = tOwner[t]
      BY <1>2, NextAttemptIsNew DEF StartsAttempt, NothingPlannedYet
<1> QED BY <1>1, <1>2, EveryStep DEF EndsAttempts

(***************************************************************************)
(* Explanation.                                                            *)
(***************************************************************************)

\* What StoppedIsExplained says of one Assignment.
Explained(a) ==
    /\ aStatus[a] = "resource_blocked" => a \in blockers
    /\ aStatus[a] = "attention_required" => \E c \in AttentionCodes : <<a, c>> \in attention
    /\ aStatus[a] = "verification_failed" =>
          \/ a \in blockers
          \/ \E t \in AttemptsOf(a) : aStatus[t] # "none" /\ plannedGroup[t] = a

ExplanationInv == IntegratedIsFinishing /\ StoppedIsExplained

\* An Assignment that stays as it is keeps its open conditions.
KeepsWhy(a) ==
    /\ aStatus'[a] = aStatus[a]
    /\ \A c \in AttentionCodes : <<a, c>> \in attention => <<a, c>> \in attention'

\* Blockers stay, and what moves is explained afresh.
Explains == blockers \subseteq blockers' /\ \A a \in Assignment : KeepsWhy(a) \/ Explained(a)'

\* Such a step keeps every explanation: what was planned in an Assignment's stead
\* stays planned.
LEMMA ExplainsKeeps ==
    ASSUME OwnershipInv, StoppedIsExplained, [Next]_vars, Explains
    PROVE  StoppedIsExplained'
<1>1. ASSUME NEW a \in Assignment, KeepsWhy(a) PROVE Explained(a)'
  <2>1. Explained(a)
        BY DEF StoppedIsExplained, Explained
  <2>2. ASSUME NEW t \in AttemptsOf(a), aStatus[t] # "none", plannedGroup[t] = a
        PROVE  t \in AttemptsOf(a)' /\ aStatus'[t] # "none" /\ plannedGroup'[t] = a
        BY <2>2, PlanGrows DEF AttemptsOf, Assignment
  <2> QED BY <1>1, <2>1, <2>2 DEF Explained, KeepsWhy, Explains
<1> QED BY <1>1 DEF Explains, StoppedIsExplained, Explained

\* A status of its own needs no explanation.
LEMMA MovedOn ==
    ASSUME NEW a, aStatus'[a] \notin {"resource_blocked", "attention_required",
                                      "verification_failed"}
    PROVE  Explained(a)'
BY DEF Explained

\* Routing keeps what it does not move, and what it moves is ready or waits for a
\* configuration.
LEMMA RoutingExplains ==
    ASSUME OwnershipInv, NEW a \in Assignment, aStatus'[a] = RoutedStatus[a],
           attention' = RoutedAttention
    PROVE  KeepsWhy(a) \/ Explained(a)'
<1>1. CASE a \notin Routed
      BY <1>1 DEF RoutedStatus, RoutedAttention, KeepsWhy
<1>2. CASE a \in Routed /\ Eligible(a) = {}
  <2>1. <<a, RoutingCode>> \in attention' /\ RoutingCode \in AttentionCodes
        BY <1>2 DEF RoutedAttention, RoutingCode, AttentionCodes
  <2>2. aStatus'[a] = "attention_required"
        BY <1>2 DEF RoutedStatus
  <2> QED BY <2>1, <2>2 DEF Explained
<1>3. CASE a \in Routed /\ Eligible(a) # {}
      BY <1>3, MovedOn DEF RoutedStatus
<1> QED BY <1>1, <1>2, <1>3

\* fail_attempt explains where it leaves the Assignment; an interruption, which
\* leaves no Blocker, does not meet integrated work.
LEMMA FailureExplains ==
    ASSUME OwnershipInv, NEW t \in Attempt, NEW e, FailAttempt(t, e),
           e = "interrupted" => ~integrated[t]
    PROVE  Explains
<1> USE DEF OwnershipInv, TypeInv, TypeOK
<1>1. CASE tStatus[t] # "running"
      BY <1>1 DEF FailAttempt, Explains, KeepsWhy
<1>2. CASE tStatus[t] = "running"
  <2>1. PICK a \in Assignment : a = tOwner[t]
        BY <1>2 DEF RunningWasStarted
  <2>2. blockers \subseteq blockers' /\ attention \subseteq attention'
        BY <1>2 DEF FailAttempt
  <2>3. \A b \in Assignment : b # a => KeepsWhy(b)
        BY <1>2, <2>1, <2>2 DEF FailAttempt, KeepsWhy
  <2>4. aStatus'[a] = StatusAfterFailure(t, e)
        BY <1>2, <2>1 DEF FailAttempt
  <2>5. RecoveryAction(t, e) = "block" /\ e # "interrupted" => a \in blockers'
        BY <1>2, <2>1 DEF FailAttempt
  <2>6. RecoveryAction(t, e) = "replan" \/ e = "interrupted" =>
            \E c \in AttentionCodes : <<a, c>> \in attention'
        BY <1>2, <2>1 DEF FailAttempt, AttentionCodes
  <2>7. \/ StatusAfterFailure(t, e) \in {"verification_failed", "resource_blocked"}
            /\ RecoveryAction(t, e) = "block" /\ e # "interrupted"
        \/ StatusAfterFailure(t, e) = "attention_required"
            /\ (RecoveryAction(t, e) = "replan" \/ e = "interrupted")
        \/ StatusAfterFailure(t, e) = "ready"
        BY DEF StatusAfterFailure, RecoveryAction, TransientAction, Transient, Signals,
               AcknowledgedState
  <2>8. Explained(a)'
        BY <2>4, <2>5, <2>6, <2>7 DEF Explained
  <2> QED BY <2>2, <2>3, <2>8 DEF Explains
<1> QED BY <1>1, <1>2

\* A thread that stops its Assignment leaves a Blocker or a reconciliation.
LEMMA ThreadExplains ==
    ASSUME OwnershipInv, ExplanationInv, NEW t \in Attempt, ThreadStep(t)
    PROVE  Explains
<1> USE DEF OwnershipInv, TypeInv, TypeOK
<1>1. CASE UNCHANGED <<aStatus, attention, blockers>>
      BY <1>1 DEF Explains, KeepsWhy
<1>2. CASE Fail(t)
  <2>1. ~integrated[t]
        BY <1>2 DEF Fail, ExplanationInv, IntegratedIsFinishing
  <2> QED BY <1>2, <2>1, FailureExplains DEF Fail
<1>3. CASE VerifierUnrunnable(t)
  <2>1. PICK a \in Assignment : a = tOwner[t]
        BY <1>3 DEF VerifierUnrunnable, IsCurrent, AttemptContinuation, RunningWasStarted
  <2>2. CASE tOwner[t] \in blockers
        BY <1>1, <1>3, <2>2 DEF VerifierUnrunnable
  <2>3. CASE tOwner[t] \notin blockers
    <3>1. /\ aStatus' = [aStatus EXCEPT ![a] = "verification_failed"]
          /\ blockers' = blockers \union {a} /\ UNCHANGED attention
          BY <1>3, <2>1, <2>3 DEF VerifierUnrunnable
    <3>2. Explained(a)'
          BY <3>1 DEF Explained
    <3> QED BY <3>1, <3>2 DEF Explains, KeepsWhy
  <2> QED BY <2>2, <2>3
<1>4. CASE CandidateFails(t)
  <2>1. PICK a \in Assignment : a = tOwner[t]
        BY <1>4, FailedVerificationPlans
  <2>2. UNCHANGED attention /\ blockers \subseteq blockers'
        BY <1>4 DEF CandidateFails, RecoverFailedVerification
  <2>3. \A b \in Assignment : b # a /\ b # t => aStatus'[b] = aStatus[b]
        BY <1>4, <2>1 DEF CandidateFails, RecoverFailedVerification
  <2>4. t \in Assignment /\ a # t
        BY <1>4, <2>1, FailedVerificationPlans
  <2>5. \/ aStatus'[a] = "verification_failed" /\ a \in blockers'
        \/ aStatus'[a] \in {"ready", "superseded"}
        BY <1>4, <2>1, <2>4 DEF CandidateFails, RecoverFailedVerification
  <2>6. aStatus'[t] = aStatus[t] \/ aStatus'[t] = "ready"
        BY <1>4, <2>1, <2>4 DEF CandidateFails, RecoverFailedVerification
  <2>7. Explained(a)' /\ (KeepsWhy(t) \/ Explained(t)')
        BY <2>2, <2>5, <2>6 DEF Explained, KeepsWhy
  <2> QED BY <2>2, <2>3, <2>7 DEF Explains, KeepsWhy
<1>5. CASE RequireReconciliation(t) /\ IsCurrent(t)
  <2>1. PICK a \in Assignment : a = tOwner[t]
        BY <1>5, ReconciliationPlans
  <2>2. /\ UNCHANGED <<attention, blockers, tOwner>> /\ t \in Assignment /\ a # t
        /\ aStatus' = [aStatus EXCEPT ![a] = "verification_failed", ![t] = "ready"]
        /\ plannedGroup' = [plannedGroup EXCEPT ![t] = a]
        BY <1>5, <2>1, ReconciliationPlans DEF RequireReconciliation
  <2>3. t \in AttemptsOf(a)' /\ aStatus'[t] = "ready" /\ plannedGroup'[t] = a
        BY <2>1, <2>2 DEF AttemptsOf
  <2>4. Explained(a)' /\ Explained(t)'
        BY <2>2, <2>3 DEF Explained
  <2> QED BY <2>2, <2>4 DEF Explains, KeepsWhy
<1>6. CASE AcceptPlannedResult(t)
  <2>1. UNCHANGED <<attention, blockers>>
        BY <1>6 DEF AcceptPlannedResult
  <2>2. \A b \in Assignment : aStatus'[b] = aStatus[b] \/ aStatus'[b] \in {"accepted", "superseded"}
        BY <1>6 DEF AcceptPlannedResult, StatusAfterAccepting
  <2>3. \A b \in Assignment : KeepsWhy(b) \/ Explained(b)'
        BY <2>1, <2>2, MovedOn DEF KeepsWhy
  <2> QED BY <2>1, <2>3 DEF Explains
<1> QED BY <1>1, <1>2, <1>3, <1>4, <1>5, <1>6, Zenon
        DEF ThreadStep, ExecuteReturns, SubmitResult, RetainNoncurrentResult,
            VerifyOrIntegrateErrs, CandidatePasses, LockIntegration, Integrate,
            CommitIntegration, AssembledStateFails, FinishNoncurrent, RequireReconciliation

\* A restart that stops an Assignment leaves a Blocker, or asks for a new plan.
LEMMA RestartExplains ==
    ASSUME OwnershipInv, RecoverStrandedAttempts
    PROVE  Explains
<1> USE DEF OwnershipInv, TypeInv, TypeOK
<1>1. blockers \subseteq blockers' /\ attention \subseteq attention'
      BY DEF RecoverStrandedAttempts
<1>2. SUFFICES ASSUME NEW a \in Assignment, aStatus'[a] # aStatus[a] PROVE Explained(a)'
      BY <1>1 DEF Explains, KeepsWhy
<1>3. /\ AttemptsOf(a) \intersect Stranded # {}
      /\ aStatus'[a] = StatusAfterRestart(CHOOSE t \in AttemptsOf(a) \intersect Stranded : TRUE)
      BY <1>2 DEF RecoverStrandedAttempts
<1>4. PICK t \in AttemptsOf(a) \intersect Stranded : aStatus'[a] = StatusAfterRestart(t)
      BY <1>3
<1>5. tOwner[t] = a /\ t \in Stranded
      BY <1>4 DEF AttemptsOf
<1>6. RestartAction(t) = "block" => a \in blockers'
      BY <1>5 DEF RecoverStrandedAttempts, BlockedByRestart
<1>7. RestartAction(t) = "replan" => <<a, "replan_required">> \in attention'
      BY <1>5 DEF RecoverStrandedAttempts
<1>8. \/ StatusAfterRestart(t) \in {"verification_failed", "resource_blocked"}
            /\ RestartAction(t) = "block"
      \/ StatusAfterRestart(t) = "attention_required" /\ RestartAction(t) = "replan"
      \/ StatusAfterRestart(t) = "ready"
      BY DEF StatusAfterRestart, RestartAction
<1> QED BY <1>4, <1>6, <1>7, <1>8 DEF Explained, AttentionCodes

\* Every step explains what it stops.
LEMMA StepExplains ==
    ASSUME OwnershipInv, ExplanationInv, [Next]_vars
    PROVE  Explains
<1> USE DEF OwnershipInv, TypeInv, TypeOK
<1>1. CASE UNCHANGED <<aStatus, attention, blockers>>
      BY <1>1 DEF Explains, KeepsWhy
<1>2. CASE RouteOnly
      BY <1>2, RoutingExplains DEF RouteOnly, Explains
<1>3. ASSUME NEW a \in Assignment, BlockReadyAssignment(a) PROVE Explains
  <2>1. /\ aStatus' = [RoutedStatus EXCEPT ![a] = "resource_blocked"]
        /\ attention' = RoutedAttention /\ blockers' = blockers \union {a}
        BY <1>3 DEF BlockReadyAssignment
  <2>2. \A b \in Assignment : b # a => aStatus'[b] = RoutedStatus[b]
        BY <2>1, RoutedTyped
  <2>3. aStatus'[a] = "resource_blocked"
        BY <2>1, RoutedTyped
  <2>4. Explained(a)'
        BY <2>1, <2>3 DEF Explained
  <2> QED BY <2>1, <2>2, <2>4, RoutingExplains DEF Explains
<1>4. ASSUME NEW a \in Assignment, NEW c \in Configs, StartAttempt(a, c) PROVE Explains
  <2>1. /\ aStatus' = [RoutedStatus EXCEPT ![a] = "running"]
        /\ attention' = RoutedAttention /\ UNCHANGED blockers
        BY <1>4 DEF StartAttempt
  <2>2. \A b \in Assignment : b # a => aStatus'[b] = RoutedStatus[b]
        BY <2>1, RoutedTyped
  <2>3. aStatus'[a] = "running"
        BY <2>1, RoutedTyped
  <2>4. Explained(a)'
        BY <2>3, MovedOn
  <2> QED BY <2>1, <2>2, <2>4, RoutingExplains DEF Explains
<1>5. CASE WatchdogFail
  <2>1. wd.signal # "interrupted" /\ wd.attempt \in Attempt
        BY <1>5 DEF WatchdogFail, Signals, WatchdogHasTarget
  <2> QED BY <1>5, <2>1, FailureExplains DEF WatchdogFail
<1>6. ASSUME UNCHANGED <<attention, blockers>>,
             \A b \in Assignment : aStatus'[b] \in {aStatus[b], "ready", "cancelled"}
      PROVE  Explains
      BY <1>6, MovedOn DEF Explains, KeepsWhy
<1>7. CASE CancelCommission
      BY <1>6, <1>7 DEF CancelCommission
<1>8. ASSUME NEW a \in Assignment, RetryWorker(a) PROVE Explains
  <2>1. aStatus' = [aStatus EXCEPT ![a] = "ready"] /\ UNCHANGED blockers
        /\ attention' = attention \ {<<a, "worker_interrupted">>}
        BY <1>8 DEF RetryWorker
  <2>2. \A b \in Assignment : b # a => KeepsWhy(b)
        BY <2>1 DEF KeepsWhy
  <2>3. Explained(a)'
        BY <2>1, MovedOn
  <2> QED BY <2>1, <2>2, <2>3 DEF Explains
<1>9. CASE AmendVerification
      BY <1>6, <1>9 DEF AmendVerification
<1>10. CASE AcceptCommissionAmendment
      BY <1>6, <1>10 DEF AcceptCommissionAmendment
<1>11. CASE UNCHANGED vars
      BY <1>1, <1>11 DEF vars
<1>12. CASE Next
      BY <1>12, <1>1, <1>2, <1>3, <1>4, <1>5, <1>7, <1>8, <1>9, <1>10, ThreadExplains,
         RestartExplains, Zenon
      DEF Next, Dispatch, ThreadError, Watchdog, WatchdogObserve, WatchdogFence, WatchdogCleanup,
          Principal, PauseCommission, ResumeCommission, ChangeDispatchState, InterruptWorker,
          Crash, Restart, StartupCleanup
<1> QED BY <1>11, <1>12

\* An Assignment that stopped says what it needs in every execution: whichever
\* transaction stopped it left a Blocker, an open condition or an Assignment in
\* its stead, and none of the later ones takes the last explanation away.
THEOREM StoppedCorrect == Spec => []StoppedIsExplained
<1>1. Init => OwnershipInv /\ ExplanationInv
  <2>1. Init => ExplanationInv
        BY DEF Init, ExplanationInv, IntegratedIsFinishing, StoppedIsExplained
  <2> QED BY <2>1, InitOwnership
<1>2. OwnershipInv /\ ExplanationInv /\ [Next]_vars => (OwnershipInv /\ ExplanationInv)'
      BY OwnershipKept, FinishingKept, StepExplains, ExplainsKeeps DEF ExplanationInv
<1>3. ExplanationInv => StoppedIsExplained
      BY DEF ExplanationInv
<1> QED BY <1>1, <1>2, <1>3, PTL DEF Spec

(***************************************************************************)
(* Completion.                                                             *)
(***************************************************************************)

\* An Assignment is in the group it was planned for, or in its own since it was
\* itself reconciled.
GroupsAgree == \A a \in Assignment : group[a] \in {plannedGroup[a], a}

\* b stands in for a: a replacement planned by an Attempt of a, or an accepted
\* reconciliation of a.
Replaces(b, a) ==
    \/ b \in AttemptsOf(a) /\ aStatus[b] # "none" /\ ~IsReconciliation(b)
    \/ plannedGroup[b] = a /\ aStatus[b] = "accepted"

SupersededIsReplaced ==
    \A a \in Assignment : aStatus[a] = "superseded" /\ ~IsReconciliation(a) =>
        \E b \in Assignment : Replaces(b, a)

CompleteIsAccepted == cStatus = "verified_complete" => PlanIsAccepted(aStatus)

CompletionInv == GroupsAgree /\ SupersededIsReplaced /\ CompleteIsAccepted

\* Only accepting a Result completes a Commission.
LEMMA CompletesByAccepting ==
    ASSUME [Next]_vars, cStatus' = "verified_complete", cStatus # "verified_complete"
    PROVE  \E t \in Attempt : AcceptPlannedResult(t)
<1>1. cStatus' # cStatus
      OBVIOUS
<1>2. ASSUME NEW t \in Attempt, ThreadStep(t) PROVE AcceptPlannedResult(t)
      BY <1>1, <1>2, Zenon
      DEF ThreadStep, ExecuteReturns, SubmitResult, RetainNoncurrentResult,
          VerifyOrIntegrateErrs, CandidatePasses, CandidateFails, VerifierUnrunnable,
          LockIntegration, Integrate, CommitIntegration, AssembledStateFails,
          FinishNoncurrent, RequireReconciliation, Fail
<1>3. ~PauseCommission /\ ~ResumeCommission /\ ~CancelCommission
      BY DEF PauseCommission, ResumeCommission, ChangeDispatchState, CancelCommission
<1>4. ~UNCHANGED vars
      BY <1>1 DEF vars
<1> QED BY <1>1, <1>2, <1>3, <1>4, Zenon
        DEF Next, Dispatch, RouteOnly, BlockReadyAssignment, StartAttempt, ThreadError, Watchdog,
            WatchdogObserve, WatchdogFence, WatchdogFail, WatchdogCleanup, WatchdogFrame,
            Principal, InterruptWorker, RetryWorker, AmendVerification,
            AcceptCommissionAmendment, Crash, Restart, RecoverStrandedAttempts, StartupCleanup

\* Groups agree after every step.
LEMMA GroupsKept ==
    ASSUME OwnershipInv, GroupsAgree, [Next]_vars
    PROVE  GroupsAgree'
<1> USE DEF OwnershipInv, TypeInv, TypeOK
<1>1. CASE PlansNothing
      BY <1>1 DEF PlansNothing, GroupsAgree
<1>2. ASSUME NEW t \in Attempt, CandidateFails(t) PROVE GroupsAgree'
      BY <1>1, <1>2, FailedVerificationPlans DEF GroupsAgree
<1>3. ASSUME NEW t \in Attempt, RequireReconciliation(t), IsCurrent(t) PROVE GroupsAgree'
      BY <1>3, ReconciliationPlans DEF GroupsAgree
<1> QED BY <1>1, <1>2, <1>3, PlanStep

\* What stands in for an Assignment goes on doing so.
LEMMA ReplacementStays ==
    ASSUME OwnershipInv, AcceptanceInv, [Next]_vars,
           NEW a \in Assignment, NEW b \in Assignment, Replaces(b, a)
    PROVE  Replaces(b, a)'
<1>1. aStatus[b] # "none"
      BY DEF Replaces
<1>2. aStatus'[b] # "none" /\ plannedGroup'[b] = plannedGroup[b]
      BY <1>1, PlanGrows
<1>3. b \in AttemptsOf(a) => b \in AttemptsOf(a)'
      BY <1>1, PlanGrows DEF AttemptsOf
<1>4. aStatus[b] = "accepted" => aStatus'[b] = "accepted"
      BY StepsAreFinal DEF Closed
<1> QED BY <1>2, <1>3, <1>4 DEF Replaces, IsReconciliation

\* Accepting supersedes only what the accepted reconciliation was planned for.
LEMMA AcceptingReplaces ==
    ASSUME OwnershipInv, GroupsAgree, NEW t \in Attempt, AcceptPlannedResult(t),
           NEW b \in Assignment, aStatus'[b] = "superseded", aStatus[b] # "superseded"
    PROVE  plannedGroup[tOwner[t]] = b
<1> USE DEF OwnershipInv, TypeInv, TypeOK
<1>1. PICK a \in Assignment : a = tOwner[t]
      BY DEF AcceptPlannedResult, IsCurrent, AttemptContinuation, RunningWasStarted
<1>2. aStatus' = StatusAfterAccepting(a)
      BY <1>1 DEF AcceptPlannedResult
<1>3. IsReconciliation(a) /\ ~IsReconciliation(b) /\ group[b] = group[a]
      BY <1>2 DEF StatusAfterAccepting
<1>4. NoOne \notin Assignment
      BY ConstantsAssumption DEF Assignment, Attempt, NoOne
<1>5. /\ group[b] \in {NoOne, b} /\ group[a] \in {plannedGroup[a], a} /\ a # b
      /\ plannedGroup[a] # NoOne
      BY <1>3 DEF GroupsAgree, IsReconciliation
<1> QED BY <1>1, <1>3, <1>4, <1>5

\* A superseded Assignment has something in its stead after every step.
LEMMA ReplacedKept ==
    ASSUME OwnershipInv, AcceptanceInv, GroupsAgree, SupersededIsReplaced, [Next]_vars
    PROVE  SupersededIsReplaced'
<1> USE DEF OwnershipInv, TypeInv, TypeOK
<1> SUFFICES ASSUME NEW a \in Assignment, aStatus'[a] = "superseded", ~IsReconciliation(a)'
             PROVE  \E b \in Assignment : Replaces(b, a)'
    BY DEF SupersededIsReplaced
<1>1. CASE aStatus[a] = "superseded"
  <2>1. ~IsReconciliation(a)
        BY <1>1, PlanGrows DEF IsReconciliation
  <2> QED BY <1>1, <2>1, ReplacementStays DEF SupersededIsReplaced
<1>2. CASE aStatus[a] # "superseded"
  <2>1. ~SupersedesNothing
        BY <1>2 DEF SupersedesNothing
  <2>2. ASSUME NEW t \in Attempt, AcceptPlannedResult(t)
        PROVE  \E b \in Assignment : Replaces(b, a)'
    <3>1. PICK b \in Assignment : b = tOwner[t]
          BY <2>2 DEF AcceptPlannedResult, IsCurrent, AttemptContinuation, RunningWasStarted
    <3>2. aStatus'[b] = "accepted" /\ UNCHANGED plannedGroup
          BY <2>2, <3>1 DEF AcceptPlannedResult, StatusAfterAccepting
    <3>3. plannedGroup[b] = a
          BY <1>2, <2>2, <3>1, AcceptingReplaces
    <3> QED BY <3>2, <3>3 DEF Replaces
  <2>3. ASSUME NEW t \in Attempt, CandidateFails(t)
        PROVE  \E b \in Assignment : Replaces(b, a)'
    <3>1. /\ aStatus' = [aStatus EXCEPT ![tOwner[t]] = "superseded", ![t] = "ready"]
          /\ plannedGroup' = [plannedGroup EXCEPT ![t] = plannedGroup[tOwner[t]]]
          /\ t \in Assignment /\ tOwner[t] \in Assignment /\ tOwner[t] # t /\ tOwner' = tOwner
          BY <2>1, <2>3, FailedVerificationPlans
    <3>2. a = tOwner[t]
          BY <1>2, <3>1
    <3>3. plannedGroup'[t] = plannedGroup'[a] /\ aStatus'[t] = "ready" /\ t \in AttemptsOf(a)'
          BY <3>1, <3>2 DEF AttemptsOf
    <3>4. Replaces(t, a)'
          BY <3>3 DEF Replaces, IsReconciliation
    <3> QED BY <3>1, <3>4
  <2>4. ASSUME NEW t \in Attempt, RequireReconciliation(t), IsCurrent(t) PROVE FALSE
        BY <1>2, <2>4, ReconciliationPlans
  <2> QED BY <2>1, <2>2, <2>3, <2>4, PlanStep
<1> QED BY <1>1, <1>2

\* A complete Commission plans nothing more and takes no acceptance back.
LEMMA CompleteKept ==
    ASSUME OwnershipInv, AcceptanceInv, CompleteIsAccepted, [Next]_vars
    PROVE  CompleteIsAccepted'
<1> USE DEF OwnershipInv, TypeInv, TypeOK
<1> SUFFICES ASSUME cStatus' = "verified_complete" PROVE PlanIsAccepted(aStatus)'
    BY DEF CompleteIsAccepted
<1>1. CASE cStatus = "verified_complete"
  <2>1. ~Dispatchable
        BY <1>1 DEF Dispatchable
  <2>2. \A t \in Attempt : ~IsCurrent(t)
        BY <2>1 DEF IsCurrent, AttemptContinuation
  <2>3. PlansNothing
        BY <2>2, PlanStep DEF CandidateFails
  <2>4. \A b \in Assignment : aStatus[b] \in {"accepted", "superseded"} => aStatus'[b] = aStatus[b]
        BY StepsAreFinal DEF Closed
  <2> QED BY <1>1, <2>3, <2>4
          DEF CompleteIsAccepted, PlanIsAccepted, IsReconciliation, PlansNothing
<1>2. CASE cStatus # "verified_complete"
  <2>1. PICK t \in Attempt : AcceptPlannedResult(t)
        BY <1>2, CompletesByAccepting
  <2>2. /\ aStatus' = StatusAfterAccepting(tOwner[t]) /\ UNCHANGED plannedGroup
        /\ PlanIsAccepted(StatusAfterAccepting(tOwner[t]))
        BY <1>2, <2>1 DEF AcceptPlannedResult
  <2>3. \A b \in Assignment : aStatus'[b] # "none" /\ plannedGroup'[b] = NoOne
                                  => aStatus'[b] \in {"accepted", "superseded"}
        BY <2>2 DEF PlanIsAccepted, IsReconciliation
  <2> QED BY <2>3 DEF PlanIsAccepted, IsReconciliation
<1> QED BY <1>1, <1>2

\* An accepted Commission starts with nothing planned beyond its Work.
LEMMA InitCompletion == Init => CompletionInv
BY DEF Init, CompletionInv, GroupsAgree, SupersededIsReplaced, CompleteIsAccepted

\* Completion is inductive beside ownership and acceptance.
LEMMA CompletionKept ==
    ASSUME OwnershipInv, AcceptanceInv, CompletionInv, [Next]_vars
    PROVE  CompletionInv'
BY GroupsKept, ReplacedKept, CompleteKept DEF CompletionInv

\* Verified Completion is earned in every execution: every Assignment of the plan is
\* accepted, or superseded by a replacement or a reconciliation that was.
THEOREM CompletionCorrect == Spec => []CompletionIsEarned
<1> DEFINE Inv == OwnershipInv /\ AcceptanceInv /\ CompletionInv
<1>1. Init => Inv
      BY InitOwnership, InitAcceptance, InitCompletion
<1>2. Inv /\ [Next]_vars => Inv'
      BY OwnershipKept, AcceptanceKept, CompletionKept
<1>3. Inv => CompletionIsEarned
      BY DEF CompletionInv, SupersededIsReplaced, CompleteIsAccepted, CompletionIsEarned,
             PlanIsAccepted, Replaces
<1> QED BY <1>1, <1>2, <1>3, PTL DEF Spec

(***************************************************************************)
(* A running Assignment has a running Attempt, as long as nothing is       *)
(* amended.                                                                *)
(***************************************************************************)

\* Without amendments there is one revision, and the Mandate covers everything,
\* until the Commission is complete.
Unamended ==
    /\ uncovered = {} /\ (cStatus # "verified_complete" => cRev = 1)
    /\ \A t \in Attempt : tStatus[t] = "running" => tRev[t] = 1

Live(a) == aStatus[a] \notin Closed \union {"none"}

\* What a reconciliation is planned for waits for it, and for no other one.
ReconcilesFailed ==
    \A b \in Assignment : Live(b) /\ IsReconciliation(b) =>
        aStatus[plannedGroup[b]] = "verification_failed"

OneReconciles ==
    \A b, c \in Assignment : Live(b) /\ Live(c) /\ IsReconciliation(b)
                             /\ plannedGroup[b] = plannedGroup[c] => b = c

\* An Assignment is planned after the one it is planned for, which is how a chain of
\* reconciliations ends.
PlannedLater ==
    /\ \A w \in Work : plannedGroup[w] = NoOne
    /\ \A t \in Attempt : tStatus[t] # "none" /\ tOwner[t] \in Attempt => tOwner[t] < t
    /\ \A t \in Attempt : plannedGroup[t] \in Attempt => plannedGroup[t] < t

\* Nothing goes on in a complete Commission.
CompleteIsOver == cStatus = "verified_complete" => \A a \in Assignment : ~Live(a)

ReconciliationInv == ReconcilesFailed /\ OneReconciles /\ PlannedLater /\ CompleteIsOver

OccupiedInv == Unamended /\ ReconciliationInv /\ RunningAssignmentHasAttempt

\* Without amendments the Commission keeps its revision and its authority.
LEMMA UnamendedKept ==
    ASSUME OwnershipInv, Unamended, Amendments = {}, [Next]_vars
    PROVE  Unamended'
<1> USE DEF OwnershipInv, TypeInv, TypeOK
<1>1. ~AmendVerification /\ ~AcceptCommissionAmendment
      BY DEF AmendVerification, AcceptCommissionAmendment
<1>2. UNCHANGED uncovered
      BY <1>1, ZenonT(40)
      DEF Next, Dispatch, RouteOnly, BlockReadyAssignment, StartAttempt, ThreadStep,
          ExecuteReturns, SubmitResult, VerifyOrIntegrateErrs, CandidatePasses, CandidateFails,
          VerifierUnrunnable, LockIntegration, Integrate, CommitIntegration,
          AssembledStateFails, AcceptPlannedResult, FinishNoncurrent, RequireReconciliation,
          Fail, ThreadFrame, ThreadError, Watchdog, WatchdogObserve, WatchdogFence,
          WatchdogFail, WatchdogCleanup, WatchdogFrame, Principal, PauseCommission,
          ResumeCommission, ChangeDispatchState, CancelCommission, InterruptWorker, RetryWorker,
          Crash, Restart, RecoverStrandedAttempts, StartupCleanup, vars
<1>3. UNCHANGED cRev \/ cStatus' = "verified_complete"
      BY <1>1, ZenonT(40)
      DEF Next, Dispatch, RouteOnly, BlockReadyAssignment, StartAttempt, ThreadStep,
          ExecuteReturns, SubmitResult, RetainNoncurrentResult, VerifyOrIntegrateErrs,
          CandidatePasses, CandidateFails, VerifierUnrunnable, LockIntegration, Integrate,
          CommitIntegration, AssembledStateFails, AcceptPlannedResult, FinishNoncurrent,
          RequireReconciliation, Fail, ThreadError, Watchdog, WatchdogObserve, WatchdogFence,
          WatchdogFail, WatchdogCleanup, WatchdogFrame, Principal, PauseCommission,
          ResumeCommission, ChangeDispatchState, CancelCommission, InterruptWorker, RetryWorker,
          Crash, Restart, RecoverStrandedAttempts, StartupCleanup, vars
<1>4. UNCHANGED tRev \/ \E a \in Assignment, c \in Configs : StartAttempt(a, c)
      BY <1>1, ZenonT(40)
      DEF Next, Dispatch, RouteOnly, BlockReadyAssignment, ThreadStep,
          ExecuteReturns, SubmitResult, VerifyOrIntegrateErrs, CandidatePasses, CandidateFails,
          VerifierUnrunnable, LockIntegration, Integrate, CommitIntegration,
          AssembledStateFails, AcceptPlannedResult, FinishNoncurrent, RequireReconciliation,
          Fail, ThreadFrame, ThreadError, Watchdog, WatchdogObserve, WatchdogFence,
          WatchdogFail, WatchdogCleanup, WatchdogFrame, Principal, PauseCommission,
          ResumeCommission, ChangeDispatchState, CancelCommission, InterruptWorker, RetryWorker,
          PrincipalFrame, Crash, Restart, RecoverStrandedAttempts, StartupCleanup, vars
<1>5. cStatus = "verified_complete" => cStatus' = "verified_complete"
      BY CommissionIsFinal
<1>6. ASSUME NEW a \in Assignment, NEW c \in Configs, StartAttempt(a, c)
      PROVE  \A t \in Attempt : tStatus'[t] = "running" => tRev'[t] = 1
  <2>1. cRev = 1
        BY <1>6 DEF StartAttempt, FrontierSelects, Candidates, Unamended
  <2>2. PICK n \in Attempt : n = Cardinality(Started) + 1
        BY <1>6 DEF StartAttempt
  <2>3. tStatus' = [tStatus EXCEPT ![n] = "running"] /\ tRev' = [tRev EXCEPT ![n] = 1]
        BY <1>6, <2>1, <2>2 DEF StartAttempt, Hold
  <2> QED BY <2>3 DEF Unamended
<1>7. ASSUME NEW ts \in SUBSET Attempt, EndsAttempts(ts), UNCHANGED tRev
      PROVE  \A t \in Attempt : tStatus'[t] = "running" => tRev'[t] = 1
      BY <1>7 DEF EndsAttempts, Finished, Unamended
<1>8. \A t \in Attempt : tStatus'[t] = "running" => tRev'[t] = 1
      BY <1>4, <1>6, <1>7, EveryStep
<1> QED BY <1>2, <1>3, <1>5, <1>8 DEF Unamended

\* So the thread of a running Attempt is the current one, and ends nothing late.
LEMMA NothingEndsLate ==
    ASSUME OwnershipInv, Unamended, CompleteIsOver, NEW t \in Attempt
    PROVE  ~EndsStale(t)
<1> USE DEF OwnershipInv, TypeInv, TypeOK
<1> SUFFICES ASSUME EndsStale(t) PROVE FALSE
    OBVIOUS
<1>1. tStatus[t] = "running" /\ t \notin cleanup /\ AttemptContinuation(t) = "Stale"
      BY DEF EndsStale
<1>2. tOwner[t] \in Assignment /\ aStatus[tOwner[t]] = "running"
      BY <1>1 DEF RunningWasStarted, RunningAttemptOwnsAssignment, Running
<1>3. cStatus # "verified_complete"
      BY <1>2 DEF CompleteIsOver, Live, Closed
<1>4. cStatus # "cancelled"
      BY <1>1 DEF AttemptContinuation
<1>5. Dispatchable
      BY <1>3, <1>4 DEF Dispatchable, CommissionStatus
<1>6. cRev = tRev[t] /\ AuthorityIsCurrent(t)
      BY <1>1, <1>3 DEF Unamended, AuthorityIsCurrent
<1> QED BY <1>1, <1>2, <1>4, <1>5, <1>6 DEF AttemptContinuation

\* No Assignment starts running, and the ones that go on keep the Attempts they have.
Occupies ==
    \A a \in Assignment : aStatus'[a] = "running" =>
        /\ aStatus[a] = "running"
        /\ \A t \in Running : tOwner[t] = a => t \in Running' /\ tOwner'[t] = a

\* Such a step leaves no Assignment running without an Attempt.
LEMMA OccupiesKeeps ==
    ASSUME RunningAssignmentHasAttempt, Occupies
    PROVE  RunningAssignmentHasAttempt'
<1> SUFFICES ASSUME NEW a \in Assignment, aStatus'[a] = "running"
             PROVE  \E t \in Attempt : tOwner'[t] = a /\ t \in Running'
    BY DEF RunningAssignmentHasAttempt, AttemptsOf
<1>1. PICK t \in AttemptsOf(a) \intersect Running : TRUE
      BY DEF RunningAssignmentHasAttempt, Occupies
<1> QED BY <1>1 DEF AttemptsOf, Occupies

\* Neither does one that ends an Attempt and moves its Assignment on.
LEMMA EndingOccupies ==
    ASSUME OwnershipInv, NEW t \in Attempt, NEW end, NEW a,
           tStatus' = [tStatus EXCEPT ![t] = end], UNCHANGED tOwner, a = tOwner[t],
           aStatus'[a] # "running",
           \A b \in Assignment : aStatus'[b] = "running" => aStatus[b] = "running"
    PROVE  Occupies
<1>1. \A s \in Running : tOwner[s] # a => s \in Running'
      BY DEF Running, OwnershipInv, TypeInv, TypeOK
<1> QED BY <1>1 DEF Occupies

\* fail_attempt moves the Assignment of the Attempt it ends.
LEMMA FailureOccupies ==
    ASSUME OwnershipInv, NEW t \in Attempt, NEW e, FailAttempt(t, e), UNCHANGED tOwner
    PROVE  Occupies
<1> USE DEF OwnershipInv, TypeInv, TypeOK
<1>1. CASE tStatus[t] # "running"
      BY <1>1 DEF FailAttempt, Occupies, Running
<1>2. CASE tStatus[t] = "running"
  <2>1. PICK a \in Assignment : a = tOwner[t]
        BY <1>2 DEF RunningWasStarted
  <2>2. StatusAfterFailure(t, e) \in {"verification_failed", "ready", "attention_required",
                                      "resource_blocked"}
        BY DEF StatusAfterFailure
  <2>3. aStatus' = [aStatus EXCEPT ![a] = StatusAfterFailure(t, e)]
        BY <1>2, <2>1 DEF FailAttempt
  <2>4. PICK end : tStatus' = [tStatus EXCEPT ![t] = end]
        BY <1>2 DEF FailAttempt, Hold
  <2>5. aStatus'[a] # "running" /\ \A b \in Assignment : b # a => aStatus'[b] = aStatus[b]
        BY <2>2, <2>3
  <2>6. \A b \in Assignment : aStatus'[b] = "running" => aStatus[b] = "running"
        BY <2>5
  <2> QED BY <2>1, <2>4, <2>5, <2>6, EndingOccupies
<1> QED BY <1>1, <1>2

\* A thread that releases its Attempt moves its Assignment on too; only a late one
\* would not.
LEMMA ThreadOccupies ==
    ASSUME OwnershipInv, Unamended, CompleteIsOver, NEW t \in Attempt, ThreadStep(t)
    PROVE  Occupies
<1> USE DEF OwnershipInv, TypeInv, TypeOK
<1>1. CASE UNCHANGED <<aStatus, tStatus, tOwner>>
      BY <1>1 DEF Occupies, Running
<1>2. UNCHANGED tOwner
      BY Zenon
      DEF ThreadStep, ExecuteReturns, SubmitResult, VerifyOrIntegrateErrs, CandidatePasses,
          CandidateFails, VerifierUnrunnable, LockIntegration, Integrate, CommitIntegration,
          AssembledStateFails, AcceptPlannedResult, FinishNoncurrent, RequireReconciliation,
          Fail, ThreadFrame
<1>3. RetainNoncurrentResult(t) => UNCHANGED <<aStatus, tStatus>>
      BY NothingEndsLate DEF RetainNoncurrentResult
<1>4. CASE Fail(t)
      BY <1>2, <1>4, FailureOccupies DEF Fail
<1>5. ASSUME IsCurrent(t), ReleaseSuccessfulAttempt(t), aStatus'[tOwner[t]] # "running",
             \A b \in Assignment : aStatus'[b] = "running" => aStatus[b] = "running"
      PROVE  Occupies
      BY <1>2, <1>5, EndingOccupies DEF ReleaseSuccessfulAttempt, Hold
<1>6. IsCurrent(t) => tOwner[t] \in Assignment
      BY DEF IsCurrent, AttemptContinuation, RunningWasStarted
<1>7. CASE CandidateFails(t)
  <2>1. aStatus'[tOwner[t]] # "running"
        /\ \A b \in Assignment : aStatus'[b] = "running" => aStatus[b] = "running"
    <3>1. tOwner[t] \in Assignment /\ t \in Assignment /\ tOwner[t] # t
          BY <1>7, FailedVerificationPlans
    <3> QED BY <1>7, <3>1 DEF CandidateFails, RecoverFailedVerification
  <2> QED BY <1>5, <1>7, <2>1 DEF CandidateFails
<1>8. CASE VerifierUnrunnable(t)
  <2>1. CASE tOwner[t] \in blockers
        BY <1>1, <1>2, <1>8, <2>1 DEF VerifierUnrunnable
  <2>2. CASE tOwner[t] \notin blockers
        BY <1>5, <1>6, <1>8, <2>2 DEF VerifierUnrunnable
  <2> QED BY <2>1, <2>2
<1>9. CASE AcceptPlannedResult(t)
  <2>1. aStatus'[tOwner[t]] # "running"
        /\ \A b \in Assignment : aStatus'[b] = "running" => aStatus[b] = "running"
        BY <1>6, <1>9 DEF AcceptPlannedResult, StatusAfterAccepting
  <2> QED BY <1>5, <1>9, <2>1 DEF AcceptPlannedResult
<1>10. CASE RequireReconciliation(t) /\ IsCurrent(t)
  <2>1. aStatus'[tOwner[t]] # "running"
        /\ \A b \in Assignment : aStatus'[b] = "running" => aStatus[b] = "running"
        BY <1>10, ReconciliationPlans
  <2> QED BY <1>5, <1>10, <2>1 DEF RequireReconciliation
<1> QED BY <1>1, <1>2, <1>3, <1>4, <1>7, <1>8, <1>9, <1>10, Zenon
        DEF ThreadStep, ExecuteReturns, SubmitResult, VerifyOrIntegrateErrs, CandidatePasses,
            LockIntegration, Integrate, CommitIntegration, AssembledStateFails,
            FinishNoncurrent, RequireReconciliation

\* Without amendments, every step leaves running Assignments with their Attempts.
LEMMA OccupiedKept ==
    ASSUME OwnershipInv, Unamended, CompleteIsOver, RunningAssignmentHasAttempt,
           Amendments = {}, [Next]_vars
    PROVE  RunningAssignmentHasAttempt'
<1> USE DEF OwnershipInv, TypeInv, TypeOK
<1>1. CASE UNCHANGED <<aStatus, tStatus, tOwner>>
      BY <1>1, OccupiesKeeps DEF Occupies, Running
<1>2. \A b \in Assignment : RoutedStatus[b] = "running" => aStatus[b] = "running"
      BY DEF RoutedStatus
<1>3. CASE RouteOnly
      BY <1>2, <1>3, OccupiesKeeps DEF RouteOnly, Occupies, Running
<1>4. ASSUME NEW a \in Assignment, BlockReadyAssignment(a) PROVE RunningAssignmentHasAttempt'
      BY <1>2, <1>4, OccupiesKeeps, RoutedTyped DEF BlockReadyAssignment, Occupies, Running
<1>5. ASSUME NEW a \in Assignment, NEW c \in Configs, StartAttempt(a, c)
      PROVE  RunningAssignmentHasAttempt'
  <2>1. PICK n \in Attempt : n = Cardinality(Started) + 1
        BY <1>5 DEF StartAttempt
  <2>2. /\ tStatus' = [tStatus EXCEPT ![n] = "running"] /\ tOwner' = [tOwner EXCEPT ![n] = a]
        /\ aStatus' = [RoutedStatus EXCEPT ![a] = "running"] /\ tStatus[n] = "none"
        BY <1>5, <2>1, NextAttemptIsNew DEF StartAttempt, Hold
  <2>3. n \in AttemptsOf(a)' \intersect Running'
        BY <2>2 DEF AttemptsOf, Running
  <2>4. ASSUME NEW b \in Assignment, b # a, aStatus'[b] = "running"
        PROVE  AttemptsOf(b)' \intersect Running' # {}
    <3>1. aStatus[b] = "running"
          BY <1>2, <2>2, <2>4, RoutedTyped
    <3>2. PICK s \in AttemptsOf(b) \intersect Running : TRUE
          BY <3>1 DEF RunningAssignmentHasAttempt
    <3>3. s \in AttemptsOf(b)' \intersect Running'
          BY <2>2, <3>2 DEF AttemptsOf, Running
    <3> QED BY <3>3
  <2> QED BY <2>3, <2>4 DEF RunningAssignmentHasAttempt
<1>6. CASE WatchdogFail
      BY <1>6, FailureOccupies, OccupiesKeeps DEF WatchdogFail, WatchdogFrame, WatchdogHasTarget
<1>7. CASE CancelCommission
      BY <1>7, OccupiesKeeps DEF CancelCommission, Occupies
<1>8. ASSUME NEW a \in Assignment, RetryWorker(a) PROVE RunningAssignmentHasAttempt'
      BY <1>8, OccupiesKeeps DEF RetryWorker, PrincipalFrame, Occupies, Running
<1>9. ~AmendVerification /\ ~AcceptCommissionAmendment
      BY DEF AmendVerification, AcceptCommissionAmendment
<1>10. CASE RecoverStrandedAttempts
  <2>1. \A t : StatusAfterRestart(t) # "running"
        BY DEF StatusAfterRestart
  <2>2. ASSUME NEW a \in Assignment, aStatus'[a] = "running"
        PROVE  aStatus[a] = "running" /\ AttemptsOf(a) \intersect Stranded = {}
        BY <1>10, <2>1, <2>2 DEF RecoverStrandedAttempts
  <2>3. \A t \in Running \ Stranded : t \in Running'
        BY <1>10 DEF RecoverStrandedAttempts, Running
  <2>4. UNCHANGED tOwner
        BY <1>10 DEF RecoverStrandedAttempts
  <2>5. Occupies
        BY <2>2, <2>3, <2>4 DEF Occupies, AttemptsOf, Running
  <2> QED BY <2>5, OccupiesKeeps
<1>11. CASE UNCHANGED vars
      BY <1>1, <1>11 DEF vars
<1>12. CASE Next
      BY <1>12, <1>1, <1>3, <1>4, <1>5, <1>6, <1>7, <1>8, <1>9, <1>10, ThreadOccupies,
         OccupiesKeeps, Zenon
      DEF Next, Dispatch, ThreadError, Watchdog, WatchdogObserve, WatchdogFence, WatchdogCleanup,
          WatchdogFrame, Principal, PauseCommission, ResumeCommission, ChangeDispatchState,
          InterruptWorker, PrincipalFrame, Crash, Restart, StartupCleanup
<1> QED BY <1>11, <1>12

\* What failed verification waits, unless everything is cancelled or a Result accepted.
LEMMA FailedWaits ==
    ASSUME OwnershipInv, Amendments = {}, [Next]_vars
    PROVE  \/ \A p \in Assignment : aStatus[p] = "verification_failed"
                                        => aStatus'[p] = "verification_failed"
           \/ \A a \in Assignment : ~Live(a)'
           \/ \E t \in Attempt : AcceptPlannedResult(t)
<1> USE DEF OwnershipInv, TypeInv, TypeOK
<1> DEFINE Waits == \A p \in Assignment : aStatus[p] = "verification_failed"
                                            => aStatus'[p] = "verification_failed"
<1>1. CASE UNCHANGED aStatus
      BY <1>1
<1>2. ASSUME NEW t \in Attempt, NEW e, FailAttempt(t, e) PROVE Waits
  <2>1. tStatus[t] = "running" => aStatus[tOwner[t]] = "running"
        BY DEF RunningAttemptOwnsAssignment, Running
  <2>2. \A b \in Assignment : aStatus'[b] # aStatus[b] => aStatus[b] = "running"
        BY <1>2, <2>1 DEF FailAttempt
  <2> QED BY <2>2
<1>3. ASSUME NEW t \in Attempt, ThreadStep(t), ~AcceptPlannedResult(t) PROVE Waits
  <2>1. IsCurrent(t) => aStatus[tOwner[t]] = "running" /\ aStatus[t] = "none"
        BY DEF IsCurrent, AttemptContinuation, NothingPlannedYet
  <2>2. CASE CandidateFails(t)
        BY <2>1, <2>2 DEF CandidateFails, RecoverFailedVerification
  <2>3. CASE VerifierUnrunnable(t)
        BY <2>1, <2>3 DEF VerifierUnrunnable
  <2>4. CASE RequireReconciliation(t) /\ IsCurrent(t)
        BY <2>1, <2>4 DEF RequireReconciliation
  <2>5. CASE Fail(t)
        BY <1>2, <2>5 DEF Fail
  <2>6. CASE UNCHANGED aStatus
        BY <2>6
  <2> HIDE DEF Waits
  <2> QED BY <1>3, <2>2, <2>3, <2>4, <2>5, <2>6, Zenon
          DEF ThreadStep, ExecuteReturns, SubmitResult, RetainNoncurrentResult,
              VerifyOrIntegrateErrs, CandidatePasses, LockIntegration, Integrate,
              CommitIntegration, AssembledStateFails, FinishNoncurrent, RequireReconciliation
<1>4. \A b \in Assignment : aStatus[b] = "verification_failed" => RoutedStatus[b] = aStatus[b]
      BY RoutingMovesWaiting
<1>5. CASE RouteOnly
      BY <1>4, <1>5 DEF RouteOnly
<1>6. ASSUME NEW a \in Assignment, BlockReadyAssignment(a) PROVE Waits
      BY <1>4, <1>6, RoutedTyped DEF BlockReadyAssignment, FrontierSelects, Candidates
<1>7. ASSUME NEW a \in Assignment, NEW c \in Configs, StartAttempt(a, c) PROVE Waits
      BY <1>4, <1>7, RoutedTyped DEF StartAttempt, FrontierSelects, Candidates
<1>8. CASE WatchdogFail
      BY <1>2, <1>8 DEF WatchdogFail, WatchdogHasTarget
<1>9. CASE CancelCommission
      BY <1>9 DEF CancelCommission, Live, Closed
<1>10. ASSUME NEW a \in Assignment, RetryWorker(a) PROVE Waits
      BY <1>10 DEF RetryWorker
<1>11. ~AmendVerification /\ ~AcceptCommissionAmendment
      BY DEF AmendVerification, AcceptCommissionAmendment
<1>12. CASE RecoverStrandedAttempts
      BY <1>12 DEF RecoverStrandedAttempts
<1>13. CASE UNCHANGED vars
      BY <1>1, <1>13 DEF vars
<1> HIDE DEF Waits
<1>14. CASE Next
  <2>1. CASE \E t \in Attempt : ThreadStep(t)
        BY <1>3, <2>1 DEF Waits
  <2>2. CASE ~\E t \in Attempt : ThreadStep(t)
        BY <1>14, <2>2, <1>1, <1>5, <1>6, <1>7, <1>8, <1>9, <1>10, <1>11, <1>12, Zenon
        DEF Next, Dispatch, ThreadError, Watchdog, WatchdogObserve, WatchdogFence,
            WatchdogCleanup, Principal, PauseCommission, ResumeCommission, ChangeDispatchState,
            InterruptWorker, Crash, Restart, StartupCleanup, Waits
  <2> QED BY <2>1, <2>2
<1> QED BY <1>13, <1>14

\* The reconciliations of a step that plans nothing.
LEMMA ReconciliationsGoOn ==
    ASSUME OwnershipInv, AcceptanceInv, GroupsAgree, ReconcilesFailed, OneReconciles,
           Amendments = {}, [Next]_vars, PlansNothing
    PROVE  ReconcilesFailed' /\ OneReconciles'
<1> USE DEF OwnershipInv, TypeInv, TypeOK
<1>1. \A b \in Assignment : Live(b)' => Live(b)
      BY StepsAreFinal DEF Live, Closed, PlansNothing
<1>2. OneReconciles'
      BY <1>1 DEF OneReconciles, IsReconciliation, PlansNothing
<1>3. ASSUME NEW b \in Assignment, Live(b)', IsReconciliation(b)'
      PROVE  aStatus'[plannedGroup'[b]] = "verification_failed"
  <2>1. PICK p \in Assignment : p = plannedGroup[b] /\ p = plannedGroup'[b]
        BY <1>3 DEF IsReconciliation, PlansNothing
  <2>2. Live(b) /\ IsReconciliation(b) /\ aStatus[p] = "verification_failed"
        BY <1>1, <1>3, <2>1 DEF ReconcilesFailed, IsReconciliation, PlansNothing
  <2>3. ASSUME NEW t \in Attempt, AcceptPlannedResult(t)
        PROVE  aStatus'[p] = "verification_failed"
    <3>1. PICK a \in Assignment : a = tOwner[t]
          BY <2>3 DEF AcceptPlannedResult, IsCurrent, AttemptContinuation, RunningWasStarted
    <3>2. aStatus[a] = "running" /\ aStatus' = StatusAfterAccepting(a)
          BY <2>3, <3>1 DEF AcceptPlannedResult, IsCurrent, AttemptContinuation
    <3>3. aStatus'[p] \in {"verification_failed", "superseded"} /\ aStatus'[a] = "accepted"
          BY <2>2, <3>2 DEF StatusAfterAccepting
    <3>4. CASE aStatus'[p] = "superseded"
      <4>1. plannedGroup[a] = p
            BY <2>2, <2>3, <3>1, <3>4, AcceptingReplaces
      <4>2. Live(a)
            BY <3>2 DEF Live, Closed
      <4>3. a = b
            BY <2>1, <2>2, <4>1, <4>2 DEF OneReconciles
      <4> QED BY <1>3, <3>3, <4>3 DEF Live, Closed
    <3> QED BY <3>3, <3>4
  <2> QED BY <1>3, <2>1, <2>2, <2>3, FailedWaits
<1>4. ReconcilesFailed'
      BY <1>3 DEF ReconcilesFailed
<1> QED BY <1>2, <1>4

\* A replacement takes over what the Assignment it replaces was planned for.
LEMMA ReplacementReconciles ==
    ASSUME OwnershipInv, ReconcilesFailed, OneReconciles, NEW t \in Attempt, CandidateFails(t),
           ~PlansNothing
    PROVE  ReconcilesFailed' /\ OneReconciles'
<1> USE DEF OwnershipInv, TypeInv, TypeOK
<1>1. PICK a \in Assignment : a = tOwner[t] /\ aStatus[a] = "running"
      BY DEF CandidateFails, IsCurrent, AttemptContinuation, RunningWasStarted
<1>2. /\ t \in Assignment /\ a # t /\ aStatus[t] = "none"
      /\ aStatus' = [aStatus EXCEPT ![a] = "superseded", ![t] = "ready"]
      /\ plannedGroup' = [plannedGroup EXCEPT ![t] = plannedGroup[a]]
      BY <1>1, FailedVerificationPlans
<1>3. Live(a)
      BY <1>1 DEF Live, Closed
<1>4. \A b \in Assignment : Live(b)' => b = t \/ (b # a /\ b # t /\ Live(b))
      BY <1>2 DEF Live, Closed
<1>5. \A b \in Assignment : b # t => plannedGroup'[b] = plannedGroup[b]
      BY <1>2
<1>6. plannedGroup'[t] = plannedGroup[a]
      BY <1>2
<1>7. \A p \in Assignment : aStatus[p] = "verification_failed" => aStatus'[p] = "verification_failed"
      BY <1>1, <1>2
<1>8. ReconcilesFailed'
      BY <1>3, <1>4, <1>5, <1>6, <1>7 DEF ReconcilesFailed, IsReconciliation
<1>9. OneReconciles'
      BY <1>3, <1>4, <1>5, <1>6 DEF OneReconciles, IsReconciliation
<1> QED BY <1>8, <1>9

\* A new reconciliation is the only one of an Assignment that was running so far.
LEMMA PlannedReconciles ==
    ASSUME OwnershipInv, ReconcilesFailed, OneReconciles, NEW t \in Attempt,
           RequireReconciliation(t), IsCurrent(t)
    PROVE  ReconcilesFailed' /\ OneReconciles'
<1> USE DEF OwnershipInv, TypeInv, TypeOK
<1>1. PICK a \in Assignment : a = tOwner[t] /\ aStatus[a] = "running"
      BY DEF IsCurrent, AttemptContinuation, RunningWasStarted
<1>2. /\ t \in Assignment /\ a # t /\ aStatus[t] = "none"
      /\ aStatus' = [aStatus EXCEPT ![a] = "verification_failed", ![t] = "ready"]
      /\ plannedGroup' = [plannedGroup EXCEPT ![t] = a]
      BY <1>1, ReconciliationPlans
<1>3. \A b \in Assignment : Live(b)' => b = t \/ (b # t /\ Live(b))
      BY <1>1, <1>2 DEF Live, Closed
<1>4. \A b \in Assignment : b # t => plannedGroup'[b] = plannedGroup[b]
      BY <1>2
<1>5. plannedGroup'[t] = a /\ aStatus'[a] = "verification_failed"
      BY <1>2
<1>6. \A p \in Assignment : aStatus[p] = "verification_failed" => aStatus'[p] = "verification_failed"
      BY <1>1, <1>2
<1>7. ReconcilesFailed'
      BY <1>3, <1>4, <1>5, <1>6 DEF ReconcilesFailed, IsReconciliation
<1>8. a # NoOne
      BY ConstantsAssumption DEF Assignment, Attempt, NoOne
<1>9. \A b \in Assignment : Live(b) => plannedGroup[b] # a
      BY <1>1, <1>8 DEF ReconcilesFailed, IsReconciliation
<1>10. OneReconciles'
      BY <1>3, <1>4, <1>5, <1>9 DEF OneReconciles, IsReconciliation
<1> QED BY <1>7, <1>10

\* An Assignment is planned later than the one it is planned for, and has later Attempts.
LEMMA LaterKept ==
    ASSUME OwnershipInv, PlannedLater, [Next]_vars
    PROVE  PlannedLater'
<1> USE DEF OwnershipInv, TypeInv, TypeOK
<1>1. \A t \in Attempt : t \in Nat /\ t \notin Work
  <2>1. \A t \in Attempt : t \notin Work
        BY ConstantsAssumption
  <2>2. \A t \in Attempt : t \in Nat
        BY DEF Attempt
  <2> QED BY <2>1, <2>2
<1>2. \A t \in Attempt : tStatus'[t] # "none" /\ tOwner'[t] \in Attempt => tOwner'[t] < t
  <2>1. ASSUME NEW n \in Attempt, NEW a \in Assignment, StartsAttempt(n, a)
        PROVE  \A t \in Attempt : tStatus'[t] # "none" /\ tOwner'[t] \in Attempt => tOwner'[t] < t
    <3>1. tStatus' = [tStatus EXCEPT ![n] = "running"] /\ tOwner' = [tOwner EXCEPT ![n] = a]
          BY <2>1 DEF StartsAttempt
    <3>2. aStatus[a] # "none"
          BY <2>1, RoutingMovesWaiting DEF StartsAttempt
    <3>3. a \in Attempt => a \in Started
          BY <3>2 DEF NothingPlannedYet, Started
    <3>4. a \in Attempt => a < n
      <4>1. PICK k \in 0..AttemptBound : Started = 1..k
            BY DEF StartedInOrder
      <4>2. k \in Nat /\ Cardinality(1..k) = k
            BY FS_Interval, ConstantsAssumption
      <4>3. n = k + 1
            BY <2>1, <4>1, <4>2 DEF StartsAttempt
      <4> QED BY <3>3, <4>1, <4>2, <4>3
    <3> QED BY <3>1, <3>4 DEF PlannedLater
  <2>2. ASSUME NEW ts \in SUBSET Attempt, EndsAttempts(ts)
        PROVE  \A t \in Attempt : tStatus'[t] # "none" /\ tOwner'[t] \in Attempt => tOwner'[t] < t
        BY <2>2 DEF EndsAttempts, Running, PlannedLater
  <2> QED BY <2>1, <2>2, EveryStep
<1>3. CASE PlansNothing
      BY <1>2, <1>3 DEF PlansNothing, PlannedLater
<1>4. ASSUME NEW t \in Attempt, CandidateFails(t), ~PlansNothing PROVE PlannedLater'
  <2>1. PICK a \in Assignment : a = tOwner[t]
        BY <1>4, FailedVerificationPlans
  <2>2. plannedGroup' = [plannedGroup EXCEPT ![t] = plannedGroup[a]]
        BY <1>4, <2>1, FailedVerificationPlans
  <2>3. tStatus[t] = "running"
        BY <1>4 DEF CandidateFails, IsCurrent, AttemptContinuation
  <2>4. plannedGroup[a] \in Attempt => a \in Attempt
        BY ConstantsAssumption DEF PlannedLater, Assignment, NoOne, Attempt
  <2>5. plannedGroup[a] \in Attempt => plannedGroup[a] < a /\ a < t
        BY <2>1, <2>3, <2>4 DEF PlannedLater
  <2>6. plannedGroup[a] \in Attempt => plannedGroup[a] < t
        BY <1>1, <2>4, <2>5
  <2> QED BY <1>1, <1>2, <2>2, <2>6 DEF PlannedLater, Assignment
<1>5. ASSUME NEW t \in Attempt, RequireReconciliation(t), IsCurrent(t) PROVE PlannedLater'
  <2>1. PICK a \in Assignment : a = tOwner[t]
        BY <1>5, ReconciliationPlans
  <2>2. plannedGroup' = [plannedGroup EXCEPT ![t] = a]
        BY <1>5, <2>1, ReconciliationPlans
  <2>3. a \in Attempt => a < t
        BY <1>5, <2>1 DEF PlannedLater, IsCurrent, AttemptContinuation
  <2> QED BY <1>1, <1>2, <2>2, <2>3 DEF PlannedLater, Assignment
<1> QED BY <1>3, <1>4, <1>5, PlanStep

NothingIsLive == \A a \in Assignment : ~Live(a)

\* When the plan is accepted nothing is live: a live reconciliation would be for a
\* failed Assignment, and so, down the chain, for one of the plan.
LEMMA AcceptedPlanIsOver ==
    TypeInv /\ ReconcilesFailed /\ PlannedLater /\ PlanIsAccepted(aStatus) => NothingIsLive
<1> SUFFICES ASSUME TypeInv, ReconcilesFailed, PlannedLater, PlanIsAccepted(aStatus)
             PROVE  NothingIsLive
    OBVIOUS
<1> USE DEF TypeInv, TypeOK
<1>1. \A a \in Assignment : Live(a) => IsReconciliation(a) /\ a \in Attempt
      BY DEF Live, Closed, PlanIsAccepted, IsReconciliation, PlannedLater, Assignment
<1> DEFINE S == {a \in Attempt : Live(a)}
<1>2. CASE S # {}
  <2>1. S \subseteq Nat
        BY DEF Attempt
  <2>2. \E x \in S : \A y \in S : ~(<<y, x>> \in OpToRel(<, Nat))
        BY <1>2, <2>1, NatLessThanWellFounded, WFMin
  <2>3. PICK b \in S : \A y \in S : ~(y < b)
        BY <2>1, <2>2 DEF OpToRel
  <2>4. b \in Attempt /\ b \in Assignment /\ Live(b) /\ IsReconciliation(b)
        BY <1>1, <2>3 DEF Assignment
  <2>5. PICK p \in Assignment : p = plannedGroup[b]
        BY <2>4 DEF IsReconciliation
  <2>6. Live(p)
        BY <2>4, <2>5 DEF ReconcilesFailed, Live, Closed
  <2>7. p \in S /\ p < b
        BY <1>1, <2>4, <2>5, <2>6 DEF PlannedLater
  <2> QED BY <2>3, <2>7
<1>3. CASE S = {}
      BY <1>1, <1>3 DEF NothingIsLive
<1> QED BY <1>2, <1>3

\* Without amendments, what is planned for reconciliation waits, and a complete
\* Commission is over.
LEMMA ReconciliationKept ==
    ASSUME OwnershipInv, AcceptanceInv, CompletionInv, ReconciliationInv, Amendments = {},
           [Next]_vars
    PROVE  ReconciliationInv'
<1>1. ReconcilesFailed' /\ OneReconciles'
  <2>1. CASE PlansNothing
        BY <2>1, ReconciliationsGoOn DEF CompletionInv, ReconciliationInv
  <2>2. CASE ~PlansNothing
        BY <2>2, PlanStep, ReplacementReconciles, PlannedReconciles DEF ReconciliationInv
  <2> QED BY <2>1, <2>2
<1>2. PlannedLater'
      BY LaterKept DEF ReconciliationInv
<1>3. CompleteIsOver'
  <2> SUFFICES ASSUME cStatus' = "verified_complete" PROVE NothingIsLive'
      BY DEF CompleteIsOver, NothingIsLive
  <2>1. TypeInv'
        BY OwnershipKept DEF OwnershipInv
  <2>2. PlanIsAccepted(aStatus)'
        BY CompleteKept DEF CompletionInv, CompleteIsAccepted
  <2>3. (TypeInv /\ ReconcilesFailed /\ PlannedLater /\ PlanIsAccepted(aStatus) => NothingIsLive)'
        BY AcceptedPlanIsOver, PTL
  <2> QED BY <1>1, <1>2, <2>1, <2>2, <2>3
<1> QED BY <1>1, <1>2, <1>3 DEF ReconciliationInv

\* As long as neither the criteria nor the Mandate are amended, whatever ends an
\* Attempt also decides what becomes of its Assignment: no Assignment is left
\* running with no Attempt.
THEOREM OccupiedCorrect == ASSUME Amendments = {} PROVE Spec => []RunningAssignmentHasAttempt
<1> DEFINE Inv == OwnershipInv /\ AcceptanceInv /\ CompletionInv /\ OccupiedInv
<1>1. Init => Inv
  <2>1. Init => CompletionInv
        BY InitCompletion
  <2>2. ASSUME Init PROVE OccupiedInv
    <3>1. Unamended /\ ReconcilesFailed /\ OneReconciles /\ CompleteIsOver
          BY <2>2 DEF Init, Unamended, ReconcilesFailed, OneReconciles, CompleteIsOver, IsReconciliation
    <3>2. PlannedLater
          BY <2>2, ConstantsAssumption DEF Init, PlannedLater, Attempt, NoOne, Assignment
    <3>3. RunningAssignmentHasAttempt
          BY <2>2 DEF Init, RunningAssignmentHasAttempt
    <3> QED BY <3>1, <3>2, <3>3 DEF OccupiedInv, ReconciliationInv
  <2> QED BY <2>1, <2>2, InitOwnership, InitAcceptance
<1>2. Inv /\ [Next]_vars => Inv'
  <2> SUFFICES ASSUME OwnershipInv, AcceptanceInv, CompletionInv, OccupiedInv, [Next]_vars
               PROVE  Inv'
      OBVIOUS
  <2>1. OwnershipInv' /\ AcceptanceInv'
        BY OwnershipKept, AcceptanceKept
  <2>2. CompletionInv'
        BY CompletionKept
  <2>3. Unamended'
        BY UnamendedKept DEF OccupiedInv
  <2>4. ReconciliationInv'
        BY ReconciliationKept DEF OccupiedInv
  <2>5. RunningAssignmentHasAttempt'
        BY OccupiedKept DEF OccupiedInv, ReconciliationInv
  <2> QED BY <2>1, <2>2, <2>3, <2>4, <2>5 DEF OccupiedInv
<1>3. Inv => RunningAssignmentHasAttempt
      BY DEF OccupiedInv
<1> QED BY <1>1, <1>2, <1>3, PTL DEF Spec
=============================================================================
