----------------------------- MODULE Operations -----------------------------
(***************************************************************************)
(* External effects of one Commission: proposed for a running Attempt,     *)
(* approved by the Principal at a gate, executed once, and reconciled when *)
(* nobody can say what happened.                                           *)
(*                                                                         *)
(* The effect modelled is filesystem.write, which replaces one file outside*)
(* the checkout.  It runs between two transactions, as a sequence of system*)
(* calls that other writers of the same file may interleave with and that  *)
(* a crash may cut anywhere.  The Commission's Integration mutex is held   *)
(* from the first transaction to the last, and by cancellation, mandate    *)
(* amendments and reconciliation.                                          *)
(*                                                                         *)
(* Abstracted: which class an operation gets (any), clocks (a deadline may *)
(* have passed at every check), digests (a file is its inode and content)  *)
(* and the Attempts themselves (one at a time, ending at any moment; see   *)
(* module Attempts).  All operations write the same target.                *)
(***************************************************************************)
EXTENDS Integers, FiniteSets

CONSTANTS
    Op,             \* the operations that are ever proposed
    Planned,        \* does the Commission have a plan?
    AttemptBound,   \* bound: Attempts ever started
    MaxWrites,      \* bound: changes of the target by others
    MaxFaults,      \* bound: crashes and failing writes of the outcome
    MaxAmendments   \* bound: amendments of either kind

ASSUME OperationsAssumption ==
    /\ IsFiniteSet(Op) /\ Planned \in BOOLEAN
    /\ Op \intersect {"before", "other", "nothing"} = {}   \* names of contents, see below
    /\ AttemptBound \in Nat /\ MaxWrites \in Nat
    /\ MaxFaults \in Nat /\ MaxAmendments \in Nat

NoOne == 0
NoFile == [node |-> 0, content |-> "nothing"]

\* An operation's content is named after it.
Content == Op \union {"before", "other"}
Node == 1..(Cardinality(Op) + 2)   \* enough for the target, the displaced files and one more
File == [node : Node, content : Content]
MaybeFile == File \union {NoFile}

VARIABLES
    cStatus, cRev,          \* commissions
    mandate,                \* history: accepted mandate amendments
    attempt, leaseRev,      \* the running Attempt, its lease's mandate_revision
    started,                \* Attempts ever started
    oStatus, gate,          \* operation_requests, approval_gates
    oAttempt, oRev,         \* the operation's attempt_id and mandate_revision
    oMandate,               \* history: the mandate it was proposed under
    bound,                  \* the file its target_revision names
    executed, answered,     \* execution identities; those with a stored result
    exec,                   \* the thread that holds the Integration mutex
    target, temp, aside,    \* the target, the temporaries, the displaced files
    writes, theirs,         \* history: changes by others, and what they last left
    applied,                \* history: how often an operation's file was put in place
    phase,                  \* of the daemon: up, down, recovering
    faults, amendments

commissionVars == <<cStatus, cRev, mandate>>
attemptVars    == <<attempt, leaseRev, started>>
idVars         == <<oAttempt, oRev, oMandate, bound>>
gateVars       == <<oStatus, gate>>
keyVars        == <<executed, answered>>
fileVars       == <<target, temp, aside, writes, theirs, applied>>
boundVars      == <<faults, amendments>>

vars == <<commissionVars, attemptVars, idVars, gateVars, keyVars, exec, fileVars, phase,
          boundVars>>

OperationStatus == {"none", "completed", "prohibited", "approval_required", "authorized",
                    "started", "confirmed", "failed", "uncertain", "revoked"}
GateStatus == {"none", "open", "authorized", "consumed", "revoked", "invalidated"}
Steps == {"idle", "recheck", "write", "check", "displace", "inspect", "replace", "restore",
          "unlink", "record", "observed"}
Outcomes == {"none", "confirmed", "failed", "uncertain"}

NoExec == [op |-> NoOne, step |-> "idle", outcome |-> "none", rev |-> 0]

(***************************************************************************)
(* What the transactions read and write together.                          *)
(***************************************************************************)

Live == cStatus \in {"active", "paused"}

\* Mutant: requests do not wait for the Integration mutex.
MutexIgnored == TRUE

\* commission_integration_lock can be taken.
MutexIsFree == exec = NoExec

\* ensure_current_operation_context
ContextIsCurrent(a, rev) ==
    /\ cStatus = "active"
    /\ attempt = a /\ a # NoOne
    /\ leaseRev = cRev /\ rev = cRev

\* ensure_bound_target: the approved inode with the approved content.
TargetIsBound(o) == target = bound[o]

SetOperation(o, s) == oStatus' = [oStatus EXCEPT ![o] = s]

\* Open and authorized gates are closed and their operations revoked.
Withdraw(to) ==
    /\ gate' = [o \in Op |-> IF gate[o] \in {"open", "authorized"} THEN to ELSE gate[o]]
    /\ oStatus' = [o \in Op |-> IF oStatus[o] \in {"approval_required", "authorized"}
                                THEN "revoked" ELSE oStatus[o]]

InFlight == {o \in Op : oStatus[o] = "started"}

\* Mutant: the Commission goes on.
NobodyPauses == UNCHANGED cStatus

\* An effect of unknown outcome pauses an active Commission.
PauseActive == cStatus' = IF cStatus = "active" THEN "paused" ELSE cStatus

(***************************************************************************)
(* Requests: propose, approve, execute.                                    *)
(***************************************************************************)

\* classify_operation, as it decides the first status of an operation.
Classified == {"completed", "prohibited", "approval_required"}

\* bind_file_effect: the target must exist, and is remembered as it is.
Bind(o) == target # NoFile /\ bound' = [bound EXCEPT ![o] = target]

\* propose_operation: what needs approval gets a gate and is bound to its target.
ProposeOperation(o) ==
    /\ phase = "up" /\ oStatus[o] = "none" /\ ContextIsCurrent(attempt, cRev)
    /\ \E s \in Classified :
        /\ SetOperation(o, s)
        /\ IF s = "approval_required"
           THEN gate' = [gate EXCEPT ![o] = "open"] /\ Bind(o)
           ELSE UNCHANGED <<gate, bound>>
    /\ oAttempt' = [oAttempt EXCEPT ![o] = attempt]
    /\ oRev' = [oRev EXCEPT ![o] = cRev]
    /\ oMandate' = [oMandate EXCEPT ![o] = mandate]
    /\ UNCHANGED <<commissionVars, attemptVars, keyVars, exec, fileVars, phase, boundVars>>

ApproveOperation(o) ==
    /\ phase = "up" /\ gate[o] = "open" /\ oStatus[o] = "approval_required"
    /\ ContextIsCurrent(oAttempt[o], oRev[o])
    /\ gate' = [gate EXCEPT ![o] = "authorized"]
    /\ SetOperation(o, "authorized")
    /\ UNCHANGED <<commissionVars, attemptVars, idVars, keyVars, exec, fileVars, phase, boundVars>>

\* Mutant: a consumed gate opens again.
GateStillOpens(o) ==
    /\ gate[o] \in {"authorized", "consumed"}
    /\ oStatus[o] \in {"authorized", "confirmed", "failed"}

GateIsAuthorized(o) == gate[o] = "authorized" /\ oStatus[o] = "authorized"

\* execute_operation, first transaction: the gate is consumed and the operation
\* started, durably, before anything is touched.
StartOperation(o) ==
    /\ phase = "up" /\ MutexIsFree
    /\ GateIsAuthorized(o)
    /\ TargetIsBound(o)
    /\ ContextIsCurrent(oAttempt[o], oRev[o])
    /\ gate' = [gate EXCEPT ![o] = "consumed"]
    /\ SetOperation(o, "started")
    /\ executed' = executed \union {o}
    /\ exec' = [op |-> o, step |-> "recheck", outcome |-> "none", rev |-> cRev]
    /\ UNCHANGED <<commissionVars, attemptVars, idVars, answered, fileVars, phase, boundVars>>

(***************************************************************************)
(* execute_operation, the effect: execute_file_replacement.                *)
(***************************************************************************)

At(o, step) == phase = "up" /\ exec.op = o /\ exec.step = step
Step(step) == exec' = [exec EXCEPT !.step = step]
Ends(outcome) == exec' = [exec EXCEPT !.step = "record", !.outcome = outcome]

\* A new file may get the inode of one that is gone.
FreeNodes == Node \ ({target.node} \union {aside[o].node : o \in Op})

EffectFrame ==
    UNCHANGED <<commissionVars, attemptVars, idVars, gateVars, keyVars, writes, theirs, phase,
                boundVars>>

\* The context and the limits are read once more; a deadline may have passed.
Recheck(o) ==
    /\ At(o, "recheck")
    /\ \/ ContextIsCurrent(oAttempt[o], exec.rev) /\ Step("write")
       \/ Ends("failed")
    /\ UNCHANGED <<target, temp, aside, applied>>
    /\ EffectFrame

\* The content goes to a temporary file, removed again when that fails.
WriteTemporary(o) ==
    /\ At(o, "write")
    /\ \/ /\ TargetIsBound(o)
          /\ temp' = temp \union {o}
          /\ Step("check")
       \/ Ends("failed") /\ UNCHANGED temp
    /\ UNCHANGED <<target, aside, applied>>
    /\ EffectFrame

\* The target is compared again; from here on an early return leaves the
\* temporary file behind.
CheckTarget(o) ==
    /\ At(o, "check")
    /\ \/ TargetIsBound(o) /\ Step("displace")
       \/ Ends("failed")
    /\ UNCHANGED <<target, temp, aside, applied>>
    /\ EffectFrame

\* The target is moved aside; nothing is overwritten by that.
Displace(o) ==
    /\ At(o, "displace")
    /\ \/ /\ target # NoFile
          /\ aside' = [aside EXCEPT ![o] = target]
          /\ target' = NoFile
          /\ Step("inspect")
          /\ UNCHANGED temp
       \/ Ends("failed") /\ UNCHANGED <<target, aside, temp>>
       \/ Ends("failed") /\ temp' = temp \ {o} /\ UNCHANGED <<target, aside>>
    /\ UNCHANGED applied
    /\ EffectFrame

\* Mutant: what was moved aside is not looked at again.
DisplacedIsTaken(o) == TRUE

\* ensure_bound_target on the displaced file
DisplacedIsApproved(o) == aside[o] = bound[o]

InspectDisplaced(o) ==
    /\ At(o, "inspect")
    /\ \/ DisplacedIsApproved(o) /\ Step("replace")
       \/ Step("restore")
    /\ UNCHANGED <<target, temp, aside, applied>>
    /\ EffectFrame

\* rename_noreplace succeeds only while no target exists.
RenameFindsNoTarget == target = NoFile

Replace(o) ==
    /\ At(o, "replace")
    /\ \/ /\ RenameFindsNoTarget
          /\ \E n \in FreeNodes : target' = [node |-> n, content |-> o]
          /\ temp' = temp \ {o}
          /\ applied' = [applied EXCEPT ![o] = @ + 1]
          /\ Step("unlink")
       \/ Step("restore") /\ UNCHANGED <<target, temp, applied>>
    /\ UNCHANGED aside
    /\ EffectFrame

\* Put back what was displaced, unless another file took its place.
Restore(o) ==
    /\ At(o, "restore")
    /\ temp' = temp \ {o}
    /\ \/ /\ RenameFindsNoTarget
          /\ target' = aside[o]
          /\ aside' = [aside EXCEPT ![o] = NoFile]
          /\ Ends("failed")
       \/ Ends("uncertain") /\ UNCHANGED <<target, aside>>
    /\ UNCHANGED applied
    /\ EffectFrame

\* Mutant: an error after the replacement is taken for a failure.
ErrorIsFailure == {"confirmed", "failed"}

\* The directory may not sync, and the duration may be over.
OutcomeAfterReplacement == {"confirmed", "uncertain"}

UnlinkDisplaced(o) ==
    /\ At(o, "unlink")
    /\ \/ /\ aside' = [aside EXCEPT ![o] = NoFile]
          /\ \E r \in OutcomeAfterReplacement : Ends(r)
       \/ Ends("uncertain") /\ UNCHANGED aside
    /\ UNCHANGED <<target, temp, applied>>
    /\ EffectFrame

\* execute_operation, last transaction.
RecordOutcome(o) ==
    /\ At(o, "record")
    /\ SetOperation(o, exec.outcome)
    /\ IF exec.outcome = "uncertain" THEN PauseActive ELSE UNCHANGED cStatus
    /\ answered' = answered \union {o}
    /\ exec' = NoExec
    /\ UNCHANGED <<cRev, mandate, attemptVars, idVars, gate, executed, fileVars, phase, boundVars>>

\* The outcome cannot be written: the operation stays started.
RecordFails(o) ==
    /\ At(o, "record") /\ faults < MaxFaults
    /\ faults' = faults + 1
    /\ exec' = NoExec
    /\ UNCHANGED <<commissionVars, attemptVars, idVars, gateVars, keyVars, fileVars, phase,
                   amendments>>

(***************************************************************************)
(* reconcile_operation: the Principal's claim against what is observed.    *)
(***************************************************************************)

\* observe_effect_target: nothing can be observed while the target is missing.
Observed == IF target = NoFile THEN {} ELSE {target.content}

\* The outcomes that what is observed supports.
Supported(o) ==
    {r \in {"confirmed", "failed"} :
        (IF r = "confirmed" THEN o ELSE bound[o].content) \in Observed}

ObserveTarget(o) ==
    /\ phase = "up" /\ MutexIsFree /\ oStatus[o] = "uncertain"
    /\ \E r \in Supported(o) :
            exec' = [op |-> o, step |-> "observed", outcome |-> r, rev |-> cRev]
    /\ UNCHANGED <<commissionVars, attemptVars, idVars, gateVars, keyVars, fileVars, phase,
                   boundVars>>

ReconcileOperation(o) ==
    /\ At(o, "observed")
    /\ IF exec.rev = cRev /\ oStatus[o] = "uncertain"
       THEN SetOperation(o, exec.outcome) ELSE UNCHANGED oStatus
    /\ exec' = NoExec
    /\ UNCHANGED <<commissionVars, attemptVars, idVars, gate, keyVars, fileVars, phase, boundVars>>

(***************************************************************************)
(* The Commission and its Attempt around the operations.                   *)
(***************************************************************************)

OperationFrame == UNCHANGED <<idVars, exec, fileVars, phase, faults>>

StartAttempt ==
    /\ phase = "up" /\ cStatus = "active" /\ attempt = NoOne /\ started < AttemptBound
    /\ started' = started + 1
    /\ attempt' = started + 1
    /\ leaseRev' = cRev
    /\ UNCHANGED <<commissionVars, gateVars, keyVars, amendments>>
    /\ OperationFrame

\* Accepted, failed, contained or reconciled: the Attempt no longer runs.
EndAttempt ==
    /\ phase = "up" /\ attempt # NoOne
    /\ attempt' = NoOne
    /\ UNCHANGED <<commissionVars, leaseRev, started, gateVars, keyVars, amendments>>
    /\ OperationFrame

PauseCommission ==
    /\ phase = "up" /\ cStatus = "active"
    /\ cStatus' = "paused"
    /\ UNCHANGED <<cRev, mandate, attemptVars, gateVars, keyVars, amendments>>
    /\ OperationFrame

\* No effect of the Commission is uncertain.
NothingUncertain == \A o \in Op : oStatus[o] # "uncertain"

ResumeCommission ==
    /\ phase = "up" /\ cStatus = "paused" /\ NothingUncertain
    /\ cStatus' = "active"
    /\ UNCHANGED <<cRev, mandate, attemptVars, gateVars, keyVars, amendments>>
    /\ OperationFrame

\* Every gate of the completing revision is consumed and its effect confirmed;
\* complete_planned_commission does not ask.
GatesAllowCompletion ==
    Planned \/ \A o \in Op : gate[o] # "none" /\ oRev[o] = cRev =>
                                gate[o] = "consumed" /\ oStatus[o] = "confirmed"

CompleteCommission ==
    /\ phase = "up" /\ Live /\ attempt # NoOne /\ leaseRev = cRev
    /\ GatesAllowCompletion
    /\ cStatus' = "verified_complete" /\ cRev' = cRev + 1
    /\ attempt' = NoOne
    /\ UNCHANGED <<mandate, leaseRev, started, gateVars, keyVars, amendments>>
    /\ OperationFrame

CancelCommission ==
    /\ phase = "up" /\ Live /\ MutexIsFree
    /\ cStatus' = "cancelled"
    /\ attempt' = NoOne
    /\ gate' = [o \in Op |-> IF gate[o] \in {"open", "authorized"} THEN "revoked" ELSE gate[o]]
    /\ oStatus' = [o \in Op |->
                    IF oStatus[o] \in {"approval_required", "authorized"} THEN "revoked"
                    ELSE IF oStatus[o] = "started" THEN "uncertain" ELSE oStatus[o]]
    /\ answered' = answered \union InFlight
    /\ UNCHANGED <<cRev, mandate, leaseRev, started, executed, amendments>>
    /\ OperationFrame

\* amend_verification raises the revision and leaves gates and Attempt alone.
AmendVerification ==
    /\ phase = "up" /\ cStatus = "active" /\ amendments < MaxAmendments
    /\ cRev' = cRev + 1
    /\ amendments' = amendments + 1
    /\ UNCHANGED <<cStatus, mandate, attemptVars, gateVars, keyVars>>
    /\ OperationFrame

AcceptCommissionAmendment ==
    /\ phase = "up" /\ Live /\ MutexIsFree /\ amendments < MaxAmendments
    /\ cRev' = cRev + 1 /\ mandate' = mandate + 1
    /\ attempt' = NoOne
    /\ Withdraw("invalidated")
    /\ amendments' = amendments + 1
    /\ UNCHANGED <<cStatus, leaseRev, started, keyVars>>
    /\ OperationFrame

(***************************************************************************)
(* Others who write the target: a new file in its place, or the same file. *)
(***************************************************************************)

WriterFrame ==
    UNCHANGED <<commissionVars, attemptVars, idVars, gateVars, keyVars, exec, temp, aside, applied,
                phase, boundVars>>

WriterReplaces ==
    /\ writes < MaxWrites /\ writes' = writes + 1
    /\ \E n \in FreeNodes, c \in {"before", "other"} : target' = [node |-> n, content |-> c]
    /\ theirs' = target'
    /\ WriterFrame

WriterEdits ==
    /\ writes < MaxWrites /\ writes' = writes + 1
    /\ target # NoFile /\ target.content # "other"
    /\ target' = [target EXCEPT !.content = "other"]
    /\ theirs' = target'
    /\ WriterFrame

(***************************************************************************)
(* The daemon dies and is started again.                                   *)
(***************************************************************************)

Crash ==
    /\ phase # "down" /\ faults < MaxFaults
    /\ faults' = faults + 1
    /\ phase' = "down"
    /\ exec' = NoExec
    /\ UNCHANGED <<commissionVars, attemptVars, idVars, gateVars, keyVars, fileVars, amendments>>

\* Mutant: the request that was executing is not answered.
AnswersNothing == answered

\* Requests a restart answers: those whose effect it found under way.
AnsweredByRestart == answered \union (InFlight \intersect executed)

RecoverStrandedOperations ==
    /\ phase = "down"
    /\ phase' = "recovering"
    /\ oStatus' = [o \in Op |-> IF o \in InFlight THEN "uncertain" ELSE oStatus[o]]
    /\ IF InFlight = {} THEN UNCHANGED cStatus ELSE PauseActive
    /\ answered' = AnsweredByRestart
    /\ UNCHANGED <<cRev, mandate, attemptVars, idVars, gate, executed, exec, fileVars, boundVars>>

\* recover_stranded_attempts, after which the daemon serves.
RecoverStrandedAttempts ==
    /\ phase = "recovering"
    /\ phase' = "up"
    /\ attempt' = IF Live THEN NoOne ELSE attempt
    /\ UNCHANGED <<commissionVars, leaseRev, started, idVars, gateVars, keyVars, exec, fileVars,
                   boundVars>>

(***************************************************************************)
(* The specification.                                                      *)
(***************************************************************************)

FirstFile == [node |-> 1, content |-> "before"]

Init ==
    /\ cStatus = "active" /\ cRev = 1 /\ mandate = 1
    /\ attempt = NoOne /\ leaseRev = 0 /\ started = 0
    /\ oStatus = [o \in Op |-> "none"] /\ gate = [o \in Op |-> "none"]
    /\ oAttempt = [o \in Op |-> NoOne] /\ oRev = [o \in Op |-> 0]
    /\ oMandate = [o \in Op |-> 0] /\ bound = [o \in Op |-> NoFile]
    /\ executed = {} /\ answered = {} /\ exec = NoExec
    /\ target = FirstFile /\ temp = {} /\ aside = [o \in Op |-> NoFile]
    /\ writes = 0 /\ theirs = FirstFile /\ applied = [o \in Op |-> 0]
    /\ phase = "up" /\ faults = 0 /\ amendments = 0

Effect(o) ==
    \/ Recheck(o) \/ WriteTemporary(o) \/ CheckTarget(o) \/ Displace(o) \/ InspectDisplaced(o)
    \/ Replace(o) \/ Restore(o) \/ UnlinkDisplaced(o) \/ RecordOutcome(o) \/ RecordFails(o)

Next ==
    \/ \E o \in Op : \/ ProposeOperation(o) \/ ApproveOperation(o) \/ StartOperation(o)
                     \/ Effect(o)
                     \/ ObserveTarget(o) \/ ReconcileOperation(o)
    \/ StartAttempt \/ EndAttempt \/ CompleteCommission
    \/ PauseCommission \/ ResumeCommission \/ CancelCommission
    \/ AmendVerification \/ AcceptCommissionAmendment
    \/ WriterReplaces \/ WriterEdits
    \/ Crash \/ RecoverStrandedOperations \/ RecoverStrandedAttempts

Spec == Init /\ [][Next]_vars

(***************************************************************************)
(* Properties.                                                             *)
(***************************************************************************)

\* Every variable holds a value of its column or kind.
TypeOK ==
    /\ cStatus \in {"active", "paused", "cancelled", "verified_complete"}
    /\ cRev \in Nat /\ mandate \in Nat
    /\ attempt \in 0..AttemptBound /\ leaseRev \in Nat /\ started \in 0..AttemptBound
    /\ oStatus \in [Op -> OperationStatus] /\ gate \in [Op -> GateStatus]
    /\ oAttempt \in [Op -> 0..AttemptBound] /\ oRev \in [Op -> Nat] /\ oMandate \in [Op -> Nat]
    /\ bound \in [Op -> MaybeFile]
    /\ executed \subseteq Op /\ answered \subseteq Op
    /\ exec \in [op : Op \union {NoOne}, step : Steps, outcome : Outcomes, rev : Nat]
    /\ target \in MaybeFile /\ temp \subseteq Op /\ aside \in [Op -> MaybeFile]
    /\ writes \in 0..MaxWrites /\ theirs \in File /\ applied \in [Op -> Nat]
    /\ phase \in {"up", "down", "recovering"}
    /\ faults \in 0..MaxFaults /\ amendments \in 0..MaxAmendments

\* An approval is good for one effect: whatever crashes, repeats or is
\* reconciled, an operation's file is put in place at most once.
AppliedAtMostOnce == \A o \in Op : applied[o] <= 1

\* What others last left at the target is never destroyed: it is in place, or
\* set aside, or it is exactly the revision an applied operation was approved
\* to replace.
OthersWorkSurvives ==
    \/ theirs = target
    \/ \E o \in Op : theirs = aside[o] \/ (applied[o] > 0 /\ theirs = bound[o])

\* A receipt is true: a confirmed effect was applied, and the file of a failed
\* one is not in place, now or later.
ReceiptIsTrue ==
    \A o \in Op : /\ oStatus[o] = "confirmed" => applied[o] = 1
                  /\ oStatus[o] = "failed" => target.content # o

\* While an effect is uncertain its Commission is not active: nothing is
\* dispatched, proposed or approved until the Principal has reconciled it.
UncertainStops ==
    \A o \in Op : oStatus[o] = "uncertain" => cStatus # "active"

\* An execute request whose operation is no longer under way has a stored
\* answer: repeating it after a lost reply or a crash runs nothing.
ExecutionIsAnswered ==
    \A o \in executed : oStatus[o] # "started" => o \in answered

\* No effect is applied once its Commission is cancelled or its mandate amended,
\* not even one that was already started.
NoEffectAfterWithdrawal ==
    [][\A o \in Op : applied'[o] # applied[o] =>
            cStatus # "cancelled" /\ oMandate[o] = mandate]_vars

=============================================================================
