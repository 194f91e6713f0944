-------------------------- MODULE OperationsProofs --------------------------
(***************************************************************************)
(* Proofs about Operations, for every set of operations, every number of   *)
(* Attempts, crashes, amendments and changes of the target by others.      *)
(*                                                                         *)
(* The inductive invariant says what the thread that holds the Integration *)
(* mutex may rely on (ThreadOwnsOperation), what has not happened yet      *)
(* while an operation is under way (NotYetApplied), and that operations of *)
(* the current revision were proposed under the current mandate            *)
(* (RevisionFixesMandate).                                                 *)
(*                                                                         *)
(* FileInv, on top of it, is about the files: where an operation's content *)
(* can be (ContentIsApplied), what was moved aside (NotYetDisplaced), and  *)
(* what the thread knows of target and aside while others write            *)
(* (ThreadKnowsFiles).                                                     *)
(***************************************************************************)
EXTENDS Operations, FiniteSetTheorems, TLAPS

BeforeReplacement == {"recheck", "write", "check", "displace", "inspect", "replace"}
EffectSteps == BeforeReplacement \union {"restore", "unlink", "record"}

\* The mutex is held by a thread of the running daemon, for one operation; an
\* executing thread's operation is started, and no other actor changes that.
ThreadOwnsOperation ==
    /\ exec.step = "idle" <=> exec = NoExec
    /\ exec # NoExec => phase = "up" /\ exec.op \in Op
    /\ exec.step \in EffectSteps => oStatus[exec.op] = "started"
    /\ exec.step = "record" => exec.outcome # "none"
    /\ exec.step = "observed" => exec.outcome \in {"confirmed", "failed"}

\* An operation that is not started, or not yet past its rename, was not applied.
NotYetApplied ==
    /\ \A o \in Op : oStatus[o] \in {"none", "approval_required", "authorized"}
                        => applied[o] = 0
    /\ exec.step \in BeforeReplacement => applied[exec.op] = 0

\* A mandate amendment raises the revision, so the revision tells the mandate.
RevisionFixesMandate ==
    /\ \A o \in Op : oRev[o] <= cRev /\ (oRev[o] = cRev => oMandate[o] = mandate)
    /\ exec.step \in BeforeReplacement => oMandate[exec.op] = mandate /\ cStatus # "cancelled"

IndInv ==
    /\ TypeOK /\ ThreadOwnsOperation
    /\ UncertainStops /\ ExecutionIsAnswered
    /\ NotYetApplied /\ AppliedAtMostOnce
    /\ RevisionFixesMandate

\* An operation's content is nowhere before its file was put in place, and it was
\* not there when the operation was bound to its target.
ContentIsApplied ==
    /\ \A o \in Op : applied[o] = 0 =>
                        target.content # o /\ \A x \in Op : aside[x].content # o
    /\ \A o \in Op : bound[o].content # o

\* Nothing was moved aside for an operation that has not come that far.
NotYetDisplaced ==
    /\ \A o \in Op : oStatus[o] \in {"none", "approval_required", "authorized"}
                        => aside[o] = NoFile
    /\ exec.step \in {"recheck", "write", "check", "displace"} => aside[exec.op] = NoFile

\* What the executing thread may rely on, over the writes of others.
ThreadKnowsFiles ==
    /\ exec.step \in {"replace", "unlink"} => aside[exec.op] = bound[exec.op]
    /\ exec.step \in {"inspect", "replace", "restore"} =>
          \A o \in Op : oStatus[o] = "failed" => aside[exec.op].content # o
    /\ exec.step = "restore" => applied[exec.op] = 0
    /\ exec.step = "unlink" => applied[exec.op] = 1
    /\ exec.step = "record" /\ exec.outcome = "failed" => applied[exec.op] = 0
    /\ exec.step = "observed" /\ exec.outcome = "failed" => target.content # exec.op
    /\ exec.step \in {"record", "observed"} /\ exec.outcome = "confirmed" => applied[exec.op] = 1

FileInv ==
    /\ ContentIsApplied /\ NotYetDisplaced /\ ThreadKnowsFiles
    /\ ReceiptIsTrue /\ OthersWorkSurvives

\* The initial state satisfies the invariant.
LEMMA InitInv == Init => IndInv
<1> SUFFICES ASSUME Init PROVE IndInv
    OBVIOUS
<1>1. Cardinality(Op) \in Nat
    BY OperationsAssumption, FS_CardinalityType
<1>2. TypeOK
    BY <1>1, OperationsAssumption
    DEF Init, TypeOK, NoExec, NoOne, NoFile, FirstFile, MaybeFile, File, Node, Content,
        OperationStatus, GateStatus, Steps, Outcomes
<1> QED
    BY <1>2
    DEF Init, IndInv, ThreadOwnsOperation, UncertainStops, ExecutionIsAnswered, NotYetApplied,
        AppliedAtMostOnce, RevisionFixesMandate, NoExec, BeforeReplacement, EffectSteps

\* Every step keeps the types.
LEMMA TypeStep == TypeOK /\ ThreadOwnsOperation /\ [Next]_vars => TypeOK'
<1> SUFFICES ASSUME TypeOK, ThreadOwnsOperation, [Next]_vars PROVE TypeOK'
    OBVIOUS
<1> USE OperationsAssumption
<1> USE DEF TypeOK, NoExec, NoOne, NoFile, MaybeFile, File, Content, OperationStatus,
            GateStatus, Steps, Outcomes, commissionVars, attemptVars, idVars, gateVars, keyVars,
            fileVars, boundVars
<1>1. ASSUME NEW o \in Op, ProposeOperation(o) PROVE TypeOK'
    BY <1>1 DEF ProposeOperation, ContextIsCurrent, SetOperation, Classified, Bind
<1>2. ASSUME NEW o \in Op, ApproveOperation(o) PROVE TypeOK'
    BY <1>2 DEF ApproveOperation, ContextIsCurrent, SetOperation
<1>3. ASSUME NEW o \in Op, StartOperation(o) PROVE TypeOK'
    BY <1>3 DEF StartOperation, MutexIsFree, GateIsAuthorized, ContextIsCurrent, SetOperation
<1>4. ASSUME NEW o \in Op, Recheck(o) PROVE TypeOK'
    BY <1>4, ZenonT(40) DEF Recheck, At, Step, Ends, EffectFrame, ContextIsCurrent
<1>5. ASSUME NEW o \in Op, WriteTemporary(o) PROVE TypeOK'
    BY <1>5, ZenonT(40) DEF WriteTemporary, At, Step, Ends, EffectFrame
<1>6. ASSUME NEW o \in Op, CheckTarget(o) PROVE TypeOK'
    BY <1>6, ZenonT(40) DEF CheckTarget, At, Step, Ends, EffectFrame
<1>7. ASSUME NEW o \in Op, Displace(o) PROVE TypeOK'
    <2>1. NoFile \in MaybeFile
        OBVIOUS
    <2>2. exec' \in [op : Op \union {NoOne}, step : Steps, outcome : Outcomes, rev : Nat]
        BY <1>7, ZenonT(40) DEF Displace, Step, Ends
    <2>3. target' \in MaybeFile /\ temp' \subseteq Op /\ aside' \in [Op -> MaybeFile]
        BY ONLY TypeOK, o \in Op, <1>7, <2>1 DEF TypeOK, Displace
    <2> QED
        BY ONLY TypeOK, <1>7, <2>2, <2>3
        DEF TypeOK, Displace, EffectFrame, commissionVars, attemptVars, idVars, gateVars, keyVars,
            boundVars
<1>8. ASSUME NEW o \in Op, InspectDisplaced(o) PROVE TypeOK'
    BY <1>8 DEF InspectDisplaced, At, Step, EffectFrame
<1>9. ASSUME NEW o \in Op, Replace(o) PROVE TypeOK'
    BY <1>9, SMTT(30) DEF Replace, At, Step, FreeNodes, EffectFrame
<1>10. ASSUME NEW o \in Op, Restore(o) PROVE TypeOK'
    <2>1. NoFile \in MaybeFile
        OBVIOUS
    <2>2. exec' \in [op : Op \union {NoOne}, step : Steps, outcome : Outcomes, rev : Nat]
        BY <1>10, ZenonT(40) DEF Restore, Ends
    <2>3. target' \in MaybeFile /\ temp' \subseteq Op /\ aside' \in [Op -> MaybeFile]
        BY ONLY TypeOK, o \in Op, <1>10, <2>1 DEF TypeOK, Restore
    <2> QED
        BY ONLY TypeOK, <1>10, <2>2, <2>3
        DEF TypeOK, Restore, EffectFrame, commissionVars, attemptVars, idVars, gateVars, keyVars,
            boundVars
<1>11. ASSUME NEW o \in Op, UnlinkDisplaced(o) PROVE TypeOK'
    BY <1>11, ZenonT(40) DEF UnlinkDisplaced, At, Ends, OutcomeAfterReplacement, EffectFrame
<1>12. ASSUME NEW o \in Op, RecordOutcome(o) PROVE TypeOK'
    BY <1>12 DEF RecordOutcome, At, SetOperation, PauseActive, ThreadOwnsOperation
<1>13. ASSUME NEW o \in Op, RecordFails(o) PROVE TypeOK'
    BY <1>13 DEF RecordFails, At
<1>14. ASSUME NEW o \in Op, ObserveTarget(o) PROVE TypeOK'
    BY <1>14 DEF ObserveTarget, MutexIsFree, Supported
<1>15. ASSUME NEW o \in Op, ReconcileOperation(o) PROVE TypeOK'
    BY <1>15 DEF ReconcileOperation, At, SetOperation
<1>16. ASSUME StartAttempt PROVE TypeOK'
    BY <1>16 DEF StartAttempt, OperationFrame
<1>17. ASSUME EndAttempt PROVE TypeOK'
    BY <1>17 DEF EndAttempt, OperationFrame
<1>18. ASSUME CompleteCommission PROVE TypeOK'
    BY <1>18 DEF CompleteCommission, OperationFrame, Live
<1>19. ASSUME PauseCommission PROVE TypeOK'
    BY <1>19 DEF PauseCommission, OperationFrame
<1>20. ASSUME ResumeCommission PROVE TypeOK'
    BY <1>20 DEF ResumeCommission, NothingUncertain, OperationFrame
<1>21. ASSUME CancelCommission PROVE TypeOK'
    BY <1>21 DEF CancelCommission, MutexIsFree, InFlight, OperationFrame, Live
<1>22. ASSUME AmendVerification PROVE TypeOK'
    BY <1>22 DEF AmendVerification, OperationFrame
<1>23. ASSUME AcceptCommissionAmendment PROVE TypeOK'
    BY <1>23 DEF AcceptCommissionAmendment, MutexIsFree, Withdraw, OperationFrame, Live
<1>24. ASSUME WriterReplaces PROVE TypeOK'
    BY <1>24 DEF WriterReplaces, FreeNodes, WriterFrame
<1>25. ASSUME WriterEdits PROVE TypeOK'
    BY <1>25 DEF WriterEdits, WriterFrame
<1>26. ASSUME Crash PROVE TypeOK'
    BY <1>26 DEF Crash
<1>27. ASSUME RecoverStrandedOperations PROVE TypeOK'
    BY <1>27 DEF RecoverStrandedOperations, InFlight, PauseActive, AnsweredByRestart
<1>28. ASSUME RecoverStrandedAttempts PROVE TypeOK'
    BY <1>28 DEF RecoverStrandedAttempts, Live
<1>29. CASE UNCHANGED vars
    BY <1>29 DEF vars
<1> QED
    BY <1>1, <1>2, <1>3, <1>4, <1>5, <1>6, <1>7, <1>8, <1>9, <1>10, <1>11, <1>12, <1>13, <1>14,
       <1>15, <1>16, <1>17, <1>18, <1>19, <1>20, <1>21, <1>22, <1>23, <1>24, <1>25, <1>26,
       <1>27, <1>28, <1>29 DEF Next, Effect

\* What Step and Ends leave in the thread's record.
LEMMA ThreadMoves ==
    ASSUME TypeOK, NEW s \in Steps, NEW r \in Outcomes,
           \/ Step(s) /\ r = exec.outcome
           \/ Ends(r) /\ s = "record"
    PROVE  /\ exec' = [op |-> exec.op, step |-> s, outcome |-> r, rev |-> exec.rev]
           /\ exec'.op = exec.op /\ exec'.step = s /\ exec'.outcome = r /\ exec'.rev = exec.rev
<1>1. exec = [op |-> exec.op, step |-> exec.step, outcome |-> exec.outcome, rev |-> exec.rev]
    BY DEF TypeOK
<1> QED
    BY <1>1 DEF Step, Ends

\* A step of the effect that renames nothing into place and records nothing.
QuietStep(s, r) ==
    /\ phase = "up" /\ exec.step \in EffectSteps \ {"record"}
    /\ s \in EffectSteps /\ (s \in BeforeReplacement => exec.step \in BeforeReplacement)
    /\ s = "record" => r # "none"
    /\ \/ Step(s) /\ r = exec.outcome
       \/ Ends(r) /\ s = "record"
    /\ UNCHANGED <<commissionVars, oRev, oMandate, oStatus, keyVars, phase, applied>>

\* Such a step keeps everything but the types.
LEMMA QuietStepKeeps ==
    ASSUME IndInv, NEW s \in Steps, NEW r \in Outcomes, QuietStep(s, r)
    PROVE  /\ ThreadOwnsOperation' /\ UncertainStops' /\ ExecutionIsAnswered'
           /\ NotYetApplied' /\ AppliedAtMostOnce' /\ RevisionFixesMandate'
<1>1. exec'.op = exec.op /\ exec'.step = s /\ exec'.outcome = r
    BY ThreadMoves DEF IndInv, QuietStep
<1>2. exec' # NoExec /\ s # "idle" /\ s # "observed" /\ exec # NoExec
    BY <1>1 DEF NoExec, QuietStep, EffectSteps, BeforeReplacement
<1>3. ThreadOwnsOperation'
    BY <1>1, <1>2 DEF IndInv, QuietStep, ThreadOwnsOperation, NoExec
<1>4. UncertainStops' /\ ExecutionIsAnswered' /\ AppliedAtMostOnce'
    BY DEF IndInv, QuietStep, UncertainStops, ExecutionIsAnswered, AppliedAtMostOnce,
           commissionVars, keyVars
<1>5. NotYetApplied' /\ RevisionFixesMandate'
    BY <1>1 DEF IndInv, QuietStep, NotYetApplied, RevisionFixesMandate, commissionVars
<1> QED
    BY <1>3, <1>4, <1>5

\* The steps of the effect itself keep everything but the types.
LEMMA EffectKeeps ==
    ASSUME IndInv, NEW o \in Op,
           \/ Recheck(o) \/ WriteTemporary(o) \/ CheckTarget(o) \/ Displace(o)
           \/ InspectDisplaced(o) \/ Replace(o) \/ Restore(o) \/ UnlinkDisplaced(o)
    PROVE  /\ ThreadOwnsOperation' /\ UncertainStops' /\ ExecutionIsAnswered'
           /\ NotYetApplied' /\ AppliedAtMostOnce' /\ RevisionFixesMandate'
<1> USE DEF EffectSteps, BeforeReplacement, commissionVars, idVars, gateVars, keyVars
<1>type. /\ TypeOK /\ ThreadOwnsOperation /\ UncertainStops /\ ExecutionIsAnswered
         /\ NotYetApplied /\ AppliedAtMostOnce /\ RevisionFixesMandate
         /\ exec.outcome \in Outcomes
    BY DEF IndInv, TypeOK
<1>set. /\ EffectSteps \subseteq Steps
        /\ {"confirmed", "failed", "uncertain"} \subseteq Outcomes
    BY DEF Steps, Outcomes
<1>quiet. ASSUME NEW s \in EffectSteps, NEW r \in Outcomes, QuietStep(s, r)
          PROVE  /\ ThreadOwnsOperation' /\ UncertainStops' /\ ExecutionIsAnswered'
                 /\ NotYetApplied' /\ AppliedAtMostOnce' /\ RevisionFixesMandate'
    BY <1>quiet, <1>set, QuietStepKeeps
<1>1. CASE Recheck(o)
    <2>1. QuietStep("write", exec.outcome) \/ QuietStep("record", "failed")
        BY <1>1 DEF Recheck, QuietStep, At, EffectFrame
    <2> QED
        BY <2>1, <1>quiet, <1>type, <1>set
<1>2. CASE WriteTemporary(o)
    <2>1. QuietStep("check", exec.outcome) \/ QuietStep("record", "failed")
        BY <1>2 DEF WriteTemporary, QuietStep, At, EffectFrame
    <2> QED
        BY <2>1, <1>quiet, <1>type, <1>set
<1>3. CASE CheckTarget(o)
    <2>1. QuietStep("displace", exec.outcome) \/ QuietStep("record", "failed")
        BY <1>3 DEF CheckTarget, QuietStep, At, EffectFrame
    <2> QED
        BY <2>1, <1>quiet, <1>type, <1>set
<1>4. CASE Displace(o)
    <2>1. QuietStep("inspect", exec.outcome) \/ QuietStep("record", "failed")
        BY <1>4 DEF Displace, QuietStep, At, EffectFrame
    <2> QED
        BY <2>1, <1>quiet, <1>type, <1>set
<1>5. CASE InspectDisplaced(o)
    <2>1. QuietStep("replace", exec.outcome) \/ QuietStep("restore", exec.outcome)
        BY <1>5 DEF InspectDisplaced, QuietStep, At, EffectFrame
    <2> QED
        BY <2>1, <1>quiet, <1>type, <1>set
<1>6. CASE Replace(o)
    <2>1. CASE QuietStep("restore", exec.outcome)
        BY <2>1, <1>quiet, <1>type, <1>set
    <2>2. CASE Step("unlink") /\ applied' = [applied EXCEPT ![o] = @ + 1]
        <3>1. exec'.op = o /\ exec'.step = "unlink" /\ exec.op = o /\ exec.step = "replace"
            BY <1>6, <2>2, <1>type, <1>set, ThreadMoves DEF Replace, At
        <3>2. UNCHANGED <<commissionVars, oRev, oMandate, oStatus, keyVars, phase>> /\ phase = "up"
            BY <1>6 DEF Replace, At, EffectFrame
        <3>3. ThreadOwnsOperation'
            BY <1>type, <3>1, <3>2 DEF ThreadOwnsOperation, NoExec
        <3>4. oStatus[o] = "started" /\ applied[o] = 0
            BY <1>type, <3>1 DEF ThreadOwnsOperation, NotYetApplied
        <3>5. NotYetApplied' /\ AppliedAtMostOnce'
            BY <1>type, <2>2, <3>1, <3>2, <3>4 DEF TypeOK, NotYetApplied, AppliedAtMostOnce
        <3>6. UncertainStops' /\ ExecutionIsAnswered' /\ RevisionFixesMandate'
            BY <1>type, <3>1, <3>2
            DEF UncertainStops, ExecutionIsAnswered, RevisionFixesMandate
        <3> QED
            BY <3>3, <3>5, <3>6
    <2> QED
        BY <1>6, <2>1, <2>2 DEF Replace, QuietStep, At, EffectFrame
<1>7. CASE Restore(o)
    <2>1. QuietStep("record", "failed") \/ QuietStep("record", "uncertain")
        BY <1>7 DEF Restore, QuietStep, At, EffectFrame
    <2> QED
        BY <2>1, <1>quiet, <1>type, <1>set
<1>8. CASE UnlinkDisplaced(o)
    <2>1. QuietStep("record", "confirmed") \/ QuietStep("record", "uncertain")
        BY <1>8 DEF UnlinkDisplaced, OutcomeAfterReplacement, QuietStep, At, EffectFrame
    <2> QED
        BY <2>1, <1>quiet, <1>type, <1>set
<1> QED
    BY <1>1, <1>2, <1>3, <1>4, <1>5, <1>6, <1>7, <1>8

\* Every step keeps the rest of the invariant.
LEMMA IndStep == IndInv /\ [Next]_vars => IndInv'
<1> SUFFICES ASSUME IndInv, [Next]_vars PROVE IndInv'
    OBVIOUS
<1>type. TypeOK /\ TypeOK'
    BY TypeStep DEF IndInv
<1> DEFINE Rest == /\ ThreadOwnsOperation /\ UncertainStops /\ ExecutionIsAnswered
                   /\ NotYetApplied /\ AppliedAtMostOnce /\ RevisionFixesMandate
<1> SUFFICES Rest'
    BY <1>type DEF IndInv
<1> Rest
    BY DEF IndInv
<1> USE <1>type DEF TypeOK, ThreadOwnsOperation, UncertainStops, ExecutionIsAnswered,
            NotYetApplied, AppliedAtMostOnce, RevisionFixesMandate, BeforeReplacement,
            EffectSteps, NoExec, NoOne, commissionVars, attemptVars, idVars, gateVars, keyVars,
            fileVars, boundVars
<1>1. ASSUME NEW o \in Op, ProposeOperation(o) PROVE Rest'
    BY <1>1 DEF ProposeOperation, ContextIsCurrent, SetOperation, Classified, Bind
<1>2. ASSUME NEW o \in Op, ApproveOperation(o) PROVE Rest'
    BY <1>2 DEF ApproveOperation, ContextIsCurrent, SetOperation
<1>3. ASSUME NEW o \in Op, StartOperation(o) PROVE Rest'
    BY <1>3 DEF StartOperation, MutexIsFree, GateIsAuthorized, ContextIsCurrent, SetOperation
<1>4. ASSUME NEW o \in Op,
             \/ Recheck(o) \/ WriteTemporary(o) \/ CheckTarget(o) \/ Displace(o)
             \/ InspectDisplaced(o) \/ Replace(o) \/ Restore(o) \/ UnlinkDisplaced(o)
      PROVE  Rest'
    BY ONLY IndInv, <1>4, EffectKeeps
<1>5. ASSUME NEW o \in Op, RecordOutcome(o) PROVE Rest'
    <2>1. /\ exec.op = o /\ exec.step = "record"
          /\ exec.outcome \in {"confirmed", "failed", "uncertain"}
          /\ oStatus[o] = "started" /\ exec' = NoExec /\ exec'.step = "idle"
        BY <1>5 DEF RecordOutcome, At, Outcomes
    <2>2. oStatus' = [oStatus EXCEPT ![o] = exec.outcome] /\ oStatus'[o] = exec.outcome
        BY <1>5 DEF RecordOutcome, SetOperation
    <2>3. UncertainStops'
        BY <1>5, <2>1, <2>2 DEF RecordOutcome, PauseActive
    <2>4. ExecutionIsAnswered'
        BY <1>5, <2>1, <2>2 DEF RecordOutcome
    <2>5. ThreadOwnsOperation' /\ NotYetApplied' /\ AppliedAtMostOnce' /\ RevisionFixesMandate'
        BY <1>5, <2>1, <2>2 DEF RecordOutcome, PauseActive
    <2> QED
        BY <2>3, <2>4, <2>5
<1>6. ASSUME NEW o \in Op, RecordFails(o) PROVE Rest'
    BY <1>6 DEF RecordFails, At
<1>7. ASSUME NEW o \in Op, ObserveTarget(o) PROVE Rest'
    BY <1>7 DEF ObserveTarget, MutexIsFree, Supported
<1>8. ASSUME NEW o \in Op, ReconcileOperation(o) PROVE Rest'
    BY <1>8 DEF ReconcileOperation, At, SetOperation
<1>9. ASSUME StartAttempt PROVE Rest'
    BY <1>9 DEF StartAttempt, OperationFrame
<1>10. ASSUME EndAttempt PROVE Rest'
    BY <1>10 DEF EndAttempt, OperationFrame
<1>11. ASSUME CompleteCommission PROVE Rest'
    BY <1>11 DEF CompleteCommission, OperationFrame, Live
<1>12. ASSUME PauseCommission PROVE Rest'
    BY <1>12 DEF PauseCommission, OperationFrame
<1>13. ASSUME ResumeCommission PROVE Rest'
    BY <1>13 DEF ResumeCommission, NothingUncertain, OperationFrame
<1>14. ASSUME CancelCommission PROVE Rest'
    BY <1>14 DEF CancelCommission, MutexIsFree, InFlight, OperationFrame, Live
<1>15. ASSUME AmendVerification PROVE Rest'
    BY <1>15 DEF AmendVerification, OperationFrame
<1>16. ASSUME AcceptCommissionAmendment PROVE Rest'
    BY <1>16 DEF AcceptCommissionAmendment, MutexIsFree, Withdraw, OperationFrame, Live
<1>17. ASSUME WriterReplaces PROVE Rest'
    BY <1>17 DEF WriterReplaces, FreeNodes, WriterFrame
<1>18. ASSUME WriterEdits PROVE Rest'
    BY <1>18 DEF WriterEdits, WriterFrame
<1>19. ASSUME Crash PROVE Rest'
    BY <1>19 DEF Crash
<1>20. ASSUME RecoverStrandedOperations PROVE Rest'
    BY <1>20 DEF RecoverStrandedOperations, InFlight, PauseActive, AnsweredByRestart
<1>21. ASSUME RecoverStrandedAttempts PROVE Rest'
    BY <1>21 DEF RecoverStrandedAttempts, Live
<1>22. CASE UNCHANGED vars
    BY <1>22 DEF vars
<1> QED
    BY <1>1, <1>2, <1>3, <1>4, <1>5, <1>6, <1>7, <1>8, <1>9, <1>10, <1>11, <1>12, <1>13, <1>14,
       <1>15, <1>16, <1>17, <1>18, <1>19, <1>20, <1>21, <1>22 DEF Next, Effect

\* The invariant holds in every reachable state.
LEMMA Invariance == Spec => []IndInv
<1> QED
    BY InitInv, IndStep, PTL DEF Spec

\* A missing file is none that anybody left.
LEMMA NoFileFacts ==
    ASSUME TypeOK
    PROVE  /\ theirs # NoFile /\ NoFile.content = "nothing" /\ NoFile.content \notin Op
           /\ "before" \notin Op /\ "other" \notin Op
           /\ \A o \in Op : bound[o] # NoFile => bound[o] \in File
<1>1. "before" \notin Op /\ "other" \notin Op /\ "nothing" \notin Op
    BY OperationsAssumption
<1>2. Cardinality(Op) \in Nat
    BY OperationsAssumption, FS_CardinalityType
<1>3. 0 \notin Node
    BY <1>2 DEF Node
<1>4. theirs.node \in Node
    BY DEF TypeOK, File
<1> QED
    BY <1>1, <1>3, <1>4 DEF TypeOK, NoFile, MaybeFile

Early == {"none", "approval_required", "authorized"}

\* The files stay where they are; only a new operation is bound to its target.
FilesStay ==
    /\ UNCHANGED <<target, aside, applied, theirs>>
    /\ \A o \in Op : bound'[o] = bound[o] \/ (oStatus[o] = "none" /\ bound'[o] = target)
    /\ \A o \in Op : oStatus'[o] \in Early => oStatus[o] \in Early

LEMMA FilesStayKeeps ==
    ASSUME IndInv, FileInv, FilesStay
    PROVE  /\ ContentIsApplied' /\ OthersWorkSurvives'
           /\ \A o \in Op : oStatus'[o] \in Early => aside'[o] = NoFile
<1>1. \A o \in Op : oStatus[o] = "none" => applied[o] = 0
    BY DEF IndInv, NotYetApplied
<1>2. ContentIsApplied'
    BY <1>1 DEF FileInv, ContentIsApplied, FilesStay
<1>3. \A o \in Op : applied[o] > 0 => bound'[o] = bound[o]
    BY <1>1 DEF FilesStay
<1>4. OthersWorkSurvives'
    BY <1>3 DEF FileInv, OthersWorkSurvives, FilesStay
<1>5. \A o \in Op : oStatus'[o] \in Early => aside'[o] = NoFile
    BY DEF FileInv, NotYetDisplaced, FilesStay, Early
<1> QED
    BY <1>2, <1>4, <1>5

\* The thread stays where it is or is gone, and no receipt is written.
LEMMA CalmKeeps ==
    ASSUME IndInv, FileInv, FilesStay, exec' = exec \/ exec' = NoExec,
           \A o \in Op : oStatus'[o] \in {"confirmed", "failed"} => oStatus'[o] = oStatus[o]
    PROVE  FileInv'
<1>1. /\ ContentIsApplied' /\ OthersWorkSurvives'
      /\ \A o \in Op : oStatus'[o] \in Early => aside'[o] = NoFile
    BY FilesStayKeeps
<1>2. ReceiptIsTrue'
    BY DEF FileInv, ReceiptIsTrue, FilesStay
<1>3. CASE exec' = NoExec
    <2>1. exec'.step = "idle"
        BY <1>3 DEF NoExec
    <2> QED
        BY <1>1, <1>2, <2>1 DEF FileInv, NotYetDisplaced, ThreadKnowsFiles, Early
<1>4. CASE exec' = exec
    <2>1. NotYetDisplaced'
        BY <1>1, <1>4 DEF FileInv, NotYetDisplaced, FilesStay, Early
    <2>2. exec.step \in {"replace", "unlink"} => bound'[exec.op] = bound[exec.op]
        BY DEF IndInv, ThreadOwnsOperation, EffectSteps, BeforeReplacement, FilesStay, NoExec
    <2>3. ThreadKnowsFiles'
        BY <1>4, <2>2 DEF FileInv, ThreadKnowsFiles, FilesStay
    <2> QED
        BY <1>1, <1>2, <2>1, <2>3 DEF FileInv
<1> QED
    BY <1>3, <1>4

\* The thread goes on, and neither the files nor a receipt change.
LEMMA MoveKeeps ==
    ASSUME IndInv, FileInv, FilesStay, UNCHANGED <<oStatus, bound>>, exec'.op = exec.op,
           NotYetDisplaced' /\ ThreadKnowsFiles'
    PROVE  FileInv'
<1>1. ContentIsApplied' /\ OthersWorkSurvives'
    BY FilesStayKeeps
<1>2. ReceiptIsTrue'
    BY DEF FileInv, ReceiptIsTrue, FilesStay
<1> QED
    BY <1>1, <1>2 DEF FileInv

\* The steps of the effect before the target is moved, and the look at what was moved.
LEMMA LookKeepsFiles ==
    ASSUME IndInv, FileInv, NEW o \in Op,
           Recheck(o) \/ WriteTemporary(o) \/ CheckTarget(o) \/ InspectDisplaced(o)
    PROVE  FileInv'
<1> USE DEF EffectFrame, idVars, gateVars, keyVars
<1>1. FilesStay /\ UNCHANGED <<oStatus, bound>> /\ exec.op = o
    BY DEF Recheck, WriteTemporary, CheckTarget, InspectDisplaced, FilesStay, At
<1>2. TypeOK /\ exec.outcome \in Outcomes
    BY DEF IndInv, TypeOK
<1>3. {"write", "check", "displace", "replace", "restore", "record"} \subseteq Steps /\ "failed" \in Outcomes
    BY DEF Steps, Outcomes
<1>4. CASE /\ exec.step \in {"recheck", "write", "check"}
           /\ Step("write") \/ Step("check") \/ Step("displace") \/ Ends("failed")
    <2>1. /\ exec'.op = exec.op
          /\ \/ exec'.step \in {"write", "check", "displace"}
             \/ exec'.step = "record" /\ exec'.outcome = "failed"
        BY <1>2, <1>3, <1>4, ThreadMoves
    <2>2. applied[o] = 0 /\ aside[o] = NoFile
        BY <1>1, <1>4 DEF IndInv, NotYetApplied, BeforeReplacement, FileInv, NotYetDisplaced
    <2>3. NotYetDisplaced'
        BY <1>1, <2>1, <2>2 DEF FileInv, NotYetDisplaced, FilesStay
    <2>4. ThreadKnowsFiles'
        BY <1>1, <2>1, <2>2 DEF ThreadKnowsFiles, FilesStay
    <2> QED
        BY <1>1, <2>1, <2>3, <2>4, MoveKeeps
<1>5. CASE InspectDisplaced(o)
    <2>1. exec.step = "inspect"
        BY <1>5 DEF InspectDisplaced, At
    <2>2. /\ exec'.op = exec.op
          /\ \/ exec'.step = "replace" /\ aside[o] = bound[o]
             \/ exec'.step = "restore"
        BY <1>2, <1>3, <1>5, ThreadMoves DEF InspectDisplaced, DisplacedIsApproved
    <2>3. applied[o] = 0
        BY <1>1, <2>1 DEF IndInv, NotYetApplied, BeforeReplacement
    <2>4. NotYetDisplaced'
        BY <1>1, <2>2 DEF FileInv, NotYetDisplaced, FilesStay
    <2>5. ThreadKnowsFiles'
        BY <1>1, <2>1, <2>2, <2>3 DEF FileInv, ThreadKnowsFiles, FilesStay
    <2> QED
        BY <1>1, <2>2, <2>4, <2>5, MoveKeeps
<1> QED
    BY <1>4, <1>5 DEF Recheck, WriteTemporary, CheckTarget, At

\* The target is moved aside, where nothing was before.
LEMMA DisplaceKeepsFiles ==
    ASSUME IndInv, FileInv, NEW o \in Op, Displace(o)
    PROVE  FileInv'
<1> USE DEF EffectFrame, idVars, gateVars, keyVars
<1>1. /\ exec.op = o /\ exec.step = "displace" /\ UNCHANGED <<oStatus, bound, applied, theirs>>
    BY DEF Displace, At
<1>2. TypeOK /\ exec.outcome \in Outcomes
    BY DEF IndInv, TypeOK
<1>3. applied[o] = 0 /\ aside[o] = NoFile
    BY <1>1 DEF IndInv, NotYetApplied, BeforeReplacement, FileInv, NotYetDisplaced
<1>4. "inspect" \in Steps /\ "record" \in Steps /\ "failed" \in Outcomes
    BY DEF Steps, Outcomes
<1>5. CASE Ends("failed") /\ UNCHANGED <<target, aside>>
    <2>1. exec'.op = exec.op /\ exec'.step = "record" /\ exec'.outcome = "failed"
        BY <1>2, <1>4, <1>5, ThreadMoves
    <2>2. FilesStay
        BY <1>1, <1>5 DEF FilesStay
    <2>3. NotYetDisplaced' /\ ThreadKnowsFiles'
        BY <1>1, <1>3, <2>1, <2>2 DEF FileInv, NotYetDisplaced, ThreadKnowsFiles, FilesStay
    <2> QED
        BY <1>1, <2>1, <2>2, <2>3, MoveKeeps
<1>6. CASE target # NoFile /\ aside' = [aside EXCEPT ![o] = target] /\ target' = NoFile /\ Step("inspect")
    <2>1. exec'.op = o /\ exec'.step = "inspect"
        BY <1>1, <1>2, <1>4, <1>6, ThreadMoves
    <2>2. /\ target'.content \notin Op /\ aside'[o] = target
          /\ \A x \in Op \ {o} : aside'[x] = aside[x]
        BY <1>2, <1>6, NoFileFacts DEF TypeOK
    <2>3. ContentIsApplied'
        BY <1>1, <2>2 DEF FileInv, ContentIsApplied
    <2>4. oStatus[o] = "started"
        BY <1>1 DEF IndInv, ThreadOwnsOperation, EffectSteps, BeforeReplacement
    <2>5. NotYetDisplaced'
        BY <1>1, <2>1, <2>2, <2>4 DEF FileInv, NotYetDisplaced
    <2>6. ThreadKnowsFiles'
        BY <1>1, <2>1, <2>2 DEF FileInv, ReceiptIsTrue, ThreadKnowsFiles
    <2>7. ReceiptIsTrue'
        BY <1>1, <2>2 DEF FileInv, ReceiptIsTrue
    <2>8. OthersWorkSurvives'
        BY <1>1, <1>2, <1>3, <2>2, NoFileFacts DEF FileInv, OthersWorkSurvives
    <2> QED
        BY <2>3, <2>5, <2>6, <2>7, <2>8 DEF FileInv
<1> QED
    BY <1>5, <1>6 DEF Displace

\* The file is put in place while no target exists, so nothing of others is lost.
LEMMA ReplaceKeepsFiles ==
    ASSUME IndInv, FileInv, NEW o \in Op, Replace(o)
    PROVE  FileInv'
<1> USE DEF EffectFrame, idVars, gateVars, keyVars
<1>1. /\ exec.op = o /\ exec.step = "replace" /\ UNCHANGED <<oStatus, bound, aside, theirs>>
    BY DEF Replace, At
<1>2. TypeOK /\ exec.outcome \in Outcomes /\ {"unlink", "restore"} \subseteq Steps
    BY DEF IndInv, TypeOK, Steps
<1>3. applied[o] = 0 /\ aside[o] = bound[o]
    BY <1>1 DEF IndInv, NotYetApplied, BeforeReplacement, FileInv, ThreadKnowsFiles
<1>4. oStatus[o] = "started"
    BY <1>1 DEF IndInv, ThreadOwnsOperation, EffectSteps, BeforeReplacement
<1>5. CASE Step("restore") /\ UNCHANGED <<target, applied>>
    <2>1. exec'.op = exec.op /\ exec'.step = "restore"
        BY <1>2, <1>5, ThreadMoves
    <2>2. FilesStay
        BY <1>1, <1>5 DEF FilesStay
    <2>3. NotYetDisplaced' /\ ThreadKnowsFiles'
        BY <1>1, <1>3, <2>1, <2>2 DEF FileInv, NotYetDisplaced, ThreadKnowsFiles, FilesStay
    <2> QED
        BY <1>1, <2>1, <2>2, <2>3, MoveKeeps
<1>6. CASE /\ target = NoFile /\ Step("unlink")
           /\ \E n \in FreeNodes : target' = [node |-> n, content |-> o]
           /\ applied' = [applied EXCEPT ![o] = @ + 1]
    <2>1. exec'.op = o /\ exec'.step = "unlink"
        BY <1>1, <1>2, <1>6, ThreadMoves
    <2>2. /\ target'.content = o /\ applied'[o] = 1
          /\ \A x \in Op \ {o} : applied'[x] = applied[x]
        BY <1>2, <1>3, <1>6 DEF TypeOK
    <2>3. ContentIsApplied'
        BY <1>1, <2>2 DEF FileInv, ContentIsApplied
    <2>4. NotYetDisplaced' /\ ThreadKnowsFiles'
        BY <1>1, <1>3, <2>1, <2>2 DEF FileInv, NotYetDisplaced, ThreadKnowsFiles
    <2>5. ReceiptIsTrue'
        BY <1>1, <1>4, <2>2 DEF FileInv, ReceiptIsTrue
    <2>6. \E x \in Op : theirs = aside[x] \/ (applied[x] > 0 /\ theirs = bound[x])
        BY <1>2, <1>6, NoFileFacts DEF FileInv, OthersWorkSurvives
    <2>7. OthersWorkSurvives'
        BY <1>1, <1>3, <2>2, <2>6 DEF OthersWorkSurvives
    <2> QED
        BY <2>3, <2>4, <2>5, <2>7 DEF FileInv
<1> QED
    BY <1>5, <1>6 DEF Replace, RenameFindsNoTarget

\* What was displaced goes back where it was, or stays aside.
LEMMA RestoreKeepsFiles ==
    ASSUME IndInv, FileInv, NEW o \in Op, Restore(o)
    PROVE  FileInv'
<1> USE DEF EffectFrame, idVars, gateVars, keyVars
<1>1. /\ exec.op = o /\ exec.step = "restore" /\ UNCHANGED <<oStatus, bound, applied, theirs>>
    BY DEF Restore, At
<1>2. TypeOK /\ "record" \in Steps /\ {"failed", "uncertain"} \subseteq Outcomes
    BY DEF IndInv, Steps, Outcomes
<1>3. applied[o] = 0
    BY <1>1 DEF FileInv, ThreadKnowsFiles
<1>4. CASE Ends("uncertain") /\ UNCHANGED <<target, aside>>
    <2>1. exec'.op = exec.op /\ exec'.step = "record" /\ exec'.outcome = "uncertain"
        BY <1>2, <1>4, ThreadMoves
    <2>2. FilesStay
        BY <1>1, <1>4 DEF FilesStay
    <2>3. NotYetDisplaced' /\ ThreadKnowsFiles'
        BY <1>1, <2>1, <2>2 DEF FileInv, NotYetDisplaced, ThreadKnowsFiles, FilesStay
    <2> QED
        BY <1>1, <2>1, <2>2, <2>3, MoveKeeps
<1>5. CASE /\ target = NoFile /\ target' = aside[o]
           /\ aside' = [aside EXCEPT ![o] = NoFile] /\ Ends("failed")
    <2>1. exec'.op = o /\ exec'.step = "record" /\ exec'.outcome = "failed"
        BY <1>1, <1>2, <1>5, ThreadMoves
    <2>2. aside'[o] = NoFile /\ \A x \in Op \ {o} : aside'[x] = aside[x]
        BY <1>2, <1>5 DEF TypeOK
    <2>3. ContentIsApplied'
        BY <1>1, <1>2, <1>5, <2>2, NoFileFacts DEF FileInv, ContentIsApplied
    <2>4. NotYetDisplaced' /\ ThreadKnowsFiles'
        BY <1>1, <1>3, <2>1, <2>2 DEF FileInv, NotYetDisplaced, ThreadKnowsFiles
    <2>5. ReceiptIsTrue'
        BY <1>1, <1>5 DEF FileInv, ReceiptIsTrue, ThreadKnowsFiles
    <2>6. \E x \in Op : theirs = aside[x] \/ (applied[x] > 0 /\ theirs = bound[x])
        BY <1>2, <1>5, NoFileFacts DEF FileInv, OthersWorkSurvives
    <2>7. OthersWorkSurvives'
        BY <1>1, <1>5, <2>2, <2>6 DEF OthersWorkSurvives
    <2> QED
        BY <2>3, <2>4, <2>5, <2>7 DEF FileInv
<1> QED
    BY <1>4, <1>5 DEF Restore, RenameFindsNoTarget

\* What is unlinked is exactly what the applied operation was approved to replace.
LEMMA UnlinkKeepsFiles ==
    ASSUME IndInv, FileInv, NEW o \in Op, UnlinkDisplaced(o)
    PROVE  FileInv'
<1> USE DEF EffectFrame, idVars, gateVars, keyVars
<1>1. /\ exec.op = o /\ exec.step = "unlink"
      /\ UNCHANGED <<oStatus, bound, applied, theirs, target>>
    BY DEF UnlinkDisplaced, At
<1>2. TypeOK /\ "record" \in Steps /\ {"confirmed", "uncertain"} \subseteq Outcomes
    BY DEF IndInv, Steps, Outcomes
<1>3. applied[o] = 1 /\ aside[o] = bound[o]
    BY <1>1 DEF FileInv, ThreadKnowsFiles
<1>4. /\ exec'.op = o /\ exec'.step = "record" /\ exec'.outcome \in {"confirmed", "uncertain"}
    BY <1>1, <1>2, ThreadMoves DEF UnlinkDisplaced, OutcomeAfterReplacement
<1>5. /\ aside'[o] \in {aside[o], NoFile}
      /\ \A x \in Op \ {o} : aside'[x] = aside[x]
    BY <1>2 DEF UnlinkDisplaced, TypeOK
<1>6. ContentIsApplied'
    BY <1>1, <1>2, <1>5, NoFileFacts DEF FileInv, ContentIsApplied
<1>7. NotYetDisplaced' /\ ThreadKnowsFiles'
    BY <1>1, <1>3, <1>4, <1>5 DEF FileInv, NotYetDisplaced, ThreadKnowsFiles
<1>8. ReceiptIsTrue'
    BY <1>1 DEF FileInv, ReceiptIsTrue
<1>9. OthersWorkSurvives'
    BY <1>1, <1>3, <1>5 DEF FileInv, OthersWorkSurvives
<1> QED
    BY <1>6, <1>7, <1>8, <1>9 DEF FileInv

\* The transactions around the effect: what they write is true of the files.
LEMMA TransactionKeepsFiles ==
    ASSUME IndInv, FileInv, NEW o \in Op,
           \/ StartOperation(o) \/ RecordOutcome(o)
           \/ ObserveTarget(o) \/ ReconcileOperation(o)
    PROVE  FileInv'
<1> USE DEF idVars, gateVars, keyVars, fileVars, SetOperation
<1>1. TypeOK
    BY DEF IndInv
<1>2. CASE StartOperation(o)
    <2>1. /\ exec'.op = o /\ exec'.step = "recheck" /\ oStatus[o] = "authorized"
          /\ oStatus'[o] = "started" /\ \A x \in Op \ {o} : oStatus'[x] = oStatus[x]
        BY <1>1, <1>2 DEF StartOperation, GateIsAuthorized, TypeOK
    <2>2. FilesStay
        BY <1>2, <2>1 DEF StartOperation, FilesStay, Early
    <2>3. ContentIsApplied' /\ OthersWorkSurvives'
        BY <2>2, FilesStayKeeps
    <2>4. aside[o] = NoFile
        BY <2>1 DEF FileInv, NotYetDisplaced
    <2>5. NotYetDisplaced' /\ ThreadKnowsFiles'
        BY <2>1, <2>2, <2>4 DEF FileInv, NotYetDisplaced, ThreadKnowsFiles, FilesStay, Early
    <2>6. ReceiptIsTrue'
        BY <2>1, <2>2 DEF FileInv, ReceiptIsTrue, FilesStay
    <2> QED
        BY <2>3, <2>5, <2>6 DEF FileInv
<1>3. CASE RecordOutcome(o)
    <2>1. /\ exec.op = o /\ exec.step = "record" /\ exec'.step = "idle"
          /\ exec.outcome \in {"confirmed", "failed", "uncertain"}
          /\ oStatus'[o] = exec.outcome /\ \A x \in Op \ {o} : oStatus'[x] = oStatus[x]
        BY <1>1, <1>3
        DEF RecordOutcome, At, TypeOK, Outcomes, IndInv, ThreadOwnsOperation, NoExec
    <2>2. FilesStay
        BY <1>3, <2>1 DEF RecordOutcome, FilesStay, Early
    <2>3. /\ ContentIsApplied' /\ OthersWorkSurvives'
          /\ \A x \in Op : oStatus'[x] \in Early => aside'[x] = NoFile
        BY <2>2, FilesStayKeeps
    <2>4. NotYetDisplaced' /\ ThreadKnowsFiles'
        BY <2>1, <2>3 DEF NotYetDisplaced, ThreadKnowsFiles, Early
    <2>5. /\ exec.outcome = "confirmed" => applied[o] = 1
          /\ exec.outcome = "failed" => target.content # o
        BY <2>1 DEF FileInv, ThreadKnowsFiles, ContentIsApplied
    <2>6. ReceiptIsTrue'
        BY <2>1, <2>2, <2>5 DEF FileInv, ReceiptIsTrue, FilesStay
    <2> QED
        BY <2>3, <2>4, <2>6 DEF FileInv
<1>4. CASE ObserveTarget(o)
    <2>1. /\ exec'.op = o /\ exec'.step = "observed" /\ UNCHANGED <<oStatus, bound>>
          /\ exec'.outcome \in Supported(o)
        BY <1>4 DEF ObserveTarget
    <2>2. FilesStay
        BY <1>4 DEF ObserveTarget, FilesStay
    <2>3. ContentIsApplied' /\ OthersWorkSurvives'
        BY <2>2, FilesStayKeeps
    <2>4. exec'.outcome = "confirmed" => applied[o] = 1
        <3>1. exec'.outcome = "confirmed" => target.content = o
            BY <2>1 DEF Supported, Observed
        <3>2. applied[o] \in Nat /\ applied[o] <= 1
            BY <1>1 DEF TypeOK, IndInv, AppliedAtMostOnce
        <3> QED
            BY <3>1, <3>2 DEF FileInv, ContentIsApplied
    <2>5. exec'.outcome = "failed" => target.content # o
        BY <2>1 DEF Supported, Observed, FileInv, ContentIsApplied
    <2>6. NotYetDisplaced' /\ ThreadKnowsFiles'
        BY <2>1, <2>2, <2>4, <2>5 DEF FileInv, NotYetDisplaced, ThreadKnowsFiles, FilesStay
    <2>7. ReceiptIsTrue'
        BY <2>1, <2>2 DEF FileInv, ReceiptIsTrue, FilesStay
    <2> QED
        BY <2>3, <2>6, <2>7 DEF FileInv
<1>5. CASE ReconcileOperation(o)
    <2>1. /\ exec.op = o /\ exec.step = "observed" /\ exec'.step = "idle"
          /\ exec.outcome \in {"confirmed", "failed"}
          /\ oStatus'[o] \in {oStatus[o], exec.outcome}
          /\ \A x \in Op \ {o} : oStatus'[x] = oStatus[x]
        BY <1>1, <1>5 DEF ReconcileOperation, At, TypeOK, IndInv, ThreadOwnsOperation, NoExec
    <2>2. FilesStay
        BY <1>5, <2>1 DEF ReconcileOperation, FilesStay, Early
    <2>3. /\ ContentIsApplied' /\ OthersWorkSurvives'
          /\ \A x \in Op : oStatus'[x] \in Early => aside'[x] = NoFile
        BY <2>2, FilesStayKeeps
    <2>4. NotYetDisplaced' /\ ThreadKnowsFiles'
        BY <2>1, <2>3 DEF NotYetDisplaced, ThreadKnowsFiles, Early
    <2>5. /\ exec.outcome = "confirmed" => applied[o] = 1
          /\ exec.outcome = "failed" => target.content # o
        BY <2>1 DEF FileInv, ThreadKnowsFiles
    <2>6. ReceiptIsTrue'
        BY <2>1, <2>2, <2>5 DEF FileInv, ReceiptIsTrue, FilesStay
    <2> QED
        BY <2>3, <2>4, <2>6 DEF FileInv
<1> QED
    BY <1>2, <1>3, <1>4, <1>5

\* Another writer leaves a file whose content is no operation's.
LEMMA WriterKeepsFiles ==
    ASSUME IndInv, FileInv, WriterReplaces \/ WriterEdits
    PROVE  FileInv'
<1> USE DEF idVars, gateVars, WriterFrame
<1>1. TypeOK
    BY DEF IndInv
<1>2. UNCHANGED <<exec, oStatus, bound, aside, applied>> /\ theirs' = target'
    BY DEF WriterReplaces, WriterEdits
<1>3. target'.content \in {"before", "other"}
    BY <1>1 DEF WriterReplaces, WriterEdits, TypeOK, MaybeFile, File, NoFile
<1>4. target'.content \notin Op
    BY <1>1, <1>3, NoFileFacts
<1>5. ContentIsApplied' /\ ReceiptIsTrue' /\ OthersWorkSurvives'
    BY <1>2, <1>4 DEF FileInv, ContentIsApplied, ReceiptIsTrue, OthersWorkSurvives
<1>6. exec.step = "observed" => exec.op \in Op
    BY DEF IndInv, ThreadOwnsOperation, NoExec
<1>7. NotYetDisplaced' /\ ThreadKnowsFiles'
    BY <1>2, <1>4, <1>6 DEF FileInv, NotYetDisplaced, ThreadKnowsFiles
<1> QED
    BY <1>5, <1>7 DEF FileInv

\* Requests of the Principal, the Attempt and the daemon's restart: no file moves.
LEMMA CalmStep ==
    ASSUME IndInv, FileInv,
           \/ \E o \in Op : ProposeOperation(o) \/ ApproveOperation(o) \/ RecordFails(o)
           \/ StartAttempt \/ EndAttempt \/ CompleteCommission
           \/ PauseCommission \/ ResumeCommission \/ CancelCommission
           \/ AmendVerification \/ AcceptCommissionAmendment
           \/ Crash \/ RecoverStrandedOperations \/ RecoverStrandedAttempts
           \/ UNCHANGED vars
    PROVE  FileInv'
<1> USE DEF idVars, gateVars, keyVars, fileVars, OperationFrame
<1>1. TypeOK
    BY DEF IndInv
<1>2. UNCHANGED <<target, aside, applied, theirs>> /\ (exec' = exec \/ exec' = NoExec)
    BY DEF ProposeOperation, ApproveOperation, RecordFails, StartAttempt, EndAttempt,
           CompleteCommission, PauseCommission, ResumeCommission, CancelCommission,
           AmendVerification, AcceptCommissionAmendment, Crash, RecoverStrandedOperations,
           RecoverStrandedAttempts, vars
<1>3. /\ \A o \in Op : bound'[o] = bound[o] \/ (oStatus[o] = "none" /\ bound'[o] = target)
      /\ \A o \in Op : oStatus'[o] \in Early => oStatus[o] \in Early
      /\ \A o \in Op : oStatus'[o] \in {"confirmed", "failed"} => oStatus'[o] = oStatus[o]
    <2>1. CASE \E o \in Op : ProposeOperation(o)
        BY <1>1, <2>1 DEF ProposeOperation, SetOperation, Classified, Bind, TypeOK, Early
    <2>2. CASE \E o \in Op : ApproveOperation(o)
        BY <1>1, <2>2 DEF ApproveOperation, SetOperation, TypeOK, Early
    <2>3. CASE UNCHANGED <<bound, oStatus>>
        BY <2>3
    <2>4. CASE CancelCommission \/ AcceptCommissionAmendment \/ RecoverStrandedOperations
        BY <2>4 DEF CancelCommission, AcceptCommissionAmendment, Withdraw,
                    RecoverStrandedOperations, Early
    <2> QED
        BY <2>1, <2>2, <2>3, <2>4
        DEF RecordFails, StartAttempt, EndAttempt, CompleteCommission, PauseCommission,
            ResumeCommission, AmendVerification, Crash, RecoverStrandedAttempts, vars
<1> QED
    BY <1>2, <1>3, CalmKeeps DEF FilesStay

\* Before anything is proposed there is one file, and others left it.
LEMMA InitFiles == Init => FileInv
<1> SUFFICES ASSUME Init PROVE FileInv
    OBVIOUS
<1>1. "before" \notin Op /\ "nothing" \notin Op
    BY OperationsAssumption
<1> QED
    BY <1>1 DEF Init, FileInv, ContentIsApplied, NotYetDisplaced, ThreadKnowsFiles, ReceiptIsTrue,
                OthersWorkSurvives, NoExec, NoFile, FirstFile

\* Every step keeps what is known of the files.
LEMMA FileStep == IndInv /\ FileInv /\ [Next]_vars => FileInv'
<1> SUFFICES ASSUME IndInv, FileInv, [Next]_vars PROVE FileInv'
    OBVIOUS
<1>1. ASSUME NEW o \in Op, Effect(o) PROVE FileInv'
    BY <1>1, LookKeepsFiles, DisplaceKeepsFiles, ReplaceKeepsFiles, RestoreKeepsFiles,
       UnlinkKeepsFiles, TransactionKeepsFiles, CalmStep DEF Effect
<1> QED
    BY <1>1, TransactionKeepsFiles, WriterKeepsFiles, CalmStep DEF Next

\* It holds in every reachable state.
LEMMA FileInvariance == Spec => []FileInv
<1> QED
    BY Invariance, InitFiles, FileStep, PTL DEF Spec

\* A receipt is true over every interleaving with other writers, crash and
\* reconciliation: confirmed means the file was put in place, failed means it
\* is not there and never will be.
THEOREM ReceiptCorrect == Spec => []ReceiptIsTrue
<1>1. FileInv => ReceiptIsTrue
    BY DEF FileInv
<1> QED
    BY FileInvariance, <1>1, PTL

\* Whatever others last left at the target is in place, set aside, or what an
\* applied operation was approved to replace, wherever the effect is cut.
THEOREM OthersWorkCorrect == Spec => []OthersWorkSurvives
<1>1. FileInv => OthersWorkSurvives
    BY DEF FileInv
<1> QED
    BY FileInvariance, <1>1, PTL

\* The columns and the thread of execute_operation keep their types.
THEOREM OperationTypes == Spec => []TypeOK
<1>1. IndInv => TypeOK
    BY DEF IndInv
<1> QED
    BY Invariance, <1>1, PTL

\* An approval is good for one effect, over any number of crashes, requests and
\* reconciliations: the gate is consumed before anything is touched.
THEOREM AppliedOnceCorrect == Spec => []AppliedAtMostOnce
<1>1. IndInv => AppliedAtMostOnce
    BY DEF IndInv
<1> QED
    BY Invariance, <1>1, PTL

\* An uncertain effect stops its Commission, whoever pauses, resumes or restarts.
THEOREM UncertainCorrect == Spec => []UncertainStops
<1>1. IndInv => UncertainStops
    BY DEF IndInv
<1> QED
    BY Invariance, <1>1, PTL

\* A repeated execute request always finds its answer.
THEOREM AnswerCorrect == Spec => []ExecutionIsAnswered
<1>1. IndInv => ExecutionIsAnswered
    BY DEF IndInv
<1> QED
    BY Invariance, <1>1, PTL

\* Holding the Integration mutex over the whole execution keeps cancellations
\* and mandate amendments from slipping in before the rename.
THEOREM WithdrawalCorrect == Spec => NoEffectAfterWithdrawal
<1> DEFINE Keeps == \A o \in Op : applied'[o] # applied[o] =>
                        cStatus # "cancelled" /\ oMandate[o] = mandate
<1>1. IndInv /\ [Next]_vars => [Keeps]_vars
    <2> SUFFICES ASSUME IndInv, Next PROVE Keeps
        OBVIOUS
    <2>1. ASSUME NEW o \in Op, Replace(o) PROVE Keeps
        BY <2>1 DEF Replace, At, IndInv, TypeOK, RevisionFixesMandate, BeforeReplacement
    <2>2. ASSUME UNCHANGED applied PROVE Keeps
        BY <2>2
    <2>3. CASE \E o \in Op : Effect(o) /\ ~Replace(o)
        <3> PICK o \in Op : Effect(o) /\ ~Replace(o)
            BY <2>3
        <3>1. UNCHANGED applied
            BY DEF Effect, Recheck, WriteTemporary, CheckTarget, Displace, InspectDisplaced,
                   Restore, UnlinkDisplaced, RecordOutcome, RecordFails, fileVars
        <3> QED
            BY <2>2, <3>1
    <2>4. CASE \E o \in Op : \/ ProposeOperation(o) \/ ApproveOperation(o) \/ StartOperation(o)
                              \/ ObserveTarget(o) \/ ReconcileOperation(o)
        <3>1. UNCHANGED applied
            BY <2>4 DEF ProposeOperation, ApproveOperation, StartOperation, ObserveTarget,
                        ReconcileOperation, fileVars
        <3> QED
            BY <2>2, <3>1
    <2>5. CASE \/ StartAttempt \/ EndAttempt \/ CompleteCommission
               \/ PauseCommission \/ ResumeCommission \/ CancelCommission
               \/ AmendVerification \/ AcceptCommissionAmendment
        <3>1. UNCHANGED applied
            BY <2>5 DEF StartAttempt, EndAttempt, CompleteCommission, PauseCommission,
                        ResumeCommission, CancelCommission, AmendVerification,
                        AcceptCommissionAmendment, OperationFrame, fileVars
        <3> QED
            BY <2>2, <3>1
    <2>6. CASE \/ WriterReplaces \/ WriterEdits \/ Crash
               \/ RecoverStrandedOperations \/ RecoverStrandedAttempts
        <3>1. UNCHANGED applied
            BY <2>6 DEF WriterReplaces, WriterEdits, WriterFrame, Crash,
                        RecoverStrandedOperations, RecoverStrandedAttempts, fileVars
        <3> QED
            BY <2>2, <3>1
    <2> QED
        BY <2>1, <2>3, <2>4, <2>5, <2>6 DEF Next, Effect
<1> QED
    BY Invariance, <1>1, PTL DEF Spec, NoEffectAfterWithdrawal

=============================================================================
