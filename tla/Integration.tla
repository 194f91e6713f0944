---------------------------- MODULE Integration ----------------------------
(***************************************************************************)
(* How the Results of one Commission reach its Integration repository, and *)
(* how far the repository and the database can drift apart.                *)
(*                                                                         *)
(* The repository's HEAD is changed by contained_codex.rs (integrate,      *)
(* rollback_integration, restore_integration_repository); the database     *)
(* column commissions.artifact_revision by store.rs.  No transaction spans *)
(* both.  Two locks order the changes: the in-process Integration lock,    *)
(* held from before integrate to the commit of its outcome, and the file   *)
(* lock integrate leaves in the returned state, held until the thread is   *)
(* done with it.                                                           *)
(*                                                                         *)
(* A revision is the sequence of the picks that lead to it from the base   *)
(* revision: ancestry is the prefix order.  An Attempt is followed from    *)
(* dispatch to its end; what comes before Integration is one step, and     *)
(* why an Attempt fails is left to module Attempts.                        *)
(***************************************************************************)
EXTENDS Integers, Sequences, FiniteSets, SequencesExt

CONSTANTS
    AttemptBound,    \* bound: Attempts ever started
    MaxConcurrency,  \* resource_ceilings.max_worker_concurrency
    MaxFaults        \* bound: crashes, thread errors and containments

Attempt == 1..AttemptBound
NoOne == 0

ASSUME IntegrationAssumption ==
    AttemptBound \in Nat /\ MaxConcurrency \in Nat /\ MaxFaults \in Nat

\* One candidate's commits in the history: all of them, or only the first ones.
Pick == [by : Attempt, whole : BOOLEAN]

VARIABLES
    head,       \* HEAD of the Integration repository
    artifact,   \* commissions.artifact_revision (<<>> is NULL: the base)
    status,     \* attempts.status, with what follows from it for the Result
    base,       \* the base revision the Attempt was dispatched with
    previous,   \* GitIntegratedState.previous_revision
    revision,   \* results.integrated_artifact_revision (<<>> is NULL)
    pc,         \* where the Attempt's thread is
    mutex,      \* commission_integration_lock
    flock,      \* integration.lock
    cleanup,    \* sandbox_cleanups
    undone,     \* history: Attempts whose Integration was rolled back
    slips,      \* history: what made repository and record part
    up,         \* is the Control Plane running?
    cancelled,  \* was the Commission cancelled?
    faults

vars == <<head, artifact, status, base, previous, revision, pc, mutex, flock, cleanup, undone,
          slips, up, cancelled, faults>>

AttemptStatus == {"none", "running", "accepted", "failed", "retained", "cancelled"}

ThreadStage ==
    {"none", "work", "lock", "integrate", "commit", "finish", "reconcile", "end"}

Authors(r) == {r[i].by : i \in 1..Len(r)}
Running == {t \in Attempt : status[t] = "running"}

\* attempt_continuation, for what this module keeps of it.
IsCurrent(t) == ~cancelled /\ status[t] = "running" /\ t \notin cleanup

SetStatus(t, s) == status' = [status EXCEPT ![t] = s]
GoTo(t, step) == pc' = [pc EXCEPT ![t] = step]

\* The thread returns: whichever locks it holds are dropped.
EndThread(t) ==
    /\ GoTo(t, "end")
    /\ mutex' = IF mutex = t THEN NoOne ELSE mutex
    /\ flock' = IF flock = t THEN NoOne ELSE flock

Init ==
    /\ head = <<>> /\ artifact = <<>>
    /\ status = [t \in Attempt |-> "none"]
    /\ base = [t \in Attempt |-> <<>>] /\ previous = [t \in Attempt |-> <<>>]
    /\ revision = [t \in Attempt |-> <<>>]
    /\ pc = [t \in Attempt |-> "none"]
    /\ mutex = NoOne /\ flock = NoOne /\ cleanup = {} /\ undone = {}
    /\ slips = {}
    /\ up = TRUE /\ cancelled = FALSE /\ faults = 0

\* The revision the next Worker is given: the Commission's artifact, if it has one.
StartingRevision == artifact

\* assignment_execution: the Worker starts from the recorded artifact revision.
Dispatch ==
    LET t == Cardinality({u \in Attempt : status[u] # "none"}) + 1
    IN  /\ up /\ ~cancelled /\ t \in Attempt
        /\ Cardinality(Running) < MaxConcurrency
        /\ SetStatus(t, "running")
        /\ base' = [base EXCEPT ![t] = StartingRevision]
        /\ GoTo(t, "work")
        /\ UNCHANGED <<head, artifact, previous, revision, mutex, flock, cleanup, undone, up,
                       cancelled, faults, slips>>

\* Execution and candidate verification end: with a Result to integrate, or not.
WorkEnds(t) ==
    /\ up /\ pc[t] = "work"
    /\ \/ IsCurrent(t) /\ GoTo(t, "lock") /\ UNCHANGED <<status, mutex, flock>>
       \/ EndThread(t) /\ IF IsCurrent(t) THEN SetStatus(t, "failed") ELSE UNCHANGED status
    /\ UNCHANGED <<head, artifact, base, previous, revision, cleanup, undone, up, cancelled,
                   faults, slips>>

LockIntegration(t) ==
    /\ up /\ pc[t] = "lock" /\ mutex = NoOne
    /\ IF IsCurrent(t)
       THEN mutex' = t /\ GoTo(t, "integrate") /\ UNCHANGED flock
       ELSE EndThread(t)
    /\ UNCHANGED <<head, artifact, status, base, previous, revision, cleanup, undone, up,
                   cancelled, faults, slips>>

\* Mutant: the candidate's own history replaces what was integrated meanwhile.
MergeOntoBase(t) ==
    /\ head' = Append(base[t], [by |-> t, whole |-> TRUE])
    /\ previous' = [previous EXCEPT ![t] = head]

\* integrate, up to the point where it leaves the merged HEAD behind.
Merge(t) ==
    /\ IsPrefix(base[t], head)
    /\ head' = Append(head, [by |-> t, whole |-> TRUE])
    /\ previous' = [previous EXCEPT ![t] = head]

IntegrateSucceeds(t) ==
    /\ up /\ pc[t] = "integrate" /\ flock = NoOne
    /\ Merge(t)
    /\ flock' = t /\ GoTo(t, "commit")
    /\ UNCHANGED <<artifact, status, base, revision, mutex, cleanup, undone, up, cancelled,
                   faults, slips>>

\* What a failed integrate does to HEAD: nothing for a stale base or a first
\* commit that conflicts; the commits before the one that conflicts stay, since
\* `cherry-pick --abort` takes back only that one; all of them stay when a later
\* step (the bundle, the storage ceiling) fails.
HeadAfterFailure(t) ==
    {head}
        \union {Append(head, [by |-> t, whole |-> w]) :
                   w \in {v \in BOOLEAN : IsPrefix(base[t], head) /\ (v \/ base[t] # head)}}

IntegrateFails(t) ==
    /\ up /\ pc[t] = "integrate" /\ flock = NoOne
    /\ head' \in HeadAfterFailure(t)
    /\ slips' = slips \union {x \in {"stray"} : head' # head}
    /\ EndThread(t)
    /\ IF IsCurrent(t) THEN SetStatus(t, "failed") ELSE UNCHANGED status
    /\ UNCHANGED <<artifact, base, previous, revision, cleanup, undone, up, cancelled, faults>>

\* Mutant: the repository is left as it is.
RollbackNothing(t) ==
    /\ undone' = undone \union {t}
    /\ UNCHANGED head

\* rollback_integration
Rollback(t) ==
    /\ head' = previous[t]
    /\ undone' = undone \union {t}

CommitIntegration(t) ==
    /\ up /\ pc[t] = "commit"
    /\ IF IsCurrent(t)
       THEN /\ artifact' = head
            /\ revision' = [revision EXCEPT ![t] = head]
            /\ mutex' = NoOne
            /\ GoTo(t, "finish")
            /\ UNCHANGED <<head, undone, flock>>
       ELSE /\ Rollback(t)
            /\ EndThread(t)
            /\ UNCHANGED <<artifact, revision>>
    /\ UNCHANGED <<status, base, previous, cleanup, up, cancelled, faults, slips>>

AcceptPlannedResult(t) ==
    /\ up /\ pc[t] = "finish" /\ IsCurrent(t)
    /\ artifact' = revision[t]
    /\ SetStatus(t, "accepted")
    /\ EndThread(t)
    /\ UNCHANGED <<head, base, previous, revision, cleanup, undone, up, cancelled, faults, slips>>

\* A regression of the assembled state, or no verdict on it: HEAD goes back to
\* where integrate found it, then the record to what the Attempt was dispatched
\* with.  The write transaction and the file lock keep everybody else out from
\* the git command to the commit.
AssembledStateFails(t) ==
    /\ up /\ pc[t] = "finish" /\ IsCurrent(t)
    /\ Rollback(t)
    /\ artifact' = base[t]
    /\ slips' = slips \union {x \in {"regressed"} : base[t] # previous[t]}
    /\ revision' = [revision EXCEPT ![t] = <<>>]
    /\ GoTo(t, "reconcile")
    /\ UNCHANGED <<status, base, previous, mutex, flock, cleanup, up, cancelled, faults>>

\* HEAD is back already when a statement or the commit of that transaction fails,
\* or the process dies before it: the record keeps the revision.
RollbackUncommitted(t) ==
    /\ up /\ pc[t] = "finish" /\ IsCurrent(t) /\ faults < MaxFaults
    /\ faults' = faults + 1
    /\ Rollback(t)
    /\ EndThread(t)
    /\ UNCHANGED <<artifact, status, base, previous, revision, cleanup, up, cancelled, slips>>

\* require_reconciliation, a transaction of its own.
RequireReconciliation(t) ==
    /\ up /\ pc[t] = "reconcile"
    /\ EndThread(t)
    /\ IF IsCurrent(t) THEN SetStatus(t, "failed") ELSE UNCHANGED status
    /\ UNCHANGED <<head, artifact, base, previous, revision, cleanup, undone, up, cancelled,
                   faults, slips>>

\* No longer current: the integrated Result is retained and nothing is undone.
FinishNoncurrent(t) ==
    /\ up /\ pc[t] = "finish" /\ ~IsCurrent(t)
    /\ EndThread(t)
    /\ UNCHANGED <<head, artifact, status, base, previous, revision, cleanup, undone, up,
                   cancelled, faults, slips>>

\* A database or file error ends the thread where it is; the Attempt stays running.
ThreadError(t) ==
    /\ up /\ pc[t] \in {"lock", "integrate", "commit", "finish", "reconcile"} /\ faults < MaxFaults
    /\ faults' = faults + 1
    /\ EndThread(t)
    /\ UNCHANGED <<head, artifact, status, base, previous, revision, cleanup, undone, up,
                   cancelled, slips>>

\* The Watchdog fences a running Attempt: lost (its thread is gone) or stalled.
WatchdogFence(t) ==
    /\ up /\ ~cancelled /\ t \in Running /\ t \notin cleanup
    /\ IF pc[t] = "end" THEN UNCHANGED faults
       ELSE faults < MaxFaults /\ faults' = faults + 1
    /\ cleanup' = cleanup \union {t}
    /\ UNCHANGED <<head, artifact, status, base, previous, revision, pc, mutex, flock, undone,
                   up, cancelled, slips>>

\* fail_attempt: work already recorded as the current artifact is retained for
\* revalidation, anything else failed.
StatusWhenContained(t) ==
    IF revision[t] # <<>> /\ revision[t] = artifact THEN "retained" ELSE "failed"

WatchdogFail(t) ==
    /\ up /\ t \in cleanup /\ t \in Running
    /\ SetStatus(t, StatusWhenContained(t))
    /\ UNCHANGED <<head, artifact, base, previous, revision, pc, mutex, flock, cleanup, undone,
                   up, cancelled, faults, slips>>

\* Both locks of the Integration can be taken.
IntegrationIsFree == mutex = NoOne /\ flock = NoOne

\* cleanup_stranded_attempt, by the Watchdog under both locks and at startup
\* before anything runs: HEAD is reset to the recorded revision.
RestoreRepository(t) ==
    /\ up /\ t \in cleanup /\ t \notin Running
    /\ IntegrationIsFree
    /\ head' = artifact
    /\ cleanup' = cleanup \ {t}
    /\ UNCHANGED <<artifact, status, base, previous, revision, pc, mutex, flock, undone, up,
                   cancelled, faults, slips>>

CancelCommission ==
    /\ up /\ ~cancelled /\ mutex = NoOne
    /\ cancelled' = TRUE
    /\ status' = [t \in Attempt |-> IF t \in Running THEN "cancelled" ELSE status[t]]
    /\ UNCHANGED <<head, artifact, base, previous, revision, pc, mutex, flock, cleanup, undone,
                   up, faults, slips>>

Crash ==
    /\ up /\ faults < MaxFaults
    /\ up' = FALSE /\ faults' = faults + 1
    /\ pc' = [t \in Attempt |-> IF pc[t] = "none" THEN "none" ELSE "end"]
    /\ mutex' = NoOne /\ flock' = NoOne
    /\ UNCHANGED <<head, artifact, status, base, previous, revision, cleanup, undone, cancelled,
                   slips>>

\* recover_stranded_attempts, then every pending cleanup, then the daemon serves.
Restart ==
    /\ ~up
    /\ up' = TRUE
    /\ status' = [t \in Attempt |-> IF t \in Running /\ ~cancelled
                                    THEN StatusWhenContained(t) ELSE status[t]]
    /\ head' = IF cleanup \union (IF cancelled THEN {} ELSE Running) = {}
               THEN head ELSE artifact
    /\ cleanup' = {}
    /\ UNCHANGED <<artifact, base, previous, revision, pc, mutex, flock, undone, cancelled,
                   faults, slips>>

ThreadStep(t) ==
    \/ WorkEnds(t) \/ LockIntegration(t) \/ IntegrateSucceeds(t) \/ IntegrateFails(t)
    \/ CommitIntegration(t) \/ AcceptPlannedResult(t) \/ AssembledStateFails(t)
    \/ FinishNoncurrent(t) \/ RequireReconciliation(t)

Next ==
    \/ Dispatch
    \/ \E t \in Attempt : \/ ThreadStep(t) \/ ThreadError(t) \/ RollbackUncommitted(t)
                          \/ WatchdogFence(t) \/ WatchdogFail(t) \/ RestoreRepository(t)
    \/ CancelCommission \/ Crash \/ Restart

Spec == Init /\ [][Next]_vars

(***************************************************************************)
(* Properties.                                                             *)
(***************************************************************************)

\* Every variable holds a value of its kind.
TypeOK ==
    /\ head \in Seq(Pick) /\ artifact \in Seq(Pick)
    /\ status \in [Attempt -> AttemptStatus]
    /\ base \in [Attempt -> Seq(Pick)] /\ previous \in [Attempt -> Seq(Pick)]
    /\ revision \in [Attempt -> Seq(Pick)]
    /\ pc \in [Attempt -> ThreadStage]
    /\ mutex \in {NoOne} \union Attempt /\ flock \in {NoOne} \union Attempt
    /\ cleanup \subseteq Attempt /\ undone \subseteq Attempt
    /\ slips \subseteq {"stray", "regressed"}
    /\ up \in BOOLEAN /\ cancelled \in BOOLEAN /\ faults \in 0..MaxFaults

\* No Integration is under way and nothing waits to be cleaned up.
Settled ==
    /\ up /\ ~cancelled /\ cleanup = {}
    /\ \A t \in Attempt : /\ pc[t] \notin {"integrate", "commit", "finish", "reconcile"}
                          /\ t \in Running => pc[t] # "end"

\* The repository and the record agree whenever nothing is under way, over all
\* rollbacks, containments, thread errors and crashes: only an integrate that
\* failed halfway and a regression of overlapping work make them part.
HeadIsRecorded == Settled /\ slips = {} => head = artifact

\* Accepted work stays in the Commission's artifact, from one verification to
\* the next and in what the next Worker is given to start from.
AcceptedWorkIsKept ==
    Settled => \A t \in Attempt : status[t] = "accepted" => t \in Authors(artifact)

\* Nothing but a regression of overlapping work ever loses accepted work: not an
\* integrate that failed halfway, a containment, an error or a crash.
OnlyRegressionLosesWork == "regressed" \notin slips => AcceptedWorkIsKept

\* What was rolled back is never accepted, and once the store has recorded the
\* rollback it is neither in the repository nor in the record, even when other
\* work was started from it before it was undone.  A rollback whose transaction
\* failed is taken back by the next restore, with the revision still recorded.
RolledBackIsGone ==
    Settled => \A t \in undone :
        /\ status[t] # "accepted"
        /\ revision[t] = <<>> => t \notin Authors(head) \union Authors(artifact)

\* An accepted revision contains the accepted work that came before it: no
\* later acceptance silently drops an earlier one, unless the record was set back.
AcceptedExtendsAccepted ==
    "regressed" \notin slips => \A t, u \in Attempt :
        status[t] = "accepted" /\ status[u] = "accepted" /\ Len(revision[t]) <= Len(revision[u])
            => IsPrefix(revision[t], revision[u])

=============================================================================
