------------------------------ MODULE Evidence ------------------------------
(***************************************************************************)
(* How one Commission with a single Assignment is judged: deterministic    *)
(* criteria by the Control Plane on the candidate and on the integrated    *)
(* Result, model and Principal criteria by Entry Sessions that submit      *)
(* Evidence, at any time, also while the Worker's thread has integrated    *)
(* the Result and not finished.  Evidence counts for one mandate and one   *)
(* artifact; failures lead to rework, a ceiling or an amendment, and the   *)
(* last passing verdict completes the Commission.                          *)
(*                                                                         *)
(* Only plans of one Assignment may have criteria that are not             *)
(* deterministic (validate_plan_against).  Abstracted: of the settings of  *)
(* a criterion, its verifier type and depth; the other ones are compared   *)
(* with the mandate's own, so Evidence of one mandate always agrees on     *)
(* them.  Rows of the evidence table are kept per Result, criterion and    *)
(* verifier identity, the last one each, plus the contradictions: no query *)
(* tells more apart.  Why an Attempt fails is left to module Attempts; the *)
(* attachment rights and approval gates an operation needs are assumed.    *)
(***************************************************************************)
EXTENDS Naturals, FiniteSets

CONSTANTS
    Criterion,
    Verifier,       \* attachments that submit Evidence
    Artifact,       \* artifact revisions: what a Worker may produce
    Setting,        \* [type, depth] a criterion may have
    MaxAttempts,    \* resource_ceilings.max_attempts
    MaxAmendments,  \* bound: verification amendments
    MaxSubmissions  \* bound: Evidence submitted by Entry Sessions

NoArtifact == "none"

\* Identities of the Control Plane's own runs of a deterministic criterion.
Run == {"contained-command-1", "contained-command-2"}

ASSUME EvidenceAssumption ==
    /\ IsFiniteSet(Criterion) /\ Criterion # {}
    /\ Setting \subseteq [type: {"deterministic", "model", "principal"},
                          depth: {"standard", "independent"}]
    /\ MaxAttempts \in Nat \ {0} /\ MaxAmendments \in Nat
    /\ MaxSubmissions \in Nat
    /\ NoArtifact \notin Artifact /\ Verifier \intersect Run = {}

Revision == 1..(MaxAmendments + 2)
Attempt  == 1..MaxAttempts          \* an Attempt and the Result it submits

Identity == Verifier \union Run
Verdict == {"passed", "failed", "uncertain"}

VARIABLES
    cStatus, revision, artifact,    \* commissions
    setting, criterion,             \* criteria: settings and status
    gate,                           \* verification_gates
    recovery,                       \* the last verification_recoveries row of a criterion
    aStatus, blocker,               \* the Assignment and its Blocker
    attempt, pc,                    \* attempts.status, and where the thread is
    mandate,                        \* the revision an Attempt was dispatched for
    result, content, integrated,    \* results: status, candidate and integrated revision
    verdict, contradiction,         \* evidence
    submissions                     \* how often Evidence was submitted

mandateVars == <<setting, revision>>
resultVars  == <<result, content, integrated>>
judgeVars   == <<criterion, gate, recovery, verdict, contradiction, submissions>>
threadVars  == <<attempt, pc, mandate>>
vars == <<cStatus, artifact, mandateVars, judgeVars, aStatus, blocker, threadVars, resultVars>>

Deterministic(c) == setting[c].type = "deterministic"

\* open_principal_verification_gates
GatesFor(s) == [c \in Criterion |-> IF s[c].type = "principal" THEN "open" ELSE "none"]

Init ==
    /\ cStatus = "active" /\ revision = 1 /\ artifact = NoArtifact
    /\ setting \in [Criterion -> Setting]
    /\ criterion = [c \in Criterion |-> "uncertain"]
    /\ gate = [n \in Revision |-> IF n = 1 THEN GatesFor(setting)
                                  ELSE [c \in Criterion |-> "none"]]
    /\ recovery = [c \in Criterion |-> "none"]
    /\ aStatus = "ready" /\ blocker = FALSE
    /\ attempt = [t \in Attempt |-> "none"]
    /\ pc = [t \in Attempt |-> "none"]
    /\ mandate = [t \in Attempt |-> 1]
    /\ result = [t \in Attempt |-> "none"]
    /\ content = [t \in Attempt |-> NoArtifact]
    /\ integrated = [t \in Attempt |-> NoArtifact]
    /\ verdict = [t \in Attempt |-> [c \in Criterion |-> [i \in Identity |-> "none"]]]
    /\ contradiction = {} /\ submissions = 0

Started == {t \in Attempt : attempt[t] # "none"}
AttemptsLeft == Cardinality(Started) < MaxAttempts
-----------------------------------------------------------------------------
(* What the Evidence on file says: refresh_criterion_statuses.             *)

Required(c) == IF setting[c].depth = "independent" THEN 2 ELSE 1

\* Mutant: a verdict on an earlier artifact still counts.
CountsForAnyArtifact(t, n, a) ==
    result[t] # "none" /\ integrated[t] # NoArtifact /\ mandate[t] = n

\* The rows the query selects: this mandate, this artifact, not candidate scope.
Counts(t, n, a) == result[t] # "none" /\ integrated[t] = a /\ mandate[t] = n

\* The last verdict of one identity: Results follow each other.
Latest(vs, rs, c, i) ==
    LET said == {t \in rs : vs[t][c][i] # "none"}
    IN  IF said = {} THEN "none"
        ELSE vs[CHOOSE t \in said : \A s \in said : s <= t][c][i]

Passing(vs, rs, c) == {i \in Identity : Latest(vs, rs, c, i) = "passed"}

\* deterministic_failure: any failure of a deterministic criterion, the latest or not.
Fails(vs, rs, c) ==
    \/ \E i \in Identity : Latest(vs, rs, c, i) = "failed"
    \/ Deterministic(c) /\ \E t \in rs, i \in Identity : vs[t][c][i] = "failed"

Contradicted(xs, rs, c) == \E t \in rs : <<t, c>> \in xs

Judged(vs, xs, rs) ==
    [c \in Criterion |->
        IF Contradicted(xs, rs, c) THEN "uncertain"
        ELSE IF Cardinality(Passing(vs, rs, c)) >= Required(c) THEN "passed"
        ELSE IF Fails(vs, rs, c) THEN "failed" ELSE "uncertain"]

Current(n, a) == {t \in Attempt : Counts(t, n, a)}

\* complete_commission: what must hold, and what it sets.  The Attempt is
\* released only when its own thread completes the Commission.
MayComplete(cs, gs, xs, rs) ==
    /\ \A c \in Criterion : cs[c] = "passed" /\ gs[revision][c] # "open"
    /\ \A t \in rs, c \in Criterion : <<t, c>> \in xs => result[t] = "superseded"

Complete(t) ==
    /\ result[t] = "candidate"
    /\ result' = [result EXCEPT ![t] = "accepted"]
    /\ aStatus' = "accepted"
    /\ cStatus' = "verified_complete" /\ revision' = revision + 1
    /\ artifact' = integrated[t]
-----------------------------------------------------------------------------
(* The Worker's thread (run_ready_assignment, legacy plan).                *)

\* The rework that was asked for begins: its rows are resolved.
ReworkStarted ==
    [c \in Criterion |-> IF recovery[c] = "scheduled" THEN "none" ELSE recovery[c]]

Dispatch ==
    /\ cStatus = "active" /\ aStatus = "ready" /\ AttemptsLeft
    /\ LET t == Cardinality(Started) + 1
       IN  /\ attempt' = [attempt EXCEPT ![t] = "running"]
           /\ pc' = [pc EXCEPT ![t] = "verify"]
           /\ mandate' = [mandate EXCEPT ![t] = revision]
           /\ result' = [result EXCEPT ![t] = "candidate"]
           /\ \E a \in Artifact : content' = [content EXCEPT ![t] = a]
    /\ aStatus' = "running"
    /\ recovery' = ReworkStarted
    /\ UNCHANGED <<cStatus, artifact, mandateVars, criterion, gate, verdict, contradiction,
                   submissions, blocker, integrated>>

IsCurrent(t) ==
    /\ cStatus = "active" /\ revision = mandate[t]
    /\ aStatus = "running" /\ attempt[t] = "running"

ReleaseAttempt(t) == attempt' = [attempt EXCEPT ![t] = "ended"]
EndThread(t)      == pc' = [pc EXCEPT ![t] = "none"]

RetainNoncurrentResult(t) ==
    /\ result' = [result EXCEPT ![t] = "superseded"]
    /\ ReleaseAttempt(t) /\ EndThread(t)
    /\ UNCHANGED <<cStatus, artifact, mandateVars, judgeVars, aStatus, blocker, mandate,
                   content, integrated>>

\* The last of the runs of each deterministic criterion decides its status; a
\* run that gives no answer does what a failing one does.
RunsOf(c) == IF setting[c].depth = "independent" THEN Run ELSE {"contained-command-1"}
LastRun(c) == IF setting[c].depth = "independent" THEN "contained-command-2"
              ELSE "contained-command-1"
Outcomes == {o \in [Criterion -> [Run -> {"none", "passed", "failed"}]] :
                \A c \in Criterion, i \in Run :
                    o[c][i] = "none" <=> ~(Deterministic(c) /\ i \in RunsOf(c))}
AllPass(o) == \A c \in Criterion, i \in Run : o[c][i] \in {"none", "passed"}

\* record_evidence at candidate scope: it never counts, but sets the status.
CandidateStatus(o) ==
    [c \in Criterion |-> IF Deterministic(c) THEN o[c][LastRun(c)] ELSE criterion[c]]

CandidatePasses(t) ==
    /\ pc[t] = "verify" /\ IsCurrent(t)
    /\ \E o \in Outcomes : AllPass(o) /\ criterion' = CandidateStatus(o)
    /\ pc' = [pc EXCEPT ![t] = "integrate"]
    /\ UNCHANGED <<cStatus, artifact, mandateVars, gate, recovery, verdict, contradiction,
                   submissions, aStatus, blocker, attempt, mandate, resultVars>>

\* A retry while Attempts are left, or the Assignment stops with a Blocker: at
\* the ceiling, or because the verifier cannot run.  (The second failure puts
\* an equal Assignment in the place of this one.)
CandidateFails(t) ==
    /\ pc[t] = "verify" /\ IsCurrent(t)
    /\ \E o \in Outcomes :
        /\ ~AllPass(o)
        /\ \/ /\ AttemptsLeft
              /\ aStatus' = "ready"
              /\ criterion' = [c \in Criterion |-> "uncertain"]
              /\ result' = [result EXCEPT ![t] = "superseded"]
              /\ UNCHANGED blocker
           \/ /\ aStatus' = "verification_failed"
              /\ blocker' = TRUE
              /\ criterion' = CandidateStatus(o)
              /\ UNCHANGED result
    /\ ReleaseAttempt(t) /\ EndThread(t)
    /\ UNCHANGED <<cStatus, artifact, mandateVars, gate, recovery, verdict, contradiction,
                   submissions, mandate, content, integrated>>

Integrate(t) ==
    /\ pc[t] = "integrate" /\ IsCurrent(t)
    /\ integrated' = [integrated EXCEPT ![t] = content[t]]
    /\ artifact' = content[t]
    /\ pc' = [pc EXCEPT ![t] = "finish"]
    /\ UNCHANGED <<cStatus, mandateVars, judgeVars, aStatus, blocker, attempt, mandate, result,
                   content>>

\* record_evidence at integrated scope, then refresh, then the three ways out.
FinishIntegrated(t) ==
    /\ pc[t] = "finish" /\ IsCurrent(t)
    /\ \E o \in Outcomes :
        LET vs == [verdict EXCEPT ![t] = [c \in Criterion |-> [i \in Identity |->
                     IF i \in Run /\ o[c][i] # "none" THEN o[c][i] ELSE verdict[t][c][i]]]]
            cs == Judged(vs, contradiction, Current(revision, integrated[t]))
        IN  /\ verdict' = vs
            /\ criterion' = cs
            /\ \/ /\ ~AllPass(o)
                  /\ aStatus' = "verification_failed"
                  /\ UNCHANGED <<cStatus, revision, artifact, result>>
               \/ /\ AllPass(o) /\ \E c \in Criterion : cs[c] # "passed"
                  /\ aStatus' = "verification_pending"
                  /\ UNCHANGED <<cStatus, revision, artifact, result>>
               \/ /\ AllPass(o) /\ \A c \in Criterion : cs[c] = "passed"
                  /\ MayComplete(cs, gate, contradiction, Current(revision, integrated[t]))
                  /\ Complete(t)
    /\ ReleaseAttempt(t) /\ EndThread(t)
    /\ UNCHANGED <<setting, gate, recovery, contradiction, submissions, blocker, mandate, content,
                   integrated>>

\* Whatever the thread is about to do, it first asks whether it is still wanted.
Noncurrent(t) ==
    /\ pc[t] # "none" /\ ~IsCurrent(t)
    /\ RetainNoncurrentResult(t)

\* fail_attempt, by the thread itself or by the Watchdog while the thread goes
\* on: an integrated Result is kept for revalidation, and an accepted one stays.
IsAcknowledged(t) == integrated[t] # NoArtifact /\ integrated[t] = artifact

FailAttempt(t) ==
    /\ attempt[t] = "running"
    /\ \/ EndThread(t)
       \/ UNCHANGED pc
    /\ ReleaseAttempt(t)
    /\ result' = [result EXCEPT ![t] = IF @ = "accepted" THEN @
                                       ELSE IF IsAcknowledged(t) THEN "candidate"
                                       ELSE "superseded"]
    /\ \/ /\ aStatus' = "verification_failed" /\ blocker' = TRUE
       \/ /\ AttemptsLeft /\ ~(IsAcknowledged(t) /\ result[t] # "accepted")
          /\ aStatus' = "ready" /\ UNCHANGED blocker
    /\ UNCHANGED <<cStatus, artifact, mandateVars, judgeVars, mandate, content, integrated>>
-----------------------------------------------------------------------------
(* Requests of Entry Sessions and the Principal.                           *)

\* A verifier's or an environment's defect leads to the same steps.
Defect == {"result", "verifier", "criterion"}

\* validate_evidence_submission: only a verdict that is not passed names a defect.
Diagnosis == [verdict: {"passed"}, defect: {"none"}]
             \union [verdict: {"failed", "uncertain"}, defect: Defect]

\* plan_verification_recovery: the status of the new row, if any.
Planned(d, contradicts) ==
    IF contradicts \/ d.defect = "criterion" THEN "attention_required"
    ELSE IF d.defect = "none" THEN "none" ELSE "pending"

\* Mutant: an answer for one criterion closes the questions about all of them.
ResolveAllThenPlan(c, d, contradicts) ==
    [k \in Criterion |-> IF k = c THEN Planned(d, contradicts) ELSE "none"]

\* resolve_verification_recoveries, then a new row when one is called for.
ResolveThenPlan(c, d, contradicts) == [recovery EXCEPT ![c] = Planned(d, contradicts)]

\* Mutant: the gate is refreshed before the criterion is.
GateOfOldStatus(c, cs) ==
    IF setting[c].type = "principal"
    THEN [gate EXCEPT ![revision][c] = IF criterion[c] = "passed" THEN "closed" ELSE "open"]
    ELSE gate

\* refresh_principal_verification_gate
GateAfter(c, cs) ==
    IF setting[c].type = "principal"
    THEN [gate EXCEPT ![revision][c] = IF cs[c] = "passed" THEN "closed" ELSE "open"]
    ELSE gate

\* Mutant: rework is routed while the Attempt still runs.
ReworkWheneverFailed(d, contradicts) ==
    d.verdict = "failed" /\ d.defect = "result" /\ ~contradicts

RoutesRework(d, contradicts) ==
    /\ d.verdict = "failed" /\ d.defect = "result" /\ ~contradicts
    /\ aStatus = "verification_pending"

\* record_verification_evidence with route_result_rework: a Result that failed is
\* given up while Attempts are left, else the Assignment stops with a Blocker, a
\* plain INSERT that fails the whole request where one is left from before an
\* amendment.  complete_after_external_verification comes last: an error in it
\* rolls everything back.
RecordVerificationEvidence(t, c, i, d, contradicts) ==
    LET vs      == [verdict EXCEPT ![t][c][i] = d.verdict]
        xs      == IF contradicts THEN contradiction \union {<<t, c>>} ELSE contradiction
        rs      == Current(revision, artifact)
        givenUp == RoutesRework(d, contradicts) /\ AttemptsLeft
        stopped == RoutesRework(d, contradicts) /\ ~AttemptsLeft
        judged  == Judged(vs, xs, rs)
        cs      == IF givenUp THEN [k \in Criterion |-> "uncertain"] ELSE judged
        gs      == GateAfter(c, judged)
        done    == /\ \A k \in Criterion : cs[k] = "passed"
                   /\ ~\E k \in Criterion : Contradicted(xs, rs, k)
    IN  /\ cStatus = "active" /\ artifact # NoArtifact
        /\ submissions < MaxSubmissions /\ submissions' = submissions + 1
        /\ ~Deterministic(c)
        /\ result[t] = "candidate" /\ integrated[t] = artifact
        /\ verdict' = vs /\ contradiction' = xs
        /\ criterion' = cs /\ gate' = gs
        /\ recovery' = [ResolveThenPlan(c, d, contradicts) EXCEPT
                            ![c] = IF givenUp THEN "scheduled"
                                   ELSE IF stopped THEN "blocked" ELSE @]
        /\ stopped => ~blocker
        /\ blocker' = (blocker \/ stopped)
        /\ IF done
           THEN MayComplete(cs, gs, xs, rs) /\ mandate[t] = revision /\ Complete(t)
           ELSE /\ result' = [result EXCEPT ![t] = IF givenUp THEN "superseded" ELSE @]
                /\ aStatus' = IF givenUp THEN "ready"
                              ELSE IF stopped THEN "resource_blocked" ELSE aStatus
                /\ UNCHANGED <<cStatus, revision, artifact>>
        /\ UNCHANGED <<setting, threadVars, content, integrated>>

\* amend_verification: new settings for the same criteria, and the Assignment
\* starts over.  The Blocker stays.
AmendVerification ==
    /\ cStatus = "active" /\ revision <= MaxAmendments
    /\ aStatus \in {"verification_pending", "verification_failed"}
    /\ revision' = revision + 1
    /\ setting' \in [Criterion -> Setting]
    /\ criterion' = [c \in Criterion |-> "uncertain"]
    /\ recovery' = [c \in Criterion |-> IF recovery[c] = "blocked" THEN "blocked" ELSE "none"]
    /\ gate' = [gate EXCEPT ![revision + 1] = GatesFor(setting')]
    /\ result' = [t \in Attempt |-> IF result[t] = "candidate" THEN "superseded" ELSE result[t]]
    /\ aStatus' = "ready"
    /\ UNCHANGED <<cStatus, artifact, verdict, contradiction, submissions, blocker, threadVars,
                   content, integrated>>

Thread(t) ==
    \/ CandidatePasses(t) \/ CandidateFails(t) \/ Integrate(t) \/ FinishIntegrated(t)
    \/ Noncurrent(t) \/ FailAttempt(t)

Next ==
    \/ Dispatch
    \/ \E t \in Attempt : Thread(t)
    \/ \E t \in Attempt, c \in Criterion, i \in Verifier, d \in Diagnosis, x \in BOOLEAN :
            RecordVerificationEvidence(t, c, i, d, x)
    \/ AmendVerification

Spec == Init /\ [][Next]_vars
-----------------------------------------------------------------------------
\* Commission, Assignment, criteria, gates, Attempts and Results hold the values
\* the schema and the code give them.
TypeOK ==
    /\ cStatus \in {"active", "verified_complete"} /\ revision \in Revision
    /\ artifact \in Artifact \union {NoArtifact}
    /\ setting \in [Criterion -> Setting] /\ criterion \in [Criterion -> Verdict]
    /\ gate \in [Revision -> [Criterion -> {"none", "open", "closed"}]]
    /\ recovery \in [Criterion -> {"none", "pending", "attention_required", "scheduled",
                                   "blocked"}]
    /\ aStatus \in {"ready", "running", "verification_pending", "verification_failed",
                    "resource_blocked", "accepted"}
    /\ blocker \in BOOLEAN
    /\ attempt \in [Attempt -> {"none", "running", "ended"}]
    /\ pc \in [Attempt -> {"none", "verify", "integrate", "finish"}]
    /\ mandate \in [Attempt -> Revision]
    /\ result \in [Attempt -> {"none", "candidate", "superseded", "accepted"}]
    /\ content \in [Attempt -> Artifact \union {NoArtifact}]
    /\ integrated \in [Attempt -> Artifact \union {NoArtifact}]
    /\ verdict \in [Attempt -> [Criterion -> [Identity -> Verdict \union {"none"}]]]
    /\ contradiction \subseteq Attempt \X Criterion /\ submissions \in 0..MaxSubmissions

\* The mandate that is, or at completion was, being verified.
Verified == IF cStatus = "active" THEN revision ELSE revision - 1

\* Who found c fulfilled, last, on the artifact the Commission stands on and
\* under the mandate being verified.
Convinced(c) ==
    {i \in Identity : \E t \in Attempt :
        /\ mandate[t] = Verified /\ integrated[t] = artifact
        /\ verdict[t][c][i] = "passed"
        /\ \A s \in Attempt : s > t /\ mandate[s] = Verified /\ integrated[s] = artifact
                                => verdict[s][c][i] = "none"}

\* While the Result waits for verdicts, and once the Commission is complete, a
\* criterion counts as passed only on the word of as many different verifiers as
\* its depth asks for, about the very artifact and mandate at hand, and nobody
\* has reported a contradiction there; completion needs every criterion
\* (refresh_criterion_statuses, complete_commission).
PassedIsEarned ==
    aStatus = "verification_pending" \/ cStatus = "verified_complete" =>
        \A c \in Criterion :
            /\ cStatus = "verified_complete" => criterion[c] = "passed"
            /\ criterion[c] = "passed" =>
                /\ Cardinality(Convinced(c)) >= (IF setting[c].depth = "standard" THEN 1 ELSE 2)
                /\ \A t \in Attempt : mandate[t] = Verified /\ integrated[t] = artifact
                                        => <<t, c>> \notin contradiction

\* The artifact at hand was integrated before, and another one since: the rows that
\* follow the last Evidence on a criterion may then be about that other artifact.
CameBack ==
    \E r, s, t \in Attempt :
        /\ r < s /\ s < t
        /\ mandate[r] = Verified /\ mandate[s] = Verified /\ mandate[t] = Verified
        /\ integrated[r] = artifact /\ integrated[t] = artifact
        /\ integrated[s] \notin {artifact, NoArtifact}

\* A Principal criterion that passed has no open gate, so Evidence that decides
\* the last criterion is never thrown away by complete_commission's refusal
\* (refresh_principal_verification_gate, open_principal_verification_gates),
\* unless an earlier artifact came back.
PassedClosesGate ==
    \A c \in Criterion :
        criterion[c] = "passed" /\ setting[c].type = "principal" /\ ~CameBack
            => gate[Verified][c] = "closed"

\* Every Result that a verdict on c is about, for the artifact and the mandate at
\* hand, has been given up and a later Attempt was dispatched.
ReworkBegan(c) ==
    \E s \in Started : \A t \in Attempt :
        /\ mandate[t] = revision /\ integrated[t] = artifact
        /\ \E i \in Verifier : verdict[t][c][i] # "none"
        => t < s /\ result[t] = "superseded"

\* A criterion about which nobody on record is convinced, and somebody is not,
\* has an open verification_recoveries row that says what to do about it, or the
\* rework it called for has begun (plan_verification_recovery, route_result_rework,
\* resolve_verification_recoveries, dispatch), unless an earlier artifact came back.
BadNewsIsFollowedUp ==
    \A c \in Criterion :
        /\ cStatus = "active" /\ ~Deterministic(c)
        /\ \E t \in Attempt, i \in Verifier :
                mandate[t] = revision /\ integrated[t] = artifact /\ verdict[t][c][i] # "none"
        /\ Convinced(c) = {} /\ ~CameBack
        => recovery[c] # "none" \/ ReworkBegan(c)

\* A Result that was given up, for rework, by an amendment or because its thread
\* came late, is never a candidate again and never accepted
\* (route_result_rework, fail_attempt's revalidation).
GivenUpStaysGivenUp ==
    [][\A t \in Attempt : result[t] = "superseded" => result'[t] = "superseded"]_vars

=============================================================================
