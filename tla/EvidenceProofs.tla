--------------------------- MODULE EvidenceProofs ---------------------------
(***************************************************************************)
(* Proofs about Evidence, for every set of criteria, verifiers, artifacts  *)
(* and settings, and every ceiling of Attempts, amendments and             *)
(* submissions.                                                            *)
(*                                                                         *)
(* The inductive invariant has two parts.  Ledger says how Attempts,       *)
(* Results, mandates and the artifact follow each other: only the newest   *)
(* Attempt can run or have a Result that is still a candidate, and the     *)
(* artifact is what was integrated last.  Opinion says what criteria,      *)
(* gates and recoveries owe to the verdicts on that artifact.              *)
(***************************************************************************)
EXTENDS Evidence, FiniteSetTheorems, WellFoundedInduction, TLAPS

\* An amendment can still follow while the Commission is active.
Room == cStatus = "active" => revision <= MaxAmendments + 1

\* Attempts are numbered in the order they are started.
InOrder == \E k \in 0..MaxAttempts : Started = 1..k

\* What an Attempt that was not started, or has integrated nothing, cannot have.
NothingEarly ==
    \A t \in Attempt :
        /\ attempt[t] = "none" => pc[t] = "none" /\ result[t] = "none"
        /\ attempt[t] = "none" => integrated[t] = NoArtifact
        /\ attempt[t] # "none" => content[t] \in Artifact /\ result[t] # "none"
        /\ integrated[t] = NoArtifact => \A c \in Criterion, i \in Identity :
                verdict[t][c][i] = "none" /\ <<t, c>> \notin contradiction

\* Where a thread is, and what the Assignment and the Result are while it runs.
ThreadsAgree ==
    /\ \A t \in Attempt :
        /\ attempt[t] = "running" =>
                /\ pc[t] # "none" /\ result[t] \in {"candidate", "accepted"}
                /\ aStatus = "running" \/ (aStatus = "accepted" /\ cStatus # "active")
        /\ result[t] = "accepted" => cStatus # "active"
        /\ pc[t] \in {"verify", "integrate"} => integrated[t] = NoArtifact
        /\ pc[t] = "finish" => integrated[t] = content[t]
    /\ aStatus = "accepted" => cStatus # "active"

\* No Attempt was started after t.
IsNewest(t) == \A s \in Attempt : attempt[s] # "none" => s <= t

\* Only the newest Attempt runs, or has a Result that may still be accepted, and it
\* is about the mandate of today.
NewestCounts ==
    /\ \A t \in Attempt :
        /\ attempt[t] = "running" => IsNewest(t)
        /\ cStatus = "active" /\ (attempt[t] = "running" \/ result[t] = "candidate")
                => IsNewest(t) /\ mandate[t] = revision
    /\ cStatus = "active" /\ aStatus = "ready" => \A t \in Attempt : result[t] # "candidate"

\* Mandates only grow.
MandatesGrow ==
    /\ \A t \in Attempt : mandate[t] <= Verified
    /\ \A s, t \in Attempt : attempt[t] # "none" /\ s <= t => mandate[s] <= mandate[t]

\* t integrated the artifact at hand, and nothing was integrated after it.
Brought(t) ==
    /\ integrated[t] = artifact
    /\ \A s \in Attempt : integrated[s] # NoArtifact => s <= t

ArtifactIsNewest ==
    IF artifact = NoArtifact THEN \A t \in Attempt : integrated[t] = NoArtifact
    ELSE \E t \in Attempt : Brought(t)

Ledger ==
    /\ TypeOK /\ Room /\ InOrder /\ NothingEarly /\ ThreadsAgree /\ NewestCounts
    /\ MandatesGrow /\ ArtifactIsNewest

\* The verdicts on the artifact and the mandate at hand, as far as they are binding.
AtHand(t) == mandate[t] = Verified /\ integrated[t] = artifact

\* c is fulfilled by what is on record about the artifact at hand.
Fulfilled(c) ==
    /\ Cardinality(Convinced(c)) >= Required(c)
    /\ \A t \in Attempt : AtHand(t) => <<t, c>> \notin contradiction

\* While nothing is integrated to judge, no criterion that needs a verdict is passed.
NothingToJudge ==
    /\ cStatus = "active"
    /\ aStatus = "ready" \/ \E t \in Attempt : attempt[t] = "running" /\ pc[t] \in {"verify", "integrate"}

UndecidedBefore ==
    NothingToJudge => \A c \in Criterion : ~Deterministic(c) => criterion[c] # "passed"

\* A criterion that needs a verdict is passed on the record only.
PassedOnRecord ==
    \A c \in Criterion : ~Deterministic(c) /\ criterion[c] = "passed" => Fulfilled(c)

\* While the Result waits for verdicts and when the Commission is complete, this is
\* so of every criterion.
EarnedByAll ==
    /\ cStatus = "verified_complete" => \A c \in Criterion : criterion[c] = "passed"
    /\ aStatus = "verification_pending" \/ cStatus = "verified_complete" =>
            \A c \in Criterion : criterion[c] = "passed" => Fulfilled(c)

\* What is fulfilled has its gate closed.
GateOf(c) ==
    setting[c].type = "principal" /\ Fulfilled(c) /\ ~CameBack => gate[Verified][c] = "closed"

\* Bad news about c is followed up.
Heard(c) == \E t \in Attempt, i \in Verifier : AtHand(t) /\ verdict[t][c][i] # "none"

\* Every Result at hand that a verdict on c is about was given up before the last
\* Attempt was started.
Begun(c) ==
    \E s \in Attempt :
        /\ attempt[s] # "none"
        /\ \A t \in Attempt : AtHand(t) /\ (\E i \in Verifier : verdict[t][c][i] # "none")
                                => t < s /\ result[t] = "superseded"

NewsOf(c) ==
    /\ cStatus = "active" /\ ~Deterministic(c)
    /\ Heard(c) /\ Convinced(c) = {} /\ ~CameBack
    => recovery[c] # "none" \/ Begun(c)

Opinion ==
    /\ UndecidedBefore /\ PassedOnRecord /\ EarnedByAll
    /\ \A c \in Criterion : GateOf(c) /\ NewsOf(c)

IndInv == Ledger /\ Opinion
-----------------------------------------------------------------------------
(* What Latest and Judged compute.                                         *)

\* Attempts are numbers.
LEMMA AttemptsCount == MaxAttempts \in Nat /\ \A t \in Attempt : t \in Nat /\ t >= 1
BY EvidenceAssumption DEF Attempt

\* A set of Attempts has a last one.
LEMMA HasLast ==
    ASSUME NEW S, S \subseteq Attempt, S # {}
    PROVE  \E t \in S : \A s \in S : s <= t
<1> DEFINE T == {MaxAttempts - t : t \in S}
<1>1. MaxAttempts \in Nat
      BY EvidenceAssumption
<1>2. T \subseteq Nat /\ T # {}
  <2>1. \A t \in S : MaxAttempts - t \in Nat
        BY <1>1 DEF Attempt
  <2> QED BY <2>1
<1>3. \E x \in T : \A y \in T : ~(<<y, x>> \in OpToRel(<, Nat))
      BY <1>2, NatLessThanWellFounded, WFMin
<1>4. PICK x \in T : \A y \in T : ~(y < x)
      BY <1>2, <1>3 DEF OpToRel
<1>5. PICK t \in S : x = MaxAttempts - t
      OBVIOUS
<1>6. \A s \in S : ~(MaxAttempts - s < MaxAttempts - t)
      BY <1>4, <1>5
<1>7. \A s \in S : s <= t
      BY <1>1, <1>6 DEF Attempt
<1> QED BY <1>7

\* Of the verdicts vs on the Results rs, i has one that is passed and none after it.
EndsPassed(vs, rs, c, i) ==
    \E t \in rs : vs[t][c][i] = "passed" /\ \A s \in rs : s > t => vs[s][c][i] = "none"

\* The last verdict is passed exactly when one says so that none follows.
LEMMA LatestPasses ==
    ASSUME NEW vs, NEW rs, rs \subseteq Attempt, NEW c, NEW i
    PROVE  Latest(vs, rs, c, i) = "passed" <=> EndsPassed(vs, rs, c, i)
<1> DEFINE said == {t \in rs : vs[t][c][i] # "none"}
           last == CHOOSE t \in said : \A s \in said : s <= t
<1>1. said \subseteq Attempt
      OBVIOUS
<1>2. CASE said = {}
      BY <1>2 DEF Latest, EndsPassed
<1>3. CASE said # {}
  <2>1. last \in said /\ \A s \in said : s <= last
        BY <1>1, <1>3, HasLast
  <2>2. Latest(vs, rs, c, i) = vs[last][c][i]
        BY <1>3 DEF Latest
  <2> HIDE DEF last
  <2>3. \A s \in rs : s > last => vs[s][c][i] = "none"
        BY <2>1, AttemptsCount
  <2>4. ASSUME NEW t \in rs, vs[t][c][i] = "passed",
               \A s \in rs : s > t => vs[s][c][i] = "none"
        PROVE  t = last
    <3>1. t \in said
          BY <2>4
    <3>2. t <= last /\ ~(last > t)
          BY <2>1, <2>4, <3>1
    <3> QED BY <1>1, <2>1, <3>1, <3>2, AttemptsCount
  <2> QED BY <2>1, <2>2, <2>3, <2>4 DEF EndsPassed
<1> QED BY <1>2, <1>3

\* Who is convinced by the verdicts vs on the Results rs.
ConvincedBy(vs, rs, c) == {i \in Identity : EndsPassed(vs, rs, c, i)}

\* A criterion is judged passed exactly when enough verifiers are convinced and
\* nobody reported a contradiction.
LEMMA JudgedPasses ==
    ASSUME NEW vs, NEW xs, NEW rs, rs \subseteq Attempt, NEW c \in Criterion
    PROVE  Judged(vs, xs, rs)[c] = "passed" <=>
               /\ Cardinality(ConvincedBy(vs, rs, c)) >= Required(c)
               /\ \A t \in rs : <<t, c>> \notin xs
<1>1. Passing(vs, rs, c) = ConvincedBy(vs, rs, c)
  <2>1. ASSUME NEW i \in Identity
        PROVE  Latest(vs, rs, c, i) = "passed" <=> EndsPassed(vs, rs, c, i)
        BY LatestPasses
  <2> QED BY <2>1 DEF Passing, ConvincedBy
<1>2. Judged(vs, xs, rs)[c] = IF Contradicted(xs, rs, c) THEN "uncertain"
            ELSE IF Cardinality(Passing(vs, rs, c)) >= Required(c) THEN "passed"
            ELSE IF Fails(vs, rs, c) THEN "failed" ELSE "uncertain"
      BY DEF Judged
<1> QED BY <1>1, <1>2 DEF Contradicted

\* Criteria are judged passed, failed or uncertain.
LEMMA JudgedTyped ==
    ASSUME NEW vs, NEW xs, NEW rs
    PROVE  Judged(vs, xs, rs) \in [Criterion -> Verdict]
BY DEF Judged, Verdict
-----------------------------------------------------------------------------
(* Types.                                                                  *)

USE DEF mandateVars, resultVars, judgeVars, threadVars

\* The constants, as the provers like them.
LEMMA Bounds ==
    /\ MaxAttempts \in Nat /\ MaxAttempts >= 1 /\ MaxAmendments \in Nat /\ MaxSubmissions \in Nat
    /\ NoArtifact \notin Artifact
    /\ \A i \in Verifier : i \notin Run
BY EvidenceAssumption

\* The settings of a criterion.
LEMMA SettingTyped ==
    ASSUME NEW s \in Setting
    PROVE  s.type \in {"deterministic", "model", "principal"} /\ s.depth \in {"standard", "independent"}
BY EvidenceAssumption

\* The initial states are typed.
LEMMA InitTyped == ASSUME Init PROVE TypeOK
<1>1. 1 \in Revision /\ 0 \in 0..MaxSubmissions
      BY Bounds DEF Revision
<1>2. gate \in [Revision -> [Criterion -> {"none", "open", "closed"}]]
  <2>1. GatesFor(setting) \in [Criterion -> {"none", "open", "closed"}]
        BY DEF GatesFor
  <2>2. [c \in Criterion |-> "none"] \in [Criterion -> {"none", "open", "closed"}]
        OBVIOUS
  <2> QED BY <2>1, <2>2 DEF Init
<1>3. verdict \in [Attempt -> [Criterion -> [Identity -> Verdict \union {"none"}]]]
      BY DEF Init
<1> QED BY <1>1, <1>2, <1>3 DEF Init, TypeOK, Verdict

\* The Attempt that Dispatch starts is a new one, and the last.
LEMMA FreshAttempt ==
    ASSUME TypeOK, InOrder, AttemptsLeft
    PROVE  LET t == Cardinality(Started) + 1
           IN  /\ t \in Attempt /\ attempt[t] = "none"
               /\ Started = 1..(t - 1)
               /\ \A s \in Attempt : attempt[s] # "none" <=> s < t
<1>1. PICK k \in 0..MaxAttempts : Started = 1..k
      BY DEF InOrder
<1>2. k \in Nat /\ Cardinality(1..k) = k
      BY FS_Interval, Bounds
<1>3. Cardinality(Started) = k
      BY <1>1, <1>2
<1>4. k < MaxAttempts
      BY <1>3 DEF AttemptsLeft
<1>5. k + 1 \in Attempt /\ k + 1 \notin 1..k /\ 1..k = 1..((k + 1) - 1)
      BY <1>2, <1>4, Bounds DEF Attempt
<1>6. \A s \in Attempt : attempt[s] # "none" <=> s \in 1..k
      BY <1>1 DEF Started
<1>7. \A s \in Attempt : s \in 1..k <=> s < k + 1
      BY <1>2 DEF Attempt
<1> QED BY <1>1, <1>3, <1>5, <1>6, <1>7

\* The Attempt of a record, as Dispatch writes it.
DispatchedAs(t, a) ==
    /\ attempt' = [attempt EXCEPT ![t] = "running"]
    /\ pc' = [pc EXCEPT ![t] = "verify"]
    /\ mandate' = [mandate EXCEPT ![t] = revision]
    /\ result' = [result EXCEPT ![t] = "candidate"]
    /\ content' = [content EXCEPT ![t] = a]

\* What Dispatch does, with the Attempt it starts.
LEMMA DispatchEffects ==
    ASSUME TypeOK, InOrder, Dispatch
    PROVE  /\ cStatus = "active" /\ aStatus = "ready" /\ aStatus' = "running"
           /\ UNCHANGED <<cStatus, artifact, mandateVars, criterion, gate, verdict, contradiction,
                          submissions, blocker, integrated>>
           /\ recovery' = ReworkStarted
           /\ \E t \in Attempt, a \in Artifact :
                /\ attempt[t] = "none" /\ Started = 1..(t - 1)
                /\ \A s \in Attempt : attempt[s] # "none" <=> s < t
                /\ DispatchedAs(t, a)
<1>1. AttemptsLeft
      BY DEF Dispatch
<1> DEFINE t == Cardinality(Started) + 1
<1>2. PICK a \in Artifact : DispatchedAs(t, a)
      BY DEF Dispatch, DispatchedAs
<1>3. /\ t \in Attempt /\ attempt[t] = "none"
      /\ Started = 1..(t - 1)
      /\ \A s \in Attempt : attempt[s] # "none" <=> s < t
      BY <1>1, FreshAttempt
<1> HIDE DEF t
<1>4. \E u \in Attempt, b \in Artifact :
                /\ attempt[u] = "none" /\ Started = 1..(u - 1)
                /\ \A s \in Attempt : attempt[s] # "none" <=> s < u
                /\ DispatchedAs(u, b)
      BY <1>2, <1>3
<1>5. /\ cStatus = "active" /\ aStatus = "ready" /\ aStatus' = "running"
      /\ UNCHANGED <<cStatus, artifact, mandateVars, criterion, gate, verdict, contradiction,
                     submissions, blocker, integrated>>
      /\ recovery' = ReworkStarted
      BY DEF Dispatch
<1> QED BY <1>4, <1>5
\* The status of every criterion after Evidence was recorded, before any rework.
JudgedAnew == Judged(verdict', contradiction', Current(revision, artifact))

\* Evidence is recorded for a Result that is still a candidate: the one verdict
\* changes, a contradiction is added, and the gate of its criterion is refreshed.
Recorded(t, c, i, d, x) ==
    /\ cStatus = "active" /\ artifact # NoArtifact /\ ~Deterministic(c)
    /\ result[t] = "candidate" /\ integrated[t] = artifact
    /\ UNCHANGED <<setting, attempt, pc, mandate, content, integrated>>
    /\ verdict' = [verdict EXCEPT ![t][c][i] = d.verdict]
    /\ contradiction' = IF x THEN contradiction \union {<<t, c>>} ELSE contradiction
    /\ gate' = GateAfter(c, JudgedAnew)
    /\ \A k \in Criterion : k # c => recovery'[k] = recovery[k]
    /\ submissions' \in 0..MaxSubmissions

\* The four ways it ends: the Commission is complete, the Result is given up, the
\* Assignment stops at the ceiling, or nothing else follows.
Completed(t) ==
    /\ criterion' = JudgedAnew /\ \A k \in Criterion : criterion'[k] = "passed"
    /\ result' = [result EXCEPT ![t] = "accepted"] /\ aStatus' = "accepted"
    /\ cStatus' = "verified_complete" /\ revision' = revision + 1 /\ artifact' = integrated[t]

SentBack(t) ==
    /\ aStatus = "verification_pending" /\ aStatus' = "ready"
    /\ criterion' = [k \in Criterion |-> "uncertain"]
    /\ result' = [result EXCEPT ![t] = "superseded"]
    /\ UNCHANGED <<cStatus, revision, artifact>>

Stopped ==
    /\ aStatus = "verification_pending" /\ aStatus' = "resource_blocked"
    /\ criterion' = JudgedAnew
    /\ UNCHANGED <<cStatus, revision, artifact, result>>

JustRecorded ==
    /\ criterion' = JudgedAnew
    /\ UNCHANGED <<cStatus, revision, artifact, result, aStatus>>

\* Bad news is followed up: only a verdict that is passed, and no contradiction,
\* leaves the criterion without a recovery.
FollowedUp(c, d, x) == recovery'[c] = "none" => d.verdict = "passed" /\ ~x

\* What record_verification_evidence does.
LEMMA RecordEffects ==
    ASSUME TypeOK, NEW t \in Attempt, NEW c \in Criterion, NEW i \in Verifier, NEW d \in Diagnosis,
           NEW x \in BOOLEAN, RecordVerificationEvidence(t, c, i, d, x)
    PROVE  /\ Recorded(t, c, i, d, x) /\ FollowedUp(c, d, x)
           /\ recovery' \in [Criterion -> {"none", "pending", "attention_required", "scheduled",
                                           "blocked"}]
           /\ blocker' \in BOOLEAN
           /\ Completed(t) \/ SentBack(t) \/ Stopped \/ JustRecorded
<1> DEFINE givenUp == RoutesRework(d, x) /\ AttemptsLeft
           stopped == RoutesRework(d, x) /\ ~AttemptsLeft
           cs == IF givenUp THEN [k \in Criterion |-> "uncertain"] ELSE JudgedAnew
           rec == [ResolveThenPlan(c, d, x) EXCEPT
                            ![c] = IF givenUp THEN "scheduled"
                                   ELSE IF stopped THEN "blocked" ELSE @]
           done == /\ \A k \in Criterion : cs[k] = "passed"
                   /\ ~\E k \in Criterion : Contradicted(contradiction', Current(revision, artifact), k)
<1>1. /\ cStatus = "active" /\ artifact # NoArtifact /\ ~Deterministic(c)
      /\ submissions < MaxSubmissions /\ submissions' = submissions + 1
      /\ result[t] = "candidate" /\ integrated[t] = artifact
      /\ UNCHANGED <<setting, attempt, pc, mandate, content, integrated>>
      /\ verdict' = [verdict EXCEPT ![t][c][i] = d.verdict]
      /\ contradiction' = IF x THEN contradiction \union {<<t, c>>} ELSE contradiction
      BY DEF RecordVerificationEvidence
<1>2. /\ gate' = GateAfter(c, JudgedAnew)
      /\ criterion' = cs /\ recovery' = rec /\ blocker' = (blocker \/ stopped)
      /\ IF done
         THEN Complete(t)
         ELSE /\ result' = [result EXCEPT ![t] = IF givenUp THEN "superseded" ELSE @]
              /\ aStatus' = IF givenUp THEN "ready" ELSE IF stopped THEN "resource_blocked" ELSE aStatus
              /\ UNCHANGED <<cStatus, revision, artifact>>
      BY <1>1 DEF RecordVerificationEvidence, JudgedAnew
<1>3. d.verdict \in Verdict /\ d.defect \in Defect \union {"none"}
      /\ (d.defect = "none" => d.verdict = "passed") /\ (d.verdict = "failed" => d.defect # "none")
      BY DEF Diagnosis, Verdict, Defect
<1>4. /\ Planned(d, x) \in {"none", "pending", "attention_required"}
      /\ Planned(d, x) = "none" => d.verdict = "passed" /\ ~x
      BY <1>3 DEF Planned
<1>5. /\ recovery'[c] = IF givenUp THEN "scheduled" ELSE IF stopped THEN "blocked" ELSE Planned(d, x)
      /\ \A k \in Criterion : k # c => recovery'[k] = recovery[k]
      /\ DOMAIN recovery' = Criterion /\ recovery' = [k \in Criterion |-> recovery'[k]]
      BY <1>2 DEF TypeOK, ResolveThenPlan
<1>6. FollowedUp(c, d, x)
      BY <1>4, <1>5 DEF FollowedUp
<1>7. recovery' \in [Criterion -> {"none", "pending", "attention_required", "scheduled", "blocked"}]
  <2>1. \A k \in Criterion : recovery'[k] \in {"none", "pending", "attention_required", "scheduled",
                                               "blocked"}
        BY <1>4, <1>5 DEF TypeOK
  <2> QED BY <1>5, <2>1
<1>8. Recorded(t, c, i, d, x)
  <2>1. submissions' \in 0..MaxSubmissions
        BY <1>1, Bounds DEF TypeOK
  <2> QED BY <1>1, <1>2, <1>5, <2>1 DEF Recorded
<1>9. blocker' \in BOOLEAN
      BY <1>2
<1>10. Completed(t) \/ SentBack(t) \/ Stopped \/ JustRecorded
  <2>0. [result EXCEPT ![t] = result[t]] = result
        BY DEF TypeOK
  <2>1. CASE done
    <3>1. Complete(t) /\ criterion' = cs /\ \A k \in Criterion : cs[k] = "passed"
          BY <1>2, <2>1
    <3>2. cs = JudgedAnew
      <4>1. c \in Criterion /\ cs[c] = "passed"
            BY <2>1
      <4>2. ~givenUp
            BY <4>1
      <4> QED BY <4>2
    <3> QED BY <3>1, <3>2 DEF Complete, Completed
  <2>2. CASE ~done /\ givenUp
    <3>1. cs = [k \in Criterion |-> "uncertain"]
          BY <2>2
    <3>2. /\ result' = [result EXCEPT ![t] = "superseded"] /\ aStatus' = "ready"
          /\ UNCHANGED <<cStatus, revision, artifact>>
          BY <1>2, <2>2
    <3> QED BY <1>2, <2>2, <3>1, <3>2 DEF SentBack, RoutesRework
  <2>3. CASE ~done /\ stopped
    <3>1. cs = JudgedAnew /\ ~givenUp
          BY <2>3
    <3>2. /\ result' = [result EXCEPT ![t] = result[t]] /\ aStatus' = "resource_blocked"
          /\ UNCHANGED <<cStatus, revision, artifact>>
          BY <1>2, <2>3, <3>1
    <3> QED BY <1>2, <2>0, <2>3, <3>1, <3>2 DEF Stopped, RoutesRework
  <2>4. CASE ~done /\ ~givenUp /\ ~stopped
    <3>1. cs = JudgedAnew
          BY <2>4
    <3>2. /\ result' = [result EXCEPT ![t] = result[t]] /\ aStatus' = aStatus
          /\ UNCHANGED <<cStatus, revision, artifact>>
          BY <1>2, <2>4
    <3> QED BY <1>2, <2>0, <3>1, <3>2 DEF JustRecorded
  <2> QED BY <2>1, <2>2, <2>3, <2>4
<1> QED BY <1>6, <1>7, <1>8, <1>9, <1>10
\* The runs of the deterministic criteria are recorded on t's Result; every other
\* verdict stays.
RunsRecorded(t) ==
    /\ verdict' \in [Attempt -> [Criterion -> [Identity -> Verdict \union {"none"}]]]
    /\ \A s \in Attempt : s # t => verdict'[s] = verdict[s]
    /\ \A c \in Criterion, i \in Identity : ~Deterministic(c) => verdict'[t][c][i] = verdict[t][c][i]

\* What finishing an integrated Result does.
LEMMA FinishEffects ==
    ASSUME TypeOK, NEW t \in Attempt, FinishIntegrated(t)
    PROVE  /\ pc[t] = "finish" /\ IsCurrent(t) /\ ReleaseAttempt(t) /\ EndThread(t)
           /\ UNCHANGED <<setting, gate, recovery, contradiction, submissions, blocker, mandate,
                          content, integrated>>
           /\ RunsRecorded(t)
           /\ criterion' = Judged(verdict', contradiction, Current(revision, integrated[t]))
           /\ \/ /\ aStatus' \in {"verification_failed", "verification_pending"}
                 /\ UNCHANGED <<cStatus, revision, artifact, result>>
              \/ /\ \A c \in Criterion : criterion'[c] = "passed"
                 /\ Complete(t)
<1>1. PICK o \in Outcomes :
        LET vs == [verdict EXCEPT ![t] = [c \in Criterion |-> [i \in Identity |->
                     IF i \in Run /\ o[c][i] # "none" THEN o[c][i] ELSE verdict[t][c][i]]]]
            cs == Judged(vs, contradiction, Current(revision, integrated[t]))
        IN  /\ verdict' = vs
            /\ criterion' = cs
            /\ \/ /\ ~AllPass(o)
                  /\ aStatus' = "verification_failed"
                  /\ UNCHANGED <<cStatus, revision, artifact, result>>
               \/ /\ AllPass(o) /\ \E c \in Criterion : cs[c] # "passed"
                  /\ aStatus' = "verification_pending"
                  /\ UNCHANGED <<cStatus, revision, artifact, result>>
               \/ /\ AllPass(o) /\ \A c \in Criterion : cs[c] = "passed"
                  /\ MayComplete(cs, gate, contradiction, Current(revision, integrated[t]))
                  /\ Complete(t)
      BY DEF FinishIntegrated
<1>2. /\ o \in [Criterion -> [Run -> {"none", "passed", "failed"}]]
      /\ \A c \in Criterion, i \in Run : ~Deterministic(c) => o[c][i] = "none"
      BY DEF Outcomes
<1> DEFINE row == [c \in Criterion |-> [i \in Identity |->
                     IF i \in Run /\ o[c][i] # "none" THEN o[c][i] ELSE verdict[t][c][i]]]
<1>3. verdict' = [verdict EXCEPT ![t] = row]
      BY <1>1
<1>4. row \in [Criterion -> [Identity -> Verdict \union {"none"}]]
  <2>1. \A c \in Criterion, i \in Identity :
            (IF i \in Run /\ o[c][i] # "none" THEN o[c][i] ELSE verdict[t][c][i])
                \in Verdict \union {"none"}
        BY <1>2 DEF TypeOK, Verdict
  <2> QED BY <2>1
<1>5. \A c \in Criterion, i \in Identity : ~Deterministic(c) => row[c][i] = verdict[t][c][i]
      BY <1>2
<1> HIDE DEF row
<1>6. RunsRecorded(t)
      BY <1>3, <1>4, <1>5 DEF RunsRecorded, TypeOK
<1>7. criterion' = Judged(verdict', contradiction, Current(revision, integrated[t]))
      BY <1>1
<1>8. \/ /\ aStatus' \in {"verification_failed", "verification_pending"}
         /\ UNCHANGED <<cStatus, revision, artifact, result>>
      \/ /\ \A c \in Criterion : criterion'[c] = "passed"
         /\ Complete(t)
      BY <1>1
<1>9. /\ pc[t] = "finish" /\ IsCurrent(t) /\ ReleaseAttempt(t) /\ EndThread(t)
      /\ UNCHANGED <<setting, gate, recovery, contradiction, submissions, blocker, mandate,
                     content, integrated>>
      BY DEF FinishIntegrated
<1> QED BY <1>6, <1>7, <1>8, <1>9

\* The runs on a candidate touch only deterministic criteria.
LEMMA CandidateTyped ==
    ASSUME TypeOK, NEW o \in Outcomes
    PROVE  /\ CandidateStatus(o) \in [Criterion -> Verdict]
           /\ \A c \in Criterion : ~Deterministic(c) => CandidateStatus(o)[c] = criterion[c]
<1>1. \A c \in Criterion : Deterministic(c) => o[c][LastRun(c)] \in {"passed", "failed"}
  <2> SUFFICES ASSUME NEW c \in Criterion, Deterministic(c)
               PROVE  o[c][LastRun(c)] \in {"passed", "failed"}
      OBVIOUS
  <2>1. LastRun(c) \in Run /\ LastRun(c) \in RunsOf(c)
        BY DEF LastRun, RunsOf, Run
  <2>2. o[c][LastRun(c)] \in {"none", "passed", "failed"} /\ o[c][LastRun(c)] # "none"
        BY <2>1 DEF Outcomes
  <2> QED BY <2>2
<1> QED BY <1>1 DEF CandidateStatus, TypeOK, Verdict
\* Every step but Dispatch leaves it to the Attempts that were started, and no step
\* but Integrate and Dispatch changes what they worked on.
SameHistory ==
    /\ UNCHANGED <<mandate, content, integrated, artifact>> /\ Verified' = Verified
    /\ \A t \in Attempt : attempt'[t] = "none" <=> attempt[t] = "none"

\* Completion needs room for one more revision.
LEMMA CompleteTyped ==
    ASSUME TypeOK, Room, cStatus = "active", NEW t \in Attempt, Complete(t)
    PROVE  /\ cStatus' = "verified_complete" /\ revision' \in Revision /\ Verified' = Verified
           /\ aStatus' = "accepted" /\ artifact' = integrated[t]
           /\ result' = [result EXCEPT ![t] = "accepted"]
<1>1. revision \in Nat /\ revision >= 1 /\ revision <= MaxAmendments + 1 /\ revision' = revision + 1
      BY Bounds DEF TypeOK, Room, Complete, Revision
<1>2. revision' \in Revision
      BY <1>1, Bounds DEF Revision
<1>3. cStatus' = "verified_complete" /\ Verified' = Verified
      BY <1>1 DEF Complete, Verified
<1> QED BY <1>2, <1>3 DEF Complete

\* Typed states stay typed when a thread acts.
LEMMA ThreadTyped ==
    ASSUME Ledger, NEW t \in Attempt, Thread(t)
    PROVE  TypeOK'
<1> USE DEF Ledger
<1>1. CASE CandidatePasses(t)
  <2>1. PICK o \in Outcomes : criterion' = CandidateStatus(o)
        BY <1>1 DEF CandidatePasses
  <2>2. criterion' \in [Criterion -> Verdict]
        BY <2>1, CandidateTyped
  <2>3. pc' \in [Attempt -> {"none", "verify", "integrate", "finish"}]
        BY <1>1 DEF CandidatePasses, TypeOK
  <2> QED BY <1>1, <2>2, <2>3 DEF CandidatePasses, TypeOK
<1>2. CASE CandidateFails(t)
  <2>1. /\ criterion' \in [Criterion -> Verdict]
        /\ result' \in [Attempt -> {"none", "candidate", "superseded", "accepted"}]
        /\ aStatus' \in {"ready", "verification_failed"} /\ blocker' \in BOOLEAN
        BY <1>2, CandidateTyped, ZenonT(40) DEF CandidateFails, TypeOK, Verdict
  <2>2. /\ attempt' \in [Attempt -> {"none", "running", "ended"}]
        /\ pc' \in [Attempt -> {"none", "verify", "integrate", "finish"}]
        BY <1>2 DEF CandidateFails, ReleaseAttempt, EndThread, TypeOK
  <2> QED BY <1>2, <2>1, <2>2 DEF CandidateFails, TypeOK
<1>3. CASE Integrate(t)
  <2>1. /\ integrated' \in [Attempt -> Artifact \union {NoArtifact}]
        /\ artifact' \in Artifact \union {NoArtifact}
        /\ pc' \in [Attempt -> {"none", "verify", "integrate", "finish"}]
        BY <1>3 DEF Integrate, TypeOK
  <2> QED BY <1>3, <2>1 DEF Integrate, TypeOK
<1>4. CASE FinishIntegrated(t)
  <2>1. cStatus = "active" /\ pc[t] = "finish"
        BY <1>4, FinishEffects DEF IsCurrent
  <2>2. /\ attempt' \in [Attempt -> {"none", "running", "ended"}]
        /\ pc' \in [Attempt -> {"none", "verify", "integrate", "finish"}]
        BY <1>4, FinishEffects DEF ReleaseAttempt, EndThread, TypeOK
  <2>3. criterion' \in [Criterion -> Verdict]
        BY <1>4, FinishEffects, JudgedTyped
  <2>4. verdict' \in [Attempt -> [Criterion -> [Identity -> Verdict \union {"none"}]]]
        BY <1>4, FinishEffects DEF RunsRecorded
  <2>5. /\ cStatus' \in {"active", "verified_complete"} /\ revision' \in Revision
        /\ artifact' \in Artifact \union {NoArtifact}
        /\ result' \in [Attempt -> {"none", "candidate", "superseded", "accepted"}]
        /\ aStatus' \in {"verification_failed", "verification_pending", "accepted"}
    <3>1. CASE /\ aStatus' \in {"verification_failed", "verification_pending"}
               /\ UNCHANGED <<cStatus, revision, artifact, result>>
          BY <3>1 DEF TypeOK
    <3>2. CASE Complete(t)
          BY <2>1, <3>2, CompleteTyped DEF TypeOK
    <3> QED BY <1>4, <3>1, <3>2, FinishEffects
  <2>6. UNCHANGED <<setting, gate, recovery, contradiction, submissions, blocker, mandate,
                    content, integrated>>
        BY <1>4, FinishEffects
  <2> QED BY <2>2, <2>3, <2>4, <2>5, <2>6 DEF TypeOK
<1>5. CASE Noncurrent(t)
  <2>1. /\ attempt' \in [Attempt -> {"none", "running", "ended"}]
        /\ pc' \in [Attempt -> {"none", "verify", "integrate", "finish"}]
        /\ result' \in [Attempt -> {"none", "candidate", "superseded", "accepted"}]
        BY <1>5 DEF Noncurrent, RetainNoncurrentResult, ReleaseAttempt, EndThread, TypeOK
  <2> QED BY <1>5, <2>1 DEF Noncurrent, RetainNoncurrentResult, TypeOK
<1>6. CASE FailAttempt(t)
  <2>1. /\ attempt' \in [Attempt -> {"none", "running", "ended"}]
        /\ pc' \in [Attempt -> {"none", "verify", "integrate", "finish"}]
        /\ result' \in [Attempt -> {"none", "candidate", "superseded", "accepted"}]
        /\ aStatus' \in {"ready", "verification_failed"} /\ blocker' \in BOOLEAN
        BY <1>6 DEF FailAttempt, ReleaseAttempt, EndThread, TypeOK
  <2> QED BY <1>6, <2>1 DEF FailAttempt, TypeOK
<1> QED BY <1>1, <1>2, <1>3, <1>4, <1>5, <1>6 DEF Thread

\* ... when Evidence is recorded ...
LEMMA RecordTyped ==
    ASSUME Ledger, NEW t \in Attempt, NEW c \in Criterion, NEW i \in Verifier, NEW d \in Diagnosis,
           NEW x \in BOOLEAN, RecordVerificationEvidence(t, c, i, d, x)
    PROVE  TypeOK' /\ Verified' = Verified /\ artifact' = artifact /\ Room'
<1>1. TypeOK /\ Room
      BY DEF Ledger
<1>2. /\ Recorded(t, c, i, d, x)
      /\ recovery' \in [Criterion -> {"none", "pending", "attention_required", "scheduled",
                                      "blocked"}]
      /\ blocker' \in BOOLEAN
      /\ Completed(t) \/ SentBack(t) \/ Stopped \/ JustRecorded
      BY <1>1, RecordEffects
<1>3. verdict' \in [Attempt -> [Criterion -> [Identity -> Verdict \union {"none"}]]]
  <2>1. d.verdict \in Verdict /\ i \in Identity
        BY DEF Diagnosis, Verdict, Identity
  <2>2. [verdict[t][c] EXCEPT ![i] = d.verdict] \in [Identity -> Verdict \union {"none"}]
        BY <1>1, <2>1 DEF TypeOK
  <2>3. [verdict[t] EXCEPT ![c] = [verdict[t][c] EXCEPT ![i] = d.verdict]]
            \in [Criterion -> [Identity -> Verdict \union {"none"}]]
        BY <1>1, <2>2 DEF TypeOK
  <2> QED BY <1>1, <1>2, <2>3 DEF Recorded, TypeOK
<1>4. gate' \in [Revision -> [Criterion -> {"none", "open", "closed"}]]
  <2>1. [gate[revision] EXCEPT ![c] = "closed"] \in [Criterion -> {"none", "open", "closed"}]
        /\ [gate[revision] EXCEPT ![c] = "open"] \in [Criterion -> {"none", "open", "closed"}]
        BY <1>1 DEF TypeOK
  <2>2. CASE setting[c].type = "principal" /\ JudgedAnew[c] = "passed"
    <3>1. gate' = [gate EXCEPT ![revision] = [gate[revision] EXCEPT ![c] = "closed"]]
          BY <1>2, <2>2 DEF Recorded, GateAfter
    <3> QED BY <1>1, <2>1, <3>1 DEF TypeOK
  <2>3. CASE setting[c].type = "principal" /\ JudgedAnew[c] # "passed"
    <3>1. gate' = [gate EXCEPT ![revision] = [gate[revision] EXCEPT ![c] = "open"]]
          BY <1>2, <2>3 DEF Recorded, GateAfter
    <3> QED BY <1>1, <2>1, <3>1 DEF TypeOK
  <2>4. CASE setting[c].type # "principal"
        BY <1>1, <1>2, <2>4 DEF Recorded, GateAfter, TypeOK
  <2> QED BY <2>2, <2>3, <2>4
<1>5. contradiction' \subseteq Attempt \X Criterion
      BY <1>1, <1>2 DEF Recorded, TypeOK
<1>6. criterion' \in [Criterion -> Verdict]
      BY <1>2, JudgedTyped DEF Completed, SentBack, Stopped, JustRecorded, JudgedAnew, Verdict
<1>7. /\ cStatus' \in {"active", "verified_complete"} /\ revision' \in Revision
      /\ artifact' \in Artifact \union {NoArtifact}
      /\ result' \in [Attempt -> {"none", "candidate", "superseded", "accepted"}]
      /\ aStatus' \in {"ready", "running", "verification_pending", "verification_failed",
                       "resource_blocked", "accepted"}
      /\ Verified' = Verified /\ artifact' = artifact /\ Room'
  <2>1. CASE Completed(t)
    <3>1. Complete(t) /\ cStatus = "active" /\ integrated[t] = artifact
          BY <1>2, <2>1 DEF Complete, Completed, Recorded
    <3> QED BY <1>1, <3>1, CompleteTyped DEF TypeOK, Room
  <2>2. CASE SentBack(t) \/ Stopped \/ JustRecorded
        BY <1>1, <2>2 DEF SentBack, Stopped, JustRecorded, TypeOK, Verified, Room
  <2> QED BY <1>2, <2>1, <2>2
<1> QED BY <1>1, <1>2, <1>3, <1>4, <1>5, <1>6, <1>7 DEF Recorded, TypeOK

\* ... and when the mandate is amended or an Attempt dispatched.
LEMMA AmendTyped ==
    ASSUME Ledger, AmendVerification
    PROVE  TypeOK' /\ Room'
<1>1. TypeOK /\ revision \in Nat /\ revision >= 1
      BY Bounds DEF Ledger, TypeOK, Revision
<1>2. revision' = revision + 1 /\ revision' \in Revision /\ Room'
      BY <1>1, Bounds DEF AmendVerification, Revision, Room
<1>3. gate' \in [Revision -> [Criterion -> {"none", "open", "closed"}]]
  <2>1. GatesFor(setting') \in [Criterion -> {"none", "open", "closed"}]
        BY DEF GatesFor
  <2>2. gate' = [gate EXCEPT ![revision + 1] = GatesFor(setting')]
        BY DEF AmendVerification
  <2> QED BY <1>1, <2>1, <2>2 DEF TypeOK
<1>4. /\ criterion' \in [Criterion -> Verdict]
      /\ recovery' \in [Criterion -> {"none", "pending", "attention_required", "scheduled",
                                      "blocked"}]
      /\ result' \in [Attempt -> {"none", "candidate", "superseded", "accepted"}]
      BY <1>1 DEF AmendVerification, TypeOK, Verdict
<1> QED BY <1>1, <1>2, <1>3, <1>4 DEF AmendVerification, TypeOK

LEMMA DispatchTyped ==
    ASSUME Ledger, Dispatch
    PROVE  TypeOK'
<1>1. TypeOK /\ InOrder
      BY DEF Ledger
<1>2. PICK t \in Attempt, a \in Artifact : DispatchedAs(t, a)
      BY <1>1, DispatchEffects
<1>3. /\ attempt' \in [Attempt -> {"none", "running", "ended"}]
      /\ pc' \in [Attempt -> {"none", "verify", "integrate", "finish"}]
      /\ mandate' \in [Attempt -> Revision]
      /\ result' \in [Attempt -> {"none", "candidate", "superseded", "accepted"}]
      /\ content' \in [Attempt -> Artifact \union {NoArtifact}]
      BY <1>1, <1>2 DEF DispatchedAs, TypeOK
<1>4. recovery' \in [Criterion -> {"none", "pending", "attention_required", "scheduled", "blocked"}]
      BY <1>1, DispatchEffects DEF ReworkStarted, TypeOK
<1> QED BY <1>1, <1>3, <1>4, DispatchEffects DEF TypeOK
-----------------------------------------------------------------------------
(* The Ledger.                                                             *)

\* It holds when a Commission is accepted.
LEMMA InitLedger == ASSUME Init PROVE Ledger
<1>1. TypeOK
      BY InitTyped
<1>2. Room /\ MandatesGrow
      BY Bounds, AttemptsCount DEF Init, Room, MandatesGrow, Verified
<1>3. InOrder
  <2>1. Started = {} /\ 1..0 = {} /\ 0 \in 0..MaxAttempts
        BY Bounds DEF Init, Started
  <2> QED BY <2>1 DEF InOrder
<1>4. NothingEarly /\ ThreadsAgree
      BY DEF Init, NothingEarly, ThreadsAgree
<1>5. NewestCounts /\ ArtifactIsNewest
      BY DEF Init, NewestCounts, ArtifactIsNewest
<1> QED BY <1>1, <1>2, <1>3, <1>4, <1>5 DEF Ledger

LEMMA HistoryKept ==
    ASSUME Ledger, SameHistory
    PROVE  InOrder' /\ MandatesGrow' /\ ArtifactIsNewest'
<1>1. Started' = Started
      BY DEF SameHistory, Started
<1>2. InOrder'
      BY <1>1 DEF Ledger, InOrder
<1>3. MandatesGrow'
      BY DEF Ledger, SameHistory, MandatesGrow
<1>4. ArtifactIsNewest'
      BY DEF Ledger, SameHistory, ArtifactIsNewest, Brought
<1> QED BY <1>2, <1>3, <1>4

\* Two Attempts that are the newest are the same.
LEMMA NewestIsOne ==
    ASSUME NEW s \in Attempt, NEW t \in Attempt, IsNewest(s), IsNewest(t),
           attempt[s] # "none", attempt[t] # "none"
    PROVE  s = t
BY AttemptsCount DEF IsNewest

\* A running thread that has integrated brought the artifact at hand.
LEMMA FinishingBrought ==
    ASSUME Ledger, NEW t \in Attempt, attempt[t] = "running", pc[t] = "finish"
    PROVE  integrated[t] = artifact /\ artifact # NoArtifact /\ Brought(t)
<1>1. integrated[t] = content[t] /\ content[t] \in Artifact /\ IsNewest(t)
      BY DEF Ledger, ThreadsAgree, NothingEarly, NewestCounts
<1>2. integrated[t] # NoArtifact
      BY <1>1, Bounds
<1>3. artifact # NoArtifact
      BY <1>2 DEF Ledger, ArtifactIsNewest
<1>4. PICK s \in Attempt : Brought(s)
      BY <1>3 DEF Ledger, ArtifactIsNewest
<1>5. attempt[s] # "none" /\ t <= s
      BY <1>2, <1>3, <1>4 DEF Ledger, NothingEarly, Brought
<1>6. s <= t
      BY <1>1, <1>5 DEF IsNewest
<1>7. s = t
      BY <1>5, <1>6, AttemptsCount
<1> QED BY <1>3, <1>4, <1>7 DEF Brought

\* A Result that may still be accepted and was integrated is the artifact at hand.
LEMMA CandidateIsAlone ==
    ASSUME Ledger, cStatus = "active", NEW t \in Attempt, result[t] = "candidate"
    PROVE  /\ attempt[t] # "none" /\ IsNewest(t) /\ mandate[t] = revision
           /\ \A s \in Attempt : result[s] = "candidate" \/ attempt[s] = "running" => s = t
<1>1. \A s \in Attempt : result[s] = "candidate" \/ attempt[s] = "running"
            => attempt[s] # "none" /\ IsNewest(s)
      BY DEF Ledger, NothingEarly, NewestCounts
<1>2. attempt[t] # "none" /\ IsNewest(t) /\ mandate[t] = revision
      BY <1>1 DEF Ledger, NewestCounts
<1> QED BY <1>1, <1>2, NewestIsOne

\* Dispatch.
LEMMA DispatchLedger == ASSUME Ledger, Dispatch PROVE Ledger'
<1>1. TypeOK /\ InOrder /\ TypeOK'
      BY DispatchTyped DEF Ledger
<1>2. PICK t \in Attempt, a \in Artifact :
        /\ attempt[t] = "none" /\ Started = 1..(t - 1)
        /\ \A s \in Attempt : attempt[s] # "none" <=> s < t
        /\ DispatchedAs(t, a)
      BY <1>1, DispatchEffects
<1>3. /\ cStatus = "active" /\ aStatus = "ready" /\ aStatus' = "running"
      /\ UNCHANGED <<cStatus, artifact, revision, verdict, contradiction, integrated>>
      BY <1>1, DispatchEffects
<1>4. /\ attempt'[t] = "running" /\ pc'[t] = "verify" /\ mandate'[t] = revision
      /\ result'[t] = "candidate" /\ content'[t] = a
      /\ \A s \in Attempt : s # t => /\ attempt'[s] = attempt[s] /\ pc'[s] = pc[s]
                                     /\ mandate'[s] = mandate[s] /\ result'[s] = result[s]
                                     /\ content'[s] = content[s]
      BY <1>1, <1>2 DEF DispatchedAs, TypeOK
<1>5. \A s \in Attempt : attempt'[s] # "none" <=> s <= t
      BY <1>2, <1>4, AttemptsCount
<1>6. InOrder'
  <2>1. Started' = {s \in Attempt : s <= t}
        BY <1>5 DEF Started
  <2>3. {s \in Attempt : s <= t} = 1..t
        BY Bounds DEF Attempt
  <2>2. t \in 0..MaxAttempts
        BY Bounds DEF Attempt
  <2> QED BY <2>1, <2>2, <2>3 DEF InOrder
<1>7. Room' /\ Verified' = Verified /\ Verified = revision
      BY <1>3 DEF Ledger, Room, Verified
<1>8. NothingEarly'
      BY <1>2, <1>3, <1>4 DEF Ledger, NothingEarly
<1>9. \A s \in Attempt : attempt[s] # "running"
      BY <1>3 DEF Ledger, ThreadsAgree
<1>10. ThreadsAgree'
      BY <1>2, <1>3, <1>4, <1>9 DEF Ledger, ThreadsAgree, NothingEarly
<1>11. NewestCounts'
  <2>1. \A s \in Attempt : result[s] # "candidate"
        BY <1>3 DEF Ledger, NewestCounts
  <2>2. \A s \in Attempt : attempt'[s] = "running" \/ result'[s] = "candidate" => s = t
        BY <1>4, <1>9, <2>1
  <2>3. \A s \in Attempt : attempt'[s] # "none" => s <= t
        BY <1>5
  <2> QED BY <1>3, <1>4, <2>2, <2>3 DEF NewestCounts, IsNewest
<1>12. MandatesGrow'
  <2>1. \A s \in Attempt : mandate[s] <= revision /\ mandate'[s] <= revision
    <3>1. \A s \in Attempt : mandate[s] <= revision
          BY <1>7 DEF Ledger, MandatesGrow
    <3>2. revision \in Nat /\ revision <= revision
          BY <1>1, Bounds DEF TypeOK, Revision
    <3> QED BY <1>4, <3>1, <3>2
  <2>2. \A s \in Attempt : mandate'[s] <= Verified'
        BY <1>7, <2>1
  <2>3. ASSUME NEW s \in Attempt, NEW u \in Attempt, attempt'[u] # "none", s <= u
        PROVE  mandate'[s] <= mandate'[u]
    <3>1. CASE u = t
          BY <1>4, <2>1, <3>1
    <3>2. CASE u # t
      <4>1. attempt[u] # "none" /\ s # t
            BY <1>2, <1>4, <2>3, <3>2, AttemptsCount
      <4> QED BY <1>4, <2>3, <3>2, <4>1 DEF Ledger, MandatesGrow
    <3> QED BY <3>1, <3>2
  <2> QED BY <2>2, <2>3 DEF MandatesGrow
<1>13. ArtifactIsNewest'
      BY <1>3 DEF Ledger, ArtifactIsNewest, Brought
<1> QED BY <1>1, <1>6, <1>7, <1>8, <1>10, <1>11, <1>12, <1>13 DEF Ledger
\* An Attempt that is current is the one that runs, for the mandate of today.
LEMMA CurrentRuns ==
    ASSUME Ledger, NEW t \in Attempt, IsCurrent(t)
    PROVE  /\ cStatus = "active" /\ aStatus = "running" /\ attempt[t] = "running"
           /\ result[t] = "candidate" /\ IsNewest(t) /\ mandate[t] = revision /\ Verified = revision
           /\ \A s \in Attempt : s # t => attempt[s] # "running" /\ result[s] # "candidate"
<1>1. cStatus = "active" /\ aStatus = "running" /\ attempt[t] = "running" /\ mandate[t] = revision
      BY DEF IsCurrent
<1>2. result[t] = "candidate"
      BY <1>1 DEF Ledger, ThreadsAgree
<1> QED BY <1>1, <1>2, CandidateIsAlone DEF Verified

\* An Attempt ends, whatever becomes of its Result.
Ends(t) ==
    /\ attempt' = [attempt EXCEPT ![t] = "ended"] /\ attempt[t] # "none"
    /\ \/ pc' = pc
       \/ pc' = [pc EXCEPT ![t] = "none"]

\* Ending the Attempt t keeps the Ledger when nothing but its Result is changed, and
\* that one is given up where the Assignment gets ready again.
LEMMA EndingLedger ==
    ASSUME Ledger, TypeOK', NEW t \in Attempt, Ends(t),
           UNCHANGED <<mandate, content, integrated, artifact, contradiction>>,
           RunsRecorded(t) \/ verdict' = verdict,
           verdict' = verdict \/ integrated[t] # NoArtifact,
           NEW r, result' = [result EXCEPT ![t] = r], r \in {"candidate", "superseded", "accepted"},
           r = "candidate" => result[t] = "candidate",
           r = "accepted" => cStatus' # "active",
           \/ /\ UNCHANGED <<cStatus, revision>>
              /\ aStatus' = "accepted" => cStatus # "active"
              /\ \/ aStatus' = aStatus
                 \/ attempt[t] = "running"
              /\ aStatus' = "ready" => (aStatus' = aStatus \/ cStatus # "active" \/ r # "candidate")
           \/ /\ cStatus' # "active" /\ Verified' = Verified /\ attempt[t] = "running"
    PROVE  Ledger'
<1>1. TypeOK /\ TypeOK'
      BY DEF Ledger
<1>2. /\ attempt'[t] = "ended" /\ result'[t] = r
      /\ \A s \in Attempt : s # t => attempt'[s] = attempt[s] /\ pc'[s] = pc[s] /\ result'[s] = result[s]
      /\ pc'[t] \in {pc[t], "none"}
      BY <1>1 DEF Ends, TypeOK
<1>3. Verified' = Verified
      BY DEF Verified
<1>4. SameHistory
      BY <1>2, <1>3 DEF SameHistory, Ends
<1>5. Room'
      BY DEF Ledger, Room
<1>6. NothingEarly'
  <2>1. \A s \in Attempt : integrated[s] = NoArtifact => verdict'[s] = verdict[s]
        BY DEF RunsRecorded
  <2>2. \A s \in Attempt : integrated'[s] = NoArtifact => \A c \in Criterion, i \in Identity :
                verdict'[s][c][i] = "none" /\ <<s, c>> \notin contradiction'
        BY <2>1 DEF Ledger, NothingEarly
  <2>3. \A s \in Attempt :
            /\ attempt'[s] = "none" => pc'[s] = "none" /\ result'[s] = "none" /\ integrated'[s] = NoArtifact
            /\ attempt'[s] # "none" => content'[s] \in Artifact /\ result'[s] # "none"
        BY <1>2 DEF Ledger, NothingEarly, Ends
  <2> QED BY <2>2, <2>3 DEF NothingEarly
<1>7. \A s \in Attempt : attempt[s] = "running" /\ attempt[t] = "running" => s = t
      BY NewestIsOne DEF Ledger, NewestCounts
<1>8. \A s \in Attempt : attempt'[s] = "running" => attempt[s] = "running" /\ s # t
      BY <1>2
<1>9. ThreadsAgree'
  <2>1. \A s \in Attempt : attempt'[s] = "running" =>
                /\ pc'[s] # "none" /\ result'[s] \in {"candidate", "accepted"}
                /\ aStatus' = "running" \/ (aStatus' = "accepted" /\ cStatus' # "active")
        BY <1>2, <1>7, <1>8 DEF Ledger, ThreadsAgree
  <2>2. \A s \in Attempt : result'[s] = "accepted" => cStatus' # "active"
        BY <1>2 DEF Ledger, ThreadsAgree
  <2>3. \A s \in Attempt : /\ pc'[s] \in {"verify", "integrate"} => integrated'[s] = NoArtifact
                           /\ pc'[s] = "finish" => integrated'[s] = content'[s]
        BY <1>2 DEF Ledger, ThreadsAgree
  <2>4. aStatus' = "accepted" => cStatus' # "active"
        OBVIOUS
  <2> QED BY <2>1, <2>2, <2>3, <2>4 DEF ThreadsAgree
<1>10. NewestCounts'
  <2>1. \A s \in Attempt : IsNewest(s) => IsNewest(s)'
        BY <1>2 DEF IsNewest, Ends
  <2>2. \A s \in Attempt : result'[s] = "candidate" => result[s] = "candidate"
        BY <1>2
  <2>3. \A s \in Attempt : attempt'[s] = "running" => IsNewest(s)'
        BY <1>8, <2>1 DEF Ledger, NewestCounts
  <2>4. ASSUME NEW s \in Attempt, cStatus' = "active",
               attempt'[s] = "running" \/ result'[s] = "candidate"
        PROVE  IsNewest(s)' /\ mandate'[s] = revision'
        BY <1>8, <2>1, <2>2, <2>4 DEF Ledger, NewestCounts
  <2>5. ASSUME cStatus' = "active", aStatus' = "ready", NEW s \in Attempt, result'[s] = "candidate"
        PROVE  FALSE
    <3>1. result[s] = "candidate" /\ cStatus = "active"
          BY <2>2, <2>5
    <3>2. aStatus # "ready"
          BY <3>1 DEF Ledger, NewestCounts
    <3>3. attempt[t] = "running" /\ r # "candidate"
          BY <2>5, <3>1, <3>2
    <3>4. s = t
          BY <3>1, <3>3, CandidateIsAlone
    <3> QED BY <1>2, <2>5, <3>3, <3>4
  <2> QED BY <2>3, <2>4, <2>5 DEF NewestCounts
<1> QED BY <1>1, <1>4, <1>5, <1>6, <1>9, <1>10, HistoryKept DEF Ledger
\* A thread acts.
LEMMA ThreadLedger == ASSUME Ledger, NEW t \in Attempt, Thread(t) PROVE Ledger'
<1>1. TypeOK /\ TypeOK'
      BY ThreadTyped DEF Ledger
<1>2. CASE CandidatePasses(t)
  <2>1. /\ UNCHANGED <<cStatus, revision, artifact, aStatus, attempt, mandate, result, content,
                       integrated, verdict, contradiction>>
        /\ pc' = [pc EXCEPT ![t] = "integrate"] /\ pc[t] = "verify"
        BY <1>2 DEF CandidatePasses
  <2>2. pc'[t] = "integrate" /\ \A s \in Attempt : s # t => pc'[s] = pc[s]
        BY <1>1, <2>1 DEF TypeOK
  <2>3. SameHistory
        BY <2>1 DEF SameHistory, Verified
  <2>4. Room' /\ NewestCounts'
        BY <2>1 DEF Ledger, Room, NewestCounts, IsNewest
  <2>5. NothingEarly'
        BY <2>1, <2>2 DEF Ledger, NothingEarly
  <2>6. ThreadsAgree'
        BY <2>1, <2>2 DEF Ledger, ThreadsAgree
  <2> QED BY <1>1, <2>3, <2>4, <2>5, <2>6, HistoryKept DEF Ledger
<1>3. CASE CandidateFails(t)
  <2>1. /\ attempt[t] = "running" /\ result[t] = "candidate" /\ cStatus = "active"
        BY <1>3, CurrentRuns DEF CandidateFails
  <2>2. Ends(t)
        BY <1>3, <2>1 DEF CandidateFails, Ends, ReleaseAttempt, EndThread
  <2>3. UNCHANGED <<cStatus, revision, mandate, content, integrated, artifact, contradiction, verdict>>
        BY <1>3 DEF CandidateFails
  <2>4. \E r \in {"candidate", "superseded"} :
            /\ result' = [result EXCEPT ![t] = r] /\ aStatus' \in {"ready", "verification_failed"}
            /\ aStatus' = "ready" => r # "candidate"
    <3>1. [result EXCEPT ![t] = "candidate"] = result
          BY <1>1, <2>1 DEF TypeOK
    <3> QED BY <1>3, <3>1 DEF CandidateFails
  <2>5. PICK r \in {"candidate", "superseded"} :
            /\ result' = [result EXCEPT ![t] = r] /\ aStatus' \in {"ready", "verification_failed"}
            /\ aStatus' = "ready" => r # "candidate"
        BY <2>4
  <2> QED BY <1>1, <2>1, <2>2, <2>3, <2>5, EndingLedger
<1>4. CASE Integrate(t)
  <2>1. /\ attempt[t] = "running" /\ result[t] = "candidate" /\ cStatus = "active" /\ IsNewest(t)
        BY <1>4, CurrentRuns DEF Integrate
  <2>2. /\ UNCHANGED <<cStatus, revision, aStatus, attempt, mandate, result, content, verdict,
                       contradiction>>
        /\ pc' = [pc EXCEPT ![t] = "finish"] /\ pc[t] = "integrate"
        /\ integrated' = [integrated EXCEPT ![t] = content[t]] /\ artifact' = content[t]
        BY <1>4 DEF Integrate
  <2>3. /\ pc'[t] = "finish" /\ integrated'[t] = content[t]
        /\ \A s \in Attempt : s # t => pc'[s] = pc[s] /\ integrated'[s] = integrated[s]
        BY <1>1, <2>2 DEF TypeOK
  <2>4. content[t] \in Artifact /\ content[t] # NoArtifact
        BY <2>1, Bounds DEF Ledger, NothingEarly
  <2>5. Room' /\ NewestCounts' /\ MandatesGrow' /\ InOrder'
        BY <2>2 DEF Ledger, Room, NewestCounts, IsNewest, MandatesGrow, Verified, InOrder, Started
  <2>6. NothingEarly'
        BY <2>1, <2>2, <2>3, <2>4 DEF Ledger, NothingEarly
  <2>7. ThreadsAgree'
        BY <2>2, <2>3 DEF Ledger, ThreadsAgree
  <2>8. ArtifactIsNewest'
    <3>1. \A s \in Attempt : integrated'[s] # NoArtifact => s <= t
          BY <2>1, <2>3, AttemptsCount DEF Ledger, NothingEarly, IsNewest
    <3> QED BY <2>2, <2>3, <2>4, <3>1 DEF ArtifactIsNewest, Brought
  <2> QED BY <1>1, <2>5, <2>6, <2>7, <2>8 DEF Ledger
<1>5. CASE FinishIntegrated(t)
  <2>1. /\ attempt[t] = "running" /\ result[t] = "candidate" /\ cStatus = "active" /\ pc[t] = "finish"
        BY <1>1, <1>5, FinishEffects, CurrentRuns
  <2>2. Ends(t)
        BY <1>1, <1>5, <2>1, FinishEffects DEF Ends, ReleaseAttempt, EndThread
  <2>3. integrated[t] = artifact /\ integrated[t] # NoArtifact
        BY <2>1, FinishingBrought
  <2>4. /\ UNCHANGED <<mandate, content, integrated, contradiction>> /\ RunsRecorded(t)
        BY <1>1, <1>5, FinishEffects
  <2>5. CASE /\ aStatus' \in {"verification_failed", "verification_pending"}
             /\ UNCHANGED <<cStatus, revision, artifact, result>>
    <3>1. result' = [result EXCEPT ![t] = "candidate"]
          BY <1>1, <2>1, <2>5 DEF TypeOK
    <3> QED BY <1>1, <2>1, <2>2, <2>3, <2>4, <2>5, <3>1, EndingLedger
  <2>6. CASE Complete(t)
    <3>1. /\ cStatus' # "active" /\ Verified' = Verified /\ artifact' = artifact
          /\ result' = [result EXCEPT ![t] = "accepted"] /\ aStatus' = "accepted"
          BY <1>1, <2>1, <2>3, <2>6, CompleteTyped DEF Ledger
    <3> QED BY <1>1, <2>1, <2>2, <2>3, <2>4, <3>1, EndingLedger
  <2> QED BY <1>1, <1>5, <2>5, <2>6, FinishEffects
<1>6. CASE Noncurrent(t)
  <2>1. /\ pc[t] # "none" /\ attempt[t] # "none"
        BY <1>6 DEF Noncurrent, Ledger, NothingEarly
  <2>2. Ends(t)
        BY <1>6, <2>1 DEF Noncurrent, RetainNoncurrentResult, Ends, ReleaseAttempt, EndThread
  <2>3. /\ UNCHANGED <<cStatus, revision, aStatus, mandate, content, integrated, artifact,
                       contradiction, verdict>>
        /\ result' = [result EXCEPT ![t] = "superseded"]
        BY <1>6 DEF Noncurrent, RetainNoncurrentResult
  <2>4. aStatus = "accepted" => cStatus # "active"
        BY DEF Ledger, ThreadsAgree
  <2> QED BY <1>1, <2>2, <2>3, <2>4, EndingLedger
<1>7. CASE FailAttempt(t)
  <2>1. attempt[t] = "running" /\ result[t] \in {"candidate", "accepted"}
        BY <1>7 DEF FailAttempt, Ledger, ThreadsAgree
  <2>2. Ends(t)
        BY <1>7, <2>1 DEF FailAttempt, Ends, ReleaseAttempt, EndThread
  <2>3. UNCHANGED <<cStatus, revision, mandate, content, integrated, artifact, contradiction, verdict>>
        BY <1>7 DEF FailAttempt
  <2>4. result[t] = "accepted" => cStatus # "active"
        BY DEF Ledger, ThreadsAgree
  <2> DEFINE r == IF result[t] = "accepted" THEN result[t]
                  ELSE IF IsAcknowledged(t) THEN "candidate" ELSE "superseded"
  <2>5. result' = [result EXCEPT ![t] = r]
        BY <1>7 DEF FailAttempt
  <2>6. /\ aStatus' \in {"ready", "verification_failed"}
        /\ aStatus' = "ready" => r # "candidate"
        BY <1>7 DEF FailAttempt
  <2>7. /\ r \in {"candidate", "superseded", "accepted"}
        /\ r = "candidate" => result[t] = "candidate"
        /\ r = "accepted" => cStatus # "active"
        BY <2>1, <2>4
  <2> HIDE DEF r
  <2> QED BY <1>1, <2>1, <2>2, <2>3, <2>5, <2>6, <2>7, EndingLedger
<1> QED BY <1>2, <1>3, <1>4, <1>5, <1>6, <1>7 DEF Thread

\* Evidence is recorded.
LEMMA RecordLedger ==
    ASSUME Ledger, NEW t \in Attempt, NEW c \in Criterion, NEW i \in Verifier, NEW d \in Diagnosis,
           NEW x \in BOOLEAN, RecordVerificationEvidence(t, c, i, d, x)
    PROVE  Ledger'
<1>1. TypeOK /\ TypeOK' /\ Verified' = Verified /\ artifact' = artifact /\ Room'
      BY RecordTyped DEF Ledger
<1>2. /\ cStatus = "active" /\ artifact # NoArtifact /\ result[t] = "candidate"
      /\ integrated[t] = artifact
      /\ UNCHANGED <<attempt, pc, mandate, content, integrated>>
      /\ verdict' = [verdict EXCEPT ![t][c][i] = d.verdict]
      /\ contradiction' = IF x THEN contradiction \union {<<t, c>>} ELSE contradiction
      BY <1>1, RecordEffects DEF Recorded
<1>3. SameHistory
      BY <1>1, <1>2 DEF SameHistory
<1>4. \A s \in Attempt : s # t =>
            verdict'[s] = verdict[s] /\ \A k \in Criterion : <<s, k>> \in contradiction' => <<s, k>> \in contradiction
      BY <1>1, <1>2 DEF TypeOK
<1>5. attempt[t] # "none" /\ \A s \in Attempt : result[s] = "candidate" \/ attempt[s] = "running" => s = t
      BY <1>2, CandidateIsAlone
<1>6. \A s \in Attempt : integrated'[s] = NoArtifact => \A k \in Criterion, j \in Identity :
                verdict'[s][k][j] = "none" /\ <<s, k>> \notin contradiction'
      BY <1>2, <1>4 DEF Ledger, NothingEarly
<1>7. \/ /\ result' = [result EXCEPT ![t] = "accepted"] /\ aStatus' = "accepted" /\ cStatus' # "active"
      \/ /\ result' = [result EXCEPT ![t] = "superseded"] /\ aStatus = "verification_pending"
         /\ aStatus' = "ready" /\ UNCHANGED <<cStatus, revision>>
      \/ /\ aStatus = "verification_pending" /\ aStatus' = "resource_blocked"
         /\ UNCHANGED <<cStatus, revision, result>>
      \/ UNCHANGED <<cStatus, revision, result, aStatus>>
      BY <1>1, RecordEffects DEF Completed, SentBack, Stopped, JustRecorded
<1>8. \A s \in Attempt : result'[s] = result[s] \/ (s = t /\ result'[s] \in {"accepted", "superseded"})
      BY <1>1, <1>7 DEF TypeOK
<1>9. NothingEarly'
      BY <1>2, <1>5, <1>6, <1>8 DEF Ledger, NothingEarly
<1>10. ThreadsAgree'
  <2>1. CASE /\ result' = [result EXCEPT ![t] = "accepted"] /\ aStatus' = "accepted" /\ cStatus' # "active"
    <3>1. result'[t] = "accepted"
          BY <1>1, <2>1 DEF TypeOK
    <3> QED BY <1>2, <1>5, <2>1, <3>1 DEF Ledger, ThreadsAgree
  <2>2. CASE aStatus = "verification_pending" /\ UNCHANGED cStatus
    <3>1. \A s \in Attempt : attempt[s] # "running"
          BY <2>2 DEF Ledger, ThreadsAgree
    <3>2. aStatus' # "accepted" /\ \A s \in Attempt : result'[s] = "accepted" => result[s] = "accepted"
      <4>1. CASE aStatus' = "ready" /\ result' = [result EXCEPT ![t] = "superseded"]
            BY <1>1, <4>1 DEF TypeOK
      <4>2. CASE aStatus' # "accepted" /\ result' = result
            BY <4>2
      <4> QED BY <1>2, <1>7, <2>2, <4>1, <4>2
    <3> QED BY <1>2, <2>2, <3>1, <3>2 DEF Ledger, ThreadsAgree
  <2>3. CASE UNCHANGED <<cStatus, revision, result, aStatus>>
        BY <1>2, <2>3 DEF Ledger, ThreadsAgree
  <2> QED BY <1>7, <2>1, <2>2, <2>3
<1>11. NewestCounts'
  <2>1. \A s \in Attempt : IsNewest(s)' <=> IsNewest(s)
        BY <1>2 DEF IsNewest
  <2>2. CASE cStatus' # "active"
        BY <1>2, <2>1, <2>2 DEF Ledger, NewestCounts
  <2>3. CASE /\ result' = [result EXCEPT ![t] = "superseded"] /\ UNCHANGED <<cStatus, revision>>
    <3>1. \A s \in Attempt : result'[s] # "candidate"
          BY <1>1, <1>5, <2>3 DEF TypeOK
    <3> QED BY <1>2, <2>1, <2>3, <3>1 DEF Ledger, NewestCounts
  <2>4. CASE /\ aStatus' # "ready" /\ UNCHANGED <<cStatus, revision, result>>
        BY <1>2, <2>1, <2>4 DEF Ledger, NewestCounts
  <2>5. CASE UNCHANGED <<cStatus, revision, result, aStatus>>
        BY <1>2, <2>1, <2>5 DEF Ledger, NewestCounts
  <2> QED BY <1>7, <2>2, <2>3, <2>4, <2>5
<1> QED BY <1>1, <1>3, <1>9, <1>10, <1>11, HistoryKept DEF Ledger

\* The mandate is amended.
LEMMA AmendLedger == ASSUME Ledger, AmendVerification PROVE Ledger'
<1>1. TypeOK /\ TypeOK' /\ Room'
      BY AmendTyped DEF Ledger
<1>2. /\ cStatus = "active" /\ revision' = revision + 1 /\ aStatus' = "ready"
      /\ aStatus \in {"verification_pending", "verification_failed"}
      /\ result' = [t \in Attempt |-> IF result[t] = "candidate" THEN "superseded" ELSE result[t]]
      /\ UNCHANGED <<cStatus, artifact, verdict, contradiction, attempt, pc, mandate, content, integrated>>
      BY DEF AmendVerification
<1>3. \A t \in Attempt : /\ result'[t] # "candidate" /\ (result'[t] = "none" <=> result[t] = "none")
                         /\ result'[t] = "accepted" => result[t] = "accepted"
      BY <1>1, <1>2 DEF TypeOK
<1>4. \A t \in Attempt : attempt[t] # "running"
      BY <1>2 DEF Ledger, ThreadsAgree
<1>5. InOrder' /\ ArtifactIsNewest'
      BY <1>2 DEF Ledger, InOrder, Started, ArtifactIsNewest, Brought
<1>6. NothingEarly'
      BY <1>2, <1>3 DEF Ledger, NothingEarly
<1>7. ThreadsAgree'
      BY <1>2, <1>3, <1>4 DEF Ledger, ThreadsAgree
<1>8. NewestCounts'
      BY <1>2, <1>3, <1>4 DEF NewestCounts
<1>9. MandatesGrow'
  <2>1. revision \in Nat /\ Verified = revision /\ Verified' = revision + 1
        BY <1>1, <1>2, Bounds DEF TypeOK, Revision, Verified
  <2>2. \A t \in Attempt : mandate[t] \in Nat
        BY <1>1, Bounds DEF TypeOK, Revision
  <2>3. \A t \in Attempt : mandate'[t] <= Verified'
        BY <1>2, <2>1, <2>2 DEF Ledger, MandatesGrow
  <2> QED BY <1>2, <2>3 DEF Ledger, MandatesGrow
<1> QED BY <1>1, <1>5, <1>6, <1>7, <1>8, <1>9 DEF Ledger
\* No step takes back the start of an Attempt, or a Result's being given up.
GoesOn ==
    \A t \in Attempt : /\ attempt[t] # "none" => attempt'[t] # "none"
                       /\ result[t] = "superseded" => result'[t] = "superseded"

LEMMA StepGoesOn == ASSUME Ledger, [Next]_vars PROVE GoesOn
<1> USE DEF GoesOn, ReleaseAttempt
<1>1. TypeOK /\ Ledger /\ InOrder
      BY DEF Ledger
<1>2. CASE Dispatch
  <2>1. PICK t \in Attempt, a \in Artifact : attempt[t] = "none" /\ DispatchedAs(t, a)
        BY <1>1, <1>2, DispatchEffects
  <2>2. result[t] = "none"
        BY <1>1, <2>1 DEF Ledger, NothingEarly
  <2> QED BY <1>1, <2>1, <2>2 DEF DispatchedAs, TypeOK
<1>3. ASSUME NEW t \in Attempt, Thread(t) PROVE GoesOn
  <2>1. CASE CandidatePasses(t) \/ Integrate(t)
        BY <2>1 DEF CandidatePasses, Integrate
  <2>2. CASE CandidateFails(t) \/ Noncurrent(t)
        BY <1>1, <2>2 DEF CandidateFails, Noncurrent, RetainNoncurrentResult, TypeOK
  <2>3. CASE FinishIntegrated(t)
        BY <1>1, <2>3, FinishEffects DEF Complete, TypeOK
  <2>4. CASE FailAttempt(t)
    <3>1. result[t] # "superseded"
          BY <1>1, <2>4 DEF FailAttempt, Ledger, ThreadsAgree
    <3> QED BY <1>1, <2>4, <3>1 DEF FailAttempt, TypeOK
  <2> QED BY <1>3, <2>1, <2>2, <2>3, <2>4 DEF Thread
<1>4. ASSUME NEW t \in Attempt, NEW c \in Criterion, NEW i \in Verifier, NEW d \in Diagnosis,
             NEW x \in BOOLEAN, RecordVerificationEvidence(t, c, i, d, x)
      PROVE  GoesOn
  <2>1. /\ result[t] = "candidate" /\ attempt' = attempt
        /\ result' = result \/ result' = [result EXCEPT ![t] = "accepted"]
             \/ result' = [result EXCEPT ![t] = "superseded"]
        BY <1>1, <1>4, RecordEffects DEF Recorded, Completed, SentBack, Stopped, JustRecorded
  <2> QED BY <1>1, <2>1 DEF TypeOK
<1>5. CASE AmendVerification
      BY <1>1, <1>5 DEF AmendVerification, TypeOK
<1>6. CASE UNCHANGED vars
      BY <1>6 DEF vars
<1> QED BY <1>2, <1>3, <1>4, <1>5, <1>6 DEF Next

-----------------------------------------------------------------------------
(* What the record says.                                                   *)

\* The Control Plane is an identity of its own.
LEMMA SomeIdentity == \E i : i \in Identity
BY DEF Identity, Run

\* Nobody has said anything about c on t's Result.
Silent(t, c) == (\A i \in Identity : verdict[t][c][i] = "none") /\ <<t, c>> \notin contradiction

\* A step that leaves the record on c as it was: the same verdicts on the same Results,
\* and Results about which nobody said anything.
SameOn(c) ==
    /\ setting'[c] = setting[c]
    /\ \A t \in Attempt :
        /\ AtHand(t) => AtHand(t)'
        /\ AtHand(t)' /\ ~AtHand(t) => Silent(t, c)
        /\ AtHand(t)' => /\ \A i \in Identity : verdict'[t][c][i] = verdict[t][c][i]
                         /\ <<t, c>> \in contradiction' <=> <<t, c>> \in contradiction

\* Then those who are convinced are the same, and what is fulfilled.
LEMMA SameOnKeeps ==
    ASSUME NEW c \in Criterion, SameOn(c)
    PROVE  Convinced(c)' = Convinced(c) /\ (Fulfilled(c)' <=> Fulfilled(c)) /\ (Heard(c)' => Heard(c))
<1>1. ASSUME NEW i \in Convinced(c)
      PROVE  i \in Convinced(c)'
  <2>1. i \in Identity
        BY DEF Convinced
  <2>2. PICK t \in Attempt :
                /\ AtHand(t) /\ verdict[t][c][i] = "passed"
                /\ \A s \in Attempt : s > t /\ AtHand(s) => verdict[s][c][i] = "none"
        BY <1>1 DEF Convinced, AtHand
  <2>3. AtHand(t)' /\ verdict'[t][c][i] = "passed"
        BY <2>1, <2>2 DEF SameOn
  <2>4. \A s \in Attempt : s > t /\ AtHand(s)' => verdict'[s][c][i] = "none"
        BY <2>1, <2>2 DEF SameOn, Silent
  <2> QED BY <2>1, <2>3, <2>4 DEF Convinced, AtHand
<1>2. ASSUME NEW i \in Convinced(c)'
      PROVE  i \in Convinced(c)
  <2>1. i \in Identity
        BY DEF Convinced
  <2>2. PICK t \in Attempt :
                /\ AtHand(t)' /\ verdict'[t][c][i] = "passed"
                /\ \A s \in Attempt : s > t /\ AtHand(s)' => verdict'[s][c][i] = "none"
        BY <1>2 DEF Convinced, AtHand
  <2>3. AtHand(t) /\ verdict[t][c][i] = "passed"
        BY <2>1, <2>2 DEF SameOn, Silent
  <2>4. \A s \in Attempt : s > t /\ AtHand(s) => verdict[s][c][i] = "none"
        BY <2>1, <2>2 DEF SameOn
  <2> QED BY <2>1, <2>3, <2>4 DEF Convinced, AtHand
<1>3. Convinced(c)' = Convinced(c)
      BY <1>1, <1>2
<1>4. Required(c)' = Required(c)
      BY DEF SameOn, Required
<1>5. (\A t \in Attempt : AtHand(t)' => <<t, c>> \notin contradiction')
        <=> (\A t \in Attempt : AtHand(t) => <<t, c>> \notin contradiction)
      BY DEF SameOn, Silent
<1>6. Fulfilled(c)' <=> Fulfilled(c)
      BY <1>3, <1>4, <1>5 DEF Fulfilled
<1>7. Heard(c)' => Heard(c)
  <2>1. \A t \in Attempt, i \in Verifier : AtHand(t)' /\ verdict'[t][c][i] # "none"
            => AtHand(t) /\ verdict[t][c][i] # "none"
        BY DEF SameOn, Silent, Identity
  <2> QED BY <2>1 DEF Heard
<1> QED BY <1>3, <1>6, <1>7

\* An opinion on a criterion with the same record stays.
LEMMA SameOpinion ==
    ASSUME NEW c \in Criterion, SameOn(c), GateOf(c), NewsOf(c), CameBack => CameBack',
           Verified' = Verified, cStatus' = "active" => cStatus = "active",
           gate'[Verified][c] = gate[Verified][c], recovery'[c] = recovery[c] \/ Begun(c)', GoesOn
    PROVE  GateOf(c)' /\ NewsOf(c)'
<1>1. Convinced(c)' = Convinced(c) /\ (Fulfilled(c)' <=> Fulfilled(c)) /\ (Heard(c)' => Heard(c))
      BY SameOnKeeps
<1>2. setting'[c] = setting[c]
      BY DEF SameOn
<1>3. GateOf(c)'
      BY <1>1, <1>2 DEF GateOf
<1>4. Begun(c) => Begun(c)'
  <2>1. \A t \in Attempt, i \in Verifier : AtHand(t)' /\ verdict'[t][c][i] # "none"
            => AtHand(t) /\ verdict[t][c][i] # "none"
        BY DEF SameOn, Silent, Identity
  <2> QED BY <2>1 DEF Begun, GoesOn
<1>5. NewsOf(c)'
      BY <1>1, <1>2, <1>4 DEF NewsOf, Deterministic
<1> QED BY <1>3, <1>5

\* What refresh_criterion_statuses computes is what is on record.
LEMMA JudgedNow ==
    ASSUME Ledger, cStatus = "active", artifact # NoArtifact, NEW c \in Criterion,
           UNCHANGED <<setting, mandate, integrated, artifact>>, Verified' = Verified
    PROVE  JudgedAnew[c] = "passed" <=> Fulfilled(c)'
<1> DEFINE rs == Current(revision, artifact)
<1>1. \A t \in Attempt : t \in rs <=> AtHand(t)'
      BY DEF Current, Counts, AtHand, Verified, Ledger, NothingEarly
<1>2. rs \subseteq Attempt
      BY DEF Current
<1> HIDE DEF rs
<1>3. ConvincedBy(verdict', rs, c) = Convinced(c)'
  <2>1. \A i \in Identity : EndsPassed(verdict', rs, c, i) <=>
            \E t \in Attempt : /\ AtHand(t)' /\ verdict'[t][c][i] = "passed"
                               /\ \A s \in Attempt : s > t /\ AtHand(s)' => verdict'[s][c][i] = "none"
        BY <1>1, <1>2 DEF EndsPassed
  <2> QED BY <2>1 DEF ConvincedBy, Convinced, AtHand
<1>4. Judged(verdict', contradiction', rs)[c] = "passed" <=>
               /\ Cardinality(ConvincedBy(verdict', rs, c)) >= Required(c)
               /\ \A t \in rs : <<t, c>> \notin contradiction'
      BY <1>2, JudgedPasses
<1>5. Required(c)' = Required(c)
      BY DEF Required
<1>6. (\A t \in rs : <<t, c>> \notin contradiction')
        <=> (\A t \in Attempt : AtHand(t)' => <<t, c>> \notin contradiction')
      BY <1>1, <1>2
<1> QED BY <1>3, <1>4, <1>5, <1>6 DEF JudgedAnew, Fulfilled, rs

\* Where nobody said anything, nothing is fulfilled.
LEMMA NothingSaid ==
    ASSUME NEW c, \A t \in Attempt : AtHand(t) => Silent(t, c)
    PROVE  Convinced(c) = {} /\ ~Fulfilled(c) /\ (Verifier \subseteq Identity => ~Heard(c))
<1>1. Convinced(c) = {}
      BY DEF Convinced, AtHand, Silent
<1>2. Cardinality(Convinced(c)) = 0
      BY <1>1, FS_EmptySet
<1>3. Required(c) \in {1, 2}
      BY DEF Required
<1>4. ~Fulfilled(c)
      BY <1>2, <1>3 DEF Fulfilled
<1> QED BY <1>1, <1>4 DEF Heard, Silent
\* The same of the state that a step leads to.
LEMMA NothingSaidAfter ==
    ASSUME NEW c, \A t \in Attempt : AtHand(t)' => Silent(t, c)'
    PROVE  Convinced(c)' = {} /\ ~Fulfilled(c)' /\ (Verifier \subseteq Identity => ~Heard(c)')
<1>1. Convinced(c)' = {}
      BY DEF Convinced, AtHand, Silent
<1>2. Cardinality(Convinced(c)') = 0
      BY <1>1, FS_EmptySet
<1>3. Required(c)' \in {1, 2}
      BY DEF Required
<1>4. ~Fulfilled(c)'
      BY <1>2, <1>3 DEF Fulfilled
<1> QED BY <1>1, <1>4 DEF Heard, Silent

-----------------------------------------------------------------------------
(* The Opinion.                                                            *)

\* It holds when a Commission is accepted.
LEMMA InitOpinion == ASSUME Init PROVE Opinion
<1>1. \A t \in Attempt, c \in Criterion : Silent(t, c)
      BY DEF Init, Silent
<1>2. \A c \in Criterion : ~Fulfilled(c) /\ ~Heard(c)
      BY <1>1, NothingSaid DEF Identity
<1>3. \A c \in Criterion : criterion[c] = "uncertain"
      BY DEF Init
<1>4. cStatus = "active" /\ aStatus = "ready"
      BY DEF Init
<1> QED BY <1>2, <1>3, <1>4
        DEF Opinion, UndecidedBefore, PassedOnRecord, EarnedByAll, GateOf, NewsOf

\* The record on every criterion is the same when Results, mandates and Evidence are.
LEMMA SameRecord ==
    ASSUME UNCHANGED <<setting, mandate, integrated, artifact, verdict, contradiction>>,
           Verified' = Verified
    PROVE  (\A c \in Criterion : SameOn(c)) /\ (CameBack' <=> CameBack)
<1>1. \A t \in Attempt : AtHand(t)' <=> AtHand(t)
      BY DEF AtHand
<1>2. CameBack' <=> CameBack
      BY DEF CameBack
<1> QED BY <1>1, <1>2 DEF SameOn

\* A step that records no Evidence keeps the Opinion, if it decides nothing.
LEMMA QuietOpinion ==
    ASSUME Opinion, \A c \in Criterion : SameOn(c), CameBack => CameBack',
           UNCHANGED <<cStatus, gate>>, Verified' = Verified, GoesOn,
           \A c \in Criterion : recovery'[c] = recovery[c] \/ Begun(c)',
           \A c \in Criterion : ~Deterministic(c) /\ criterion'[c] = "passed" => criterion[c] = "passed",
           NothingToJudge' => NothingToJudge \/ \A c \in Criterion : criterion'[c] # "passed",
           aStatus' = "verification_pending" => aStatus = "verification_pending",
           aStatus = "verification_pending" \/ cStatus = "verified_complete" => criterion' = criterion
    PROVE  Opinion'
<1>1. \A c \in Criterion : Deterministic(c)' <=> Deterministic(c)
      BY DEF SameOn, Deterministic
<1>2. \A c \in Criterion : Fulfilled(c)' <=> Fulfilled(c)
      BY SameOnKeeps
<1>3. UndecidedBefore'
      BY <1>1 DEF Opinion, UndecidedBefore
<1>4. PassedOnRecord'
      BY <1>1, <1>2 DEF Opinion, PassedOnRecord
<1>5. EarnedByAll'
      BY <1>2 DEF Opinion, EarnedByAll
<1>6. \A c \in Criterion : GateOf(c)' /\ NewsOf(c)'
  <2> SUFFICES ASSUME NEW c \in Criterion PROVE GateOf(c)' /\ NewsOf(c)'
      OBVIOUS
  <2>1. GateOf(c) /\ NewsOf(c)
        BY DEF Opinion
  <2> QED BY <2>1, SameOpinion
<1> QED BY <1>3, <1>4, <1>5, <1>6 DEF Opinion

\* Dispatch.
LEMMA DispatchOpinion == ASSUME IndInv, Dispatch, GoesOn PROVE Opinion'
<1>1. TypeOK /\ InOrder
      BY DEF IndInv, Ledger
<1>2. PICK t \in Attempt, a \in Artifact :
            /\ attempt[t] = "none" /\ DispatchedAs(t, a)
            /\ \A s \in Attempt : attempt[s] # "none" <=> s < t
      BY <1>1, DispatchEffects
<1>3. /\ cStatus = "active" /\ aStatus = "ready" /\ aStatus' = "running"
      /\ UNCHANGED <<cStatus, revision, artifact, setting, criterion, gate, verdict,
                     contradiction, integrated>>
      BY <1>1, DispatchEffects
<1>4. mandate'[t] = revision /\ \A s \in Attempt : s # t => mandate'[s] = mandate[s]
      BY <1>1, <1>2 DEF DispatchedAs, TypeOK
<1>5. Verified' = Verified /\ Verified = revision
      BY <1>3 DEF Verified
<1>6. integrated[t] = NoArtifact /\ \A c \in Criterion : Silent(t, c)
  <2>1. integrated[t] = NoArtifact
        BY <1>2 DEF IndInv, Ledger, NothingEarly
  <2>2. \A c \in Criterion, i \in Identity : verdict[t][c][i] = "none" /\ <<t, c>> \notin contradiction
        BY <2>1 DEF IndInv, Ledger, NothingEarly
  <2>3. \A c \in Criterion : <<t, c>> \notin contradiction
        BY <2>2, SomeIdentity
  <2> QED BY <2>1, <2>2, <2>3 DEF Silent
<1>7. \A c \in Criterion : SameOn(c)
      BY <1>3, <1>4, <1>5, <1>6 DEF SameOn, AtHand
<1>8. CameBack => CameBack'
  <2>1. SUFFICES ASSUME CameBack PROVE CameBack'
        OBVIOUS
  <2>2. PICK r, s, u \in Attempt :
            /\ r < s /\ s < u
            /\ mandate[r] = Verified /\ mandate[s] = Verified /\ mandate[u] = Verified
            /\ integrated[r] = artifact /\ integrated[u] = artifact
            /\ integrated[s] \notin {artifact, NoArtifact}
        BY <2>1 DEF CameBack
  <2>3. artifact # NoArtifact
        BY <2>2 DEF IndInv, Ledger, ArtifactIsNewest
  <2>4. r # t /\ s # t /\ u # t
        BY <1>6, <2>2, <2>3
  <2> QED BY <1>3, <1>4, <1>5, <2>2, <2>4 DEF CameBack
<1>9. NothingToJudge
      BY <1>3 DEF NothingToJudge
<1>10. ASSUME NEW c \in Criterion PROVE Begun(c)'
  <2>1. attempt'[t] # "none" /\ \A s \in Attempt : s # t => result'[s] = result[s]
        BY <1>1, <1>2 DEF DispatchedAs, TypeOK
  <2>2. ASSUME NEW s \in Attempt, NEW i \in Verifier, verdict'[s][c][i] # "none"
        PROVE  s < t /\ result'[s] = "superseded"
    <3>1. s # t /\ verdict[s][c][i] # "none"
          BY <1>3, <1>6, <2>2 DEF Silent, Identity
    <3>2. integrated[s] # NoArtifact
          BY <3>1 DEF IndInv, Ledger, NothingEarly, Identity
    <3>3. attempt[s] # "none" /\ result[s] # "none"
          BY <3>2 DEF IndInv, Ledger, NothingEarly
    <3>4. result[s] # "candidate" /\ result[s] # "accepted"
          BY <1>3 DEF IndInv, Ledger, NewestCounts, ThreadsAgree
    <3>5. result[s] = "superseded"
          BY <1>1, <3>3, <3>4 DEF TypeOK
    <3> QED BY <1>2, <2>1, <3>1, <3>3, <3>5
  <2> QED BY <2>1, <2>2 DEF Begun
<1> QED BY <1>3, <1>5, <1>7, <1>8, <1>9, <1>10, QuietOpinion DEF IndInv

\* A candidate is judged, or a thread ends without finishing.
LEMMA UnfinishedOpinion ==
    ASSUME IndInv, GoesOn, NEW t \in Attempt,
           CandidatePasses(t) \/ CandidateFails(t) \/ Noncurrent(t) \/ FailAttempt(t)
    PROVE  Opinion'
<1>1. TypeOK /\ Ledger
      BY DEF IndInv, Ledger
<1>2. UNCHANGED <<cStatus, revision, setting, mandate, integrated, artifact, verdict, contradiction,
                  gate, recovery>>
      BY DEF CandidatePasses, CandidateFails, Noncurrent, RetainNoncurrentResult, FailAttempt
<1>3. Verified' = Verified
      BY <1>2 DEF Verified
<1>4. (\A c \in Criterion : SameOn(c)) /\ (CameBack => CameBack')
      BY <1>2, <1>3, SameRecord
<1>5. /\ \A c \in Criterion : ~Deterministic(c) /\ criterion'[c] = "passed" => criterion[c] = "passed"
      /\ NothingToJudge' => NothingToJudge \/ \A c \in Criterion : criterion'[c] # "passed"
      /\ aStatus' = "verification_pending" => aStatus = "verification_pending"
      /\ aStatus = "verification_pending" \/ cStatus = "verified_complete" => criterion' = criterion
  <2>1. CASE CandidatePasses(t)
    <3>1. aStatus = "running" /\ cStatus = "active" /\ attempt[t] = "running" /\ pc[t] = "verify"
          BY <2>1, <1>1, CurrentRuns DEF CandidatePasses
    <3>2. NothingToJudge /\ aStatus' = aStatus
          BY <2>1, <3>1 DEF NothingToJudge, CandidatePasses
    <3>3. \A c \in Criterion : ~Deterministic(c) => criterion'[c] = criterion[c]
          BY <1>1, <2>1, CandidateTyped DEF CandidatePasses
    <3> QED BY <3>1, <3>2, <3>3
  <2>2. CASE CandidateFails(t)
    <3>1. /\ aStatus = "running" /\ cStatus = "active"
          /\ \A s \in Attempt : s # t => attempt[s] # "running"
          BY <2>2, <1>1, CurrentRuns DEF CandidateFails
    <3>2. \A s \in Attempt : attempt'[s] # "running"
          BY <1>1, <2>2, <3>1 DEF CandidateFails, ReleaseAttempt, TypeOK
    <3>3. CASE aStatus' = "ready" /\ criterion' = [c \in Criterion |-> "uncertain"]
          BY <3>1, <3>3
    <3>4. CASE aStatus' = "verification_failed" /\ \E o \in Outcomes : criterion' = CandidateStatus(o)
      <4>1. ~NothingToJudge'
            BY <3>2, <3>4 DEF NothingToJudge
      <4>2. \A c \in Criterion : ~Deterministic(c) => criterion'[c] = criterion[c]
            BY <1>1, <3>4, CandidateTyped
      <4> QED BY <3>1, <3>4, <4>1, <4>2
    <3> QED BY <2>2, <3>3, <3>4 DEF CandidateFails
  <2>3. CASE Noncurrent(t)
    <3>1. UNCHANGED <<aStatus, cStatus, criterion>>
          BY <2>3 DEF Noncurrent, RetainNoncurrentResult
    <3>2. \A s \in Attempt : attempt'[s] = "running" => attempt[s] = "running" /\ pc'[s] = pc[s]
          BY <1>1, <2>3 DEF Noncurrent, RetainNoncurrentResult, ReleaseAttempt, EndThread, TypeOK
    <3>3. NothingToJudge' => NothingToJudge
          BY <3>1, <3>2 DEF NothingToJudge
    <3> QED BY <3>1, <3>3
  <2>4. CASE FailAttempt(t)
    <3>1. /\ attempt[t] = "running" /\ aStatus # "verification_pending"
          /\ \A s \in Attempt : s # t => attempt[s] # "running"
          BY <1>1, <2>4, NewestIsOne DEF FailAttempt, Ledger, ThreadsAgree, NewestCounts
    <3>2. criterion' = criterion /\ aStatus' # "verification_pending" /\ cStatus' = cStatus
          BY <2>4 DEF FailAttempt
    <3>3. \A s \in Attempt : attempt'[s] # "running"
          BY <1>1, <2>4, <3>1 DEF FailAttempt, ReleaseAttempt, TypeOK
    <3>4. ASSUME NothingToJudge' PROVE NothingToJudge
      <4>1. cStatus = "active" /\ aStatus' = "ready"
            BY <3>2, <3>3, <3>4 DEF NothingToJudge
      <4>2. ~IsAcknowledged(t)
            BY <2>4, <4>1, <1>1, <3>1 DEF FailAttempt, Ledger, ThreadsAgree
      <4>3. pc[t] # "finish"
            BY <1>1, <3>1, <4>2, FinishingBrought DEF IsAcknowledged
      <4>4. pc[t] \in {"verify", "integrate"}
            BY <1>1, <3>1, <4>3 DEF Ledger, ThreadsAgree, TypeOK
      <4> QED BY <3>1, <4>1, <4>4 DEF NothingToJudge
    <3> QED BY <3>1, <3>2, <3>4
  <2> QED BY <2>1, <2>2, <2>3, <2>4
<1> QED BY <1>2, <1>3, <1>4, <1>5, QuietOpinion DEF IndInv
\* What was not integrated has no record.
LEMMA SilentBefore ==
    ASSUME Ledger, NEW t \in Attempt, integrated[t] = NoArtifact, NEW c \in Criterion
    PROVE  Silent(t, c)
<1>1. \A i \in Identity : verdict[t][c][i] = "none" /\ <<t, c>> \notin contradiction
      BY DEF Ledger, NothingEarly
<1> QED BY <1>1, SomeIdentity DEF Silent

\* Integration brings another artifact, about which nobody has said anything, unless
\* it came back; or the same, with the record it has.
LEMMA IntegrateOpinion == ASSUME IndInv, GoesOn, NEW t \in Attempt, Integrate(t) PROVE Opinion'
<1>1. TypeOK /\ Ledger /\ Opinion
      BY DEF IndInv, Ledger
<1>2. /\ attempt[t] = "running" /\ result[t] = "candidate" /\ cStatus = "active" /\ IsNewest(t)
      /\ aStatus = "running" /\ mandate[t] = revision
      BY <1>1, CurrentRuns DEF Integrate
<1>3. /\ UNCHANGED <<cStatus, revision, setting, criterion, gate, recovery, verdict, contradiction,
                     aStatus, mandate, attempt>>
      /\ pc[t] = "integrate"
      /\ integrated' = [integrated EXCEPT ![t] = content[t]] /\ artifact' = content[t]
      BY DEF Integrate
<1>4. integrated'[t] = content[t] /\ \A s \in Attempt : s # t => integrated'[s] = integrated[s]
      BY <1>1, <1>3 DEF TypeOK
<1>5. content[t] # NoArtifact /\ integrated[t] = NoArtifact /\ \A c \in Criterion : Silent(t, c)
  <2>1. content[t] \in Artifact /\ integrated[t] = NoArtifact
        BY <1>1, <1>2, <1>3 DEF Ledger, NothingEarly, ThreadsAgree
  <2> QED BY <1>1, <2>1, Bounds, SilentBefore
<1>6. Verified' = Verified /\ Verified = revision
      BY <1>2, <1>3 DEF Verified
<1>7. NothingToJudge /\ \A c \in Criterion : ~Deterministic(c) => criterion[c] # "passed"
      BY <1>1, <1>2, <1>3 DEF NothingToJudge, Opinion, UndecidedBefore
<1>8. UndecidedBefore' /\ PassedOnRecord' /\ EarnedByAll'
      BY <1>2, <1>3, <1>7 DEF UndecidedBefore, PassedOnRecord, EarnedByAll, Deterministic
<1>9. ASSUME NEW c \in Criterion PROVE GateOf(c)' /\ NewsOf(c)'
  <2>1. CASE content[t] = artifact
    <3>1. SameOn(c)
          BY <1>2, <1>3, <1>4, <1>5, <1>6, <2>1 DEF SameOn, AtHand
    <3>2. CameBack => CameBack'
      <4>1. SUFFICES ASSUME CameBack PROVE CameBack'
            OBVIOUS
      <4>2. PICK r, s, u \in Attempt :
                /\ r < s /\ s < u
                /\ mandate[r] = Verified /\ mandate[s] = Verified /\ mandate[u] = Verified
                /\ integrated[r] = artifact /\ integrated[u] = artifact
                /\ integrated[s] \notin {artifact, NoArtifact}
            BY <4>1 DEF CameBack
      <4>3. r # t /\ s # t /\ u # t
            BY <1>5, <2>1, <4>2
      <4> QED BY <1>3, <1>4, <1>6, <2>1, <4>2, <4>3 DEF CameBack
    <3>3. GateOf(c) /\ NewsOf(c)
          BY <1>1 DEF Opinion
    <3> QED BY <1>3, <1>6, <3>1, <3>2, <3>3, SameOpinion
  <2>2. CASE content[t] # artifact /\ \E r \in Attempt : r # t /\ mandate[r] = revision
                                                       /\ integrated[r] = content[t]
    <3>1. PICK r \in Attempt : r # t /\ mandate[r] = revision /\ integrated[r] = content[t]
          BY <2>2
    <3>2. artifact # NoArtifact
          BY <1>1, <1>5, <3>1 DEF Ledger, ArtifactIsNewest
    <3>3. PICK s \in Attempt : Brought(s)
          BY <1>1, <3>2 DEF Ledger, ArtifactIsNewest
    <3>4. /\ integrated[s] = artifact /\ r <= s /\ s # t /\ r # s
          BY <1>5, <2>2, <3>1, <3>2, <3>3 DEF Brought
    <3>5. attempt[s] # "none"
          BY <1>1, <3>2, <3>4 DEF Ledger, NothingEarly
    <3>6. s <= t
          BY <1>2, <3>5 DEF IsNewest
    <3>7. r < s /\ s < t
          BY <3>4, <3>6, AttemptsCount
    <3>8. mandate[s] = revision
      <4>1. mandate[r] <= mandate[s] /\ mandate[s] <= revision
            BY <1>1, <1>6, <3>4, <3>5 DEF Ledger, MandatesGrow
      <4>2. mandate[s] \in Nat /\ revision \in Nat
            BY <1>1, Bounds DEF TypeOK, Revision
      <4> QED BY <3>1, <4>1, <4>2
    <3>9. CameBack'
      <4>1. /\ mandate'[r] = Verified' /\ mandate'[s] = Verified' /\ mandate'[t] = Verified'
            BY <1>2, <1>3, <1>6, <3>1, <3>8
      <4>2. /\ integrated'[r] = artifact' /\ integrated'[t] = artifact'
            /\ integrated'[s] \notin {artifact', NoArtifact}
            BY <1>3, <1>4, <2>2, <3>1, <3>2, <3>4
      <4> QED BY <3>7, <4>1, <4>2 DEF CameBack
    <3> QED BY <3>9 DEF GateOf, NewsOf
  <2>3. CASE content[t] # artifact /\ ~\E r \in Attempt : r # t /\ mandate[r] = revision
                                                        /\ integrated[r] = content[t]
    <3>1. \A s \in Attempt : AtHand(s)' => s = t
          BY <1>3, <1>4, <1>6, <2>3 DEF AtHand
    <3>2. \A s \in Attempt : AtHand(s)' => Silent(s, c)'
          BY <1>3, <1>5, <3>1 DEF Silent
    <3>3. ~Fulfilled(c)' /\ ~Heard(c)'
          BY <3>2, NothingSaidAfter DEF Identity
    <3> QED BY <3>3 DEF GateOf, NewsOf
  <2> QED BY <2>1, <2>2, <2>3
<1> QED BY <1>8, <1>9 DEF Opinion

\* The integrated Result is judged.
LEMMA FinishOpinion == ASSUME IndInv, GoesOn, NEW t \in Attempt, FinishIntegrated(t) PROVE Opinion'
<1>1. TypeOK /\ Ledger /\ Opinion
      BY DEF IndInv, Ledger
<1>2. /\ pc[t] = "finish" /\ IsCurrent(t) /\ ReleaseAttempt(t)
      /\ UNCHANGED <<setting, gate, recovery, contradiction, mandate, content, integrated>>
      /\ RunsRecorded(t)
      /\ criterion' = Judged(verdict', contradiction, Current(revision, integrated[t]))
      /\ \/ /\ aStatus' \in {"verification_failed", "verification_pending"}
            /\ UNCHANGED <<cStatus, revision, artifact, result>>
         \/ /\ \A c \in Criterion : criterion'[c] = "passed"
            /\ Complete(t)
      BY <1>1, FinishEffects
<1>3. /\ attempt[t] = "running" /\ cStatus = "active"
      /\ \A s \in Attempt : s # t => attempt[s] # "running"
      BY <1>1, <1>2, CurrentRuns
<1>4. integrated[t] = artifact /\ artifact # NoArtifact
      BY <1>1, <1>2, <1>3, FinishingBrought
<1>5. /\ Verified' = Verified /\ artifact' = artifact /\ aStatus' # "ready"
      /\ cStatus' = "verified_complete" => \A c \in Criterion : criterion'[c] = "passed"
  <2>1. CASE /\ aStatus' \in {"verification_failed", "verification_pending"}
             /\ UNCHANGED <<cStatus, revision, artifact, result>>
        BY <1>3, <2>1 DEF Verified
  <2>2. CASE /\ \A c \in Criterion : criterion'[c] = "passed"
             /\ Complete(t)
        BY <1>1, <1>3, <1>4, <2>2, CompleteTyped DEF Ledger
  <2> QED BY <1>2, <2>1, <2>2
<1>6. \A c \in Criterion : criterion'[c] = "passed" <=> Fulfilled(c)'
  <2>1. criterion' = JudgedAnew
        BY <1>2, <1>4 DEF JudgedAnew
  <2> QED BY <1>1, <1>2, <1>3, <1>4, <1>5, <2>1, JudgedNow
<1>7. ~NothingToJudge'
  <2>1. \A s \in Attempt : attempt'[s] # "running"
        BY <1>1, <1>2, <1>3 DEF ReleaseAttempt, TypeOK
  <2> QED BY <1>5, <2>1 DEF NothingToJudge
<1>8. UndecidedBefore' /\ PassedOnRecord' /\ EarnedByAll'
      BY <1>5, <1>6, <1>7 DEF UndecidedBefore, PassedOnRecord, EarnedByAll
<1>9. ASSUME NEW c \in Criterion PROVE GateOf(c)' /\ NewsOf(c)'
  <2>1. CASE Deterministic(c)
        BY <1>2, <2>1 DEF GateOf, NewsOf, Deterministic
  <2>2. CASE ~Deterministic(c)
    <3>1. \A s \in Attempt, i \in Identity : verdict'[s][c][i] = verdict[s][c][i]
          BY <1>2, <2>2 DEF RunsRecorded
    <3>2. SameOn(c)
          BY <1>2, <1>5, <3>1 DEF SameOn, AtHand
    <3>3. CameBack => CameBack'
          BY <1>2, <1>5 DEF CameBack
    <3>4. GateOf(c) /\ NewsOf(c)
          BY <1>1 DEF Opinion
    <3> QED BY <1>2, <1>3, <1>5, <3>2, <3>3, <3>4, SameOpinion
  <2> QED BY <2>1, <2>2
<1> QED BY <1>8, <1>9 DEF Opinion
\* Evidence is recorded.
LEMMA RecordOpinion ==
    ASSUME IndInv, GoesOn, NEW t \in Attempt, NEW c \in Criterion, NEW i \in Verifier, NEW d \in Diagnosis,
           NEW x \in BOOLEAN, RecordVerificationEvidence(t, c, i, d, x)
    PROVE  Opinion'
<1>1. TypeOK /\ Ledger /\ Opinion /\ i \in Identity
      BY DEF IndInv, Ledger, Identity
<1>2. /\ Recorded(t, c, i, d, x) /\ FollowedUp(c, d, x)
      /\ Completed(t) \/ SentBack(t) \/ Stopped \/ JustRecorded
      BY <1>1, RecordEffects
<1>3. /\ cStatus = "active" /\ artifact # NoArtifact /\ ~Deterministic(c)
      /\ result[t] = "candidate" /\ integrated[t] = artifact
      /\ UNCHANGED <<setting, attempt, pc, mandate, integrated>>
      /\ verdict' = [verdict EXCEPT ![t][c][i] = d.verdict]
      /\ contradiction' = IF x THEN contradiction \union {<<t, c>>} ELSE contradiction
      /\ gate' = GateAfter(c, JudgedAnew)
      /\ \A k \in Criterion : k # c => recovery'[k] = recovery[k]
      BY <1>2 DEF Recorded
<1>4. Verified' = Verified /\ Verified = revision /\ artifact' = artifact
      BY <1>1, <1>3, RecordTyped DEF Verified
<1>5. \A k \in Criterion : JudgedAnew[k] = "passed" <=> Fulfilled(k)'
      BY <1>1, <1>3, <1>4, JudgedNow
<1>6. /\ attempt[t] # "none" /\ IsNewest(t) /\ mandate[t] = revision
      /\ \A s \in Attempt : result[s] = "candidate" \/ attempt[s] = "running" => s = t
      BY <1>1, <1>3, CandidateIsAlone
<1>7. \A k \in Criterion : criterion'[k] = "passed" => JudgedAnew[k] = "passed"
      BY <1>2 DEF Completed, SentBack, Stopped, JustRecorded
<1>8. PassedOnRecord' /\ EarnedByAll'
  <2>1. cStatus' = "verified_complete" => \A k \in Criterion : criterion'[k] = "passed"
        BY <1>2, <1>3 DEF Completed, SentBack, Stopped, JustRecorded
  <2> QED BY <1>5, <1>7, <2>1 DEF PassedOnRecord, EarnedByAll
<1>9. UndecidedBefore'
  <2>1. aStatus # "ready"
        BY <1>1, <1>3 DEF Ledger, NewestCounts
  <2>2. \A s \in Attempt : attempt'[s] = "running" => pc'[s] \notin {"verify", "integrate"}
        BY <1>1, <1>3, <1>6 DEF Ledger, ThreadsAgree
  <2>3. NothingToJudge' => \A k \in Criterion : criterion'[k] # "passed"
        BY <1>2, <2>1, <2>2 DEF NothingToJudge, Completed, SentBack, Stopped, JustRecorded
  <2> QED BY <2>3 DEF UndecidedBefore
<1>10. verdict'[t][c][i] = d.verdict
       /\ \A s \in Attempt, k \in Criterion, j \in Identity : k # c => verdict'[s][k][j] = verdict[s][k][j]
       BY <1>1, <1>3 DEF TypeOK
<1>11. CameBack => CameBack'
       BY <1>3, <1>4 DEF CameBack
<1>12. ASSUME NEW k \in Criterion, k # c PROVE GateOf(k)' /\ NewsOf(k)'
  <2>1. SameOn(k)
        BY <1>3, <1>4, <1>10, <1>12 DEF SameOn, AtHand
  <2>2. GateOf(k) /\ NewsOf(k)
        BY <1>1 DEF Opinion
  <2>3. gate'[Verified][k] = gate[Verified][k]
        BY <1>1, <1>3, <1>4, <1>12 DEF GateAfter, TypeOK
  <2> QED BY <1>3, <1>4, <1>11, <1>12, <2>1, <2>2, <2>3, SameOpinion
<1>13. GateOf(c)'
  <2>1. SUFFICES ASSUME setting'[c].type = "principal", Fulfilled(c)' PROVE gate'[Verified'][c] = "closed"
        BY DEF GateOf
  <2>2. JudgedAnew[c] = "passed" /\ setting[c].type = "principal"
        BY <1>3, <1>5, <2>1
  <2>3. gate' = [gate EXCEPT ![revision][c] = "closed"]
        BY <1>3, <2>2 DEF GateAfter
  <2> QED BY <1>1, <1>4, <2>3 DEF TypeOK
<1>14. NewsOf(c)'
  <2>1. SUFFICES ASSUME recovery'[c] = "none" PROVE Convinced(c)' # {}
        BY DEF NewsOf
  <2>2. verdict'[t][c][i] = "passed"
        BY <1>2, <1>10, <2>1 DEF FollowedUp
  <2>3. AtHand(t)'
        BY <1>3, <1>4, <1>6 DEF AtHand
  <2>4. \A s \in Attempt : AtHand(s)' => s <= t
    <3>1. \A s \in Attempt : AtHand(s)' => attempt[s] # "none"
          BY <1>1, <1>3, <1>4 DEF AtHand, Ledger, NothingEarly
    <3> QED BY <1>6, <3>1 DEF IsNewest
  <2>5. \A s \in Attempt : AtHand(s)' => ~(s > t)
        BY <2>4, AttemptsCount
  <2>6. i \in Convinced(c)'
        BY <1>1, <2>2, <2>3, <2>5 DEF Convinced, AtHand
  <2> QED BY <2>6
<1> QED BY <1>8, <1>9, <1>12, <1>13, <1>14 DEF Opinion

\* The mandate is amended: nothing was said under the new one.
LEMMA AmendOpinion == ASSUME IndInv, AmendVerification PROVE Opinion'
<1>1. TypeOK /\ Ledger
      BY DEF IndInv, Ledger
<1>2. /\ cStatus = "active" /\ revision' = revision + 1 /\ aStatus' = "ready" /\ cStatus' = cStatus
      /\ criterion' = [c \in Criterion |-> "uncertain"] /\ mandate' = mandate
      BY DEF AmendVerification
<1>3. \A t \in Attempt : ~AtHand(t)'
  <2>1. revision \in Nat /\ \A t \in Attempt : mandate[t] \in Nat
        BY <1>1, Bounds DEF TypeOK, Revision
  <2>2. \A t \in Attempt : mandate[t] <= revision
        BY <1>1, <1>2 DEF Ledger, MandatesGrow, Verified
  <2>3. Verified' = revision + 1
        BY <1>2 DEF Verified
  <2>4. \A t \in Attempt : mandate'[t] # Verified'
        BY <1>2, <2>1, <2>2, <2>3
  <2> QED BY <2>4 DEF AtHand
<1>4. \A c \in Criterion : ~Fulfilled(c)' /\ ~Heard(c)'
      BY <1>3, NothingSaidAfter DEF Identity
<1>5. \A c \in Criterion : criterion'[c] # "passed"
      BY <1>2
<1> QED BY <1>2, <1>4, <1>5 DEF Opinion, UndecidedBefore, PassedOnRecord, EarnedByAll, GateOf, NewsOf
-----------------------------------------------------------------------------
(* The invariant, and what follows from it.                                *)

\* Every step keeps Ledger and Opinion.
LEMMA NextKeepsIndInv == ASSUME IndInv, [Next]_vars PROVE IndInv'
<1> GoesOn
    BY StepGoesOn DEF IndInv
<1>1. CASE Dispatch
      BY <1>1, DispatchLedger, DispatchOpinion DEF IndInv
<1>2. ASSUME NEW t \in Attempt, Thread(t) PROVE IndInv'
  <2>1. Ledger'
        BY <1>2, ThreadLedger DEF IndInv
  <2>2. Opinion'
        BY <1>2, UnfinishedOpinion, IntegrateOpinion, FinishOpinion DEF Thread
  <2> QED BY <2>1, <2>2 DEF IndInv
<1>3. ASSUME NEW t \in Attempt, NEW c \in Criterion, NEW i \in Verifier, NEW d \in Diagnosis,
             NEW x \in BOOLEAN, RecordVerificationEvidence(t, c, i, d, x)
      PROVE  IndInv'
      BY <1>3, RecordLedger, RecordOpinion DEF IndInv
<1>4. CASE AmendVerification
      BY <1>4, AmendLedger, AmendOpinion DEF IndInv
<1>5. CASE UNCHANGED vars
  <2> USE <1>5 DEF vars
  <2>1. TypeOK' /\ Room' /\ InOrder' /\ NothingEarly'
        BY SMTT(30) DEF IndInv, Ledger, TypeOK, Room, InOrder, Started, NothingEarly
  <2>2. ThreadsAgree' /\ NewestCounts' /\ MandatesGrow' /\ ArtifactIsNewest'
        BY DEF IndInv, Ledger, ThreadsAgree, NewestCounts, IsNewest, MandatesGrow, Verified,
               ArtifactIsNewest, Brought
  <2>3. (\A c \in Criterion : SameOn(c)) /\ (CameBack => CameBack') /\ Verified' = Verified
    <3>1. Verified' = Verified
          BY DEF Verified
    <3> QED BY <3>1, SameRecord
  <2>4. NothingToJudge' => NothingToJudge
        BY DEF NothingToJudge
  <2>5. Opinion'
        BY <2>3, <2>4, QuietOpinion DEF IndInv
  <2> QED BY <2>1, <2>2, <2>5 DEF IndInv, Ledger
<1> QED BY <1>1, <1>2, <1>3, <1>4, <1>5 DEF Next

\* The invariant holds in every reachable state.
LEMMA IndInvHolds == Spec => []IndInv
<1>1. Init => IndInv
      BY InitLedger, InitOpinion DEF IndInv
<1>2. IndInv /\ [Next]_vars => IndInv'
      BY NextKeepsIndInv
<1> QED BY <1>1, <1>2, PTL DEF Spec

\* Commission, Assignment, criteria, gates, Attempts and Results always hold values of
\* their kind (store.rs): no revision leaves its range, no Attempt its ceiling.
THEOREM TypesCorrect == Spec => []TypeOK
<1>1. IndInv => TypeOK
      BY DEF IndInv, Ledger
<1> QED BY <1>1, IndInvHolds, PTL

\* A criterion is never passed, and a Commission never complete, on fewer verifiers than
\* the depth asks for, on Evidence about another artifact or another mandate, or against
\* a reported contradiction (refresh_criterion_statuses, complete_commission).
THEOREM EarnedCorrect == Spec => []PassedIsEarned
<1>1. ASSUME IndInv PROVE PassedIsEarned
  <2>1. \A c \in Criterion : Required(c) = IF setting[c].depth = "standard" THEN 1 ELSE 2
        BY <1>1, SettingTyped DEF IndInv, Ledger, TypeOK, Required
  <2> QED BY <1>1, <2>1 DEF IndInv, Opinion, EarnedByAll, PassedIsEarned, Fulfilled, AtHand
<1> QED BY <1>1, IndInvHolds, PTL

\* No Principal criterion is passed with its gate open, so the Evidence that decides the
\* last criterion is never refused, as long as no earlier artifact comes back
\* (refresh_principal_verification_gate).
THEOREM GateCorrect == Spec => []PassedClosesGate
<1>1. ASSUME IndInv PROVE PassedClosesGate
  <2>1. \A c \in Criterion : setting[c].type = "principal" /\ criterion[c] = "passed" => Fulfilled(c)
        BY <1>1 DEF IndInv, Opinion, PassedOnRecord, Deterministic
  <2> QED BY <1>1, <2>1 DEF IndInv, Opinion, GateOf, PassedClosesGate
<1> QED BY <1>1, IndInvHolds, PTL

\* Bad news that nobody contradicts is followed up: a recovery stays open until the Result
\* was given up and a later Attempt dispatched for it, as long as no earlier artifact comes
\* back (plan_verification_recovery, resolve_verification_recoveries, dispatch).
THEOREM FollowUpCorrect == Spec => []BadNewsIsFollowedUp
<1>1. ASSUME IndInv PROVE BadNewsIsFollowedUp
  <2>1. ASSUME NEW c \in Criterion, cStatus = "active",
               \E t \in Attempt, i \in Verifier :
                  mandate[t] = revision /\ integrated[t] = artifact /\ verdict[t][c][i] # "none"
        PROVE  Heard(c)
        BY <2>1 DEF Heard, AtHand, Verified
  <2>2. ASSUME NEW c \in Criterion, cStatus = "active", Begun(c) PROVE ReworkBegan(c)
        BY <2>2 DEF Begun, ReworkBegan, Started, AtHand, Verified
  <2> QED BY <1>1, <2>1, <2>2 DEF IndInv, Opinion, NewsOf, BadNewsIsFollowedUp
<1> QED BY <1>1, IndInvHolds, PTL

\* A Result that was given up is never a candidate again and never accepted, by any
\* step of a thread, the Watchdog or an Entry Session (route_result_rework, fail_attempt).
THEOREM GivenUpCorrect == Spec => GivenUpStaysGivenUp
<1> DEFINE Kept == \A t \in Attempt : result[t] = "superseded" => result'[t] = "superseded"
<1>1. IndInv /\ [Next]_vars => [Kept]_vars
      BY StepGoesOn DEF IndInv, GoesOn
<1>2. [][Kept]_vars => GivenUpStaysGivenUp
      BY DEF GivenUpStaysGivenUp
<1> QED BY <1>1, <1>2, IndInvHolds, PTL DEF Spec
=============================================================================
