------------------------------ MODULE Planning ------------------------------
(***************************************************************************)
(* The plan of one Commission: a Principal's plan, or the one a planning   *)
(* Worker proposes and the Control Plane validates; which of its           *)
(* Assignments become ready, which of them the frontier lets run together, *)
(* and how the plan is revised when Results fail, conflict or compete.     *)
(*                                                                         *)
(* A row stands for a planned_assignments row and for its Assignment.      *)
(* Everything a thread does between dispatch and the transaction that      *)
(* settles its Attempt belongs to modules Attempts and Integration: here   *)
(* an Attempt runs until one of the outcomes is settled.  Abstracted: a    *)
(* write scope is the set of files under its paths; every Assignment takes *)
(* one concurrency slot, and the storage ceiling and the host's capacity   *)
(* are left out; a planned item owns the criteria named after it, and a    *)
(* proposal that is no JSON or names other criteria, paths or ids is       *)
(* "malformed".  Amendments and the Principal's controls are in Attempts.  *)
(***************************************************************************)
EXTENDS Integers, Sequences, FiniteSets

CONSTANTS
    Path,           \* files the Authority Envelope names
    Scope,          \* write scopes of planned items: sets of files
    Group,          \* names of competition groups; the group of a reconciliation
                    \* is the number of the row it is for
    MaxItems,       \* bound: Assignments in a plan
    Ceiling,        \* values of resource_ceilings.max_attempts
    MaxConcurrency, \* resource_ceilings.max_worker_concurrency
    MaxFailures     \* bound: Attempts that do not end in a Result that counts

ASSUME PlanningAssumption ==
    /\ IsFiniteSet(Path) /\ Scope \subseteq SUBSET Path /\ Group \intersect Nat = {}
    /\ MaxItems \in Nat \ {0} /\ Ceiling \subseteq Nat
    /\ MaxConcurrency \in Nat \ {0} /\ MaxFailures \in Nat

NoGroup == 0
NoPlan == <<>>
Item == 1..MaxItems
MaxPlanningRounds == 2      \* MAX_PLANNING_ROUNDS

VARIABLES
    source,      \* who wrote the plan: "principal" or "worker"
    maxAttempts, \* resource_ceilings.max_attempts
    plan,        \* the plan as it was recorded
    row,         \* planned_assignments and assignments, in order of creation
    blocker,     \* rows whose Assignment has a Blocker or an open condition
    attempts,    \* how many Attempts were dispatched
    excused,     \* how many of them have a worker_configuration_failures row
    failures,    \* how many of them ended without a Result that counts
    cStatus      \* commissions.status

mandateVars == <<source, maxAttempts>>
vars == <<mandateVars, plan, row, blocker, attempts, excused, failures, cStatus>>

\* What a proposal may say (ProposedAssignment, PlannedAssignment).
Plan == UNION {[1..n -> [deps: SUBSET Item, scope: Scope, group: Group \union {NoGroup}]] :
                    n \in 1..MaxItems}
-----------------------------------------------------------------------------
(* Validation: validate_plan_against and, for a planning Worker's plan,    *)
(* ensure_overlaps_are_ordered.                                            *)

Overlap(s, t) == s \intersect t # {}

\* j is in every set that holds i's dependencies and those of its members.
DependsOn(p, i, j) ==
    \A S \in SUBSET DOMAIN p :
        p[i].deps \subseteq S /\ (\A k \in S : p[k].deps \subseteq S) => j \in S

Acyclic(p) == \A i \in DOMAIN p : ~DependsOn(p, i, i)

KnowsDependencies(p) == \A i \in DOMAIN p : p[i].deps \subseteq DOMAIN p \ {i}

Groups(p) == {p[i].group : i \in DOMAIN p} \ {NoGroup}
Members(p, g) == {i \in DOMAIN p : p[i].group = g}

ComparesFairly(p) ==
    \A g \in Groups(p) :
        /\ Cardinality(Members(p, g)) >= 2
        /\ \A i, j \in Members(p, g) : p[i].deps = p[j].deps /\ j \notin p[i].deps

\* Mutant: the comparison of a competition is not counted.
FitsWithoutComparison(p, available) == Len(p) <= available

\* One Attempt for every Assignment and for every comparison.
FitsAttempts(p, available) == Len(p) + Cardinality(Groups(p)) <= available

ValidPlan(p, available) ==
    /\ FitsAttempts(p, available)
    /\ KnowsDependencies(p) /\ ComparesFairly(p) /\ Acyclic(p)

\* Mutant: a planner's overlapping writers are left to the frontier.
OverlapsAreAllowed(p) == TRUE

OverlapsAreOrdered(p) ==
    \A i, j \in DOMAIN p :
        i # j /\ Overlap(p[i].scope, p[j].scope) => DependsOn(p, i, j) \/ DependsOn(p, j, i)

\* complete_plan leaves competitions out: only a Principal's plan may have one.
ValidProposal(p) ==
    /\ Groups(p) = {}
    /\ ValidPlan(p, IF attempts > maxAttempts THEN 0 ELSE maxAttempts - attempts)
    /\ OverlapsAreOrdered(p)
-----------------------------------------------------------------------------
(* Rows.                                                                   *)

\* planning_plan: read-only, and it owns no criterion.
PlanningRow(n) ==
    [purpose |-> "planning", owns |-> {}, deps |-> {}, scope |-> {}, group |-> NoGroup,
     position |-> n, status |-> "ready", failed |-> FALSE]

\* record_plan_revision: the rows of p after n others, with an Assignment for the
\* ones that depend on nothing.
PlanRows(p, n) ==
    [i \in DOMAIN p |->
        [purpose |-> "work", owns |-> {i}, deps |-> {n + d : d \in p[i].deps},
         scope |-> p[i].scope, group |-> p[i].group, position |-> n + i,
         status |-> IF p[i].deps = {} THEN "ready" ELSE "none", failed |-> FALSE]]

\* validate_commission_plan
PrincipalPlans == {p \in Plan : Len(p) >= 2 /\ ValidPlan(p, maxAttempts)}

\* accept_commission: a plan that was validated with the proposal, or planning.
Init ==
    /\ maxAttempts \in Ceiling
    /\ \/ /\ source = "principal"
          /\ plan \in PrincipalPlans
          /\ row = PlanRows(plan, 0)
       \/ source = "worker" /\ plan = NoPlan /\ row = <<PlanningRow(1)>>
    /\ blocker = {} /\ attempts = 0 /\ excused = 0 /\ failures = 0 /\ cStatus = "active"

Rows == DOMAIN row
With(s) == {i \in Rows : row[i].status = s}
Running == With("running")

\* insert_ready_assignment for a row the Control Plane adds.
Added(purpose, owns, scope, group) ==
    [purpose |-> purpose, owns |-> owns, deps |-> {}, scope |-> scope, group |-> group,
     position |-> Len(row) + 1, status |-> "ready", failed |-> FALSE]
-----------------------------------------------------------------------------
(* run_ready_assignment: the frontier, and one Attempt.                    *)

\* competitions_match
Compete(i, j) == row[i].group # NoGroup /\ row[i].group = row[j].group

HeldByOverlap(i) ==
    \E j \in Running : Overlap(row[i].scope, row[j].scope) /\ ~Compete(i, j)

Selectable == {i \in With("ready") : ~HeldByOverlap(i) /\ Cardinality(Running) < MaxConcurrency}

\* An Attempt whose Worker Configuration turned out to be unavailable is not held
\* against the ceiling, where dispatch and fail_attempt look at it.
CeilingReached == attempts - excused >= maxAttempts

\* Only the first one selected is dispatched; the ceiling is looked at after that.
Dispatch(i) ==
    /\ cStatus = "active"
    /\ i \in Selectable /\ \A j \in Selectable : row[i].position <= row[j].position
    /\ IF CeilingReached
       THEN /\ row' = [row EXCEPT ![i].status = "resource_blocked"]
            /\ blocker' = blocker \union {i} /\ UNCHANGED attempts
       ELSE /\ row' = [row EXCEPT ![i].status = "running"]
            /\ attempts' = attempts + 1 /\ UNCHANGED blocker
    /\ UNCHANGED <<mandateVars, plan, excused, failures, cStatus>>

Fail == failures < MaxFailures /\ failures' = failures + 1

\* fail_attempt: another Attempt, on another Worker Configuration when this one is
\* unavailable, or a stop that says what it needs, also when none is left to route
\* to; what "attention_required" leads to is the same as for "resource_blocked".
FailAttempt(i) ==
    /\ Fail /\ row[i].status = "running"
    /\ \/ /\ row' = [row EXCEPT ![i].status = "ready"] /\ UNCHANGED blocker
          /\ \/ ~CeilingReached /\ UNCHANGED excused
             \/ excused' = excused + 1
       \/ /\ \E s \in {"resource_blocked", "verification_failed"} :
                row' = [row EXCEPT ![i].status = s]
          /\ blocker' = blocker \union {i} /\ excused' \in {excused, excused + 1}
    /\ UNCHANGED <<mandateVars, plan, attempts, cStatus>>
-----------------------------------------------------------------------------
(* complete_planning                                                       *)

PlanningRounds == Cardinality({i \in Rows : row[i].purpose = "planning"})

Plans(i) == row[i].status = "running" /\ row[i].purpose = "planning"

PlanAccepted(i) ==
    /\ Plans(i)
    /\ \E p \in {q \in Plan : ValidProposal(q)} :
            /\ plan' = p
            /\ row' = [row EXCEPT ![i].status = "accepted"] \o PlanRows(p, Len(row))
    /\ UNCHANGED <<mandateVars, blocker, attempts, excused, failures, cStatus>>

\* Mutant: the last rejected plan leaves no Blocker.
NobodyIsTold(i) == blocker

BlockedByRejection(i) == blocker \union {i}

\* A malformed proposal, or one that is not valid.
PlanRejected(i) ==
    /\ Plans(i)
    /\ IF PlanningRounds < MaxPlanningRounds
       THEN /\ row' = Append([row EXCEPT ![i].status = "superseded"], PlanningRow(Len(row) + 1))
            /\ UNCHANGED blocker
       ELSE /\ row' = [row EXCEPT ![i].status = "verification_failed"]
            /\ blocker' = BlockedByRejection(i)
    /\ UNCHANGED <<mandateVars, plan, attempts, excused, failures, cStatus>>
-----------------------------------------------------------------------------
(* Results of planned work.                                                *)

Works(i) == row[i].status = "running" /\ row[i].purpose # "planning"

\* block_on_unrunnable_verifier
VerifierCannotRun(i) ==
    /\ Works(i) /\ Fail
    /\ row' = [row EXCEPT ![i].status = "verification_failed"]
    /\ blocker' = blocker \union {i}
    /\ UNCHANGED <<mandateVars, plan, attempts, excused, cStatus>>

\* Mutant: who depends on the failed row is not told of its replacement.
DependenciesKept(i, j, n) == row[j].deps

\* The UPDATE of planned_assignment_dependencies.
DependenciesMoved(i, j, n) ==
    IF i \in row[j].deps THEN (row[j].deps \ {i}) \union {n} ELSE row[j].deps

\* A second failure of the same row: it is given up for a copy of it.
Replace(i) ==
    LET n == Len(row) + 1
    IN  Append([j \in Rows |->
                    [row[j] EXCEPT !.deps = DependenciesMoved(i, j, n),
                                   !.status = IF j = i THEN "superseded" ELSE @]],
               [row[i] EXCEPT !.status = "ready", !.failed = FALSE])

\* recover_failed_verification
CandidateFails(i) ==
    /\ Works(i) /\ Fail
    /\ IF attempts >= maxAttempts
       THEN /\ row' = [row EXCEPT ![i].status = "verification_failed"]
            /\ blocker' = blocker \union {i}
       ELSE /\ row' = IF row[i].failed THEN Replace(i)
                      ELSE [row EXCEPT ![i].status = "ready", ![i].failed = TRUE]
            /\ UNCHANGED blocker
    /\ UNCHANGED <<mandateVars, plan, attempts, excused, cStatus>>

IsCandidateOfCompetition(i) == row[i].group # NoGroup /\ row[i].purpose # "reconciliation"

\* require_reconciliation: paths are the files the Result changed, or its write
\* scope.  A member of a competition gets that far only with files outside its
\* scope.  The row leaves its group for one of its own.
RequireReconciliation(i, paths) ==
    /\ Works(i) /\ Fail
    /\ IsCandidateOfCompetition(i) => ~(paths \subseteq row[i].scope)
    /\ row' = Append([row EXCEPT ![i].status = "verification_failed", ![i].group = i],
                     Added("reconciliation", row[i].owns, paths, i))
    /\ UNCHANGED <<mandateVars, plan, blocker, attempts, excused, cStatus>>

GroupRows(g) == {i \in Rows : row[i].group = g /\ row[i].purpose # "reconciliation"}

\* The ones with an Assignment, superseded or not.
Contenders(g) == {i \in GroupRows(g) : row[i].status # "none"}

Compared(g) == \E i \in Rows : row[i].group = g /\ row[i].purpose = "reconciliation"

\* It owns what was planned for the members, one that left for a reconciliation
\* included, and may write what the contenders may.
ComparisonRow(g) ==
    Added("reconciliation", Members(plan, g), UNION {row[j].scope : j \in Contenders(g)}, g)

\* finish_competing_candidate: the comparison is planned once all contenders wait.
FinishCompetingCandidate(i) ==
    /\ Works(i) /\ IsCandidateOfCompetition(i)
    /\ LET g       == row[i].group
           waiting == [row EXCEPT ![i].status = "verification_pending"]
       IN  row' = IF /\ Cardinality(Contenders(g)) >= 2
                     /\ \A j \in Contenders(g) : waiting[j].status = "verification_pending"
                     /\ ~Compared(g)
                  THEN Append(waiting, ComparisonRow(g)) ELSE waiting
    /\ UNCHANGED <<mandateVars, plan, blocker, attempts, excused, failures, cStatus>>

Settled == {"accepted", "superseded"}

\* accept_planned_result and supersede_competing_candidates
Accepted(i) ==
    [j \in Rows |->
        IF j = i THEN [row[j] EXCEPT !.status = "accepted"]
        ELSE IF /\ row[i].purpose = "reconciliation" /\ j \in GroupRows(row[i].group)
                /\ row[j].status \in {"verification_pending", "verification_failed"}
             THEN [row[j] EXCEPT !.status = "superseded"] ELSE row[j]]

\* advance_plan_after_evidence
Advanced(rs) ==
    [j \in DOMAIN rs |->
        IF /\ rs[j].status = "none" /\ rs[j].purpose # "reconciliation"
           /\ \A d \in rs[j].deps : rs[d].status \in Settled
        THEN [rs[j] EXCEPT !.status = "ready"] ELSE rs[j]]

\* Criteria pass on the assembled state when somebody who owns them is accepted.
Passed(rs) == UNION {rs[j].owns : j \in {k \in DOMAIN rs : rs[k].status = "accepted"}}

EveryAssignmentAccepted(rs) ==
    \A j \in DOMAIN rs : rs[j].purpose # "reconciliation" => rs[j].status \in Settled

\* finish_planned_assignment
FinishPlannedAssignment(i) ==
    /\ Works(i) /\ ~IsCandidateOfCompetition(i)
    /\ row' = Advanced(Accepted(i))
    /\ cStatus' = IF EveryAssignmentAccepted(row') /\ Passed(row') = DOMAIN plan
                  THEN "verified_complete" ELSE cStatus
    /\ UNCHANGED <<mandateVars, plan, blocker, attempts, excused, failures>>

Settle(i) ==
    \/ FailAttempt(i)
    \/ PlanAccepted(i)
    \/ PlanRejected(i)
    \/ VerifierCannotRun(i)
    \/ CandidateFails(i)
    \/ \E paths \in SUBSET Path \ {{}} : RequireReconciliation(i, paths)
    \/ FinishCompetingCandidate(i)
    \/ FinishPlannedAssignment(i)

Next == \E i \in Rows : Dispatch(i) \/ Settle(i)

Spec == Init /\ [][Next]_vars
-----------------------------------------------------------------------------
\* An Assignment exists only when the criteria of everything its item depends on
\* belong to accepted work: the item's own Result, that of its replacement, of
\* the comparison or of a reconciliation.  That a dependency was superseded is
\* not enough (advance_plan_after_evidence, recover_failed_verification).
WorkStartsOnFinishedWork ==
    \A i \in Rows :
        row[i].purpose # "planning" /\ row[i].status # "none" =>
            \A o \in row[i].owns : plan[o].deps \subseteq Passed(row)

\* In a planning Worker's plan two Assignments that write the same file are never
\* open together, over retries, replacements and reconciliations: the frontier
\* has nothing to serialize (ensure_overlaps_are_ordered).
OrderedWritersNeverMeet ==
    source = "worker" =>
        \A i, j \in Rows :
            /\ row[i].purpose = "work" /\ row[j].purpose = "work"
            /\ row[i].status \notin Settled \union {"none"}
            /\ row[j].status \notin Settled \union {"none"}
            /\ Overlap(row[i].scope, row[j].scope)
            => i = j

\* While no Attempt on the plan's work failed, max_attempts stops nothing: the
\* validation left an Attempt for every Assignment and comparison, whatever
\* planning used up (validate_plan_against, validate_proposed_plan).
BudgetCoversPlan == plan # NoPlan /\ failures = 0 => blocker = {}

Idle == cStatus = "active" /\ With("ready") = {} /\ Running = {}

\* A competition one of whose members was replaced or left for a reconciliation,
\* and a reconciliation that needed one itself.
LostCompetitor ==
    \E i \in Rows :
        /\ row[i].purpose = "work" /\ \A o \in row[i].owns : plan[o].group # NoGroup
        /\ \/ row[i].group = i
           \/ \E j \in Rows : i < j /\ row[j].purpose = "work" /\ row[j].owns = row[i].owns
NestedReconciliation ==
    \E i \in Rows : row[i].purpose = "reconciliation" /\ row[i].status = "verification_failed"

\* A Commission with nothing ready and nothing running is complete or has a
\* Blocker, also when planning fails; except for the two cases above
\* (complete_planning, advance_plan_after_evidence).
IdleIsBlocked == Idle => blocker # {} \/ LostCompetitor \/ NestedReconciliation

=============================================================================
