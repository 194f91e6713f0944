------------------------------- MODULE Memory -------------------------------
(***************************************************************************)
(* The Principal's memory: Profile Claims, the learning observations that  *)
(* support them, Learning Boundaries, forgetting, and the bundles that     *)
(* carry memory from one installation to another.                          *)
(*                                                                         *)
(* Every operation is one transaction of the store, so an action is one    *)
(* request that was accepted; a refused request changes nothing.           *)
(*                                                                         *)
(* Abstracted: a statement is its fingerprint, with a size in tokens;      *)
(* identifiers are numbered in the order of creation; support is fresh or  *)
(* older than 180 days; a bundle is always the unaltered export of some    *)
(* installation, and the Commission Records it carries never conflict.     *)
(***************************************************************************)
EXTENDS Integers, Sequences, FiniteSets, FiniteSetsExt

CONSTANTS
    Project,          \* verified Projects
    Commission,       \* Commissions requests may name
    Terminal,         \* those of them that are complete or cancelled
    WithMaterial,     \* those of these that left temporary material
    ProjectOf,        \* the Project of a Commission, or Principal
    Principal,        \* the scope of claims that hold in every Project
    Statement,        \* fingerprints of reusable preferences
    Tokens,           \* the token upper bound of each
    ClaimLimit,       \* active claims a scope may hold (80 / 20 in the code)
    TokenLimit,       \* active tokens a scope may hold (4000 / 1000)
    Stated,           \* <<Commission, Statement>>: what the Principal may state,
    Shown,            \* <<Commission, Statement, Strength>>: what Commissions may show,
    Excluded,         \* <<Commission, Statement>>: what may be excluded from learning
    MaxClaims,        \* bound: claims ever created
    MaxObservations,  \* bound: observations ever made
    MaxEvents         \* bound: boundaries, suppressions, corrections, forgettings, pins,
                      \* exports, half years and new installations, all together

Scope == Project \union {Principal}

ASSUME MemoryAssumption ==
    /\ Principal \notin Project
    /\ Terminal \subseteq Commission /\ WithMaterial \subseteq Terminal
    /\ ProjectOf \in [Commission -> Scope]
    /\ IsFiniteSet(Statement) /\ IsFiniteSet(Commission)
    /\ Tokens \in [Statement -> Nat]
    /\ ClaimLimit \in [Scope -> Nat] /\ TokenLimit \in [Scope -> Nat]
    /\ Stated \union Excluded \subseteq Commission \X Statement
    /\ Shown \subseteq Commission \X Statement \X {"strong", "weak", "contradiction"}
    /\ MaxClaims \in Nat /\ MaxObservations \in Nat /\ MaxEvents \in Nat

ClaimId == 1..MaxClaims
ObservationId == 1..MaxObservations
State == {"candidate", "active", "suppressed", "contradicted"}
Strength == {"strong", "weak", "contradiction"}

Claim == [scope : Scope, fp : Statement, strength : {"hard", "soft"}, state : State,
          confidence : {5000, 7500, 9000, 10000}, version : 1..(MaxEvents + 1),
          stale : BOOLEAN,              \* no strong support for 180 days
          links : SUBSET ObservationId, \* profile_claim_observations
          cited : SUBSET ObservationId] \* observations named by its lifecycle history

\* What a Commission (of some installation) showed.  Its row in the store is
\* <<source, at>>: at = 0 where it was made, and the number of the bundle that
\* brought it otherwise, for an import makes a local copy of the Commission.
Observation == [source : Commission \X (0..MaxEvents), at : 0..MaxEvents,
                fp : Statement, strength : Strength]

Boundary == [scope : Scope, fp : Statement]

VARIABLES
    claims,        \* the claims that exist, by id
    observations,  \* the observations that exist, by id
    boundaries,    \* Learning Boundaries
    receipts,      \* deletion receipts, as <<number, scope>>
    material,      \* Commissions whose temporary material still has its content
    pinned,        \* those whose material the Principal pinned
    bundles,       \* memory exports made so far, by number
    created,       \* claims and observations ever created: their last ids
    aged,          \* has half a year passed?
    installs,      \* installations before this one
    events         \* how many of the bounded events have happened

vars == <<claims, observations, boundaries, receipts, material, pinned, bundles, created,
          aged, installs, events>>

\* What learning and the control of claims leave alone.
elsewhere == <<boundaries, receipts, material, pinned, bundles, aged, installs>>

Event == events < MaxEvents /\ events' = events + 1

Init ==
    /\ claims = << >> /\ observations = << >> /\ boundaries = {} /\ receipts = {}
    /\ material = WithMaterial /\ pinned = {}
    /\ bundles = << >>
    /\ created = [claims |-> 0, observations |-> 0]
    /\ aged = FALSE /\ installs = 0 /\ events = 0

-----------------------------------------------------------------------------
(* Helpers of the store                                                    *)

\* The related projects of a claim: those of its observations.
RelatedProjects(obs, links) == {ProjectOf[obs[o].source[1]] : o \in links}

\* Mutant: a project boundary does not reach the claims of the Principal.
BlocksOwnScopeOnly(b, fp, scope, related) ==
    b.fp = fp /\ (b.scope = Principal \/ b.scope = scope)

\* Does this Learning Boundary prevent a claim?
Blocks(b, fp, scope, related) ==
    /\ b.fp = fp
    /\ \/ b.scope = Principal
       \/ scope = Principal
       \/ b.scope = scope
       \/ b.scope \in related

Blocked(bs, fp, scope, related) == \E b \in bs : Blocks(b, fp, scope, related)

ActiveIn(cl, scope) == {k \in DOMAIN cl : cl[k].scope = scope /\ cl[k].state = "active"}
TokensOf(cl, ids) == Cardinality(UNION {{k} \X (1..Tokens[cl[k].fp]) : k \in ids})
Fits(cl, scope, ids, more, tokens) ==
    /\ Cardinality(ids) + more <= ClaimLimit[scope]
    /\ TokensOf(cl, ids) + tokens <= TokenLimit[scope]

\* Mutant: only the number of claims is made to fit.
DemotionsByNumber(cl, scope, keep, more, tokens) ==
    LET active == ActiveIn(cl, scope) \ keep
        soft   == {k \in active : cl[k].strength = "soft"}
    IN  {D \in SUBSET soft : /\ Cardinality(active \ D) + more <= ClaimLimit[scope]
                             /\ \A d \in D : Cardinality(active \ (D \ {d})) + more > ClaimLimit[scope]}

\* The sets of claims whose demotion makes room: soft claims are taken from
\* the least confident on (in any order among equals), one more as long as
\* the rest does not fit.  No set: the request fails.
Demotions(cl, scope, keep, more, tokens) ==
    LET active  == ActiveIn(cl, scope) \ keep
        soft    == {k \in active : cl[k].strength = "soft"}
        fits(D) == Fits(cl, scope, active \ D, more, tokens)
    IN  {D \in SUBSET soft :
           /\ fits(D)
           /\ \A d \in D, e \in soft \ D : cl[d].confidence <= cl[e].confidence
           /\ \/ D = {}
              \/ \E last \in D : /\ \A d \in D : cl[d].confidence <= cl[last].confidence
                                 /\ ~fits(D \ {last})}

MakeRoom(cl, scope, fp, keep) == Demotions(cl, scope, keep, 1, Tokens[fp])
ReconcileBudget(cl, scope) == Demotions(cl, scope, {}, 0, 0)

HardCapacityAllows(cl, scope, fp) ==
    Fits(cl, scope, {k \in ActiveIn(cl, scope) : cl[k].strength = "hard"}, 1, Tokens[fp])

Demote(cl, ids) ==
    [k \in DOMAIN cl |-> IF k \in ids THEN [cl[k] EXCEPT !.state = "candidate"] ELSE cl[k]]

AddClaim(cl, k, claim) == [i \in DOMAIN cl \union {k} |-> IF i = k THEN claim ELSE cl[i]]

NextClaim == created.claims + 1
NextObservation == created.observations + 1

\* The oldest claim among some, if there is one.
Oldest(ids) == IF ids = {} THEN {} ELSE {Min(ids)}

-----------------------------------------------------------------------------
(* Explicit claims and boundaries                                          *)

\* create_profile_claim: the Principal states a preference in the scope of
\* the Commission.
CreateClaim(c, f) ==
    LET scope == ProjectOf[c]
        claim == [scope |-> scope, fp |-> f, strength |-> "hard", state |-> "active",
                  confidence |-> 10000, version |-> 1, stale |-> FALSE, links |-> {}, cited |-> {}]
    IN  /\ NextClaim \in ClaimId
        /\ ~Blocked(boundaries, f, scope, {})
        /\ \E D \in MakeRoom(claims, scope, f, {}) :
              claims' = AddClaim(Demote(claims, D), NextClaim, claim)
        /\ created' = [created EXCEPT !.claims = @ + 1]
        /\ UNCHANGED <<observations, elsewhere, events>>

\* create_learning_boundary: refused while a claim it concerns exists.
CreateBoundary(c, f) ==
    LET scope == ProjectOf[c]
    IN  /\ Event
        /\ [scope |-> scope, fp |-> f] \notin boundaries
        /\ ~ \E k \in DOMAIN claims :
               claims[k].fp = f /\ (scope = Principal \/ claims[k].scope \in {Principal, scope})
        /\ boundaries' = boundaries \union {[scope |-> scope, fp |-> f]}
        /\ UNCHANGED <<claims, observations, created, receipts, material, pinned, bundles,
                       aged, installs>>

-----------------------------------------------------------------------------
(* Learning from finished Commissions                                      *)

Candidate(scope, f, confidence, links, o) ==
    [scope |-> scope, fp |-> f, strength |-> "soft", state |-> "candidate",
     confidence |-> confidence, version |-> 1, stale |-> FALSE, links |-> links, cited |-> {o}]

\* The observations of a preference made in some Projects.
SupportIn(obs, projects, f) ==
    {o \in DOMAIN obs : obs[o].fp = f /\ ProjectOf[obs[o].source[1]] \in projects}
Supporting(obs, ids) == {o \in ids : obs[o].strength # "contradiction"}
\* COUNT(DISTINCT commission_id): an imported copy is a Commission of its own.
CommissionsIn(obs, ids) == {<<obs[o].source, obs[o].at>> : o \in ids}
IsMaterial(obs, ids) ==
    /\ \E o \in ids : obs[o].strength = "strong"
    /\ ids = Supporting(obs, ids)

\* The claim the observation belongs to: the oldest of the Project that says
\* the same, or, for a strong observation, a new candidate that inherits what
\* the Project has already shown.
WithProjectClaim(cl, obs, p, f, o) ==
    IF obs[o].strength # "strong" \/ \E k \in DOMAIN cl : cl[k].scope = p /\ cl[k].fp = f
    THEN cl
    ELSE AddClaim(cl, NextClaim, Candidate(p, f, 5000, Supporting(obs, SupportIn(obs, {p}, f)), o))

ProjectClaim(cl, p, f) == Oldest({k \in DOMAIN cl : cl[k].scope = p /\ cl[k].fp = f})

Link(cl, ids, o, strength) ==
    [k \in DOMAIN cl |->
       IF k \in ids
       THEN [cl[k] EXCEPT !.links = @ \union {o}, !.stale = @ /\ strength # "strong"]
       ELSE cl[k]]

\* A contradiction ends the Project's claim and the first soft claim of the
\* Principal that is still in use.
Contradict(cl, obs, own, f, o) ==
    LET wide == Oldest({k \in DOMAIN cl : /\ cl[k].scope = Principal /\ cl[k].fp = f
                                          /\ cl[k].strength = "soft"
                                          /\ cl[k].state \in {"candidate", "active"}})
        hit  == {k \in own \union wide : cl[k].strength = "soft" /\ cl[k].state # "contradicted"}
    IN  IF obs[o].strength # "contradiction" THEN cl
        ELSE [k \in DOMAIN cl |->
                IF k \in hit
                THEN [cl[k] EXCEPT !.state = "contradicted", !.cited = @ \union {o}]
                ELSE cl[k]]

\* Mutant: any observed claim is promoted, whatever the Principal did to it.
PromotableInAnyState(cl, obs, own, p, f) ==
    {k \in own : /\ Cardinality(CommissionsIn(obs, SupportIn(obs, {p}, f))) >= 2
                 /\ IsMaterial(obs, SupportIn(obs, {p}, f))
                 /\ cl[k].state # "active"
                 /\ HardCapacityAllows(cl, p, cl[k].fp)}

\* Mutant: two observations suffice, though of Commissions of other Projects.
PromotableByAnyProject(cl, obs, own, p, f) ==
    {k \in own : /\ Cardinality(CommissionsIn(obs, SupportIn(obs, Project, f))) >= 2
                 /\ IsMaterial(obs, SupportIn(obs, Project, f))
                 /\ cl[k].state = "candidate"
                 /\ HardCapacityAllows(cl, p, cl[k].fp)}

\* Independent support, from two Commissions of the Project, makes a
\* candidate active when hard claims leave room for it.
Promotable(cl, obs, own, p, f) ==
    {k \in own : /\ Cardinality(CommissionsIn(obs, SupportIn(obs, {p}, f))) >= 2
                 /\ IsMaterial(obs, SupportIn(obs, {p}, f))
                 /\ cl[k].state = "candidate"
                 /\ HardCapacityAllows(cl, p, cl[k].fp)}

Promote(cl, ids, D, o) ==
    [k \in DOMAIN cl |->
       IF k \in ids
       THEN [cl[k] EXCEPT !.state = "active", !.confidence = 7500, !.cited = @ \union {o}]
       ELSE Demote(cl, D)[k]]

\* Support from three Commissions of two Projects proposes a claim of the
\* Principal; one that exists takes the observation.
WithPrincipalClaim(cl, obs, f, o) ==
    LET wide  == Oldest({k \in DOMAIN cl : cl[k].scope = Principal /\ cl[k].fp = f})
        shown == SupportIn(obs, Project, f)
        new   == IF NextClaim \in DOMAIN cl THEN NextClaim + 1 ELSE NextClaim
    IN  IF wide # {} THEN Link(cl, wide, o, obs[o].strength)
        ELSE IF /\ Cardinality(CommissionsIn(obs, shown)) >= 3
                /\ Cardinality(RelatedProjects(obs, shown)) >= 2
                /\ IsMaterial(obs, shown)
             THEN AddClaim(cl, new, Candidate(Principal, f, 7500, shown, o))
             ELSE cl

\* observe_profile_preference: what a finished Commission shows about a
\* preference.  A boundary of the Principal or of the Project makes the
\* request an answered no-op.
Observe(c, f, strength) ==
    LET p   == ProjectOf[c]
        o   == NextObservation
        obs == AddClaim(observations, o,
                        [source |-> <<c, installs>>, at |-> 0, fp |-> f, strength |-> strength])
        cl1 == WithProjectClaim(claims, obs, p, f, o)
        own == ProjectClaim(cl1, p, f)
        cl2 == Contradict(Link(cl1, own, o, strength), obs, own, f, o)
        up  == Promotable(cl2, obs, own, p, f)
    IN  /\ p \in Project /\ c \in Terminal
        /\ ~ \E b \in boundaries : b.fp = f /\ b.scope \in {Principal, p}
        /\ ~ \E i \in DOMAIN observations :
               observations[i].source = <<c, installs>> /\ observations[i].at = 0 /\ observations[i].fp = f
        /\ o \in ObservationId
        /\ \E D \in IF up = {} THEN {{}} ELSE MakeRoom(cl2, p, f, {}) :
              LET cl3 == Promote(cl2, up, D, o)
              IN  claims' = WithPrincipalClaim(cl3, obs, f, o)
        /\ DOMAIN claims' \subseteq ClaimId
        /\ observations' = obs
        /\ created' = [created EXCEPT !.observations = o,
                                      !.claims = @ + Cardinality(DOMAIN claims' \ DOMAIN claims)]
        /\ UNCHANGED <<elsewhere, events>>

-----------------------------------------------------------------------------
(* The Principal's control of claims                                       *)

\* confirm_profile_claim: a candidate of the Principal becomes active.
ConfirmClaim(k) ==
    /\ claims[k].strength = "soft" /\ claims[k].scope = Principal /\ claims[k].state = "candidate"
    /\ ~Blocked(boundaries, claims[k].fp, Principal, RelatedProjects(observations, claims[k].links))
    /\ \E D \in MakeRoom(claims, Principal, claims[k].fp, {}) :
          claims' = [Demote(claims, D) EXCEPT ![k] = [@ EXCEPT !.state = "active", !.confidence = 9000]]
    /\ UNCHANGED <<observations, created, elsewhere, events>>

\* suppress_profile_claim
SuppressClaim(k) ==
    /\ Event
    /\ claims[k].state # "suppressed"
    /\ claims' = [claims EXCEPT ![k].state = "suppressed"]
    /\ UNCHANGED <<observations, created, elsewhere>>

Revised(claim, f) ==
    [claim EXCEPT !.fp = f, !.state = "active", !.version = @ + 1, !.stale = FALSE]

\* revise_profile_claim, confirmed: the claim says something else from now on.
ReviseClaim(k, f) ==
    /\ claims[k].state \in {"active", "contradicted"}
    /\ Event
    /\ ~Blocked(boundaries, f, claims[k].scope, RelatedProjects(observations, claims[k].links))
    /\ \E D \in MakeRoom(claims, claims[k].scope, f, {k}) :
          claims' = [Demote(claims, D) EXCEPT ![k] = Revised(@, f)]
    /\ UNCHANGED <<observations, created, elsewhere>>

\* What forgetting a claim takes along: for a Project's claim, the Principal's
\* candidates that rest on one of its observations.
Cascade(k) ==
    {k} \union {i \in DOMAIN claims : /\ claims[k].scope \in Project
                                      /\ claims[i].scope = Principal
                                      /\ claims[i].state = "candidate"
                                      /\ claims[i].links \cap claims[k].links # {}}

\* Observations that no remaining claim rests on.
Dedicated(gone) ==
    {o \in UNION {claims[k].links : k \in gone} :
       \A i \in DOMAIN claims : o \in claims[i].links => i \in gone}

\* forget_profile_claim, confirmed.  The store's foreign keys refuse to delete
\* an observation that the history of another claim names.
ForgetClaim(k) ==
    LET gone == Cascade(k)
        rest == DOMAIN claims \ gone
    IN  /\ Event
        /\ \A i \in rest : claims[i].cited \cap Dedicated(gone) = {}
        /\ claims' = [i \in rest |-> claims[i]]
        /\ observations' = [o \in DOMAIN observations \ Dedicated(gone) |-> observations[o]]
        /\ receipts' = receipts \union {<<events', claims[k].scope>>}
        /\ UNCHANGED <<created, boundaries, material, pinned, bundles, aged, installs>>

-----------------------------------------------------------------------------
(* Carrying memory over                                                    *)

\* export_memory: everything of exactly one scope.
Exported(scope) ==
    LET mine == {k \in DOMAIN claims : claims[k].scope = scope}
    IN  [scope        |-> scope,
         claims       |-> [k \in mine |-> claims[k]],
         observations |-> [o \in UNION {claims[k].links : k \in mine} |-> observations[o]],
         boundaries   |-> {b \in boundaries : b.scope = scope},
         receipts     |-> {r \in receipts : r[2] = scope}]

Export(scope) ==
    /\ Event
    /\ bundles' = Append(bundles, Exported(scope))
    /\ UNCHANGED <<claims, observations, created, boundaries, receipts, material, pinned,
                   aged, installs>>

\* validate_memory_claim_entry: of an unaltered export, the one thing that can
\* be wrong is a history that names an observation the claim is not linked to.
ValidHistory(claim) == claim.cited \subseteq claim.links

\* validate_memory_bundle
ValidBundle(b) == \A k \in DOMAIN b.claims : ValidHistory(b.claims[k])

\* No boundary, old or just imported, prevents an imported claim.
ClaimsAllowed(b) ==
    ~ \E k \in DOMAIN b.claims :
        Blocked(boundaries \union b.boundaries, b.claims[k].fp, b.scope,
                RelatedProjects(b.observations, b.claims[k].links))

\* An observation that exists already must have been imported, too; a new one
\* goes to the local copy of its Commission, which shows a preference once.
ObservationsFit(n, b) ==
    LET there == DOMAIN observations \cap DOMAIN b.observations
        fresh == DOMAIN b.observations \ there
        row(o) == <<b.observations[o].source, b.observations[o].fp>>
    IN  /\ \A o \in there : observations[o].at # 0
        /\ \A o \in fresh :
             /\ \A i \in fresh \ {o} : row(i) # row(o)
             /\ \A i \in DOMAIN observations :
                  observations[i].at = n =>
                    <<observations[i].source, observations[i].fp>> # row(o)

\* The rows of the bundle beside those of the store.
WithImportedClaims(b) ==
    [k \in DOMAIN claims \union DOMAIN b.claims |->
       IF k \in DOMAIN claims THEN claims[k] ELSE b.claims[k]]

WithImportedObservations(n, b) ==
    [o \in DOMAIN observations \union DOMAIN b.observations |->
       IF o \in DOMAIN observations THEN observations[o]
       ELSE [b.observations[o] EXCEPT !.at = n]]

\* Deletion receipts come along, once, and the budget is enforced at the end.
ImportTail(b, all) ==
    /\ b.receipts \cap receipts = {}
    /\ receipts' = receipts \union b.receipts
    /\ \E D \in ReconcileBudget(all, b.scope) : claims' = Demote(all, D)

\* import_memory, through a Commission of the bundle's scope.
Import(n, c) ==
    LET b == bundles[n]
    IN  /\ ValidBundle(b)
        /\ ProjectOf[c] = b.scope
        /\ b.boundaries \cap boundaries = {}
        /\ boundaries' = boundaries \union b.boundaries
        /\ DOMAIN b.claims \cap DOMAIN claims = {}
        /\ ClaimsAllowed(b)
        /\ ObservationsFit(n, b)
        /\ observations' = WithImportedObservations(n, b)
        /\ ImportTail(b, WithImportedClaims(b))
        /\ UNCHANGED <<created, material, pinned, bundles, aged, installs, events>>

\* External: the Principal sets the system up elsewhere; only bundles remain.
NewInstallation ==
    /\ Event
    /\ installs' = installs + 1
    /\ claims' = << >> /\ observations' = << >> /\ boundaries' = {} /\ receipts' = {}
    /\ material' = {} /\ pinned' = {}
    /\ UNCHANGED <<bundles, created, aged>>

-----------------------------------------------------------------------------
(* Time                                                                    *)

Aged(cl) == [k \in DOMAIN cl |-> [cl[k] EXCEPT !.stale = TRUE]]

\* External: 180 days without any request; a bundle carries the time of the last
\* support along.
HalfYear ==
    /\ Event
    /\ aged' = TRUE
    /\ claims' = Aged(claims)
    /\ bundles' = [n \in DOMAIN bundles |-> [bundles[n] EXCEPT !.claims = Aged(@)]]
    /\ UNCHANGED <<observations, created, boundaries, receipts, material, pinned, installs>>

\* pin_memory_material
PinMaterial(c) ==
    /\ Event
    /\ c \in material \ pinned
    /\ pinned' = pinned \union {c}
    /\ UNCHANGED <<claims, observations, created, boundaries, receipts, material, bundles,
                   aged, installs>>

\* A claim rests on what the Commission showed (retained_by_claim).
RetainedByClaim(c) ==
    \E k \in DOMAIN claims : \E o \in claims[k].links :
       observations[o].source = <<c, installs>> /\ observations[o].at = 0

\* maintain_memory, once per start of the daemon: soft claims without recent
\* support step back, and material nobody retains loses its content thirty
\* days after its Commission ended.  Evidence and effects that are uncertain may
\* hold some of it (retained_by_evidence, retained_for_uncertain_effect).
MaintainMemory ==
    /\ claims' = [k \in DOMAIN claims |->
                    IF /\ claims[k].strength = "soft" /\ claims[k].state = "active"
                       /\ claims[k].stale
                    THEN [claims[k] EXCEPT !.state = "candidate"] ELSE claims[k]]
    /\ \E held \in SUBSET material :
          material' = {c \in material : ~aged \/ c \in pinned \/ RetainedByClaim(c) \/ c \in held}
    /\ UNCHANGED <<observations, created, boundaries, receipts, pinned, bundles, aged, installs, events>>

-----------------------------------------------------------------------------

Next ==
    \/ \E r \in Stated : CreateClaim(r[1], r[2])
    \/ \E r \in Excluded : CreateBoundary(r[1], r[2])
    \/ \E r \in Shown : Observe(r[1], r[2], r[3])
    \/ \E k \in DOMAIN claims :
          \/ ConfirmClaim(k)
          \/ SuppressClaim(k)
          \/ \E f \in Statement : ReviseClaim(k, f)
          \/ ForgetClaim(k)
    \/ \E scope \in Scope : Export(scope)
    \/ \E n \in DOMAIN bundles, c \in Commission : Import(n, c)
    \/ NewInstallation
    \/ HalfYear
    \/ \E c \in Commission : PinMaterial(c)
    \/ MaintainMemory

Spec == Init /\ [][Next]_vars

-----------------------------------------------------------------------------
(* Properties                                                              *)

\* Rows have the fields of the schema, and a claim is linked only to
\* observations that exist: no operation leaves a dangling link.
TypeOK ==
    /\ DOMAIN claims \subseteq 1..created.claims
    /\ \A k \in DOMAIN claims :
         claims[k] \in Claim /\ claims[k].links \subseteq DOMAIN observations
    /\ DOMAIN observations \subseteq 1..created.observations
    /\ \A o \in DOMAIN observations : observations[o] \in Observation
    /\ boundaries \subseteq Boundary
    /\ receipts \subseteq (1..MaxEvents) \X Scope
    /\ pinned \subseteq material /\ material \subseteq Terminal
    /\ created.claims \in 0..MaxClaims /\ created.observations \in 0..MaxObservations
    /\ aged \in BOOLEAN /\ installs \in 0..MaxEvents /\ events \in 0..MaxEvents

\* The active profile of every scope stays within its number of claims and
\* of tokens, over promotion, confirmation, correction and import.
BudgetKept ==
    \A scope \in Scope : Fits(claims, scope, ActiveIn(claims, scope), 0, 0)

\* Who really showed something: the Commissions, not their rows.
OriginsIn(ids) == {observations[o].source : o \in ids}

\* What a Commission showed was exported, forgotten and brought back by a bundle,
\* and the same Commission was observed again: it has two rows.
HistoryReturned(ids) ==
    \E o, i \in ids :
       /\ o < i /\ observations[o].source = observations[i].source
       /\ observations[o].at # 0

\* An active Project claim that was inferred and never corrected is linked to what
\* two Commissions showed, one of them strongly, whatever was forgotten, demoted
\* or imported.  Only where history returned by a bundle may one Commission alone
\* have been enough (observe_profile_preference, imported_commission_id).
InferenceIsIndependent ==
    \A k \in DOMAIN claims :
       /\ claims[k].strength = "soft" /\ claims[k].state = "active"
       /\ claims[k].scope \in Project /\ claims[k].version = 1
       => /\ Cardinality(OriginsIn(claims[k].links)) >= 2 \/ HistoryReturned(claims[k].links)
          /\ \E o \in claims[k].links : observations[o].strength = "strong"

\* A claim only becomes active, or says something new while active, where no
\* Learning Boundary prevents it: not by promotion, confirmation, correction
\* or import, in whatever order boundaries and claims arrive.
NothingLearnedAcrossBoundary ==
    [][\A k \in DOMAIN claims' :
         /\ claims'[k].state = "active"
         /\ k \notin DOMAIN claims \/ claims[k].state # "active" \/ claims[k].fp # claims'[k].fp
         => ~ \E b \in boundaries' :
                b.fp = claims'[k].fp /\ (Principal \in {b.scope, claims'[k].scope}
                                          \/ b.scope = claims'[k].scope)]_vars

\* What the Principal suppressed or evidence contradicted is used again only
\* as a new version, by the Principal's correction.
BackOnlyByCorrection ==
    [][\A k \in DOMAIN claims \cap DOMAIN claims' :
         /\ claims[k].state \in {"suppressed", "contradicted"}
         /\ claims'[k].state \in {"candidate", "active"}
         => claims'[k].version > claims[k].version]_vars

=============================================================================
