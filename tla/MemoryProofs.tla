---------------------------- MODULE MemoryProofs ----------------------------
(***************************************************************************)
(* Proofs about Memory, for every set of Projects, Commissions and         *)
(* statements, every budget and every number of claims, observations and   *)
(* events.                                                                 *)
(*                                                                         *)
(* The store's claims and those of every bundle are sound with respect to  *)
(* the observations beside them.  Identifiers are never used again, so an  *)
(* observation that comes back in a bundle is the one that was exported,   *)
(* and no Commission row shows a preference twice: counting observations   *)
(* is as good as counting rows.  A row made here is the last that its      *)
(* Commission ever made of a preference, so a Commission has two rows only *)
(* where an earlier one came back from a bundle.                           *)
(***************************************************************************)
EXTENDS Memory, FiniteSetTheorems, WellFoundedInduction, TLAPS

StrongIn(obs, ids) == \E o \in ids : obs[o].strength = "strong"
TwoOf(ids) == \E a, b \in ids : a # b

\* A claim that was inferred from what a Project's Commissions showed.
Inferred(c) == c.strength = "soft" /\ c.scope \in Project

\* A claim and the observations beside it: what was inferred rests on strong
\* support, what is in use on two observations of the very preference.
Sound(c, obs) ==
    /\ c.links \subseteq DOMAIN obs
    /\ c.state = "candidate" => c.strength = "soft"
    /\ Inferred(c) => StrongIn(obs, c.links)
    /\ c.version = 1 => \A o \in c.links : obs[o].fp = c.fp
    /\ Inferred(c) /\ c.state = "active" /\ c.version = 1 => TwoOf(c.links)

\* Claims of the store or of a bundle, beside their observations.
Table(cl, obs) == \A k \in DOMAIN cl : cl[k] \in Claim /\ Sound(cl[k], obs)

\* Versions and bundles are no more than the events that made them.
Counters ==
    /\ created \in [claims : 0..MaxClaims, observations : 0..MaxObservations]
    /\ events \in 0..MaxEvents /\ installs \in 0..events
    /\ bundles \in Seq({bundles[n] : n \in DOMAIN bundles}) /\ Len(bundles) <= events
    /\ \A k \in DOMAIN claims : claims[k].version <= events + 1
    /\ \A n \in 1..Len(bundles) : \A k \in DOMAIN bundles[n].claims :
          bundles[n].claims[k].version <= events + 1

\* Bundles hold what the store held: claims of one scope, known ids.
BundlesSound ==
    \A n \in 1..Len(bundles) :
       /\ Table(bundles[n].claims, bundles[n].observations)
       /\ \A k \in DOMAIN bundles[n].claims : bundles[n].claims[k].scope = bundles[n].scope
       /\ DOMAIN bundles[n].claims \subseteq 1..created.claims
       /\ DOMAIN bundles[n].observations \subseteq 1..created.observations
       /\ \A o \in DOMAIN bundles[n].observations : bundles[n].observations[o] \in Observation
       /\ bundles[n].scope \in Scope /\ bundles[n].boundaries \subseteq Boundary
       /\ bundles[n].receipts \subseteq (1..MaxEvents) \X Scope
       /\ DOMAIN bundles[n] = {"scope", "claims", "observations", "boundaries", "receipts"}

\* A Commission row shows a preference once.
ShownOnce(obs) ==
    \A i, j \in DOMAIN obs :
       obs[i].source = obs[j].source /\ obs[i].at = obs[j].at /\ obs[i].fp = obs[j].fp => i = j

\* An id names the same observation here and there.
Agree(obs1, obs2) ==
    \A o \in DOMAIN obs1 \cap DOMAIN obs2 :
       /\ obs1[o].source = obs2[o].source /\ obs1[o].fp = obs2[o].fp
       /\ obs1[o].strength = obs2[o].strength

SameHistory ==
    \A n \in 1..Len(bundles) :
       /\ Agree(observations, bundles[n].observations)
       /\ \A m \in 1..Len(bundles) : Agree(bundles[m].observations, bundles[n].observations)

IndInv ==
    /\ TypeOK /\ Counters /\ Table(claims, observations) /\ BundlesSound
    /\ ShownOnce(observations) /\ SameHistory /\ BudgetKept
-----------------------------------------------------------------------------
(* Claims.                                                                 *)

LEMMA Bounds ==
    /\ Principal \notin Project /\ Principal \in Scope /\ Project \subseteq Scope
    /\ ProjectOf \in [Commission -> Scope] /\ Tokens \in [Statement -> Nat]
    /\ ClaimLimit \in [Scope -> Nat] /\ TokenLimit \in [Scope -> Nat]
    /\ MaxClaims \in Nat /\ MaxObservations \in Nat /\ MaxEvents \in Nat
    /\ Stated \subseteq Commission \X Statement /\ Excluded \subseteq Commission \X Statement
    /\ Shown \subseteq Commission \X Statement \X Strength
    /\ Terminal \subseteq Commission /\ WithMaterial \subseteq Terminal
BY MemoryAssumption DEF Scope, Strength

\* What distinguishes two claims, field by field.
LEMMA ClaimFields ==
    ASSUME NEW c \in Claim
    PROVE  /\ c.scope \in Scope /\ c.fp \in Statement /\ c.strength \in {"hard", "soft"}
           /\ c.state \in State /\ c.confidence \in {5000, 7500, 9000, 10000}
           /\ c.version \in 1..(MaxEvents + 1) /\ c.stale \in BOOLEAN
           /\ c.links \subseteq ObservationId /\ c.cited \subseteq ObservationId
BY DEF Claim

\* The claim changes its state.
LEMMA StateSet ==
    ASSUME NEW c \in Claim, NEW s \in State
    PROVE  LET d == [c EXCEPT !.state = s]
           IN  /\ d \in Claim
               /\ d.scope = c.scope /\ d.fp = c.fp /\ d.strength = c.strength
               /\ d.state = s /\ d.version = c.version /\ d.links = c.links
BY DEF Claim

\* Time passes, or support arrives.
LEMMA StaleSet ==
    ASSUME NEW c \in Claim, NEW b \in BOOLEAN
    PROVE  LET d == [c EXCEPT !.stale = b]
           IN  /\ d \in Claim
               /\ d.scope = c.scope /\ d.fp = c.fp /\ d.strength = c.strength
               /\ d.state = c.state /\ d.version = c.version /\ d.links = c.links
BY DEF Claim

LEMMA FalseIsBoolean == \E b \in BOOLEAN : b = FALSE
OBVIOUS

LEMMA BothAreBoolean == ASSUME NEW x, NEW y PROVE \E b \in BOOLEAN : b = (x /\ y)
<1> WITNESS (x /\ y) \in BOOLEAN
<1> QED OBVIOUS

\* The claim takes an observation.
Linked(c, o, strength) ==
    [c EXCEPT !.links = @ \union {o}, !.stale = @ /\ strength # "strong"]

LEMMA LinkSet ==
    ASSUME NEW c \in Claim, NEW o \in ObservationId, NEW strength
    PROVE  LET d == Linked(c, o, strength)
           IN  /\ d \in Claim
               /\ d.scope = c.scope /\ d.fp = c.fp /\ d.strength = c.strength
               /\ d.state = c.state /\ d.version = c.version /\ d.links = c.links \union {o}
<1> USE DEF Claim, State, Linked
<1>1. [c EXCEPT !.links = @ \union {o}] \in Claim
      OBVIOUS
<1>2. PICK d1 \in Claim : d1 = [c EXCEPT !.links = @ \union {o}]
      BY <1>1
<1>3. PICK b \in BOOLEAN : b = (c.stale /\ strength # "strong")
  <2> HIDE DEF Claim, State
  <2> QED BY BothAreBoolean
<1>4. [d1 EXCEPT !.stale = b] \in Claim
      OBVIOUS
<1>5. PICK d2 \in Claim : d2 = [d1 EXCEPT !.stale = b]
      BY <1>4
<1>6. [c EXCEPT !.links = @ \union {o}, !.stale = b] = d2
      BY <1>2, <1>3, <1>5
<1> QED BY <1>6, <1>2, <1>3, <1>5

\* Evidence contradicts the claim.
Contradicted(c, o) ==
    [c EXCEPT !.state = "contradicted", !.cited = @ \union {o}]

LEMMA ContradictedSet ==
    ASSUME NEW c \in Claim, NEW o \in ObservationId
    PROVE  LET d == Contradicted(c, o)
           IN  /\ d \in Claim
               /\ d.scope = c.scope /\ d.fp = c.fp /\ d.strength = c.strength
               /\ d.state = "contradicted" /\ d.version = c.version /\ d.links = c.links
<1> USE DEF Claim, State, Contradicted
<1>1. [c EXCEPT !.state = "contradicted"] \in Claim
      OBVIOUS
<1>2. PICK d1 \in Claim : d1 = [c EXCEPT !.state = "contradicted"]
      BY <1>1
<1>3. [d1 EXCEPT !.cited = @ \union {o}] \in Claim
      OBVIOUS
<1>4. PICK d2 \in Claim : d2 = [d1 EXCEPT !.cited = @ \union {o}]
      BY <1>3
<1>5. [c EXCEPT !.state = "contradicted", !.cited = @ \union {o}] = d2
      BY <1>2, <1>4
<1> QED BY <1>5, <1>2, <1>4

\* The claim is promoted.
Promoted(c, o) ==
    [c EXCEPT !.state = "active", !.confidence = 7500, !.cited = @ \union {o}]

LEMMA PromotedSet ==
    ASSUME NEW c \in Claim, NEW o \in ObservationId
    PROVE  LET d == Promoted(c, o)
           IN  /\ d \in Claim
               /\ d.scope = c.scope /\ d.fp = c.fp /\ d.strength = c.strength
               /\ d.state = "active" /\ d.version = c.version /\ d.links = c.links
<1> USE DEF Claim, State, Promoted
<1>1. [c EXCEPT !.state = "active"] \in Claim
      OBVIOUS
<1>2. PICK d1 \in Claim : d1 = [c EXCEPT !.state = "active"]
      BY <1>1
<1>3. [d1 EXCEPT !.confidence = 7500] \in Claim
      OBVIOUS
<1>4. PICK d2 \in Claim : d2 = [d1 EXCEPT !.confidence = 7500]
      BY <1>3
<1>5. [d2 EXCEPT !.cited = @ \union {o}] \in Claim
      OBVIOUS
<1>6. PICK d3 \in Claim : d3 = [d2 EXCEPT !.cited = @ \union {o}]
      BY <1>5
<1>7. [c EXCEPT !.state = "active", !.confidence = 7500, !.cited = @ \union {o}] = d3
      BY <1>2, <1>4, <1>6
<1> QED BY <1>7, <1>2, <1>4, <1>6

\* The Principal confirms the claim.
Confirmed(c) ==
    [c EXCEPT !.state = "active", !.confidence = 9000]

LEMMA ConfirmedSet ==
    ASSUME NEW c \in Claim
    PROVE  LET d == Confirmed(c)
           IN  /\ d \in Claim
               /\ d.scope = c.scope /\ d.fp = c.fp /\ d.strength = c.strength
               /\ d.state = "active" /\ d.version = c.version /\ d.links = c.links
<1> USE DEF Claim, State, Confirmed
<1>1. [c EXCEPT !.state = "active"] \in Claim
      OBVIOUS
<1>2. PICK d1 \in Claim : d1 = [c EXCEPT !.state = "active"]
      BY <1>1
<1>3. [d1 EXCEPT !.confidence = 9000] \in Claim
      OBVIOUS
<1>4. PICK d2 \in Claim : d2 = [d1 EXCEPT !.confidence = 9000]
      BY <1>3
<1>5. [c EXCEPT !.state = "active", !.confidence = 9000] = d2
      BY <1>2, <1>4
<1> QED BY <1>5, <1>2, <1>4

\* The Principal corrects the claim.
LEMMA RevisedSet ==
    ASSUME NEW c \in Claim, NEW f \in Statement, c.version + 1 \in 1..(MaxEvents + 1)
    PROVE  LET d == Revised(c, f)
           IN  /\ d \in Claim
               /\ d.scope = c.scope /\ d.fp = f /\ d.strength = c.strength
               /\ d.state = "active" /\ d.version = c.version + 1 /\ d.links = c.links
<1> USE DEF Claim, State, Revised
<1>1. [c EXCEPT !.fp = f] \in Claim
      OBVIOUS
<1>2. PICK d1 \in Claim : d1 = [c EXCEPT !.fp = f]
      BY <1>1
<1>3. [d1 EXCEPT !.state = "active"] \in Claim
      OBVIOUS
<1>4. PICK d2 \in Claim : d2 = [d1 EXCEPT !.state = "active"]
      BY <1>3
<1>5. [d2 EXCEPT !.version = @ + 1] \in Claim
  <2>1. d2.version = c.version
        BY <1>2, <1>4
  <2>2. PICK v \in 1..(MaxEvents + 1) : v = d2.version + 1
        BY <2>1
  <2>3. [d2 EXCEPT !.version = v] \in Claim
        OBVIOUS
  <2> QED BY <2>2, <2>3
<1>6. PICK d3 \in Claim : d3 = [d2 EXCEPT !.version = @ + 1]
      BY <1>5
<1>7. PICK b \in BOOLEAN : b = FALSE
  <2> HIDE DEF Claim, State
  <2> QED BY FalseIsBoolean
<1>8. [d3 EXCEPT !.stale = b] \in Claim
      OBVIOUS
<1>9. PICK d4 \in Claim : d4 = [d3 EXCEPT !.stale = b]
      BY <1>8
<1>10. [c EXCEPT !.fp = f, !.state = "active", !.version = @ + 1, !.stale = b] = d4
      BY <1>2, <1>4, <1>6, <1>7, <1>9
<1>11. /\ d4.scope = c.scope /\ d4.fp = f /\ d4.strength = c.strength
       /\ d4.state = "active" /\ d4.version = c.version + 1 /\ d4.links = c.links
       BY <1>2, <1>4, <1>6, <1>9
<1>12. [c EXCEPT !.fp = f, !.state = "active", !.version = @ + 1, !.stale = FALSE] = d4
  <2> HIDE DEF Claim, State
  <2> QED BY <1>7, <1>10, Zenon
<1> HIDE DEF Claim
<1> QED BY <1>11, <1>12
-----------------------------------------------------------------------------
(* Budgets.                                                                *)

TokenSet(cl, ids) == UNION {{k} \X (1..Tokens[cl[k].fp]) : k \in ids}

LEMMA TokenSetFinite ==
    ASSUME NEW cl, NEW ids, IsFiniteSet(ids), \A k \in ids : cl[k].fp \in Statement
    PROVE  IsFiniteSet(TokenSet(cl, ids))
<1> DEFINE F == [k \in ids |-> {k} \X (1..Tokens[cl[k].fp])]
           T == {{k} \X (1..Tokens[cl[k].fp]) : k \in ids}
<1>1. F \in Surjection(ids, T)
      BY DEF Surjection
<1>2. IsFiniteSet(T)
      BY <1>1, FS_Surjection
<1>3. ASSUME NEW k \in ids PROVE IsFiniteSet({k} \X (1..Tokens[cl[k].fp]))
  <2>1. Tokens[cl[k].fp] \in Nat
        BY <1>3, Bounds
  <2>2. IsFiniteSet(1..Tokens[cl[k].fp])
        BY <2>1, FS_Interval
  <2> QED BY <2>2, FS_Singleton, FS_Product
<1>4. \A t \in T : IsFiniteSet(t)
      BY <1>3
<1> QED BY <1>2, <1>4, FS_UNION DEF TokenSet

\* A part of what fits, fits.
LEMMA FitsFewer ==
    ASSUME NEW cl, NEW cl2, NEW scope \in Scope, NEW ids, NEW fewer \in SUBSET ids,
           IsFiniteSet(ids), \A k \in ids : cl[k].fp \in Statement,
           \A k \in fewer : cl2[k].fp = cl[k].fp,
           Fits(cl, scope, ids, 0, 0)
    PROVE  Fits(cl2, scope, fewer, 0, 0)
<1>1. TokenSet(cl2, fewer) \subseteq TokenSet(cl, ids)
      BY DEF TokenSet
<1>2. IsFiniteSet(TokenSet(cl, ids))
      BY TokenSetFinite
<1>3. /\ Cardinality(fewer) <= Cardinality(ids)
      /\ Cardinality(fewer) \in Nat /\ Cardinality(ids) \in Nat
      BY FS_Subset, FS_CardinalityType
<1>4. /\ Cardinality(TokenSet(cl2, fewer)) <= Cardinality(TokenSet(cl, ids))
      /\ Cardinality(TokenSet(cl2, fewer)) \in Nat /\ Cardinality(TokenSet(cl, ids)) \in Nat
      BY <1>1, <1>2, FS_Subset, FS_CardinalityType
<1>5. ClaimLimit[scope] \in Nat /\ TokenLimit[scope] \in Nat
      BY Bounds
<1>6. Cardinality(ids) + 0 <= ClaimLimit[scope] /\ Cardinality(TokenSet(cl, ids)) + 0 <= TokenLimit[scope]
      BY DEF Fits, TokensOf, TokenSet
<1>7. Cardinality(fewer) + 0 <= ClaimLimit[scope] /\ Cardinality(TokenSet(cl2, fewer)) + 0 <= TokenLimit[scope]
      BY <1>3, <1>4, <1>5, <1>6
<1> QED BY <1>7 DEF Fits, TokensOf, TokenSet

\* Where there is room for a statement, a claim that makes it fits.
LEMMA FitsOneMore ==
    ASSUME NEW cl, NEW cl2, NEW scope \in Scope, NEW ids, NEW f \in Statement, NEW k,
           IsFiniteSet(ids), \A i \in ids : cl[i].fp \in Statement,
           k \notin ids, cl2[k].fp = f, \A i \in ids : cl2[i].fp = cl[i].fp,
           Fits(cl, scope, ids, 1, Tokens[f])
    PROVE  Fits(cl2, scope, ids \union {k}, 0, 0)
<1> DEFINE new == {k} \X (1..Tokens[f])
<1>1. TokenSet(cl2, ids \union {k}) = TokenSet(cl, ids) \union new
      BY DEF TokenSet
<1>2. TokenSet(cl, ids) \intersect new = {}
      BY DEF TokenSet
<1>3. IsFiniteSet(TokenSet(cl, ids))
      BY TokenSetFinite
<1>4. Tokens[f] \in Nat
      BY Bounds
<1>5. IsFiniteSet(1..Tokens[f]) /\ Cardinality(1..Tokens[f]) = Tokens[f]
      BY <1>4, FS_Interval
<1>6. IsFiniteSet({k}) /\ Cardinality({k}) = 1
      BY FS_Singleton
<1>7. IsFiniteSet(new) /\ Cardinality(new) = Tokens[f]
  <2>1. IsFiniteSet(new) /\ Cardinality(new) = Cardinality({k}) * Cardinality(1..Tokens[f])
        BY <1>5, <1>6, FS_Product
  <2> HIDE DEF new
  <2> QED BY <1>4, <1>5, <1>6, <2>1
<1>8. Cardinality(TokenSet(cl2, ids \union {k})) =
          Cardinality(TokenSet(cl, ids)) + Cardinality(new) - Cardinality({})
  <2> HIDE DEF new
  <2> QED BY <1>1, <1>2, <1>3, <1>7, FS_Union, ZenonT(40)
<1>9. /\ Cardinality({}) = 0 /\ Cardinality(TokenSet(cl, ids)) \in Nat
      /\ Cardinality(ids) \in Nat /\ Cardinality(ids \union {k}) = Cardinality(ids) + 1
      BY <1>3, FS_EmptySet, FS_CardinalityType, FS_AddElement
<1>10. ClaimLimit[scope] \in Nat /\ TokenLimit[scope] \in Nat
      BY Bounds
<1>11. /\ Cardinality(ids) + 1 <= ClaimLimit[scope]
       /\ Cardinality(TokenSet(cl, ids)) + Tokens[f] <= TokenLimit[scope]
      BY DEF Fits, TokensOf, TokenSet
<1>12. /\ Cardinality(ids \union {k}) + 0 <= ClaimLimit[scope]
       /\ Cardinality(TokenSet(cl2, ids \union {k})) + 0 <= TokenLimit[scope]
  <2> HIDE DEF new
  <2> QED BY <1>4, <1>7, <1>8, <1>9, <1>10, <1>11
<1> QED BY <1>12 DEF Fits, TokensOf, TokenSet

Budget(cl) == \A scope \in Scope : Fits(cl, scope, ActiveIn(cl, scope), 0, 0)

\* Claims the store or a bundle may hold.
Claims(cl) == IsFiniteSet(DOMAIN cl) /\ \A k \in DOMAIN cl : cl[k] \in Claim

\* A claim in use was in use before, and says the same.
Kept(cl, cl2, k) ==
    k \in DOMAIN cl /\ cl[k].state = "active" /\ cl2[k].scope = cl[k].scope /\ cl2[k].fp = cl[k].fp

LEMMA ActiveFinite ==
    ASSUME NEW cl, Claims(cl), NEW scope
    PROVE  /\ IsFiniteSet(ActiveIn(cl, scope)) /\ ActiveIn(cl, scope) \subseteq DOMAIN cl
           /\ \A k \in ActiveIn(cl, scope) : cl[k].fp \in Statement
<1>1. ActiveIn(cl, scope) \subseteq DOMAIN cl
      BY DEF ActiveIn
<1>2. IsFiniteSet(ActiveIn(cl, scope))
      BY <1>1, FS_Subset DEF Claims
<1>3. \A k \in DOMAIN cl : cl[k].fp \in Statement
      BY ClaimFields DEF Claims
<1> QED BY <1>1, <1>2, <1>3

\* When nothing comes into use, the budget is kept.
LEMMA BudgetFewer ==
    ASSUME NEW cl, NEW cl2, Claims(cl), Budget(cl),
           \A k \in DOMAIN cl2 : cl2[k].state = "active" => Kept(cl, cl2, k)
    PROVE  Budget(cl2)
<1> SUFFICES ASSUME NEW scope \in Scope PROVE Fits(cl2, scope, ActiveIn(cl2, scope), 0, 0)
    BY DEF Budget
<1>1. /\ ActiveIn(cl2, scope) \subseteq ActiveIn(cl, scope)
      /\ \A k \in ActiveIn(cl2, scope) : cl2[k].fp = cl[k].fp
      BY DEF ActiveIn, Kept
<1>2. Fits(cl, scope, ActiveIn(cl, scope), 0, 0)
      BY DEF Budget
<1> QED BY <1>1, <1>2, ActiveFinite, FitsFewer

\* MakeRoom makes room for one claim that comes into use, or changes while in use.
LEMMA BudgetRoom ==
    ASSUME NEW cl, NEW cl2, Claims(cl), Budget(cl), NEW scope \in Scope, NEW f \in Statement,
           NEW keep, NEW D \in MakeRoom(cl, scope, f, keep), NEW k \in DOMAIN cl2,
           keep \subseteq {k}, cl2[k].scope = scope, cl2[k].fp = f,
           k \in DOMAIN cl => k \in keep \/ cl[k].state # "active",
           \A i \in DOMAIN cl2 \ {k} : cl2[i].state = "active" => Kept(cl, cl2, i) /\ i \notin D
    PROVE  Budget(cl2)
<1> SUFFICES ASSUME NEW s \in Scope PROVE Fits(cl2, s, ActiveIn(cl2, s), 0, 0)
    BY DEF Budget
<1>1. CASE s # scope
  <2>1. /\ ActiveIn(cl2, s) \subseteq ActiveIn(cl, s)
        /\ \A i \in ActiveIn(cl2, s) : cl2[i].fp = cl[i].fp
        BY <1>1 DEF ActiveIn, Kept
  <2>2. Fits(cl, s, ActiveIn(cl, s), 0, 0)
        BY DEF Budget
  <2> QED BY <2>1, <2>2, ActiveFinite, FitsFewer
<1>2. CASE s = scope
  <2> DEFINE ids == (ActiveIn(cl, scope) \ keep) \ D
             rest == ids \intersect ActiveIn(cl2, scope)
             cl3 == [i \in DOMAIN cl \union {k} |-> IF i = k THEN cl2[k] ELSE cl[i]]
  <2>1. Fits(cl, scope, ids, 1, Tokens[f])
        BY DEF MakeRoom, Demotions
  <2>2. ids \subseteq ActiveIn(cl, scope) /\ k \notin ids
        BY DEF ActiveIn
  <2>3. IsFiniteSet(ids) /\ \A i \in ids : cl[i].fp \in Statement
        BY <2>2, ActiveFinite, FS_Subset
  <2>4. cl3[k].fp = f /\ \A i \in ids : cl3[i].fp = cl[i].fp
        BY <2>2 DEF ActiveIn
  <2> HIDE DEF ids, cl3
  <2>5. Fits(cl3, scope, ids \union {k}, 0, 0)
        BY <2>1, <2>2, <2>3, <2>4, FitsOneMore
  <2>6. IsFiniteSet(ids \union {k}) /\ \A i \in ids \union {k} : cl3[i].fp \in Statement
        BY <2>3, <2>4, FS_AddElement
  <2>7. ActiveIn(cl2, scope) \subseteq ids \union {k}
        BY DEF ids, ActiveIn, Kept
  <2>8. \A i \in ActiveIn(cl2, scope) : cl2[i].fp = cl3[i].fp
    <3> SUFFICES ASSUME NEW i \in ActiveIn(cl2, scope) PROVE cl2[i].fp = cl3[i].fp
        OBVIOUS
    <3>1. CASE i = k
          BY <3>1, <2>4
    <3>2. CASE i # k
          BY <3>2, <2>4, <2>7 DEF ActiveIn, Kept
    <3> QED BY <3>1, <3>2
  <2>9. Fits(cl2, scope, ActiveIn(cl2, scope), 0, 0)
        BY <2>5, <2>6, <2>7, <2>8, FitsFewer
  <2> QED BY <1>2, <2>9
<1> QED BY <1>1, <1>2

\* ReconcileBudget brings the scope of an import back into its budget.
LEMMA BudgetReconciled ==
    ASSUME NEW cl, NEW all, Claims(cl), Claims(all), Budget(cl), NEW scope \in Scope,
           NEW D \in ReconcileBudget(all, scope),
           \A k \in DOMAIN all : (k \in DOMAIN cl /\ all[k] = cl[k]) \/ all[k].scope = scope
    PROVE  Budget(Demote(all, D))
<1> DEFINE cl2 == Demote(all, D)
<1>1. ASSUME NEW k \in DOMAIN all
      PROVE  /\ k \in DOMAIN cl2 /\ cl2[k].scope = all[k].scope /\ cl2[k].fp = all[k].fp
             /\ cl2[k].state = "active" => k \notin D /\ all[k].state = "active"
      BY <1>1, StateSet DEF Demote, Claims, State
<1>2. DOMAIN cl2 = DOMAIN all
      BY DEF Demote
<1> HIDE DEF cl2
<1> SUFFICES ASSUME NEW s \in Scope PROVE Fits(cl2, s, ActiveIn(cl2, s), 0, 0)
    BY DEF Budget, cl2
<1>3. CASE s # scope
  <2>1. /\ ActiveIn(cl2, s) \subseteq ActiveIn(cl, s)
        /\ \A i \in ActiveIn(cl2, s) : cl2[i].fp = cl[i].fp
        BY <1>1, <1>2, <1>3 DEF ActiveIn
  <2>2. Fits(cl, s, ActiveIn(cl, s), 0, 0)
        BY DEF Budget
  <2> QED BY <2>1, <2>2, ActiveFinite, FitsFewer
<1>4. CASE s = scope
  <2> DEFINE ids == (ActiveIn(all, scope) \ {}) \ D
  <2>1. Fits(all, scope, ids, 0, 0)
        BY DEF ReconcileBudget, Demotions
  <2>2. ids \subseteq ActiveIn(all, scope)
        OBVIOUS
  <2>3. ActiveIn(cl2, scope) \subseteq ids
        BY <1>1, <1>2 DEF ActiveIn
  <2> HIDE DEF ids
  <2>4. IsFiniteSet(ids) /\ \A i \in ids : all[i].fp \in Statement
        BY <2>2, ActiveFinite, FS_Subset
  <2>5. \A i \in ActiveIn(cl2, scope) : cl2[i].fp = all[i].fp
        BY <1>1, <1>2 DEF ActiveIn
  <2>6. Fits(cl2, scope, ActiveIn(cl2, scope), 0, 0)
        BY <2>1, <2>3, <2>4, <2>5, FitsFewer
  <2> QED BY <1>4, <2>6
<1> QED BY <1>3, <1>4
-----------------------------------------------------------------------------
(* What the helpers do to a table of claims.                               *)

\* A claim that changes neither what it says nor where nor who inferred it, and keeps
\* its links, stays sound as long as it does not come into use.
LEMMA SoundKept ==
    ASSUME NEW c, NEW d, NEW obs, NEW obs2, Sound(c, obs),
           d.scope = c.scope, d.fp = c.fp, d.strength = c.strength, d.links = c.links,
           d.version = c.version, Agree(obs, obs2), c.links \subseteq DOMAIN obs2,
           d.state = "candidate" => c.strength = "soft",
           d.state = "active" => c.state = "active"
    PROVE  Sound(d, obs2)
BY DEF Sound, Inferred, StrongIn, TwoOf, Agree

LEMMA DemoteTable ==
    ASSUME NEW cl, NEW obs, Table(cl, obs), NEW D, \A k \in D : k \in DOMAIN cl => cl[k].strength = "soft"
    PROVE  /\ Table(Demote(cl, D), obs) /\ DOMAIN Demote(cl, D) = DOMAIN cl
           /\ \A k \in DOMAIN cl :
                LET d == Demote(cl, D)[k]
                IN  /\ d.scope = cl[k].scope /\ d.fp = cl[k].fp /\ d.strength = cl[k].strength
                    /\ d.links = cl[k].links /\ d.version = cl[k].version
                    /\ IF k \in D THEN d.state = "candidate" ELSE d = cl[k]
<1> DEFINE new == Demote(cl, D)
<1>1. DOMAIN new = DOMAIN cl
      BY DEF Demote
<1>2. ASSUME NEW k \in DOMAIN cl
      PROVE  /\ new[k] \in Claim
             /\ new[k].scope = cl[k].scope /\ new[k].fp = cl[k].fp /\ new[k].strength = cl[k].strength
             /\ new[k].links = cl[k].links /\ new[k].version = cl[k].version
             /\ IF k \in D THEN new[k].state = "candidate" ELSE new[k] = cl[k]
      BY <1>2, StateSet DEF Demote, Table, State
<1> HIDE DEF new
<1>3. ASSUME NEW k \in DOMAIN cl PROVE Sound(new[k], obs)
  <2>1. Sound(cl[k], obs)
        BY DEF Table
  <2>2. Agree(obs, obs) /\ cl[k].links \subseteq DOMAIN obs
        BY <2>1 DEF Agree, Sound
  <2> QED BY <1>2, <2>1, <2>2, SoundKept DEF Sound
<1>4. Table(new, obs)
      BY <1>1, <1>2, <1>3 DEF Table
<1> QED BY <1>1, <1>2, <1>4 DEF new

LEMMA SoftDemotions ==
    ASSUME NEW cl, NEW scope, NEW keep, NEW more, NEW tokens,
           NEW D \in Demotions(cl, scope, keep, more, tokens)
    PROVE  \A k \in D : k \in DOMAIN cl /\ cl[k].strength = "soft" /\ cl[k].state = "active" /\ k \notin keep
BY DEF Demotions, ActiveIn

\* The table beside more observations.
LEMMA TableMoreShown ==
    ASSUME NEW cl, NEW obs, NEW obs2, Table(cl, obs), DOMAIN obs \subseteq DOMAIN obs2, Agree(obs, obs2)
    PROVE  Table(cl, obs2)
<1> SUFFICES ASSUME NEW k \in DOMAIN cl PROVE Sound(cl[k], obs2)
    BY DEF Table
<1>1. Sound(cl[k], obs)
      BY DEF Table
<1>2. cl[k].links \subseteq DOMAIN obs2
      BY <1>1 DEF Sound
<1> QED BY <1>1, <1>2, SoundKept DEF Sound

\* The oldest of some claims is one of them, and no two are.
LEMMA OldestIsOne ==
    ASSUME NEW S, S \subseteq Nat
    PROVE  Oldest(S) \subseteq S /\ \A a, b \in Oldest(S) : a = b
<1>1. CASE S = {}
      BY <1>1 DEF Oldest
<1>2. CASE S # {}
  <2>1. \E x \in S : \A y \in S : ~(<<y, x>> \in OpToRel(<, Nat))
        BY <1>2, NatLessThanWellFounded, WFMin
  <2>2. PICK x \in S : \A y \in S : ~(y < x)
        BY <2>1 DEF OpToRel
  <2>3. \A y \in S : x =< y
        BY <2>2
  <2>4. Min(S) \in S
        BY <2>3 DEF Min
  <2> QED BY <1>2, <2>4 DEF Oldest
<1> QED BY <1>1, <1>2

\* A claim that says, in the same words, what it said.
SameWords(c, d) ==
    d.scope = c.scope /\ d.fp = c.fp /\ d.strength = c.strength /\ d.version = c.version

LEMMA LinkTable ==
    ASSUME NEW cl, NEW obs, Table(cl, obs), NEW ids, NEW o \in ObservationId, NEW strength,
           o \in DOMAIN obs, \A k \in ids : k \in DOMAIN cl => cl[k].fp = obs[o].fp
    PROVE  LET new == Link(cl, ids, o, strength)
           IN  /\ Table(new, obs) /\ DOMAIN new = DOMAIN cl
               /\ \A k \in DOMAIN cl :
                    /\ SameWords(cl[k], new[k]) /\ new[k].state = cl[k].state
                    /\ cl[k].links \subseteq new[k].links
                    /\ k \in ids => o \in new[k].links
<1> DEFINE new == Link(cl, ids, o, strength)
<1>1. DOMAIN new = DOMAIN cl
      BY DEF Link
<1>2. ASSUME NEW k \in DOMAIN cl, k \in ids
      PROVE  /\ new[k] \in Claim /\ SameWords(cl[k], new[k]) /\ new[k].state = cl[k].state
             /\ new[k].links = cl[k].links \union {o}
  <2>1. new[k] = Linked(cl[k], o, strength)
        BY <1>2 DEF Link, Linked
  <2>2. cl[k] \in Claim
        BY DEF Table
  <2> HIDE DEF new
  <2> QED BY <2>1, <2>2, LinkSet DEF SameWords
<1>3. ASSUME NEW k \in DOMAIN cl, k \notin ids PROVE new[k] = cl[k]
      BY <1>3 DEF Link
<1> HIDE DEF new
<1>4. ASSUME NEW k \in DOMAIN cl, k \in ids PROVE Sound(new[k], obs)
  <2>1. Sound(cl[k], obs) /\ cl[k].fp = obs[o].fp
        BY <1>4 DEF Table
  <2> QED BY <1>2, <1>4, <2>1 DEF Sound, SameWords, Inferred, StrongIn, TwoOf
<1>5. Table(new, obs)
      BY <1>1, <1>2, <1>3, <1>4 DEF Table
<1>6. ASSUME NEW k \in DOMAIN cl
      PROVE  /\ SameWords(cl[k], new[k]) /\ new[k].state = cl[k].state
             /\ cl[k].links \subseteq new[k].links
             /\ k \in ids => o \in new[k].links
      BY <1>2, <1>3 DEF SameWords
<1> QED BY <1>1, <1>5, <1>6 DEF new

LEMMA ContradictTable ==
    ASSUME NEW cl, NEW obs, Table(cl, obs), NEW own, NEW f, NEW o \in ObservationId
    PROVE  LET new == Contradict(cl, obs, own, f, o)
           IN  /\ Table(new, obs) /\ DOMAIN new = DOMAIN cl
               /\ \A k \in DOMAIN cl :
                    /\ SameWords(cl[k], new[k]) /\ new[k].links = cl[k].links
                    /\ new[k].state \in {cl[k].state, "contradicted"}
<1> DEFINE new == Contradict(cl, obs, own, f, o)
<1>1. CASE obs[o].strength # "contradiction"
      BY <1>1 DEF Contradict, SameWords
<1>2. CASE obs[o].strength = "contradiction"
  <2>1. PICK hit : new = [k \in DOMAIN cl |->
                            IF k \in hit
                            THEN [cl[k] EXCEPT !.state = "contradicted", !.cited = @ \union {o}]
                            ELSE cl[k]]
        BY <1>2 DEF Contradict
  <2>2. DOMAIN new = DOMAIN cl
        BY <2>1
  <2>3. ASSUME NEW k \in DOMAIN cl
        PROVE  /\ new[k] \in Claim /\ SameWords(cl[k], new[k]) /\ new[k].links = cl[k].links
               /\ new[k].state \in {cl[k].state, "contradicted"}
    <3>1. cl[k] \in Claim
          BY DEF Table
    <3>2. CASE k \in hit
      <4>1. new[k] = Contradicted(cl[k], o)
            BY <2>1, <3>2 DEF Contradicted
      <4> HIDE DEF new
      <4>2. /\ new[k] \in Claim /\ SameWords(cl[k], new[k]) /\ new[k].links = cl[k].links
            /\ new[k].state = "contradicted"
            BY <3>1, <4>1, ContradictedSet DEF SameWords
      <4> QED BY <4>2
    <3>3. CASE k \notin hit
      <4>1. new[k] = cl[k]
            BY <2>1, <3>3
      <4> HIDE DEF new
      <4> QED BY <3>1, <4>1 DEF SameWords
    <3> QED BY <3>2, <3>3
  <2> HIDE DEF new
  <2>4. ASSUME NEW k \in DOMAIN cl PROVE Sound(new[k], obs)
    <3>1. Sound(cl[k], obs)
          BY DEF Table
    <3>2. Agree(obs, obs) /\ cl[k].links \subseteq DOMAIN obs
          BY <3>1 DEF Agree, Sound
    <3> QED BY <2>3, <3>1, <3>2, SoundKept DEF Sound, SameWords
  <2>5. Table(new, obs)
        BY <2>2, <2>3, <2>4 DEF Table
  <2> QED BY <2>2, <2>3, <2>5 DEF new
<1> QED BY <1>1, <1>2

LEMMA PromoteTable ==
    ASSUME NEW cl, NEW obs, Table(cl, obs), NEW ids, NEW D, NEW o \in ObservationId,
           \A k \in D : k \in DOMAIN cl => cl[k].strength = "soft" /\ cl[k].state = "active",
           \A k \in ids : k \in DOMAIN cl => TwoOf(cl[k].links)
    PROVE  LET new == Promote(cl, ids, D, o)
           IN  /\ Table(new, obs) /\ DOMAIN new = DOMAIN cl
               /\ \A k \in DOMAIN cl :
                    /\ SameWords(cl[k], new[k]) /\ new[k].links = cl[k].links
                    /\ k \in ids => new[k].state = "active"
                    /\ k \notin ids /\ k \in D => new[k].state = "candidate" /\ cl[k].state = "active"
                    /\ k \notin ids /\ k \notin D => new[k].state = cl[k].state
<1> DEFINE new == Promote(cl, ids, D, o)
           low == Demote(cl, D)
<1>1. DOMAIN new = DOMAIN cl
      BY DEF Promote
<1>2. /\ Table(low, obs) /\ DOMAIN low = DOMAIN cl
      /\ \A k \in DOMAIN cl :
           /\ SameWords(cl[k], low[k]) /\ low[k].links = cl[k].links
           /\ IF k \in D THEN low[k].state = "candidate" ELSE low[k] = cl[k]
      BY DemoteTable DEF SameWords
<1>3. ASSUME NEW k \in DOMAIN cl, k \notin ids PROVE new[k] = low[k]
      BY <1>3 DEF Promote
<1>4. ASSUME NEW k \in DOMAIN cl, k \in ids
      PROVE  /\ new[k] \in Claim /\ SameWords(cl[k], new[k]) /\ new[k].links = cl[k].links
             /\ new[k].state = "active"
  <2>1. new[k] = Promoted(cl[k], o)
        BY <1>4 DEF Promote, Promoted
  <2>2. cl[k] \in Claim
        BY DEF Table
  <2> HIDE DEF new
  <2> QED BY <2>1, <2>2, PromotedSet DEF SameWords
<1> HIDE DEF new, low
<1>5. ASSUME NEW k \in DOMAIN cl, k \in ids PROVE Sound(new[k], obs)
  <2>1. Sound(cl[k], obs) /\ TwoOf(cl[k].links)
        BY <1>5 DEF Table
  <2> QED BY <1>4, <1>5, <2>1 DEF Sound, SameWords, Inferred, StrongIn
<1>6. Table(new, obs)
      BY <1>1, <1>2, <1>3, <1>4, <1>5 DEF Table
<1>7. ASSUME NEW k \in DOMAIN cl
      PROVE  /\ SameWords(cl[k], new[k]) /\ new[k].links = cl[k].links
             /\ k \in ids => new[k].state = "active"
             /\ k \notin ids /\ k \in D => new[k].state = "candidate" /\ cl[k].state = "active"
             /\ k \notin ids /\ k \notin D => new[k].state = cl[k].state
      BY <1>2, <1>3, <1>4
<1> QED BY <1>1, <1>6, <1>7 DEF new

\* A new candidate is a claim.
LEMMA CandidateIsClaim ==
    ASSUME NEW scope \in Scope, NEW f \in Statement, NEW n \in {5000, 7500, 9000, 10000},
           NEW links \in SUBSET ObservationId, NEW o \in ObservationId
    PROVE  LET d == Candidate(scope, f, n, links, o)
           IN  /\ d \in Claim /\ d.scope = scope /\ d.fp = f /\ d.strength = "soft"
               /\ d.state = "candidate" /\ d.version = 1 /\ d.links = links
<1>1. 1 \in 1..(MaxEvents + 1)
      BY Bounds
<1>2. FALSE \in BOOLEAN
      OBVIOUS
<1>3. Candidate(scope, f, n, links, o) \in Claim
      BY <1>1, <1>2 DEF Candidate, Claim, State
<1>4. LET d == Candidate(scope, f, n, links, o)
      IN  /\ d.scope = scope /\ d.fp = f /\ d.strength = "soft"
          /\ d.state = "candidate" /\ d.version = 1 /\ d.links = links
      BY DEF Candidate
<1> QED BY <1>3, <1>4

\* What is shown: an observation of a preference, beside the ones there are.
Shows(obs, o, f) ==
    /\ DOMAIN obs \subseteq ObservationId /\ o \in DOMAIN obs /\ obs[o].fp = f
    /\ f \in Statement

MayPropose(cl, obs, p, f, o, n, new) ==
    \/ new = cl
    \/ /\ obs[o].strength = "strong"
       /\ new = AddClaim(cl, n, Candidate(p, f, 5000, Supporting(obs, SupportIn(obs, {p}, f)), o))

HasProposed(cl, obs, p, f, n, new) ==
    /\ Table(new, obs)
    /\ DOMAIN new = DOMAIN cl \/ DOMAIN new = DOMAIN cl \union {n}
    /\ \A k \in DOMAIN cl : new[k] = cl[k]
    /\ n \in DOMAIN new =>
         /\ new[n].state = "candidate" /\ new[n].version = 1
         /\ new[n].links = Supporting(obs, SupportIn(obs, {p}, f))

\* A Project's claim is there, or a strong observation proposes one.
LEMMA ProjectClaimTable ==
    ASSUME NEW cl, NEW obs, Table(cl, obs), NEW p \in Project, NEW f, NEW o, Shows(obs, o, f),
           ProjectOf[obs[o].source[1]] = p, NEW n, n \notin DOMAIN cl, NEW new,
           MayPropose(cl, obs, p, f, o, n, new)
    PROVE  HasProposed(cl, obs, p, f, n, new)
<1> DEFINE links == Supporting(obs, SupportIn(obs, {p}, f))
           c == Candidate(p, f, 5000, links, o)
<1>1. CASE new = cl
      BY <1>1 DEF HasProposed
<1>2. CASE new # cl
  <2>1. obs[o].strength = "strong" /\ new = AddClaim(cl, n, c)
        BY <1>2 DEF MayPropose
  <2>2. links \subseteq DOMAIN obs /\ o \in links /\ \A i \in links : obs[i].fp = f
        BY <2>1 DEF Supporting, SupportIn, Shows
  <2>3. /\ c \in Claim /\ c.scope = p /\ c.fp = f /\ c.strength = "soft"
        /\ c.state = "candidate" /\ c.version = 1 /\ c.links = links
    <3>1. p \in Scope /\ f \in Statement /\ DOMAIN obs \subseteq ObservationId /\ o \in ObservationId
          BY Bounds DEF Shows
    <3> HIDE DEF links
    <3>2. links \in SUBSET ObservationId
          BY <2>2, <3>1
    <3> QED BY <3>1, <3>2, CandidateIsClaim
  <2> HIDE DEF c, links
  <2>4. Sound(c, obs)
        BY <2>1, <2>2, <2>3 DEF Sound, StrongIn
  <2>5. /\ Table(new, obs) /\ DOMAIN new = DOMAIN cl \union {n}
        /\ new[n] = c /\ \A i \in DOMAIN cl : new[i] = cl[i]
        BY <2>1, <2>3, <2>4 DEF AddClaim, Table
  <2> QED BY <2>3, <2>5 DEF links, HasProposed
<1> QED BY <1>1, <1>2

MayWiden(cl, obs, f, o, n, new) ==
    \/ new = cl
    \/ new = Link(cl, Oldest({k \in DOMAIN cl : cl[k].scope = Principal /\ cl[k].fp = f}),
                  o, obs[o].strength)
    \/ new = AddClaim(cl, n, Candidate(Principal, f, 7500, SupportIn(obs, Project, f), o))

HasWidened(cl, obs, n, new) ==
    /\ Table(new, obs)
    /\ DOMAIN new = DOMAIN cl \/ DOMAIN new = DOMAIN cl \union {n}
    /\ \A i \in DOMAIN cl : SameWords(cl[i], new[i]) /\ new[i].state = cl[i].state
    /\ \A i \in DOMAIN new \ DOMAIN cl : new[i].state = "candidate" /\ new[i].version = 1

\* The Principal's claim takes the observation, or is proposed.
LEMMA PrincipalClaimTable ==
    ASSUME NEW cl, NEW obs, Table(cl, obs), NEW f, NEW o, Shows(obs, o, f), DOMAIN cl \subseteq Nat,
           NEW n, n \notin DOMAIN cl, NEW new,
           MayWiden(cl, obs, f, o, n, new)
    PROVE  HasWidened(cl, obs, n, new)
<1> DEFINE shown == SupportIn(obs, Project, f)
           wide == {k \in DOMAIN cl : cl[k].scope = Principal /\ cl[k].fp = f}
           c == Candidate(Principal, f, 7500, shown, o)
<1>1. CASE new = cl
      BY <1>1 DEF SameWords, HasWidened
<1>2. CASE new = Link(cl, Oldest(wide), o, obs[o].strength)
  <2>1. Oldest(wide) \subseteq wide
        BY OldestIsOne
  <2>2. \A k \in Oldest(wide) : k \in DOMAIN cl => cl[k].fp = obs[o].fp
        BY <2>1 DEF Shows
  <2>3. o \in ObservationId /\ o \in DOMAIN obs
        BY DEF Shows
  <2> HIDE DEF wide
  <2>4. /\ Table(new, obs) /\ DOMAIN new = DOMAIN cl
        /\ \A k \in DOMAIN cl : SameWords(cl[k], new[k]) /\ new[k].state = cl[k].state
        BY <1>2, <2>2, <2>3, LinkTable
  <2> QED BY <2>4 DEF HasWidened
<1>3. CASE new = AddClaim(cl, n, c)
  <2>1. shown \subseteq DOMAIN obs /\ \A i \in shown : obs[i].fp = f
        BY DEF SupportIn
  <2>2. /\ c \in Claim /\ c.scope = Principal /\ c.fp = f /\ c.strength = "soft"
        /\ c.state = "candidate" /\ c.version = 1 /\ c.links = shown
    <3>1. Principal \in Scope /\ f \in Statement /\ shown \in SUBSET ObservationId /\ o \in ObservationId
          BY <2>1, Bounds DEF Shows
    <3> HIDE DEF shown
    <3> QED BY <3>1, CandidateIsClaim
  <2> HIDE DEF c, shown
  <2>3. Sound(c, obs)
        BY <2>1, <2>2, Bounds DEF Sound, Inferred
  <2>4. /\ Table(new, obs) /\ DOMAIN new = DOMAIN cl \union {n}
        /\ new[n] = c /\ \A i \in DOMAIN cl : new[i] = cl[i]
        BY <1>3, <2>2, <2>3 DEF AddClaim, Table
  <2> QED BY <2>2, <2>4 DEF SameWords, HasWidened
<1> QED BY <1>1, <1>2, <1>3 DEF MayWiden

\* Two Commissions take two observations.
LEMMA TwoCommissions ==
    ASSUME NEW obs, NEW ids, Cardinality(CommissionsIn(obs, ids)) >= 2
    PROVE  TwoOf(ids)
<1> SUFFICES ASSUME ~TwoOf(ids) PROVE FALSE
    OBVIOUS
<1>1. CASE ids = {}
  <2>1. CommissionsIn(obs, ids) = {}
        BY <1>1 DEF CommissionsIn
  <2> QED BY <2>1, FS_EmptySet
<1>2. CASE ids # {}
  <2>1. PICK a : a \in ids
        BY <1>2
  <2>2. ids = {a}
        BY <2>1 DEF TwoOf
  <2>3. CommissionsIn(obs, ids) = {<<obs[a].source, obs[a].at>>}
        BY <2>2 DEF CommissionsIn
  <2>4. Cardinality(CommissionsIn(obs, ids)) = 1
        BY <2>3, FS_Singleton
  <2> QED BY <2>4
<1> QED BY <1>1, <1>2
-----------------------------------------------------------------------------
(* Steps of the store.                                                     *)

LEMMA KnownIds ==
    ASSUME IndInv
    PROVE  /\ created.claims \in Nat /\ created.observations \in Nat
           /\ NextClaim \in Nat /\ NextClaim \notin DOMAIN claims /\ NextClaim + 1 \notin DOMAIN claims
           /\ NextObservation \notin DOMAIN observations
           /\ DOMAIN claims \subseteq ClaimId /\ DOMAIN claims \subseteq Nat
           /\ DOMAIN observations \subseteq ObservationId /\ Claims(claims)
           /\ \A n \in 1..Len(bundles) : NextObservation \notin DOMAIN bundles[n].observations
<1>1. /\ created.claims \in 0..MaxClaims /\ created.observations \in 0..MaxObservations
      /\ DOMAIN claims \subseteq 1..created.claims
      /\ DOMAIN observations \subseteq 1..created.observations
      /\ \A n \in 1..Len(bundles) : DOMAIN bundles[n].observations \subseteq 1..created.observations
      BY DEF IndInv, TypeOK, BundlesSound
<1>2. /\ created.claims \in Nat /\ created.claims <= MaxClaims
      /\ created.observations \in Nat /\ created.observations <= MaxObservations
      BY <1>1, Bounds
<1>3. /\ NextClaim \in Nat /\ NextClaim \notin DOMAIN claims /\ NextClaim + 1 \notin DOMAIN claims
      /\ NextObservation \notin DOMAIN observations
      /\ \A n \in 1..Len(bundles) : NextObservation \notin DOMAIN bundles[n].observations
      BY <1>1, <1>2 DEF NextClaim, NextObservation
<1>4. /\ 1..created.claims \subseteq 1..MaxClaims /\ 1..created.claims \subseteq Nat
      /\ 1..created.observations \subseteq 1..MaxObservations
      BY <1>2, Bounds
<1>5. IsFiniteSet(DOMAIN claims)
  <2>1. IsFiniteSet(1..created.claims)
        BY <1>2, FS_Interval, SMTT(30)
  <2> QED BY <1>1, <2>1, FS_Subset
<1>6. Claims(claims)
      BY <1>5 DEF Claims, IndInv, TypeOK
<1> QED BY <1>1, <1>2, <1>3, <1>4, <1>6 DEF ClaimId, ObservationId

\* An observation joins the ones there are.
LEMMA ObserveShows ==
    ASSUME IndInv, NEW c \in Commission, NEW f \in Statement, NEW s \in Strength, Observe(c, f, s)
    PROVE  LET o == NextObservation
           IN  /\ o \in ObservationId /\ o \notin DOMAIN observations
               /\ DOMAIN observations' = DOMAIN observations \union {o}
               /\ observations'[o] = [source |-> <<c, installs>>, at |-> 0, fp |-> f, strength |-> s]
               /\ \A i \in DOMAIN observations : observations'[i] = observations[i]
               /\ Shows(observations', o, f) /\ ProjectOf[observations'[o].source[1]] = ProjectOf[c]
               /\ Table(claims, observations')
<1> DEFINE o == NextObservation
<1>1. /\ o \in ObservationId
      /\ observations' = AddClaim(observations, o,
                           [source |-> <<c, installs>>, at |-> 0, fp |-> f, strength |-> s])
      BY DEF Observe
<1>2. o \notin DOMAIN observations /\ DOMAIN observations \subseteq ObservationId
      BY KnownIds
<1> HIDE DEF o
<1>3. /\ DOMAIN observations' = DOMAIN observations \union {o}
      /\ observations'[o] = [source |-> <<c, installs>>, at |-> 0, fp |-> f, strength |-> s]
      /\ \A i \in DOMAIN observations : observations'[i] = observations[i]
      BY <1>1, <1>2 DEF AddClaim
<1>4. Shows(observations', o, f) /\ ProjectOf[observations'[o].source[1]] = ProjectOf[c]
      BY <1>1, <1>2, <1>3 DEF Shows
<1>5. Agree(observations, observations')
      BY <1>3 DEF Agree
<1>6. Table(claims, observations')
      BY <1>3, <1>5, TableMoreShown DEF IndInv
<1> QED BY <1>1, <1>2, <1>3, <1>4, <1>6 DEF o

\* What an observation does to the claims, in the order it does it: cl1 with a claim of
\* the Project, cl2 linked and contradicted, cl3 promoted, and then the Principal's.
LEMMA ObserveClaims ==
    ASSUME IndInv, NEW c \in Commission, NEW f \in Statement, NEW s \in Strength, Observe(c, f, s)
    PROVE  /\ Table(claims', observations') /\ Budget(claims')
           /\ DOMAIN claims \subseteq DOMAIN claims'
           /\ DOMAIN claims' \subseteq DOMAIN claims \union {NextClaim, NextClaim + 1}
           /\ NextClaim + 1 \in DOMAIN claims' => NextClaim \in DOMAIN claims'
           /\ \A k \in DOMAIN claims :
                /\ SameWords(claims[k], claims'[k])
                /\ claims[k].state \in {"suppressed", "contradicted"} =>
                     claims'[k].state \notin {"candidate", "active"}
           /\ \A k \in DOMAIN claims' \ DOMAIN claims : claims'[k].version = 1
           /\ \A k \in DOMAIN claims' : claims'[k].state = "active" =>
                \/ k \in DOMAIN claims /\ claims[k].state = "active"
                \/ claims'[k].scope = ProjectOf[c] /\ claims'[k].fp = f
<1> DEFINE p   == ProjectOf[c]
           o   == NextObservation
           obs == observations'
           cl1 == WithProjectClaim(claims, obs, p, f, o)
           own == ProjectClaim(cl1, p, f)
           cl1l == Link(cl1, own, o, s)
           cl2 == Contradict(cl1l, obs, own, f, o)
           up  == Promotable(cl2, obs, own, p, f)
<1>1. /\ p \in Project
      /\ \E D \in IF up = {} THEN {{}} ELSE MakeRoom(cl2, p, f, {}) :
            claims' = WithPrincipalClaim(Promote(cl2, up, D, o), obs, f, o)
      BY DEF Observe
<1>3. /\ o \in ObservationId /\ o \notin DOMAIN observations
      /\ DOMAIN obs = DOMAIN observations \union {o}
      /\ \A i \in DOMAIN observations : obs[i] = observations[i]
      /\ Shows(obs, o, f) /\ ProjectOf[obs[o].source[1]] = p /\ Table(claims, obs)
      BY ObserveShows
<1>4. PICK N : N = NextClaim
      OBVIOUS
<1>40. /\ N \in Nat /\ N \notin DOMAIN claims /\ N + 1 \notin DOMAIN claims
      /\ DOMAIN claims \subseteq Nat /\ Claims(claims)
      BY <1>4, KnownIds
<1> HIDE DEF p, o, obs
<1>5. /\ Table(cl1, obs)
      /\ DOMAIN cl1 = DOMAIN claims \/ DOMAIN cl1 = DOMAIN claims \union {N}
      /\ \A k \in DOMAIN claims : cl1[k] = claims[k]
      /\ N \in DOMAIN cl1 =>
           /\ cl1[N].state = "candidate" /\ cl1[N].version = 1
           /\ cl1[N].links = Supporting(obs, SupportIn(obs, {p}, f))
  <2>1. p \in Project
        BY <1>1
  <2>2. MayPropose(claims, obs, p, f, o, N, cl1)
        BY <1>4 DEF WithProjectClaim, MayPropose
  <2> HIDE DEF cl1
  <2>3. HasProposed(claims, obs, p, f, N, cl1)
        BY <1>3, <1>40, <2>1, <2>2, ProjectClaimTable
  <2> QED BY <2>3 DEF HasProposed
<1> HIDE DEF cl1
<1>6. /\ \A k \in own : k \in DOMAIN cl1 /\ cl1[k].scope = p /\ cl1[k].fp = f
      /\ \A a, b \in own : a = b
  <2> DEFINE S == {k \in DOMAIN cl1 : cl1[k].scope = p /\ cl1[k].fp = f}
  <2>1. S \subseteq Nat
        BY <1>40, <1>5
  <2>2. own = Oldest(S)
        BY DEF ProjectClaim
  <2> QED BY <2>1, <2>2, OldestIsOne, ZenonT(40)
<1> HIDE DEF own
<1>7. /\ Table(cl1l, obs) /\ DOMAIN cl1l = DOMAIN cl1
      /\ \A k \in DOMAIN cl1 :
           /\ SameWords(cl1[k], cl1l[k]) /\ cl1l[k].state = cl1[k].state
           /\ cl1[k].links \subseteq cl1l[k].links
           /\ k \in own => o \in cl1l[k].links
  <2>1. o \in DOMAIN obs /\ \A k \in own : k \in DOMAIN cl1 => cl1[k].fp = obs[o].fp
        BY <1>3, <1>6 DEF Shows
  <2> QED BY <1>3, <1>5, <2>1, LinkTable
<1> HIDE DEF cl1l
<1>8. /\ Table(cl2, obs) /\ DOMAIN cl2 = DOMAIN cl1
      /\ \A k \in DOMAIN cl1 :
           /\ SameWords(cl1l[k], cl2[k]) /\ cl2[k].links = cl1l[k].links
           /\ cl2[k].state \in {cl1l[k].state, "contradicted"}
      BY <1>3, <1>7, ContradictTable
<1> HIDE DEF cl2
<1>9. \A k \in DOMAIN cl1 :
         /\ SameWords(cl1[k], cl2[k]) /\ cl1[k].links \subseteq cl2[k].links
         /\ k \in own => o \in cl2[k].links
         /\ cl2[k].state \in {cl1[k].state, "contradicted"}
      BY <1>7, <1>8 DEF SameWords
<1>10. \A k \in up : /\ k \in own /\ k \in DOMAIN cl2 /\ cl2[k].state = "candidate"
                     /\ cl2[k].scope = p /\ cl2[k].fp = f
      BY <1>6, <1>8, <1>9 DEF Promotable, SameWords
<1>11. ASSUME NEW k \in up PROVE TwoOf(cl2[k].links)
  <2>1. CASE k \in DOMAIN claims
    <3>1. cl2[k].strength = "soft"
          BY <1>8, <1>10 DEF Table, Sound
    <3>2. Inferred(claims[k])
          BY <1>1, <1>5, <1>9, <1>10, <2>1, <3>1 DEF Inferred, SameWords
    <3>3. Sound(claims[k], observations)
          BY <2>1 DEF IndInv, Table
    <3>4. PICK a \in claims[k].links : a \in DOMAIN observations
          BY <3>2, <3>3 DEF Sound, StrongIn
    <3>5. a \in cl2[k].links /\ o \in cl2[k].links /\ a # o
          BY <1>3, <1>5, <1>9, <1>10, <2>1, <3>4
    <3> QED BY <3>5 DEF TwoOf
  <2>2. CASE k \notin DOMAIN claims
    <3>1. k = N /\ cl1[k].links = Supporting(obs, SupportIn(obs, {p}, f))
          BY <1>5, <1>8, <1>10, <2>2
    <3>2. /\ Cardinality(CommissionsIn(obs, SupportIn(obs, {p}, f))) >= 2
          /\ SupportIn(obs, {p}, f) = Supporting(obs, SupportIn(obs, {p}, f))
          BY <1>11 DEF Promotable, IsMaterial
    <3>3. TwoOf(SupportIn(obs, {p}, f))
          BY <3>2, TwoCommissions
    <3>4. SupportIn(obs, {p}, f) \subseteq cl2[k].links
          BY <1>8, <1>9, <1>10, <3>1, <3>2
    <3> QED BY <3>3, <3>4 DEF TwoOf
  <2> QED BY <2>1, <2>2
<1>2. PICK D \in IF up = {} THEN {{}} ELSE MakeRoom(cl2, p, f, {}) :
            claims' = WithPrincipalClaim(Promote(cl2, up, D, o), obs, f, o)
      BY <1>1
<1> DEFINE cl3 == Promote(cl2, up, D, o)
<1>12. \A k \in D : k \in DOMAIN cl2 /\ cl2[k].strength = "soft" /\ cl2[k].state = "active"
  <2>1. CASE up = {}
        BY <2>1
  <2>2. CASE up # {}
        BY <2>2, SoftDemotions DEF MakeRoom
  <2> QED BY <2>1, <2>2
<1>13. /\ \A a, b \in up : a = b
       /\ up # {} => D \in MakeRoom(cl2, p, f, {})
      BY <1>6, <1>10
<1> HIDE DEF up
<1>14. /\ Table(cl3, obs) /\ DOMAIN cl3 = DOMAIN cl2
       /\ \A k \in DOMAIN cl2 :
            /\ SameWords(cl2[k], cl3[k]) /\ cl3[k].links = cl2[k].links
            /\ k \in up => cl3[k].state = "active"
            /\ k \notin up /\ k \in D => cl3[k].state = "candidate" /\ cl2[k].state = "active"
            /\ k \notin up /\ k \notin D => cl3[k].state = cl2[k].state
      BY <1>3, <1>8, <1>11, <1>12, PromoteTable
<1> HIDE DEF cl3
<1>15. /\ Table(claims', obs)
       /\ \/ DOMAIN claims' = DOMAIN cl3
          \/ DOMAIN claims' = DOMAIN cl3 \union {IF N \in DOMAIN cl3 THEN N + 1 ELSE N}
       /\ \A i \in DOMAIN cl3 : SameWords(cl3[i], claims'[i]) /\ claims'[i].state = cl3[i].state
       /\ \A i \in DOMAIN claims' \ DOMAIN cl3 :
             claims'[i].state = "candidate" /\ claims'[i].version = 1
  <2>1. N + 1 \notin DOMAIN cl3 /\ DOMAIN cl3 \subseteq Nat
        BY <1>40, <1>5, <1>8, <1>14
  <2>2. claims' = WithPrincipalClaim(cl3, obs, f, o)
        BY <1>2 DEF cl3
  <2>3. PICK n : n = IF N \in DOMAIN cl3 THEN N + 1 ELSE N
        OBVIOUS
  <2>4. MayWiden(cl3, obs, f, o, n, claims') /\ n \notin DOMAIN cl3
        BY <1>4, <2>1, <2>2, <2>3 DEF WithPrincipalClaim, MayWiden
  <2>5. HasWidened(cl3, obs, n, claims')
        BY <1>3, <1>14, <2>1, <2>4, PrincipalClaimTable
  <2> QED BY <2>3, <2>5 DEF HasWidened
<1>16. ASSUME NEW k \in DOMAIN claims
       PROVE  /\ k \in DOMAIN claims' /\ SameWords(claims[k], claims'[k])
              /\ claims[k].state \in {"suppressed", "contradicted"} =>
                   claims'[k].state \notin {"candidate", "active"}
  <2>1. /\ k \in DOMAIN cl1 /\ k \in DOMAIN cl2 /\ k \in DOMAIN cl3 /\ k \in DOMAIN claims'
        /\ cl1[k] = claims[k]
        BY <1>5, <1>8, <1>14, <1>15
  <2>2. SameWords(claims[k], claims'[k])
        BY <1>9, <1>14, <1>15, <2>1 DEF SameWords
  <2>3. ASSUME claims[k].state \in {"suppressed", "contradicted"}
        PROVE  claims'[k].state \notin {"candidate", "active"}
    <3>1. cl2[k].state \in {"suppressed", "contradicted"}
          BY <1>9, <2>1, <2>3
    <3>2. k \notin up /\ k \notin D
          BY <1>10, <1>12, <3>1
    <3> QED BY <1>14, <1>15, <2>1, <3>1, <3>2
  <2> QED BY <2>1, <2>2, <2>3
<1>17. ASSUME NEW k \in DOMAIN claims' \ DOMAIN claims PROVE claims'[k].version = 1
  <2>1. CASE k \in DOMAIN cl3
    <3>1. k = N /\ k \in DOMAIN cl1 /\ k \in DOMAIN cl2
          BY <1>5, <1>8, <1>14, <1>17, <2>1
    <3> QED BY <1>5, <1>9, <1>14, <1>15, <2>1, <3>1 DEF SameWords
  <2>2. CASE k \notin DOMAIN cl3
        BY <1>15, <1>17, <2>2
  <2> QED BY <2>1, <2>2
<1>18. ASSUME NEW k \in DOMAIN claims', claims'[k].state = "active", k \notin up
       PROVE  /\ k \in DOMAIN claims /\ claims[k].state = "active" /\ SameWords(claims[k], claims'[k])
              /\ k \in DOMAIN cl2 /\ cl2[k].state = "active" /\ k \notin D /\ SameWords(cl2[k], claims'[k])
  <2>1. k \in DOMAIN cl3 /\ cl3[k].state = "active"
        BY <1>15, <1>18
  <2>2. k \notin D /\ k \in DOMAIN cl2 /\ cl2[k].state = "active"
        BY <1>14, <1>18, <2>1
  <2>3. k \in DOMAIN cl1 /\ cl1[k].state = "active"
        BY <1>8, <1>9, <2>2
  <2>4. k \in DOMAIN claims /\ claims[k].state = "active"
        BY <1>5, <2>3
  <2>5. SameWords(cl2[k], claims'[k])
        BY <1>14, <1>15, <2>1, <2>2 DEF SameWords
  <2> QED BY <1>16, <2>2, <2>4, <2>5
<1>19. ASSUME NEW k \in up
       PROVE  k \in DOMAIN claims' /\ claims'[k].scope = p /\ claims'[k].fp = f
      BY <1>10, <1>14, <1>15 DEF SameWords
<1>20. Claims(cl2)
  <2>1. IsFiniteSet(DOMAIN cl2)
        BY <1>40, <1>5, <1>8, FS_AddElement DEF Claims
  <2> QED BY <1>8, <2>1 DEF Claims, Table
<1>21. Budget(cl2)
  <2>1. Budget(claims)
        BY DEF IndInv, BudgetKept, Budget
  <2>2. ASSUME NEW k \in DOMAIN cl2, cl2[k].state = "active" PROVE Kept(claims, cl2, k)
        BY <1>5, <1>8, <1>9, <2>2 DEF Kept, SameWords
  <2> QED BY <1>40, <2>1, <2>2, BudgetFewer
<1>22. Budget(claims')
  <2>1. ASSUME NEW k \in DOMAIN claims', claims'[k].state = "active", k \notin up
        PROVE  Kept(cl2, claims', k) /\ k \notin D
        BY <1>18, <2>1 DEF Kept, SameWords
  <2>2. CASE up = {}
        BY <1>20, <1>21, <2>1, <2>2, BudgetFewer
  <2>3. CASE up # {}
    <3>1. PICK k : k \in up
          BY <2>3
    <3>2. up = {k}
          BY <1>13, <3>1
    <3>3. D \in MakeRoom(cl2, p, f, {}) /\ p \in Scope
          BY <1>1, <1>13, <2>3, Bounds
    <3>4. \A i \in DOMAIN claims' \ {k} :
             claims'[i].state = "active" => Kept(cl2, claims', i) /\ i \notin D
          BY <2>1, <3>2
    <3>5. /\ k \in DOMAIN claims' /\ claims'[k].scope = p /\ claims'[k].fp = f
          /\ k \in DOMAIN cl2 /\ cl2[k].state # "active"
          BY <1>10, <1>19, <3>1
    <3> QED BY <1>20, <1>21, <3>3, <3>4, <3>5, BudgetRoom
  <2> QED BY <2>2, <2>3
<1>23. /\ DOMAIN claims' \subseteq DOMAIN claims \union {N, N + 1}
       /\ N + 1 \in DOMAIN claims' => N \in DOMAIN claims'
      BY <1>40, <1>5, <1>8, <1>14, <1>15
<1>24. \A k \in DOMAIN claims' : claims'[k].state = "active" =>
                \/ k \in DOMAIN claims /\ claims[k].state = "active"
                \/ claims'[k].scope = p /\ claims'[k].fp = f
      BY <1>18, <1>19
<1> QED BY <1>4, <1>15, <1>16, <1>17, <1>22, <1>23, <1>24 DEF p, obs
-----------------------------------------------------------------------------
(* Every step keeps the invariant.                                         *)

\* The small state beside claims, observations and bundles.
Ranges ==
    /\ created \in [claims : 0..MaxClaims, observations : 0..MaxObservations]
    /\ events \in 0..MaxEvents /\ installs \in 0..events
    /\ boundaries \subseteq Boundary /\ receipts \subseteq (1..MaxEvents) \X Scope
    /\ pinned \subseteq material /\ material \subseteq Terminal /\ aged \in BOOLEAN

\* Identifiers and events only grow.
Grows ==
    /\ events <= events' /\ created.claims <= created'.claims
    /\ created.observations <= created'.observations

LEMMA RangesOf == ASSUME IndInv PROVE Ranges
BY DEF IndInv, TypeOK, Counters, Ranges

Versioned(cl, e) == \A k \in DOMAIN cl : cl[k].version <= e + 1

\* What the store holds, as far as it does not concern bundles.
Holding ==
    /\ Table(claims, observations) /\ Budget(claims) /\ Versioned(claims, events)
    /\ DOMAIN claims \subseteq 1..created.claims
    /\ DOMAIN observations \subseteq 1..created.observations
    /\ \A o \in DOMAIN observations : observations[o] \in Observation
    /\ ShownOnce(observations)

LEMMA HoldingOf == ASSUME IndInv PROVE Holding
BY DEF IndInv, TypeOK, Counters, Holding, Budget, BudgetKept, Versioned

LEMMA TypesOf == ASSUME Ranges, Holding PROVE TypeOK /\ BudgetKept
<1>1. \A k \in DOMAIN claims : claims[k] \in Claim /\ claims[k].links \subseteq DOMAIN observations
      BY DEF Holding, Table, Sound
<1>2. events \in 0..MaxEvents /\ installs \in 0..MaxEvents
      BY Bounds DEF Ranges
<1>3. created.claims \in 0..MaxClaims /\ created.observations \in 0..MaxObservations
      BY DEF Ranges
<1>4. BudgetKept
      BY DEF Holding, Budget, BudgetKept
<1> QED BY <1>1, <1>2, <1>3, <1>4 DEF TypeOK, Ranges, Holding

LEMMA TypesAfter == ASSUME Ranges', Holding' PROVE TypeOK' /\ BudgetKept'
<1>1. \A k \in DOMAIN claims' : claims'[k] \in Claim /\ claims'[k].links \subseteq DOMAIN observations'
      BY DEF Holding, Table, Sound
<1>2. events' \in 0..MaxEvents /\ installs' \in 0..MaxEvents
      BY Bounds DEF Ranges
<1>3. created'.claims \in 0..MaxClaims /\ created'.observations \in 0..MaxObservations
      BY DEF Ranges
<1>4. BudgetKept'
      BY DEF Holding, Budget, BudgetKept
<1> QED BY <1>1, <1>2, <1>3, <1>4 DEF TypeOK, Ranges, Holding

\* A step that makes no bundle.
LEMMA NoNewBundle ==
    ASSUME IndInv, Ranges', Holding', Grows, UNCHANGED bundles,
           \A n \in 1..Len(bundles) : Agree(observations', bundles[n].observations)
    PROVE  IndInv'
<1>1. TypeOK' /\ BudgetKept'
      BY TypesAfter
<1>2. Table(claims', observations') /\ ShownOnce(observations')
      BY DEF Holding
<1>3. events \in Nat /\ events' \in Nat /\ created.claims \in Nat /\ created'.claims \in Nat
      /\ created.observations \in Nat /\ created'.observations \in Nat
      BY RangesOf, Bounds DEF Ranges
<1>4. Counters'
  <2>1. /\ bundles' \in Seq({bundles'[n] : n \in DOMAIN bundles'}) /\ Len(bundles') <= events
        BY DEF IndInv, Counters
  <2>2. Len(bundles') <= events'
    <3>1. Len(bundles') \in Nat
          BY <2>1
    <3> QED BY <1>3, <2>1, <3>1 DEF Grows
  <2>3. \A k \in DOMAIN claims' : claims'[k].version <= events' + 1
        BY DEF Holding, Versioned
  <2>4. ASSUME NEW n \in 1..Len(bundles'), NEW k \in DOMAIN bundles'[n].claims
        PROVE  bundles'[n].claims[k].version <= events' + 1
    <3>1. bundles[n].claims[k].version <= events + 1
          BY DEF IndInv, Counters
    <3>2. bundles[n].claims[k].version \in 1..(MaxEvents + 1)
          BY ClaimFields DEF IndInv, BundlesSound, Table
    <3> QED BY <1>3, <3>1, <3>2 DEF Grows
  <2> QED BY <2>1, <2>2, <2>3, <2>4 DEF Counters, Ranges
<1>5. BundlesSound'
  <2>1. 1..created.claims \subseteq 1..created'.claims /\ 1..created.observations \subseteq 1..created'.observations
        BY <1>3 DEF Grows
  <2> QED BY <2>1 DEF IndInv, BundlesSound
<1>6. SameHistory'
      BY DEF IndInv, SameHistory
<1> QED BY <1>1, <1>2, <1>4, <1>5, <1>6 DEF IndInv

\* A step that shows nothing new.
LEMMA NothingShown ==
    ASSUME IndInv, Ranges', Grows, UNCHANGED <<bundles, observations>>,
           Table(claims', observations), Budget(claims'), Versioned(claims', events'),
           DOMAIN claims' \subseteq 1..created'.claims
    PROVE  IndInv'
<1>1. Holding
      BY HoldingOf
<1>2. 1..created.observations \subseteq 1..created'.observations
      BY RangesOf, Bounds DEF Ranges, Grows
<1>3. Holding'
      BY <1>1, <1>2 DEF Holding
<1>4. \A n \in 1..Len(bundles) : Agree(observations', bundles[n].observations)
      BY DEF IndInv, SameHistory
<1> QED BY <1>3, <1>4, NoNewBundle

\* A claim that is not in use does not come into use, and one that was given up stays so.
Calm(c, d) ==
    /\ SameWords(c, d)
    /\ d.state = "active" => c.state = "active"
    /\ c.state \in {"suppressed", "contradicted"} => d.state \notin {"candidate", "active"}

\* Room is made for one claim k, and the rest is left as it is or demoted.
Activates(cl, cl2, obs, k, scope, f, keep) ==
    \E D \in MakeRoom(cl, scope, f, keep) :
       /\ DOMAIN cl2 = DOMAIN cl \union {k}
       /\ \A i \in DOMAIN cl \ {k} : cl2[i] = Demote(cl, D)[i]
       /\ cl2[k] \in Claim /\ Sound(cl2[k], obs)
       /\ cl2[k].scope = scope /\ cl2[k].fp = f

\* What that leads to.
Activated(cl, cl2, obs, k) ==
    /\ Table(cl2, obs) /\ Budget(cl2)
    /\ DOMAIN cl2 = DOMAIN cl \union {k}
    /\ \A i \in DOMAIN cl2 \ {k} : i \in DOMAIN cl /\ Calm(cl[i], cl2[i])

LEMMA ActivatesOne ==
    ASSUME NEW cl, NEW cl2, NEW obs, NEW k, NEW scope \in Scope, NEW f \in Statement, NEW keep,
           Table(cl, obs), Budget(cl), Claims(cl), keep \subseteq {k},
           k \in DOMAIN cl => k \in keep \/ cl[k].state # "active",
           Activates(cl, cl2, obs, k, scope, f, keep)
    PROVE  Activated(cl, cl2, obs, k)
<1>1. PICK D \in MakeRoom(cl, scope, f, keep) :
         /\ DOMAIN cl2 = DOMAIN cl \union {k}
         /\ \A i \in DOMAIN cl \ {k} : cl2[i] = Demote(cl, D)[i]
         /\ cl2[k] \in Claim /\ Sound(cl2[k], obs)
         /\ cl2[k].scope = scope /\ cl2[k].fp = f
      BY DEF Activates
<1>2. \A i \in D : i \in DOMAIN cl /\ cl[i].strength = "soft" /\ cl[i].state = "active"
      BY SoftDemotions DEF MakeRoom
<1> DEFINE low == Demote(cl, D)
<1>4. /\ Table(low, obs) /\ DOMAIN low = DOMAIN cl
      /\ \A i \in DOMAIN cl :
           /\ low[i].scope = cl[i].scope /\ low[i].fp = cl[i].fp
           /\ low[i].strength = cl[i].strength
           /\ low[i].links = cl[i].links /\ low[i].version = cl[i].version
           /\ IF i \in D THEN low[i].state = "candidate" ELSE low[i] = cl[i]
      BY <1>2, DemoteTable
<1> HIDE DEF low
<1>5. \A i \in DOMAIN cl \ {k} : cl2[i] = low[i]
      BY <1>1 DEF low
<1>6. Table(cl2, obs)
      BY <1>1, <1>4, <1>5 DEF Table
<1>7. ASSUME NEW i \in DOMAIN cl2 \ {k}
      PROVE  i \in DOMAIN cl /\ Calm(cl[i], cl2[i]) /\ (cl2[i].state = "active" => i \notin D)
  <2>1. i \in DOMAIN cl /\ cl2[i] = low[i]
        BY <1>1, <1>5, <1>7
  <2>2. CASE i \in D
        BY <1>2, <1>4, <2>1, <2>2 DEF Calm, SameWords
  <2>3. CASE i \notin D
        BY <1>4, <2>1, <2>3 DEF Calm, SameWords
  <2> QED BY <2>1, <2>2, <2>3
<1>8. \A i \in DOMAIN cl2 \ {k} :
         cl2[i].state = "active" => Kept(cl, cl2, i) /\ i \notin D
      BY <1>7 DEF Calm, SameWords, Kept
<1>9. Budget(cl2)
  <2>1. k \in DOMAIN cl2 /\ cl2[k].scope = scope /\ cl2[k].fp = f
        BY <1>1
  <2> QED BY <1>8, <2>1, BudgetRoom
<1> QED BY <1>1, <1>6, <1>7, <1>9 DEF Activated

LEMMA EventCounts ==
    ASSUME IndInv, Event
    PROVE  events \in Nat /\ events' = events + 1 /\ events' \in 0..MaxEvents /\ events' \in 1..MaxEvents
           /\ events <= events' /\ 0..events \subseteq 0..events'
BY RangesOf, Bounds DEF Ranges, Event

LEMMA CreateClaimEffects ==
    ASSUME IndInv, NEW c \in Commission, NEW f \in Statement, CreateClaim(c, f)
    PROVE  /\ Activates(claims, claims', observations, NextClaim, ProjectOf[c], f, {}) /\ claims'[NextClaim].version = 1
           /\ ~Blocked(boundaries, f, ProjectOf[c], {})
           /\ NextClaim \in ClaimId
           /\ created' = [created EXCEPT !.claims = @ + 1]
           /\ UNCHANGED <<observations, elsewhere, events>>
<1> DEFINE claim == [scope |-> ProjectOf[c], fp |-> f, strength |-> "hard", state |-> "active",
                     confidence |-> 10000, version |-> 1, stale |-> FALSE, links |-> {}, cited |-> {}]
<1>1. PICK D \in MakeRoom(claims, ProjectOf[c], f, {}) :
          claims' = AddClaim(Demote(claims, D), NextClaim, claim)
      BY DEF CreateClaim
<1>2. ProjectOf[c] \in Scope /\ 1 \in 1..(MaxEvents + 1)
      BY Bounds
<1>3. claim \in Claim
      BY <1>2 DEF Claim, State
<1>4. /\ claim.scope = ProjectOf[c] /\ claim.fp = f /\ claim.strength = "hard"
      /\ claim.state = "active" /\ claim.version = 1 /\ claim.links = {}
      OBVIOUS
<1> HIDE DEF claim
<1>5. Sound(claim, observations)
      BY <1>4 DEF Sound, Inferred
<1>6. PICK N : N = NextClaim
      OBVIOUS
<1>7. N \notin DOMAIN claims
      BY <1>6, KnownIds
<1>8. DOMAIN Demote(claims, D) = DOMAIN claims
      BY DEF Demote
<1>9. /\ DOMAIN claims' = DOMAIN claims \union {N}
      /\ \A i \in DOMAIN claims \ {N} : claims'[i] = Demote(claims, D)[i]
      /\ claims'[N] = claim
      BY <1>1, <1>6, <1>7, <1>8 DEF AddClaim
<1>10. Activates(claims, claims', observations, N, ProjectOf[c], f, {}) /\ claims'[N].version = 1
      BY <1>3, <1>4, <1>5, <1>9 DEF Activates
<1> QED BY <1>6, <1>10 DEF CreateClaim

LEMMA CreateClaimKeeps ==
    ASSUME IndInv, NEW c \in Commission, NEW f \in Statement, CreateClaim(c, f)
    PROVE  IndInv'
<1>1. PICK N : N = NextClaim
      OBVIOUS
<1>2. /\ Activates(claims, claims', observations, N, ProjectOf[c], f, {}) /\ claims'[N].version = 1 /\ N \in ClaimId
      /\ created' = [created EXCEPT !.claims = @ + 1]
      /\ UNCHANGED <<observations, elsewhere, events>>
      BY <1>1, CreateClaimEffects
<1>3. N \notin DOMAIN claims /\ ProjectOf[c] \in Scope
      BY <1>1, KnownIds, Bounds
<1>4. Activated(claims, claims', observations, N)
  <2>1. Table(claims, observations) /\ Budget(claims) /\ Claims(claims)
        BY HoldingOf, KnownIds DEF Holding
  <2> QED BY <1>2, <1>3, <2>1, ActivatesOne
<1>5. Ranges /\ Holding
      BY RangesOf, HoldingOf
<1>6. /\ created' \in [claims : 0..MaxClaims, observations : 0..MaxObservations]
      /\ created'.claims = N /\ created'.observations = created.observations
      /\ created.claims <= created'.claims
      BY <1>1, <1>2, <1>5, Bounds DEF Ranges, NextClaim, ClaimId
<1>7. Ranges' /\ Grows
      BY <1>2, <1>5, <1>6, Bounds DEF Ranges, Grows, elsewhere
<1>8. Versioned(claims', events')
  <2>1. events \in Nat
        BY <1>5, Bounds DEF Ranges
  <2> QED BY <1>2, <1>4, <1>5, <2>1 DEF Versioned, Holding, Activated, Calm, SameWords
<1>9. DOMAIN claims' \subseteq 1..created'.claims
  <2>1. DOMAIN claims' = DOMAIN claims \union {N}
        BY <1>4 DEF Activated
  <2>2. N \in Nat /\ N = created.claims + 1 /\ created.claims \in Nat
        BY <1>1, KnownIds DEF NextClaim
  <2> QED BY <1>5, <1>6, <2>1, <2>2 DEF Holding
<1> QED BY <1>2, <1>4, <1>7, <1>8, <1>9, NothingShown DEF elsewhere, Activated

\* A step that changes claims where they are, and nothing they rest on.
LEMMA InPlace ==
    ASSUME IndInv, Ranges', events <= events', UNCHANGED <<bundles, observations, created>>,
           Table(claims', observations), Budget(claims'), Versioned(claims', events'),
           DOMAIN claims' \subseteq DOMAIN claims
    PROVE  IndInv'
<1>1. Grows
      BY RangesOf, Bounds DEF Ranges, Grows
<1>2. DOMAIN claims' \subseteq 1..created'.claims
      BY HoldingOf DEF Holding
<1> QED BY <1>1, <1>2, NothingShown

LEMMA ConfirmEffects ==
    ASSUME IndInv, NEW k \in DOMAIN claims, ConfirmClaim(k)
    PROVE  /\ claims[k].fp \in Statement /\ claims[k].state = "candidate"
           /\ Activates(claims, claims', observations, k, Principal, claims[k].fp, {})
           /\ claims'[k].version = claims[k].version
<1>1. PICK D \in MakeRoom(claims, Principal, claims[k].fp, {}) :
          claims' = [Demote(claims, D) EXCEPT ![k] = Confirmed(@)]
      BY DEF ConfirmClaim, Confirmed
<1>2. claims[k].scope = Principal /\ claims[k].state = "candidate"
      BY DEF ConfirmClaim
<1>3. claims[k] \in Claim /\ Sound(claims[k], observations)
      BY DEF IndInv, Table
<1>4. k \notin D
      BY <1>2, SoftDemotions DEF MakeRoom
<1>5. DOMAIN Demote(claims, D) = DOMAIN claims /\ Demote(claims, D)[k] = claims[k]
      BY <1>4 DEF Demote
<1>6. /\ DOMAIN claims' = DOMAIN claims \union {k}
      /\ \A i \in DOMAIN claims \ {k} : claims'[i] = Demote(claims, D)[i]
      /\ claims'[k] = Confirmed(claims[k])
      BY <1>1, <1>5
<1>7. /\ claims'[k] \in Claim /\ SameWords(claims[k], claims'[k]) /\ claims'[k].state = "active"
      /\ claims'[k].links = claims[k].links
      BY <1>3, <1>6, ConfirmedSet DEF SameWords
<1>8. Sound(claims'[k], observations)
      BY <1>2, <1>3, <1>7, Bounds DEF Sound, Inferred, SameWords
<1>9. Activates(claims, claims', observations, k, Principal, claims[k].fp, {})
      BY <1>2, <1>6, <1>7, <1>8 DEF Activates, SameWords
<1> QED BY <1>2, <1>3, <1>7, <1>9, ClaimFields, SMTT(30) DEF SameWords

LEMMA ConfirmKeeps ==
    ASSUME IndInv, NEW k \in DOMAIN claims, ConfirmClaim(k)
    PROVE  IndInv'
<1>1. Ranges /\ Holding /\ Claims(claims)
      BY RangesOf, HoldingOf, KnownIds
<1>2. PICK f \in Statement : f = claims[k].fp
      BY ConfirmEffects
<1>3. /\ claims[k].state = "candidate" /\ claims'[k].version = claims[k].version
      /\ Activates(claims, claims', observations, k, Principal, f, {})
      BY <1>2, ConfirmEffects
<1>4. Activated(claims, claims', observations, k)
  <2>1. Table(claims, observations) /\ Budget(claims) /\ Principal \in Scope
        BY <1>1, Bounds DEF Holding
  <2> QED BY <1>1, <1>3, <2>1, ActivatesOne
<1>5. UNCHANGED <<observations, created, elsewhere, events>>
      BY DEF ConfirmClaim
<1>6. Ranges' /\ events <= events'
      BY <1>1, <1>5, Bounds DEF Ranges, elsewhere
<1>7. Versioned(claims', events')
      BY <1>1, <1>3, <1>4, <1>5 DEF Versioned, Holding, Activated, Calm, SameWords
<1>8. DOMAIN claims' \subseteq DOMAIN claims /\ Table(claims', observations) /\ Budget(claims')
      BY <1>4 DEF Activated
<1> QED BY <1>5, <1>6, <1>7, <1>8, InPlace DEF elsewhere

LEMMA ReviseEffects ==
    ASSUME IndInv, NEW k \in DOMAIN claims, NEW f \in Statement, ReviseClaim(k, f)
    PROVE  /\ claims[k].scope \in Scope
           /\ Activates(claims, claims', observations, k, claims[k].scope, f, {k})
           /\ claims'[k].version = claims[k].version + 1 /\ claims[k].version \in Nat
           /\ claims[k].version <= events + 1
<1>1. PICK D \in MakeRoom(claims, claims[k].scope, f, {k}) :
          claims' = [Demote(claims, D) EXCEPT ![k] = Revised(@, f)]
      BY DEF ReviseClaim
<1>2. Event
      BY DEF ReviseClaim
<1>3. claims[k] \in Claim /\ Sound(claims[k], observations) /\ claims[k].version <= events + 1
      BY DEF IndInv, Table, Counters
<1>4. k \notin D
      BY SoftDemotions DEF MakeRoom
<1>5. DOMAIN Demote(claims, D) = DOMAIN claims /\ Demote(claims, D)[k] = claims[k]
      BY <1>4 DEF Demote
<1>6. /\ DOMAIN claims' = DOMAIN claims \union {k}
      /\ \A i \in DOMAIN claims \ {k} : claims'[i] = Demote(claims, D)[i]
      /\ claims'[k] = Revised(claims[k], f)
      BY <1>1, <1>5
<1>7. /\ claims[k].version \in 1..(MaxEvents + 1) /\ claims[k].version + 1 \in 1..(MaxEvents + 1)
      /\ claims[k].scope \in Scope
      BY <1>2, <1>3, EventCounts, ClaimFields, Bounds
<1>8. /\ claims'[k] \in Claim /\ claims'[k].scope = claims[k].scope /\ claims'[k].fp = f
      /\ claims'[k].strength = claims[k].strength /\ claims'[k].state = "active"
      /\ claims'[k].version = claims[k].version + 1 /\ claims'[k].links = claims[k].links
      BY <1>3, <1>6, <1>7, RevisedSet
<1>9. Sound(claims'[k], observations)
      BY <1>3, <1>7, <1>8 DEF Sound, Inferred
<1>10. Activates(claims, claims', observations, k, claims[k].scope, f, {k})
      BY <1>6, <1>8, <1>9 DEF Activates
<1> QED BY <1>3, <1>7, <1>8, <1>10

LEMMA ReviseKeeps ==
    ASSUME IndInv, NEW k \in DOMAIN claims, NEW f \in Statement, ReviseClaim(k, f)
    PROVE  IndInv'
<1>1. Ranges /\ Holding /\ Claims(claims)
      BY RangesOf, HoldingOf, KnownIds
<1>2. PICK scope \in Scope : scope = claims[k].scope
      BY ReviseEffects
<1>3. /\ Activates(claims, claims', observations, k, scope, f, {k})
      /\ claims'[k].version = claims[k].version + 1 /\ claims[k].version \in Nat
      /\ claims[k].version <= events + 1
      BY <1>2, ReviseEffects
<1>4. Activated(claims, claims', observations, k)
  <2>1. Table(claims, observations) /\ Budget(claims)
        BY <1>1 DEF Holding
  <2> QED BY <1>1, <1>3, <2>1, ActivatesOne
<1>5. Event /\ UNCHANGED <<observations, created, elsewhere>>
      BY DEF ReviseClaim
<1>6. events \in Nat /\ events' = events + 1 /\ events' \in 0..MaxEvents /\ 0..events \subseteq 0..events'
      BY <1>5, EventCounts
<1>7. Ranges' /\ events <= events'
      BY <1>1, <1>5, <1>6 DEF Ranges, elsewhere
<1>8. Versioned(claims', events')
  <2>1. ASSUME NEW i \in DOMAIN claims' PROVE claims'[i].version <= events' + 1
    <3>1. CASE i = k
          BY <1>3, <1>6, <3>1
    <3>2. CASE i # k
      <4>1. claims'[i].version = claims[i].version /\ claims[i].version <= events + 1
            BY <1>1, <1>4, <3>2 DEF Activated, Calm, SameWords, Holding, Versioned
      <4>2. claims'[i].version \in 1..(MaxEvents + 1)
            BY <1>4, ClaimFields DEF Activated, Table
      <4> QED BY <1>6, <4>1, <4>2
    <3> QED BY <3>1, <3>2
  <2> QED BY <2>1 DEF Versioned
<1>9. DOMAIN claims' \subseteq DOMAIN claims /\ Table(claims', observations) /\ Budget(claims')
      BY <1>4 DEF Activated
<1> QED BY <1>5, <1>7, <1>8, <1>9, InPlace DEF elsewhere

\* Nothing comes into use, nothing is forgotten, and links stay.
Calmer(cl, cl2) ==
    /\ DOMAIN cl2 = DOMAIN cl
    /\ \A k \in DOMAIN cl :
         /\ cl2[k] \in Claim /\ Calm(cl[k], cl2[k]) /\ cl2[k].links = cl[k].links
         /\ cl2[k].state = "candidate" => cl[k].strength = "soft"

LEMMA CalmTable ==
    ASSUME NEW cl, NEW cl2, NEW obs, NEW e, Table(cl, obs), Budget(cl), Claims(cl),
           Versioned(cl, e), Calmer(cl, cl2)
    PROVE  Table(cl2, obs) /\ Budget(cl2) /\ Versioned(cl2, e)
<1>1. ASSUME NEW k \in DOMAIN cl PROVE Sound(cl2[k], obs)
  <2>1. Sound(cl[k], obs)
        BY DEF Table
  <2>2. Agree(obs, obs) /\ cl[k].links \subseteq DOMAIN obs
        BY <2>1 DEF Agree, Sound
  <2>3. /\ cl2[k].scope = cl[k].scope /\ cl2[k].fp = cl[k].fp /\ cl2[k].strength = cl[k].strength
        /\ cl2[k].version = cl[k].version /\ cl2[k].links = cl[k].links
        /\ cl2[k].state = "active" => cl[k].state = "active"
        /\ cl2[k].state = "candidate" => cl[k].strength = "soft"
        BY DEF Calmer, Calm, SameWords
  <2> QED BY <2>1, <2>2, <2>3, SoundKept
<1>2. Table(cl2, obs)
      BY <1>1 DEF Table, Calmer
<1>3. \A k \in DOMAIN cl2 : cl2[k].state = "active" => Kept(cl, cl2, k)
      BY DEF Calmer, Calm, SameWords, Kept
<1>4. Budget(cl2)
      BY <1>3, BudgetFewer
<1>5. Versioned(cl2, e)
      BY DEF Versioned, Calmer, Calm, SameWords
<1> QED BY <1>2, <1>4, <1>5

\* A calm step.
LEMMA CalmStep ==
    ASSUME IndInv, Ranges', events <= events', UNCHANGED <<bundles, observations, created>>,
           Calmer(claims, claims')
    PROVE  IndInv'
<1>1. Table(claims, observations) /\ Budget(claims) /\ Claims(claims) /\ Versioned(claims, events)
      BY HoldingOf, KnownIds DEF Holding
<1>2. Table(claims', observations) /\ Budget(claims') /\ Versioned(claims', events)
      BY <1>1, CalmTable
<1>3. events \in Nat /\ events' \in Nat
      BY RangesOf, Bounds DEF Ranges
<1>4. Versioned(claims', events')
  <2>1. ASSUME NEW k \in DOMAIN claims' PROVE claims'[k].version <= events' + 1
    <3>1. claims'[k].version <= events + 1 /\ claims'[k].version \in 1..(MaxEvents + 1)
          BY <1>2, ClaimFields DEF Versioned, Table
    <3> QED BY <1>3, <3>1
  <2> QED BY <2>1 DEF Versioned
<1>5. DOMAIN claims' \subseteq DOMAIN claims
      BY DEF Calmer
<1> QED BY <1>2, <1>4, <1>5, InPlace

LEMMA SameIsCalm ==
    ASSUME IndInv PROVE Calmer(claims, claims)
<1>1. \A k \in DOMAIN claims : claims[k] \in Claim /\ (claims[k].state = "candidate" => claims[k].strength = "soft")
      BY DEF IndInv, Table, Sound
<1> QED BY <1>1 DEF Calmer, Calm, SameWords

LEMMA SuppressIsCalm ==
    ASSUME IndInv, NEW k \in DOMAIN claims, SuppressClaim(k) PROVE Calmer(claims, claims')
<1>1. DOMAIN claims' = DOMAIN claims
      BY DEF SuppressClaim
<1>2. Calmer(claims, claims)
      BY SameIsCalm
<1>3. ASSUME NEW i \in DOMAIN claims
      PROVE  /\ claims'[i] \in Claim /\ Calm(claims[i], claims'[i]) /\ claims'[i].links = claims[i].links
             /\ claims'[i].state = "candidate" => claims[i].strength = "soft"
  <2>1. claims[i] \in Claim
        BY DEF IndInv, Table
  <2>2. CASE i = k
    <3>1. claims'[i] = [claims[i] EXCEPT !.state = "suppressed"]
          BY <2>2 DEF SuppressClaim
    <3>2. /\ claims'[i] \in Claim /\ claims'[i].links = claims[i].links /\ claims'[i].state = "suppressed"
          /\ SameWords(claims[i], claims'[i])
      <4>1. "suppressed" \in State
            BY DEF State
      <4> QED BY <2>1, <3>1, <4>1, StateSet DEF SameWords
    <3> QED BY <3>2 DEF Calm
  <2>3. CASE i # k
    <3>1. claims'[i] = claims[i]
          BY <2>3 DEF SuppressClaim
    <3> QED BY <1>2, <3>1 DEF Calmer
  <2> QED BY <2>2, <2>3
<1> QED BY <1>1, <1>3 DEF Calmer

\* Claims grow old.
LEMMA AgedTable ==
    ASSUME NEW cl, NEW obs, Table(cl, obs)
    PROVE  /\ Table(Aged(cl), obs) /\ Calmer(cl, Aged(cl))
           /\ \A k \in DOMAIN cl : Aged(cl)[k].version = cl[k].version /\ Aged(cl)[k].scope = cl[k].scope
<1> DEFINE old == Aged(cl)
<1>1. DOMAIN old = DOMAIN cl
      BY DEF Aged
<1>2. ASSUME NEW i \in DOMAIN cl
      PROVE  /\ old[i] \in Claim /\ SameWords(cl[i], old[i]) /\ Calm(cl[i], old[i])
             /\ old[i].links = cl[i].links /\ Sound(old[i], obs)
             /\ old[i].state = "candidate" => cl[i].strength = "soft"
  <2>1. cl[i] \in Claim /\ Sound(cl[i], obs)
        BY DEF Table
  <2>2. old[i] = [cl[i] EXCEPT !.stale = TRUE]
        BY DEF Aged
  <2> HIDE DEF old
  <2>3. PICK b \in BOOLEAN : b = TRUE
        BY BothAreBoolean
  <2>4. old[i] = [cl[i] EXCEPT !.stale = b]
        BY <2>2, <2>3, Zenon
  <2>5. /\ old[i] \in Claim /\ SameWords(cl[i], old[i])
        /\ old[i].links = cl[i].links /\ old[i].state = cl[i].state
        BY <2>1, <2>4, StaleSet DEF SameWords
  <2>6. cl[i].state = "candidate" => cl[i].strength = "soft"
        BY <2>1 DEF Sound
  <2>7. Agree(obs, obs) /\ cl[i].links \subseteq DOMAIN obs
        BY <2>1 DEF Agree, Sound
  <2>8. Sound(old[i], obs)
        BY <2>1, <2>5, <2>6, <2>7, SoundKept DEF SameWords
  <2> QED BY <2>5, <2>6, <2>8 DEF Calm
<1> HIDE DEF old
<1>3. Table(old, obs) /\ Calmer(cl, old)
      BY <1>1, <1>2 DEF Table, Calmer
<1> QED BY <1>2, <1>3 DEF old, SameWords

\* Half a year passes, here and for every bundle.
LEMMA HalfYearKeeps ==
    ASSUME IndInv, HalfYear PROVE Calmer(claims, claims') /\ IndInv'
<1>1. Ranges /\ Holding /\ Claims(claims)
      BY RangesOf, HoldingOf, KnownIds
<1>2. /\ Event /\ aged' = TRUE /\ claims' = Aged(claims)
      /\ bundles' = [n \in DOMAIN bundles |-> [bundles[n] EXCEPT !.claims = Aged(bundles[n].claims)]]
      /\ UNCHANGED <<observations, created, boundaries, receipts, material, pinned, installs>>
      BY DEF HalfYear
<1>3. Calmer(claims, claims') /\ Table(claims', observations)
      BY <1>1, <1>2, AgedTable DEF Holding
<1>4. events \in Nat /\ events' = events + 1 /\ events' \in 0..MaxEvents /\ events <= events'
      /\ 0..events \subseteq 0..events'
      BY <1>2, EventCounts
<1>5. Ranges'
  <2>1. aged' \in BOOLEAN
        BY <1>2
  <2> QED BY <1>1, <1>2, <1>4, <2>1 DEF Ranges
<1>6. Holding'
  <2>1. Budget(claims') /\ Versioned(claims', events)
        BY <1>1, <1>3, CalmTable DEF Holding
  <2>2. Versioned(claims', events')
    <3> SUFFICES ASSUME NEW k \in DOMAIN claims' PROVE claims'[k].version <= events' + 1
        BY DEF Versioned
    <3>1. claims'[k].version <= events + 1 /\ claims'[k].version \in 1..(MaxEvents + 1)
          BY <1>3, <2>1, ClaimFields DEF Versioned, Table
    <3> QED BY <1>4, <3>1
  <2>3. DOMAIN claims' \subseteq 1..created'.claims
        BY <1>1, <1>2, <1>3 DEF Holding, Calmer
  <2> QED BY <1>1, <1>2, <1>3, <2>1, <2>2, <2>3 DEF Holding
<1>7. bundles \in Seq({bundles[m] : m \in DOMAIN bundles}) /\ Len(bundles) <= events
      BY DEF IndInv, Counters
<1>8. PICK L \in Nat : L = Len(bundles) /\ DOMAIN bundles = 1..L
      BY <1>7
<1>9. ASSUME NEW n \in 1..L
      PROVE  /\ bundles'[n].claims = Aged(bundles[n].claims)
             /\ bundles'[n].observations = bundles[n].observations /\ bundles'[n].scope = bundles[n].scope
             /\ bundles'[n].boundaries = bundles[n].boundaries /\ bundles'[n].receipts = bundles[n].receipts
             /\ DOMAIN bundles'[n] = DOMAIN bundles[n]
  <2>1. DOMAIN bundles[n] = {"scope", "claims", "observations", "boundaries", "receipts"}
        BY <1>8 DEF IndInv, BundlesSound
  <2>2. bundles'[n] = [bundles[n] EXCEPT !.claims = Aged(bundles[n].claims)]
        BY <1>2, <1>8
  <2> QED BY <2>1, <2>2
<1>10. /\ bundles' \in Seq({bundles'[m] : m \in DOMAIN bundles'})
       /\ Len(bundles') = L /\ DOMAIN bundles' = 1..L
  <2>1. DOMAIN bundles' = 1..L
        BY <1>2, <1>8
  <2>2. PICK S : S = {bundles'[m] : m \in DOMAIN bundles'}
        OBVIOUS
  <2>3. \A m \in 1..L : bundles'[m] \in S
        BY <2>1, <2>2
  <2>4. bundles' = [m \in 1..L |-> bundles'[m]]
        BY <1>2, <2>1
  <2>5. bundles' \in [1..L -> S]
        BY <2>3, <2>4
  <2>6. bundles' \in Seq(S) /\ Len(bundles') = L
        BY <2>5
  <2> QED BY <2>1, <2>2, <2>6
<1>11. ASSUME NEW n \in 1..L
       PROVE  /\ Table(bundles'[n].claims, bundles[n].observations)
              /\ DOMAIN bundles'[n].claims = DOMAIN bundles[n].claims
              /\ \A k \in DOMAIN bundles[n].claims :
                    /\ bundles'[n].claims[k].version = bundles[n].claims[k].version
                    /\ bundles'[n].claims[k].scope = bundles[n].claims[k].scope
  <2>1. Table(bundles[n].claims, bundles[n].observations)
        BY <1>8 DEF IndInv, BundlesSound
  <2>2. PICK cl, old : cl = bundles[n].claims /\ old = Aged(cl)
        OBVIOUS
  <2>3. /\ Table(old, bundles[n].observations) /\ DOMAIN old = DOMAIN cl
        /\ \A k \in DOMAIN cl : old[k].version = cl[k].version /\ old[k].scope = cl[k].scope
        BY <2>1, <2>2, AgedTable DEF Calmer
  <2> QED BY <1>9, <2>2, <2>3
<1>12. BundlesSound'
  <2> SUFFICES ASSUME NEW n \in 1..L
               PROVE  /\ Table(bundles'[n].claims, bundles'[n].observations)
                      /\ \A k \in DOMAIN bundles'[n].claims : bundles'[n].claims[k].scope = bundles'[n].scope
                      /\ DOMAIN bundles'[n].claims \subseteq 1..created'.claims
                      /\ DOMAIN bundles'[n].observations \subseteq 1..created'.observations
                      /\ \A o \in DOMAIN bundles'[n].observations : bundles'[n].observations[o] \in Observation
                      /\ bundles'[n].scope \in Scope /\ bundles'[n].boundaries \subseteq Boundary
                      /\ bundles'[n].receipts \subseteq (1..MaxEvents) \X Scope
                      /\ DOMAIN bundles'[n] = {"scope", "claims", "observations", "boundaries", "receipts"}
      BY <1>10 DEF BundlesSound
  <2>1. /\ \A k \in DOMAIN bundles[n].claims : bundles[n].claims[k].scope = bundles[n].scope
        /\ DOMAIN bundles[n].claims \subseteq 1..created.claims
        /\ DOMAIN bundles[n].observations \subseteq 1..created.observations
        /\ \A o \in DOMAIN bundles[n].observations : bundles[n].observations[o] \in Observation
        /\ bundles[n].scope \in Scope /\ bundles[n].boundaries \subseteq Boundary
        /\ bundles[n].receipts \subseteq (1..MaxEvents) \X Scope
        /\ DOMAIN bundles[n] = {"scope", "claims", "observations", "boundaries", "receipts"}
        BY <1>8 DEF IndInv, BundlesSound
  <2>2. bundles'[n].observations = bundles[n].observations /\ created' = created
        BY <1>2, <1>9
  <2>3. /\ Table(bundles'[n].claims, bundles'[n].observations)
        /\ DOMAIN bundles'[n].claims \subseteq 1..created'.claims
        BY <1>11, <2>1, <2>2
  <2>4. \A k \in DOMAIN bundles'[n].claims : bundles'[n].claims[k].scope = bundles'[n].scope
        BY <1>9, <1>11, <2>1
  <2> QED BY <1>9, <2>1, <2>2, <2>3, <2>4
<1>13. Counters'
  <2>1. ASSUME NEW n \in 1..L, NEW k \in DOMAIN bundles'[n].claims
        PROVE  bundles'[n].claims[k].version <= events' + 1
    <3>1. bundles'[n].claims[k].version <= events + 1
          BY <1>8, <1>11 DEF IndInv, Counters
    <3>2. bundles'[n].claims[k].version \in 1..(MaxEvents + 1)
          BY <1>11, ClaimFields DEF Table
    <3> QED BY <1>4, <3>1, <3>2
  <2>2. Len(bundles') <= events'
        BY <1>4, <1>7, <1>8, <1>10
  <2> QED BY <1>5, <1>6, <1>10, <2>1, <2>2 DEF Counters, Ranges, Holding, Versioned
<1>14. SameHistory'
      BY <1>2, <1>8, <1>9, <1>10 DEF IndInv, SameHistory
<1>15. TypeOK' /\ BudgetKept'
      BY <1>5, <1>6, TypesAfter
<1>16. Table(claims', observations') /\ ShownOnce(observations')
      BY <1>6 DEF Holding
<1> QED BY <1>3, <1>12, <1>13, <1>14, <1>15, <1>16 DEF IndInv

LEMMA MaintainIsCalm ==
    ASSUME IndInv, MaintainMemory PROVE Calmer(claims, claims')
<1>1. DOMAIN claims' = DOMAIN claims
      BY DEF MaintainMemory
<1>2. Calmer(claims, claims)
      BY SameIsCalm
<1>3. ASSUME NEW i \in DOMAIN claims
      PROVE  /\ claims'[i] \in Claim /\ Calm(claims[i], claims'[i]) /\ claims'[i].links = claims[i].links
             /\ claims'[i].state = "candidate" => claims[i].strength = "soft"
  <2>1. claims[i] \in Claim
        BY DEF IndInv, Table
  <2>2. CASE claims[i].strength = "soft" /\ claims[i].state = "active" /\ claims[i].stale
    <3>1. claims'[i] = [claims[i] EXCEPT !.state = "candidate"]
          BY <2>2 DEF MaintainMemory
    <3>2. /\ claims'[i] \in Claim /\ claims'[i].links = claims[i].links /\ claims'[i].state = "candidate"
          /\ SameWords(claims[i], claims'[i])
      <4>1. "candidate" \in State
            BY DEF State
      <4> QED BY <2>1, <3>1, <4>1, StateSet DEF SameWords
    <3> QED BY <2>2, <3>2 DEF Calm
  <2>3. CASE ~(claims[i].strength = "soft" /\ claims[i].state = "active" /\ claims[i].stale)
    <3>1. claims'[i] = claims[i]
          BY <2>3 DEF MaintainMemory
    <3> QED BY <1>2, <3>1 DEF Calmer
  <2> QED BY <2>2, <2>3
<1> QED BY <1>1, <1>3 DEF Calmer

LEMMA CalmActions ==
    ASSUME IndInv,
           \/ \E k \in DOMAIN claims : SuppressClaim(k)
           \/ HalfYear \/ MaintainMemory
           \/ \E c \in Commission : PinMaterial(c)
           \/ \E r \in Excluded : CreateBoundary(r[1], r[2])
           \/ UNCHANGED vars
    PROVE  Calmer(claims, claims') /\ IndInv'
<1>1. Ranges
      BY RangesOf
<1>2. ASSUME NEW k \in DOMAIN claims, SuppressClaim(k) PROVE Calmer(claims, claims') /\ IndInv'
  <2>1. Event /\ UNCHANGED <<observations, created, elsewhere>>
        BY <1>2 DEF SuppressClaim
  <2>2. Ranges' /\ events <= events'
        BY <1>1, <2>1, EventCounts DEF Ranges, elsewhere
  <2> QED BY <1>2, <2>1, <2>2, SuppressIsCalm, CalmStep DEF elsewhere
<1>3. ASSUME HalfYear PROVE Calmer(claims, claims') /\ IndInv'
      BY <1>3, HalfYearKeeps
<1>4. ASSUME MaintainMemory PROVE Calmer(claims, claims') /\ IndInv'
  <2>1. UNCHANGED <<observations, created, boundaries, receipts, pinned, bundles, aged, installs, events>>
        BY <1>4 DEF MaintainMemory
  <2>2. pinned' \subseteq material' /\ material' \subseteq Terminal
        BY <1>1, <1>4 DEF Ranges, MaintainMemory
  <2>3. Ranges' /\ events <= events'
        BY <1>1, <2>1, <2>2, Bounds DEF Ranges
  <2> QED BY <1>4, <2>1, <2>3, MaintainIsCalm, CalmStep
<1>5. ASSUME NEW c \in Commission, PinMaterial(c) PROVE Calmer(claims, claims') /\ IndInv'
  <2>1. /\ Event /\ pinned' = pinned \union {c} /\ c \in material
        /\ UNCHANGED <<claims, observations, created, boundaries, receipts, material, bundles,
                       aged, installs>>
        BY <1>5 DEF PinMaterial
  <2>2. Ranges' /\ events <= events'
        BY <1>1, <2>1, EventCounts DEF Ranges
  <2>3. Calmer(claims, claims')
        BY <2>1, SameIsCalm
  <2> QED BY <2>1, <2>2, <2>3, CalmStep
<1>6. ASSUME NEW r \in Excluded, CreateBoundary(r[1], r[2]) PROVE Calmer(claims, claims') /\ IndInv'
  <2>1. /\ Event /\ boundaries' = boundaries \union {[scope |-> ProjectOf[r[1]], fp |-> r[2]]}
        /\ UNCHANGED <<claims, observations, created, receipts, material, pinned, bundles,
                       aged, installs>>
        BY <1>6 DEF CreateBoundary
  <2>2. r[1] \in Commission /\ r[2] \in Statement
        BY Bounds
  <2>3. [scope |-> ProjectOf[r[1]], fp |-> r[2]] \in Boundary
        BY <2>2, Bounds DEF Boundary
  <2>4. Ranges' /\ events <= events'
        BY <1>1, <2>1, <2>3, EventCounts DEF Ranges
  <2>5. Calmer(claims, claims')
        BY <2>1, SameIsCalm
  <2> QED BY <2>1, <2>4, <2>5, CalmStep
<1>7. ASSUME UNCHANGED vars PROVE Calmer(claims, claims') /\ IndInv'
  <2>1. Ranges' /\ events <= events'
        BY <1>1, <1>7, Bounds DEF Ranges, vars
  <2>2. Calmer(claims, claims')
        BY <1>7, SameIsCalm DEF vars
  <2> QED BY <1>7, <2>1, <2>2, CalmStep DEF vars
<1> QED BY <1>2, <1>3, <1>4, <1>5, <1>6, <1>7

\* An observation may bring one or two claims with it.
LEMMA NewClaimsCounted ==
    ASSUME NEW old, NEW new, NEW N \in Nat, old \subseteq 1..(N - 1), N \in 1..(N + 1),
           old \subseteq new, new \subseteq old \union {N, N + 1},
           N + 1 \in new => N \in new
    PROVE  /\ Cardinality(new \ old) \in 0..2
           /\ new \subseteq 1..(N - 1 + Cardinality(new \ old))
           /\ N - 1 + Cardinality(new \ old) \in {N - 1} \union new
<1>1. N \notin old /\ N + 1 \notin old
      OBVIOUS
<1>2. CASE N \notin new
  <2>1. new \ old = {}
        BY <1>1, <1>2
  <2>2. Cardinality(new \ old) = 0
        BY <2>1, FS_EmptySet
  <2>3. new \subseteq old
        BY <2>1
  <2> QED BY <2>2, <2>3
<1>3. CASE N \in new /\ N + 1 \notin new
  <2>1. new \ old = {N}
        BY <1>1, <1>3
  <2>2. Cardinality(new \ old) = 1
        BY <2>1, FS_Singleton
  <2>3. new \subseteq old \union {N}
        BY <1>3
  <2>4. \A i \in new : i \in 1..N
        BY <2>3
  <2>5. N - 1 + Cardinality(new \ old) = N
        BY <2>2
  <2> QED BY <1>3, <2>2, <2>4, <2>5
<1>4. CASE N + 1 \in new
  <2>1. new \ old = {N, N + 1}
        BY <1>1, <1>4
  <2>2. Cardinality(new \ old) = 2
    <3>1. {N, N + 1} = {N} \union {N + 1} /\ N + 1 \notin {N}
          OBVIOUS
    <3>2. IsFiniteSet({N}) /\ Cardinality({N}) = 1
          BY FS_Singleton
    <3> QED BY <2>1, <3>1, <3>2, FS_AddElement
  <2>3. \A i \in new : i \in 1..(N + 1)
        OBVIOUS
  <2>4. N - 1 + Cardinality(new \ old) = N + 1
        BY <2>2
  <2> QED BY <1>4, <2>2, <2>3, <2>4
<1> QED BY <1>2, <1>3, <1>4

LEMMA ObserveKeeps ==
    ASSUME IndInv, NEW c \in Commission, NEW f \in Statement, NEW s \in Strength, Observe(c, f, s)
    PROVE  IndInv'
<1>1. Ranges /\ Holding
      BY RangesOf, HoldingOf
<1>2. PICK N : N = NextClaim
      OBVIOUS
<1>3. PICK o : o = NextObservation
      OBVIOUS
<1>4. /\ o \in ObservationId /\ o \notin DOMAIN observations
      /\ DOMAIN observations' = DOMAIN observations \union {o}
      /\ observations'[o] = [source |-> <<c, installs>>, at |-> 0, fp |-> f, strength |-> s]
      /\ \A i \in DOMAIN observations : observations'[i] = observations[i]
      BY <1>3, ObserveShows
<1>5. /\ Table(claims', observations') /\ Budget(claims')
      /\ DOMAIN claims \subseteq DOMAIN claims'
      /\ DOMAIN claims' \subseteq DOMAIN claims \union {N, N + 1}
      /\ N + 1 \in DOMAIN claims' => N \in DOMAIN claims'
      /\ \A k \in DOMAIN claims : SameWords(claims[k], claims'[k])
      /\ \A k \in DOMAIN claims' \ DOMAIN claims : claims'[k].version = 1
      BY <1>2, ObserveClaims
<1>6. /\ DOMAIN claims' \subseteq ClaimId
      /\ created' = [created EXCEPT !.observations = o,
                                    !.claims = @ + Cardinality(DOMAIN claims' \ DOMAIN claims)]
      /\ ~ \E i \in DOMAIN observations :
             observations[i].source = <<c, installs>> /\ observations[i].at = 0 /\ observations[i].fp = f
      /\ UNCHANGED <<elsewhere, events>>
      BY <1>3 DEF Observe
<1>7. PICK more : more = Cardinality(DOMAIN claims' \ DOMAIN claims)
      OBVIOUS
<1>8. /\ N \in Nat /\ N - 1 = created.claims /\ N >= 1
      BY <1>2, KnownIds DEF NextClaim
<1>9. /\ more \in 0..2 /\ DOMAIN claims' \subseteq 1..(created.claims + more)
      /\ created.claims + more \in {created.claims} \union DOMAIN claims'
  <2>1. DOMAIN claims \subseteq 1..(N - 1) /\ N \in 1..(N + 1)
        BY <1>1, <1>8 DEF Holding
  <2> QED BY <1>5, <1>7, <1>8, <2>1, NewClaimsCounted
<1>10. created.claims + more \in 0..MaxClaims
      BY <1>1, <1>6, <1>9, Bounds DEF Ranges, ClaimId
<1>11. /\ created' \in [claims : 0..MaxClaims, observations : 0..MaxObservations]
       /\ created'.claims = created.claims + more /\ created'.observations = o
  <2>1. o \in 0..MaxObservations
        BY <1>4, Bounds DEF ObservationId
  <2>2. created \in [claims : 0..MaxClaims, observations : 0..MaxObservations]
        BY <1>1 DEF Ranges
  <2>3. created' = [created EXCEPT !.observations = o, !.claims = created.claims + more]
        BY <1>6, <1>7, <2>2
  <2>4. created' = [claims |-> created.claims + more, observations |-> o]
        BY <2>2, <2>3
  <2> QED BY <1>10, <2>1, <2>4
<1>12. o = created.observations + 1 /\ created.observations \in Nat /\ created.claims \in Nat
      BY <1>3, KnownIds DEF NextObservation
<1>13. Ranges' /\ Grows
  <2>1. Ranges'
        BY <1>1, <1>6, <1>11 DEF Ranges, elsewhere
  <2>2. events \in Nat
        BY <1>1, Bounds DEF Ranges
  <2> QED BY <1>6, <1>9, <1>11, <1>12, <2>1, <2>2 DEF Grows
<1>14. Versioned(claims', events')
  <2>1. events \in Nat
        BY <1>1, Bounds DEF Ranges
  <2>2. ASSUME NEW k \in DOMAIN claims' PROVE claims'[k].version <= events + 1
    <3>1. CASE k \in DOMAIN claims
          BY <1>1, <1>5, <3>1 DEF Holding, Versioned, SameWords
    <3>2. CASE k \notin DOMAIN claims
          BY <1>5, <2>1, <3>2
    <3> QED BY <3>1, <3>2
  <2> QED BY <1>6, <2>2 DEF Versioned
<1>15. DOMAIN observations' \subseteq 1..created'.observations
  <2>1. DOMAIN observations \subseteq 1..created.observations
        BY <1>1 DEF Holding
  <2> QED BY <1>4, <1>11, <1>12, <2>1
<1>16. \A i \in DOMAIN observations' : observations'[i] \in Observation
  <2>1. observations'[o] \in Observation
    <3>1. installs \in 0..MaxEvents /\ 0 \in 0..MaxEvents
          BY <1>1, Bounds DEF Ranges
    <3> QED BY <1>4, <3>1 DEF Observation
  <2>2. \A i \in DOMAIN observations : observations[i] \in Observation
        BY <1>1 DEF Holding
  <2> QED BY <1>4, <2>1, <2>2
<1>17. ShownOnce(observations')
  <2>1. ShownOnce(observations)
        BY <1>1 DEF Holding
  <2>2. observations'[o].source = <<c, installs>> /\ observations'[o].at = 0 /\ observations'[o].fp = f
        BY <1>4
  <2> QED BY <1>4, <1>6, <2>1, <2>2 DEF ShownOnce
<1>18. Holding'
      BY <1>5, <1>9, <1>11, <1>14, <1>15, <1>16, <1>17 DEF Holding
<1>19. ASSUME NEW n \in 1..Len(bundles) PROVE Agree(observations', bundles[n].observations)
  <2>1. o \notin DOMAIN bundles[n].observations
        BY <1>3, KnownIds
  <2>2. Agree(observations, bundles[n].observations)
        BY DEF IndInv, SameHistory
  <2> QED BY <1>4, <2>1, <2>2 DEF Agree
<1> QED BY <1>6, <1>13, <1>18, <1>19, NoNewBundle DEF elsewhere

\* Forgetting removes the claim and its candidates, and no observation another claim rests on.
LEMMA ForgetKeeps ==
    ASSUME IndInv, NEW k \in DOMAIN claims, ForgetClaim(k)
    PROVE  IndInv'
<1>1. Ranges /\ Holding /\ Claims(claims)
      BY RangesOf, HoldingOf, KnownIds
<1> DEFINE gone == Cascade(k)
           lost == Dedicated(gone)
<1>2. /\ Event
      /\ claims' = [i \in DOMAIN claims \ gone |-> claims[i]]
      /\ observations' = [o \in DOMAIN observations \ lost |-> observations[o]]
      /\ receipts' = receipts \union {<<events', claims[k].scope>>}
      /\ UNCHANGED <<created, boundaries, material, pinned, bundles, aged, installs>>
      BY DEF ForgetClaim
<1>3. \A i \in DOMAIN claims \ gone : claims[i].links \intersect lost = {}
      BY DEF Dedicated
<1> HIDE DEF gone, lost
<1>4. /\ DOMAIN claims' \subseteq DOMAIN claims /\ \A i \in DOMAIN claims' : claims'[i] = claims[i]
      /\ DOMAIN observations' = DOMAIN observations \ lost
      /\ \A o \in DOMAIN observations' : observations'[o] = observations[o]
      BY <1>2
<1>5. Table(claims', observations')
  <2> SUFFICES ASSUME NEW i \in DOMAIN claims' PROVE claims'[i] \in Claim /\ Sound(claims'[i], observations')
      BY DEF Table
  <2>1. claims'[i] = claims[i] /\ claims[i] \in Claim /\ Sound(claims[i], observations)
        BY <1>1, <1>4 DEF Holding, Table
  <2>2. claims[i].links \subseteq DOMAIN observations'
        BY <1>2, <1>3, <1>4, <2>1 DEF Sound
  <2>3. Agree(observations, observations')
        BY <1>4 DEF Agree
  <2>4. claims[i].state = "candidate" => claims[i].strength = "soft"
        BY <2>1 DEF Sound
  <2>5. Sound(claims[i], observations')
        BY <2>1, <2>2, <2>3, <2>4, SoundKept
  <2> QED BY <2>1, <2>5
<1>6. Budget(claims')
  <2>1. Budget(claims) /\ \A i \in DOMAIN claims' : claims'[i].state = "active" => Kept(claims, claims', i)
        BY <1>1, <1>4 DEF Holding, Kept
  <2> QED BY <1>1, <2>1, BudgetFewer
<1>7. events \in Nat /\ events' = events + 1 /\ events' \in 0..MaxEvents /\ events' \in 1..MaxEvents
      /\ 0..events \subseteq 0..events' /\ events <= events'
      BY <1>2, EventCounts
<1>8. claims[k].scope \in Scope
      BY <1>1, ClaimFields DEF Holding, Table
<1>9. Ranges' /\ Grows
  <2>1. Ranges'
        BY <1>1, <1>2, <1>7, <1>8 DEF Ranges
  <2>2. created.claims \in Nat /\ created.observations \in Nat
        BY KnownIds
  <2> QED BY <1>2, <1>7, <2>1, <2>2 DEF Grows
<1>10. Versioned(claims', events')
  <2> SUFFICES ASSUME NEW i \in DOMAIN claims' PROVE claims'[i].version <= events' + 1
      BY DEF Versioned
  <2>1. claims'[i].version <= events + 1 /\ claims'[i].version \in 1..(MaxEvents + 1)
        BY <1>1, <1>4, ClaimFields DEF Holding, Versioned, Table
  <2> QED BY <1>7, <2>1
<1>11. ShownOnce(observations')
      BY <1>1, <1>4 DEF Holding, ShownOnce
<1>12. Holding'
      BY <1>1, <1>2, <1>4, <1>5, <1>6, <1>10, <1>11 DEF Holding
<1>13. \A n \in 1..Len(bundles) : Agree(observations', bundles[n].observations)
      BY <1>4 DEF IndInv, SameHistory, Agree
<1> QED BY <1>2, <1>9, <1>12, <1>13, NoNewBundle

\* Where nothing is held, everything holds.
LEMMA EmptyHolding ==
    ASSUME NEW e
    PROVE  /\ Table(<< >>, << >>) /\ Budget(<< >>) /\ Versioned(<< >>, e) /\ ShownOnce(<< >>)
           /\ DOMAIN << >> = {}
<1>1. PICK z : z = << >>
      OBVIOUS
<1>2. DOMAIN z = {}
      BY <1>1
<1>3. Budget(z)
  <2> SUFFICES ASSUME NEW scope \in Scope PROVE Fits(z, scope, ActiveIn(z, scope), 0, 0)
      BY DEF Budget
  <2>1. ActiveIn(z, scope) = {}
        BY <1>2 DEF ActiveIn
  <2>2. UNION {{k} \X (1..Tokens[z[k].fp]) : k \in {}} = {}
        OBVIOUS
  <2>3. TokensOf(z, {}) = 0 /\ Cardinality({}) = 0
        BY <2>2, FS_EmptySet DEF TokensOf
  <2>4. ClaimLimit[scope] \in Nat /\ TokenLimit[scope] \in Nat
        BY Bounds
  <2> QED BY <2>1, <2>3, <2>4 DEF Fits
<1>4. Table(z, z) /\ Versioned(z, e) /\ ShownOnce(z)
      BY <1>2 DEF Table, Versioned, ShownOnce
<1> QED BY <1>1, <1>2, <1>3, <1>4

LEMMA NewInstallationKeeps ==
    ASSUME IndInv, NewInstallation
    PROVE  IndInv'
<1>1. Ranges
      BY RangesOf
<1>2. /\ Event /\ installs' = installs + 1
      /\ claims' = << >> /\ observations' = << >> /\ boundaries' = {} /\ receipts' = {}
      /\ material' = {} /\ pinned' = {} /\ UNCHANGED <<bundles, created, aged>>
      BY DEF NewInstallation
<1>3. events \in Nat /\ events' = events + 1 /\ events' \in 0..MaxEvents /\ events <= events'
      BY <1>2, EventCounts
<1>4. Ranges' /\ Grows
  <2>1. installs' \in 0..events'
        BY <1>1, <1>2, <1>3 DEF Ranges
  <2>2. Ranges'
        BY <1>1, <1>2, <1>3, <2>1 DEF Ranges
  <2>3. created.claims \in Nat /\ created.observations \in Nat
        BY KnownIds
  <2> QED BY <1>2, <1>3, <2>2, <2>3 DEF Grows
<1>5. /\ Table(claims', observations') /\ Budget(claims') /\ Versioned(claims', events')
      /\ ShownOnce(observations') /\ DOMAIN claims' = {} /\ DOMAIN observations' = {}
      BY <1>2, EmptyHolding
<1>6. Holding'
      BY <1>5 DEF Holding
<1>7. \A n \in 1..Len(bundles) : Agree(observations', bundles[n].observations)
      BY <1>5 DEF Agree
<1> QED BY <1>2, <1>4, <1>6, <1>7, NoNewBundle

\* A bundle as the store may be given it.
LEMMA BundleFacts ==
    ASSUME IndInv, NEW n \in DOMAIN bundles
    PROVE  /\ n \in 1..Len(bundles) /\ n \in 0..MaxEvents
           /\ Table(bundles[n].claims, bundles[n].observations)
           /\ \A k \in DOMAIN bundles[n].claims : bundles[n].claims[k].scope = bundles[n].scope
           /\ DOMAIN bundles[n].claims \subseteq 1..created.claims
           /\ DOMAIN bundles[n].observations \subseteq 1..created.observations
           /\ \A o \in DOMAIN bundles[n].observations : bundles[n].observations[o] \in Observation
           /\ bundles[n].scope \in Scope /\ bundles[n].boundaries \subseteq Boundary
           /\ bundles[n].receipts \subseteq (1..MaxEvents) \X Scope
           /\ Versioned(bundles[n].claims, events)
           /\ Agree(observations, bundles[n].observations)
           /\ \A m \in 1..Len(bundles) : Agree(bundles[n].observations, bundles[m].observations)
<1>1. bundles \in Seq({bundles[m] : m \in DOMAIN bundles}) /\ Len(bundles) <= events /\ events \in 0..MaxEvents
      BY DEF IndInv, Counters
<1>2. n \in 1..Len(bundles) /\ Len(bundles) \in Nat
      BY <1>1
<1>3. n \in 0..MaxEvents
      BY <1>1, <1>2, Bounds
<1>4. Versioned(bundles[n].claims, events)
      BY <1>2 DEF IndInv, Counters, Versioned
<1> QED BY <1>2, <1>3, <1>4 DEF IndInv, BundlesSound, SameHistory

\* What an import does to the observations.
LEMMA ImportShows ==
    ASSUME IndInv, NEW n \in DOMAIN bundles, NEW c \in Commission, Import(n, c)
    PROVE  /\ DOMAIN observations' = DOMAIN observations \union DOMAIN bundles[n].observations
           /\ \A o \in DOMAIN observations : observations'[o] = observations[o]
           /\ \A o \in DOMAIN observations' \ DOMAIN observations :
                /\ observations'[o] \in Observation /\ observations'[o].at = n
                /\ observations'[o].source = bundles[n].observations[o].source
                /\ observations'[o].fp = bundles[n].observations[o].fp
                /\ observations'[o].strength = bundles[n].observations[o].strength
           /\ ShownOnce(observations')
<1>1. PICK b : b = bundles[n]
      OBVIOUS
<1>2. observations' = WithImportedObservations(n, b) /\ ObservationsFit(n, b)
      BY <1>1 DEF Import
<1>3. /\ DOMAIN observations' = DOMAIN observations \union DOMAIN b.observations
      /\ \A o \in DOMAIN observations : observations'[o] = observations[o]
      /\ \A o \in DOMAIN observations' \ DOMAIN observations :
            observations'[o] = [b.observations[o] EXCEPT !.at = n]
      BY <1>2 DEF WithImportedObservations
<1>4. n \in 0..MaxEvents /\ \A o \in DOMAIN b.observations : b.observations[o] \in Observation
      BY <1>1, BundleFacts
<1>5. ASSUME NEW o \in DOMAIN observations' \ DOMAIN observations
      PROVE  /\ observations'[o] \in Observation /\ observations'[o].at = n
             /\ observations'[o].source = b.observations[o].source
             /\ observations'[o].fp = b.observations[o].fp
             /\ observations'[o].strength = b.observations[o].strength
  <2>1. o \in DOMAIN b.observations /\ observations'[o] = [b.observations[o] EXCEPT !.at = n]
        BY <1>3
  <2>2. b.observations[o] \in Observation
        BY <1>4, <2>1
  <2> QED BY <1>4, <2>1, <2>2 DEF Observation
<1>6. ShownOnce(observations')
  <2> SUFFICES ASSUME NEW i \in DOMAIN observations', NEW j \in DOMAIN observations',
                      observations'[i].source = observations'[j].source,
                      observations'[i].at = observations'[j].at, observations'[i].fp = observations'[j].fp
               PROVE  i = j
      BY DEF ShownOnce
  <2>1. CASE i \in DOMAIN observations /\ j \in DOMAIN observations
        BY <1>3, <2>1 DEF IndInv, ShownOnce
  <2> DEFINE fresh == DOMAIN b.observations \ (DOMAIN observations \cap DOMAIN b.observations)
  <2>2. \A x \in DOMAIN observations' \ DOMAIN observations : x \in fresh
        BY <1>3
  <2>3. \A x \in fresh :
           /\ \A y \in fresh \ {x} : <<b.observations[y].source, b.observations[y].fp>> # <<b.observations[x].source, b.observations[x].fp>>
           /\ \A y \in DOMAIN observations :
                observations[y].at = n =>
                  <<observations[y].source, observations[y].fp>> # <<b.observations[x].source, b.observations[x].fp>>
        BY <1>2 DEF ObservationsFit
  <2> HIDE DEF fresh
  <2>4. CASE i \notin DOMAIN observations /\ j \notin DOMAIN observations
        BY <1>5, <2>2, <2>3, <2>4
  <2>5. CASE i \in DOMAIN observations /\ j \notin DOMAIN observations
        BY <1>3, <1>5, <2>2, <2>3, <2>5
  <2>6. CASE i \notin DOMAIN observations /\ j \in DOMAIN observations
        BY <1>3, <1>5, <2>2, <2>3, <2>6
  <2> QED BY <2>1, <2>4, <2>5, <2>6
<1> QED BY <1>1, <1>3, <1>5, <1>6

\* ... and to the claims.
LEMMA ImportClaims ==
    ASSUME IndInv, NEW n \in DOMAIN bundles, NEW c \in Commission, Import(n, c)
    PROVE  /\ Table(claims', observations') /\ Budget(claims') /\ Versioned(claims', events)
           /\ DOMAIN claims' \subseteq 1..created.claims
           /\ DOMAIN claims' = DOMAIN claims \union DOMAIN bundles[n].claims
           /\ \A k \in DOMAIN claims : Calm(claims[k], claims'[k])
           /\ \A k \in DOMAIN claims' \ DOMAIN claims :
                /\ claims'[k].fp = bundles[n].claims[k].fp /\ claims'[k].scope = bundles[n].scope
<1>1. PICK b : b = bundles[n]
      OBVIOUS
<1>2. PICK all : all = WithImportedClaims(b)
      OBVIOUS
<1>3. PICK D \in ReconcileBudget(all, b.scope) : claims' = Demote(all, D)
      BY <1>1, <1>2 DEF Import, ImportTail
<1>4. /\ DOMAIN all = DOMAIN claims \union DOMAIN b.claims
      /\ \A k \in DOMAIN claims : all[k] = claims[k]
      /\ \A k \in DOMAIN all \ DOMAIN claims : k \in DOMAIN b.claims /\ all[k] = b.claims[k]
      BY <1>2 DEF WithImportedClaims
<1>5. Holding /\ Claims(claims)
      BY HoldingOf, KnownIds
<1>6. /\ Table(b.claims, b.observations) /\ Versioned(b.claims, events) /\ b.scope \in Scope
      /\ \A k \in DOMAIN b.claims : b.claims[k].scope = b.scope
      /\ DOMAIN b.claims \subseteq 1..created.claims
      /\ Agree(observations, b.observations)
      BY <1>1, BundleFacts
<1>7. /\ DOMAIN observations \subseteq DOMAIN observations' /\ DOMAIN b.observations \subseteq DOMAIN observations'
      /\ Agree(observations, observations') /\ Agree(b.observations, observations')
  <2>1. /\ DOMAIN observations' = DOMAIN observations \union DOMAIN b.observations
        /\ \A o \in DOMAIN observations : observations'[o] = observations[o]
        /\ \A o \in DOMAIN observations' \ DOMAIN observations :
             /\ observations'[o].source = b.observations[o].source
             /\ observations'[o].fp = b.observations[o].fp
             /\ observations'[o].strength = b.observations[o].strength
        BY <1>1, ImportShows
  <2> QED BY <1>6, <2>1 DEF Agree
<1>8. Table(claims, observations') /\ Table(b.claims, observations')
      BY <1>5, <1>6, <1>7, TableMoreShown DEF Holding
<1>9. Table(all, observations')
      BY <1>4, <1>8 DEF Table
<1>10. DOMAIN all \subseteq 1..created.claims
      BY <1>4, <1>5, <1>6 DEF Holding
<1>11. Claims(all)
  <2>1. created.claims \in Nat
        BY KnownIds
  <2>2. IsFiniteSet(1..created.claims)
        BY <2>1, FS_Interval
  <2>3. IsFiniteSet(DOMAIN all)
        BY <1>10, <2>2, FS_Subset
  <2> QED BY <1>9, <2>3 DEF Claims, Table
<1>12. \A k \in D : k \in DOMAIN all /\ all[k].strength = "soft" /\ all[k].state = "active"
      BY SoftDemotions DEF ReconcileBudget
<1>13. /\ Table(claims', observations') /\ DOMAIN claims' = DOMAIN all
       /\ \A k \in DOMAIN all :
            /\ SameWords(all[k], claims'[k])
            /\ IF k \in D THEN claims'[k].state = "candidate" ELSE claims'[k] = all[k]
  <2>1. PICK new : new = Demote(all, D)
        OBVIOUS
  <2>2. /\ Table(new, observations') /\ DOMAIN new = DOMAIN all
        /\ \A k \in DOMAIN all :
            /\ new[k].scope = all[k].scope /\ new[k].fp = all[k].fp /\ new[k].strength = all[k].strength
            /\ new[k].version = all[k].version
            /\ IF k \in D THEN new[k].state = "candidate" ELSE new[k] = all[k]
        BY <1>9, <1>12, <2>1, DemoteTable
  <2> QED BY <1>3, <2>1, <2>2 DEF SameWords
<1>14. Budget(claims')
  <2>1. \A k \in DOMAIN all : (k \in DOMAIN claims /\ all[k] = claims[k]) \/ all[k].scope = b.scope
        BY <1>4, <1>6
  <2>2. Budget(claims)
        BY <1>5 DEF Holding
  <2> QED BY <1>3, <1>5, <1>6, <1>11, <2>1, <2>2, BudgetReconciled
<1>15. Versioned(claims', events)
  <2>1. Versioned(all, events)
        BY <1>4, <1>5, <1>6 DEF Versioned, Holding
  <2> QED BY <1>13, <2>1 DEF Versioned, SameWords
<1>16. ASSUME NEW k \in DOMAIN claims PROVE Calm(claims[k], claims'[k])
  <2>1. k \in DOMAIN all /\ all[k] = claims[k]
        BY <1>4
  <2>2. CASE k \in D
        BY <1>12, <1>13, <2>1, <2>2 DEF Calm
  <2>3. CASE k \notin D
        BY <1>13, <2>1, <2>3 DEF Calm
  <2> QED BY <2>2, <2>3
<1>17. ASSUME NEW k \in DOMAIN claims' \ DOMAIN claims
       PROVE  claims'[k].fp = b.claims[k].fp /\ claims'[k].scope = b.scope
      BY <1>4, <1>6, <1>13 DEF SameWords
<1> QED BY <1>1, <1>4, <1>10, <1>13, <1>14, <1>15, <1>16, <1>17

LEMMA ImportKeeps ==
    ASSUME IndInv, NEW n \in DOMAIN bundles, NEW c \in Commission, Import(n, c)
    PROVE  IndInv'
<1>1. Ranges /\ Holding
      BY RangesOf, HoldingOf
<1>2. /\ boundaries' = boundaries \union bundles[n].boundaries
      /\ receipts' = receipts \union bundles[n].receipts
      /\ UNCHANGED <<created, material, pinned, bundles, aged, installs, events>>
      BY DEF Import, ImportTail
<1>3. /\ bundles[n].boundaries \subseteq Boundary /\ bundles[n].receipts \subseteq (1..MaxEvents) \X Scope
      /\ DOMAIN bundles[n].observations \subseteq 1..created.observations
      /\ \A m \in 1..Len(bundles) : Agree(bundles[n].observations, bundles[m].observations)
      BY BundleFacts
<1>4. Ranges'
      BY <1>1, <1>2, <1>3 DEF Ranges
<1>5. Grows
  <2>1. created.claims \in Nat /\ created.observations \in Nat /\ events \in Nat
        BY <1>1, KnownIds, Bounds DEF Ranges
  <2> QED BY <1>2, <2>1 DEF Grows
<1>6. /\ DOMAIN observations' = DOMAIN observations \union DOMAIN bundles[n].observations
      /\ \A o \in DOMAIN observations : observations'[o] = observations[o]
      /\ \A o \in DOMAIN observations' \ DOMAIN observations :
           /\ observations'[o] \in Observation
           /\ observations'[o].source = bundles[n].observations[o].source
           /\ observations'[o].fp = bundles[n].observations[o].fp
           /\ observations'[o].strength = bundles[n].observations[o].strength
      /\ ShownOnce(observations')
      BY ImportShows, ZenonT(40)
<1>7. /\ Table(claims', observations') /\ Budget(claims') /\ Versioned(claims', events)
      /\ DOMAIN claims' \subseteq 1..created.claims
      BY ImportClaims
<1>8. /\ DOMAIN observations' \subseteq 1..created'.observations
      /\ \A o \in DOMAIN observations' : observations'[o] \in Observation
      BY <1>1, <1>2, <1>3, <1>6 DEF Holding
<1>9. Holding'
      BY <1>2, <1>6, <1>7, <1>8 DEF Holding
<1>10. ASSUME NEW m \in 1..Len(bundles) PROVE Agree(observations', bundles[m].observations)
  <2>1. Agree(observations, bundles[m].observations) /\ Agree(bundles[n].observations, bundles[m].observations)
        BY <1>3 DEF IndInv, SameHistory
  <2> QED BY <1>6, <2>1 DEF Agree
<1> QED BY <1>2, <1>4, <1>5, <1>9, <1>10, NoNewBundle

\* An export carries claims of one scope and what they rest on.
LEMMA ExportedIsSound ==
    ASSUME IndInv, NEW scope \in Scope, NEW b, b = Exported(scope)
    PROVE  /\ Table(b.claims, b.observations) /\ Versioned(b.claims, events)
           /\ \A k \in DOMAIN b.claims : b.claims[k].scope = b.scope
           /\ DOMAIN b.claims \subseteq DOMAIN claims
           /\ DOMAIN b.observations \subseteq DOMAIN observations
           /\ \A o \in DOMAIN b.observations : b.observations[o] = observations[o]
           /\ b.scope \in Scope /\ b.boundaries \subseteq boundaries /\ b.receipts \subseteq receipts
           /\ DOMAIN b = {"scope", "claims", "observations", "boundaries", "receipts"}
<1>1. Holding
      BY HoldingOf
<1> DEFINE mine == {k \in DOMAIN claims : claims[k].scope = scope}
<1>2. /\ b.scope = scope /\ b.claims = [k \in mine |-> claims[k]]
      /\ b.observations = [o \in UNION {claims[k].links : k \in mine} |-> observations[o]]
      /\ b.boundaries = {x \in boundaries : x.scope = scope}
      /\ b.receipts = {r \in receipts : r[2] = scope}
      BY DEF Exported
<1>3. /\ DOMAIN b.claims = mine /\ \A k \in mine : b.claims[k] = claims[k]
      /\ \A o \in DOMAIN b.observations : b.observations[o] = observations[o]
      /\ DOMAIN b.observations = UNION {claims[k].links : k \in mine}
      BY <1>2
<1>4. mine \subseteq DOMAIN claims /\ \A k \in mine : claims[k].scope = scope
      OBVIOUS
<1> HIDE DEF mine
<1>5. ASSUME NEW k \in mine
      PROVE  /\ claims[k] \in Claim /\ Sound(claims[k], observations)
             /\ claims[k].links \subseteq DOMAIN observations /\ claims[k].links \subseteq DOMAIN b.observations
  <2>1. claims[k] \in Claim /\ Sound(claims[k], observations)
        BY <1>1, <1>4 DEF Holding, Table
  <2> QED BY <1>3, <2>1 DEF Sound
<1>6. DOMAIN b.observations \subseteq DOMAIN observations
      BY <1>3, <1>5
<1>7. Agree(observations, b.observations)
      BY <1>3 DEF Agree
<1>8. ASSUME NEW k \in mine PROVE Sound(claims[k], b.observations)
  <2>1. claims[k].state = "candidate" => claims[k].strength = "soft"
        BY <1>5 DEF Sound
  <2> QED BY <1>5, <1>7, <2>1, SoundKept
<1>9. Table(b.claims, b.observations)
      BY <1>3, <1>5, <1>8 DEF Table
<1>10. Versioned(b.claims, events)
      BY <1>1, <1>3, <1>4 DEF Versioned, Holding
<1>11. b.boundaries \subseteq boundaries /\ b.receipts \subseteq receipts
      BY <1>2
<1>12. DOMAIN b = {"scope", "claims", "observations", "boundaries", "receipts"}
      BY DEF Exported
<1> QED BY <1>2, <1>3, <1>4, <1>6, <1>9, <1>10, <1>11, <1>12

LEMMA ExportKeeps ==
    ASSUME IndInv, NEW scope \in Scope, Export(scope)
    PROVE  IndInv'
<1>1. Ranges /\ Holding
      BY RangesOf, HoldingOf
<1>2. PICK b : b = Exported(scope)
      OBVIOUS
<1>3. /\ Event /\ bundles' = Append(bundles, b)
      /\ UNCHANGED <<claims, observations, created, boundaries, receipts, material, pinned,
                     aged, installs>>
      BY <1>2 DEF Export
<1>4. /\ Table(b.claims, b.observations) /\ Versioned(b.claims, events)
      /\ \A k \in DOMAIN b.claims : b.claims[k].scope = b.scope
      /\ DOMAIN b.claims \subseteq DOMAIN claims
      /\ DOMAIN b.observations \subseteq DOMAIN observations
      /\ \A o \in DOMAIN b.observations : b.observations[o] = observations[o]
      /\ b.scope \in Scope /\ b.boundaries \subseteq boundaries /\ b.receipts \subseteq receipts
      /\ DOMAIN b = {"scope", "claims", "observations", "boundaries", "receipts"}
      BY <1>2, ExportedIsSound
<1>5. events \in Nat /\ events' = events + 1 /\ events' \in 0..MaxEvents /\ 0..events \subseteq 0..events'
      /\ events <= events'
      BY <1>3, EventCounts
<1>6. bundles \in Seq({bundles[m] : m \in DOMAIN bundles}) /\ Len(bundles) <= events
      BY DEF IndInv, Counters
<1>7. PICK L \in Nat : L = Len(bundles)
      BY <1>6
<1>8. /\ Len(bundles') = L + 1 /\ DOMAIN bundles' = 1..(L + 1) /\ DOMAIN bundles = 1..L
      /\ \A n \in 1..L : bundles'[n] = bundles[n]
      /\ bundles'[L + 1] = b
  <2>1. PICK S : S = {bundles[m] : m \in DOMAIN bundles}
        OBVIOUS
  <2>2. bundles \in Seq(S)
        BY <1>6, <2>1
  <2> QED BY <1>3, <1>7, <2>2
<1>9. bundles' \in Seq({bundles'[n] : n \in DOMAIN bundles'})
  <2>1. PICK S : S = {bundles'[n] : n \in DOMAIN bundles'}
        OBVIOUS
  <2>2. bundles \in Seq(S) /\ b \in S
    <3>1. \A n \in 1..L : bundles[n] \in S
          BY <1>8, <2>1
    <3>2. b \in S
          BY <1>8, <2>1
    <3>3. PICK T : T = {bundles[m] : m \in DOMAIN bundles}
          OBVIOUS
    <3>4. T \subseteq S /\ bundles \in Seq(T)
          BY <1>6, <1>8, <3>1, <3>3
    <3> QED BY <3>2, <3>4
  <2>3. Append(bundles, b) \in Seq(S)
        BY <2>2
  <2> QED BY <1>3, <2>1, <2>3
<1>10. \A n \in 1..(L + 1) : n \in 1..L \/ n = L + 1
      OBVIOUS
<1>11. Ranges'
      BY <1>1, <1>3, <1>5 DEF Ranges
<1>12. Holding'
  <2>1. Versioned(claims', events')
    <3> SUFFICES ASSUME NEW i \in DOMAIN claims' PROVE claims'[i].version <= events' + 1
        BY DEF Versioned
    <3>1. claims'[i].version <= events + 1 /\ claims'[i].version \in 1..(MaxEvents + 1)
          BY <1>1, <1>3, ClaimFields DEF Holding, Versioned, Table
    <3> QED BY <1>5, <3>1
  <2> QED BY <1>1, <1>3, <2>1 DEF Holding
<1>13. TypeOK' /\ BudgetKept'
      BY <1>11, <1>12, TypesAfter
<1>14. Counters'
  <2>1. \A k \in DOMAIN claims' : claims'[k].version <= events' + 1
        BY <1>12 DEF Holding, Versioned
  <2>2. ASSUME NEW n \in 1..Len(bundles'), NEW k \in DOMAIN bundles'[n].claims
        PROVE  bundles'[n].claims[k].version <= events' + 1
    <3>1. bundles'[n].claims[k].version <= events + 1 /\ bundles'[n].claims[k] \in Claim
      <4>1. CASE n \in 1..L
            BY <1>7, <1>8, <4>1 DEF IndInv, Counters, BundlesSound, Table
      <4>2. CASE n = L + 1
            BY <1>4, <1>8, <4>2 DEF Versioned, Table
      <4> QED BY <1>8, <1>10, <4>1, <4>2
    <3>2. bundles'[n].claims[k].version \in 1..(MaxEvents + 1)
          BY <3>1, ClaimFields
    <3> QED BY <1>5, <3>1, <3>2
  <2>3. Len(bundles') <= events'
        BY <1>5, <1>6, <1>7, <1>8
  <2> QED BY <1>9, <1>11, <2>1, <2>2, <2>3 DEF Counters, Ranges
<1>15. BundlesSound'
  <2> SUFFICES ASSUME NEW n \in 1..Len(bundles')
               PROVE  /\ Table(bundles'[n].claims, bundles'[n].observations)
                      /\ \A k \in DOMAIN bundles'[n].claims : bundles'[n].claims[k].scope = bundles'[n].scope
                      /\ DOMAIN bundles'[n].claims \subseteq 1..created'.claims
                      /\ DOMAIN bundles'[n].observations \subseteq 1..created'.observations
                      /\ \A o \in DOMAIN bundles'[n].observations : bundles'[n].observations[o] \in Observation
                      /\ bundles'[n].scope \in Scope /\ bundles'[n].boundaries \subseteq Boundary
                      /\ bundles'[n].receipts \subseteq (1..MaxEvents) \X Scope
                      /\ DOMAIN bundles'[n] = {"scope", "claims", "observations", "boundaries", "receipts"}
      BY DEF BundlesSound
  <2>1. CASE n \in 1..L
        BY <1>3, <1>7, <1>8, <2>1 DEF IndInv, BundlesSound
  <2>2. CASE n = L + 1
    <3>1. bundles'[n] = b
          BY <1>8, <2>2
    <3> QED BY <1>1, <1>3, <1>4, <3>1 DEF Holding, Ranges
  <2> QED BY <1>8, <1>10, <2>1, <2>2
<1>16. SameHistory'
  <2>1. ASSUME NEW n \in 1..(L + 1) PROVE Agree(observations, bundles'[n].observations) /\ Agree(b.observations, bundles'[n].observations)
    <3>1. Agree(observations, bundles'[n].observations)
      <4>1. CASE n \in 1..L
            BY <1>7, <1>8, <4>1 DEF IndInv, SameHistory
      <4>2. CASE n = L + 1
            BY <1>4, <1>8, <4>2 DEF Agree
      <4> QED BY <1>10, <4>1, <4>2
    <3> QED BY <1>4, <3>1 DEF Agree
  <2>2. ASSUME NEW n \in 1..(L + 1), NEW m \in 1..(L + 1) PROVE Agree(bundles'[m].observations, bundles'[n].observations)
    <3>1. CASE m = L + 1
          BY <1>8, <2>1, <3>1
    <3>2. CASE m \in 1..L /\ n = L + 1
      <4>1. Agree(b.observations, bundles'[m].observations)
            BY <2>1
      <4>2. bundles'[n] = b
            BY <1>8, <3>2
      <4> QED BY <4>1, <4>2 DEF Agree
    <3>3. CASE m \in 1..L /\ n \in 1..L
          BY <1>7, <1>8, <3>3 DEF IndInv, SameHistory
    <3> QED BY <1>10, <3>1, <3>2, <3>3
  <2> QED BY <1>3, <1>8, <2>1, <2>2 DEF SameHistory
<1> QED BY <1>12, <1>13, <1>14, <1>15, <1>16 DEF IndInv, Holding
-----------------------------------------------------------------------------
(* What steps may never do.                                                *)

\* No Learning Boundary of its scope or of the Principal speaks against a claim.
Free(bs, d) ==
    ~ \E b \in bs : b.fp = d.fp /\ (Principal \in {b.scope, d.scope} \/ b.scope = d.scope)

\* Claims come into use where nothing speaks against them, and what was given up comes
\* back only as a new version.
Rightly(cl, cl2, bs) ==
    /\ \A k \in DOMAIN cl2 :
         /\ cl2[k].state = "active"
         /\ k \notin DOMAIN cl \/ cl[k].state # "active" \/ cl[k].fp # cl2[k].fp
         => Free(bs, cl2[k])
    /\ \A k \in DOMAIN cl \cap DOMAIN cl2 :
         /\ cl[k].state \in {"suppressed", "contradicted"}
         /\ cl2[k].state \in {"candidate", "active"}
         => cl2[k].version > cl[k].version

LEMMA RightlyButOne ==
    ASSUME NEW cl, NEW cl2, NEW bs, NEW x,
           \A k \in DOMAIN cl2 \ {x} : k \in DOMAIN cl /\ Calm(cl[k], cl2[k]),
           x \in DOMAIN cl2 => Free(bs, cl2[x]),
           x \in DOMAIN cl => \/ cl[x].state \notin {"suppressed", "contradicted"}
                              \/ cl2[x].version > cl[x].version
    PROVE  Rightly(cl, cl2, bs)
BY DEF Rightly, Calm, SameWords

LEMMA RightlyCalm ==
    ASSUME NEW cl, NEW cl2, NEW bs,
           \A k \in DOMAIN cl2 : k \in DOMAIN cl /\ Calm(cl[k], cl2[k])
    PROVE  Rightly(cl, cl2, bs)
BY DEF Rightly, Calm, SameWords

LEMMA FreeOfBlocks ==
    ASSUME NEW bs, NEW d, NEW related, ~Blocked(bs, d.fp, d.scope, related)
    PROVE  Free(bs, d)
BY DEF Blocked, Blocks, Free

LEMMA CreateRightly ==
    ASSUME IndInv, NEW c \in Commission, NEW f \in Statement, CreateClaim(c, f)
    PROVE  Rightly(claims, claims', boundaries')
<1>1. PICK N : N = NextClaim
      OBVIOUS
<1>2. /\ Activates(claims, claims', observations, N, ProjectOf[c], f, {})
      /\ ~Blocked(boundaries, f, ProjectOf[c], {})
      /\ UNCHANGED <<observations, elsewhere, events>>
      BY <1>1, CreateClaimEffects
<1>3. N \notin DOMAIN claims /\ ProjectOf[c] \in Scope
      BY <1>1, KnownIds, Bounds
<1>4. Activated(claims, claims', observations, N)
  <2>1. Table(claims, observations) /\ Budget(claims) /\ Claims(claims)
        BY HoldingOf, KnownIds DEF Holding
  <2> QED BY <1>2, <1>3, <2>1, ActivatesOne
<1>5. claims'[N].scope = ProjectOf[c] /\ claims'[N].fp = f
      BY <1>2 DEF Activates
<1>6. Free(boundaries', claims'[N])
      BY <1>2, <1>5, FreeOfBlocks DEF elsewhere
<1>7. \A k \in DOMAIN claims' \ {N} : k \in DOMAIN claims /\ Calm(claims[k], claims'[k])
      BY <1>4 DEF Activated
<1> QED BY <1>3, <1>6, <1>7, RightlyButOne

LEMMA ConfirmRightly ==
    ASSUME IndInv, NEW k \in DOMAIN claims, ConfirmClaim(k)
    PROVE  Rightly(claims, claims', boundaries')
<1>1. PICK f \in Statement : f = claims[k].fp
      BY ConfirmEffects
<1>2. /\ claims[k].state = "candidate"
      /\ Activates(claims, claims', observations, k, Principal, f, {})
      BY <1>1, ConfirmEffects
<1>3. Activated(claims, claims', observations, k)
  <2>1. Table(claims, observations) /\ Budget(claims) /\ Claims(claims) /\ Principal \in Scope
        BY HoldingOf, KnownIds, Bounds DEF Holding
  <2> QED BY <1>2, <2>1, ActivatesOne
<1>4. /\ ~Blocked(boundaries, f, Principal, RelatedProjects(observations, claims[k].links))
      /\ boundaries' = boundaries
      BY <1>1 DEF ConfirmClaim, elsewhere
<1>5. claims'[k].scope = Principal /\ claims'[k].fp = f
      BY <1>2 DEF Activates
<1>6. Free(boundaries', claims'[k])
      BY <1>4, <1>5, FreeOfBlocks
<1>7. \A i \in DOMAIN claims' \ {k} : i \in DOMAIN claims /\ Calm(claims[i], claims'[i])
      BY <1>3 DEF Activated
<1> QED BY <1>2, <1>6, <1>7, RightlyButOne

LEMMA ReviseRightly ==
    ASSUME IndInv, NEW k \in DOMAIN claims, NEW f \in Statement, ReviseClaim(k, f)
    PROVE  Rightly(claims, claims', boundaries')
<1>1. PICK scope \in Scope : scope = claims[k].scope
      BY ReviseEffects
<1>2. /\ Activates(claims, claims', observations, k, scope, f, {k})
      /\ claims'[k].version = claims[k].version + 1 /\ claims[k].version \in Nat
      BY <1>1, ReviseEffects
<1>3. Activated(claims, claims', observations, k)
  <2>1. Table(claims, observations) /\ Budget(claims) /\ Claims(claims)
        BY HoldingOf, KnownIds DEF Holding
  <2> QED BY <1>2, <2>1, ActivatesOne
<1>4. /\ ~Blocked(boundaries, f, scope, RelatedProjects(observations, claims[k].links))
      /\ boundaries' = boundaries
      BY <1>1 DEF ReviseClaim, elsewhere
<1>5. claims'[k].scope = scope /\ claims'[k].fp = f
      BY <1>2 DEF Activates
<1>6. Free(boundaries', claims'[k])
      BY <1>4, <1>5, FreeOfBlocks
<1>7. \A i \in DOMAIN claims' \ {k} : i \in DOMAIN claims /\ Calm(claims[i], claims'[i])
      BY <1>3 DEF Activated
<1>8. claims'[k].version > claims[k].version
      BY <1>2
<1> QED BY <1>6, <1>7, <1>8, RightlyButOne

LEMMA ObserveRightly ==
    ASSUME IndInv, NEW c \in Commission, NEW f \in Statement, NEW s \in Strength, Observe(c, f, s)
    PROVE  Rightly(claims, claims', boundaries')
<1>1. PICK p : p = ProjectOf[c]
      OBVIOUS
<1>2. /\ p \in Project /\ boundaries' = boundaries
      /\ ~ \E b \in boundaries : b.fp = f /\ b.scope \in {Principal, p}
      BY <1>1 DEF Observe, elsewhere
<1>3. /\ \A k \in DOMAIN claims :
           /\ SameWords(claims[k], claims'[k])
           /\ claims[k].state \in {"suppressed", "contradicted"} =>
                claims'[k].state \notin {"candidate", "active"}
      /\ \A k \in DOMAIN claims' : claims'[k].state = "active" =>
           \/ k \in DOMAIN claims /\ claims[k].state = "active"
           \/ claims'[k].scope = p /\ claims'[k].fp = f
      BY <1>1, ObserveClaims
<1>4. ASSUME NEW k \in DOMAIN claims', claims'[k].scope = p, claims'[k].fp = f
      PROVE  Free(boundaries', claims'[k])
      BY <1>2, <1>4, Bounds DEF Free
<1> QED BY <1>3, <1>4 DEF Rightly, SameWords

LEMMA ImportRightly ==
    ASSUME IndInv, NEW n \in DOMAIN bundles, NEW c \in Commission, Import(n, c)
    PROVE  Rightly(claims, claims', boundaries')
<1>1. PICK b : b = bundles[n]
      OBVIOUS
<1>2. /\ DOMAIN claims' = DOMAIN claims \union DOMAIN b.claims
      /\ \A k \in DOMAIN claims : Calm(claims[k], claims'[k])
      /\ \A k \in DOMAIN claims' \ DOMAIN claims :
           claims'[k].fp = b.claims[k].fp /\ claims'[k].scope = b.scope
      BY <1>1, ImportClaims
<1>3. ClaimsAllowed(b) /\ boundaries' = boundaries \union b.boundaries
      BY <1>1 DEF Import
<1>4. ASSUME NEW k \in DOMAIN claims' \ DOMAIN claims PROVE Free(boundaries', claims'[k])
  <2>1. PICK related : ~Blocked(boundaries', b.claims[k].fp, b.scope, related)
        BY <1>2, <1>3 DEF ClaimsAllowed
  <2>2. ~Blocked(boundaries', claims'[k].fp, claims'[k].scope, related)
        BY <1>2, <2>1
  <2> QED BY <2>2, FreeOfBlocks
<1> QED BY <1>2, <1>4 DEF Rightly, Calm, SameWords

LEMMA OtherRightly ==
    ASSUME IndInv, \/ \E k \in DOMAIN claims : ForgetClaim(k)
                   \/ \E scope \in Scope : Export(scope)
                   \/ NewInstallation
    PROVE  Rightly(claims, claims', boundaries')
<1>1. \A k \in DOMAIN claims' : k \in DOMAIN claims /\ claims'[k] = claims[k]
  <2>1. ASSUME NEW k \in DOMAIN claims, ForgetClaim(k)
        PROVE  \A i \in DOMAIN claims' : i \in DOMAIN claims /\ claims'[i] = claims[i]
        BY <2>1 DEF ForgetClaim
  <2>2. ASSUME NEW scope \in Scope, Export(scope)
        PROVE  \A i \in DOMAIN claims' : i \in DOMAIN claims /\ claims'[i] = claims[i]
        BY <2>2 DEF Export
  <2>3. ASSUME NewInstallation
        PROVE  \A i \in DOMAIN claims' : i \in DOMAIN claims /\ claims'[i] = claims[i]
        BY <2>3, EmptyHolding DEF NewInstallation
  <2> QED BY <2>1, <2>2, <2>3
<1>2. \A k \in DOMAIN claims' : k \in DOMAIN claims /\ Calm(claims[k], claims'[k])
      BY <1>1 DEF Calm, SameWords
<1> QED BY <1>2, RightlyCalm
-----------------------------------------------------------------------------
(* The invariant, and the theorems.                                        *)

LEMMA InitIndInv == ASSUME Init PROVE IndInv
<1>1. /\ claims = << >> /\ observations = << >> /\ boundaries = {} /\ receipts = {}
      /\ material = WithMaterial /\ pinned = {} /\ bundles = << >>
      /\ created = [claims |-> 0, observations |-> 0]
      /\ aged = FALSE /\ installs = 0 /\ events = 0
      BY DEF Init
<1>2. aged \in BOOLEAN
      BY <1>1
<1>3. 0 \in 0..MaxClaims /\ 0 \in 0..MaxObservations /\ 0 \in 0..MaxEvents /\ 0 \in 0..0
      BY Bounds
<1>4. created \in [claims : 0..MaxClaims, observations : 0..MaxObservations]
      BY <1>1, <1>3
<1>5. Ranges
      BY <1>1, <1>2, <1>3, <1>4, Bounds DEF Ranges
<1>6. Holding
  <2>1. /\ Table(claims, observations) /\ Budget(claims) /\ Versioned(claims, events)
        /\ ShownOnce(observations) /\ DOMAIN claims = {} /\ DOMAIN observations = {}
        BY <1>1, EmptyHolding
  <2> QED BY <2>1 DEF Holding
<1>7. TypeOK /\ BudgetKept
      BY <1>5, <1>6, TypesOf
<1>8. /\ bundles \in Seq({bundles[n] : n \in DOMAIN bundles}) /\ Len(bundles) = 0
      /\ 1..Len(bundles) = {}
  <2>1. PICK S : S = {bundles[n] : n \in DOMAIN bundles}
        OBVIOUS
  <2>2. << >> \in Seq(S) /\ Len(<< >>) = 0
        OBVIOUS
  <2> QED BY <1>1, <2>1, <2>2
<1>9. Counters
  <2>1. Len(bundles) <= events
        BY <1>1, <1>8
  <2> QED BY <1>5, <1>6, <1>8, <2>1 DEF Counters, Ranges, Holding, Versioned
<1>10. BundlesSound /\ SameHistory
      BY <1>8 DEF BundlesSound, SameHistory
<1> QED BY <1>6, <1>7, <1>9, <1>10 DEF IndInv, Holding

LEMMA NextKeeps ==
    ASSUME IndInv, [Next]_vars
    PROVE  IndInv' /\ (Next => Rightly(claims, claims', boundaries'))
<1>1. ASSUME NEW r \in Stated, CreateClaim(r[1], r[2])
      PROVE  IndInv' /\ Rightly(claims, claims', boundaries')
  <2>1. r[1] \in Commission /\ r[2] \in Statement
        BY Bounds
  <2> QED BY <1>1, <2>1, CreateClaimKeeps, CreateRightly
<1>2. ASSUME \/ \E k \in DOMAIN claims : SuppressClaim(k)
             \/ HalfYear \/ MaintainMemory
             \/ \E c \in Commission : PinMaterial(c)
             \/ \E r \in Excluded : CreateBoundary(r[1], r[2])
             \/ UNCHANGED vars
      PROVE  IndInv' /\ Rightly(claims, claims', boundaries')
  <2>1. Calmer(claims, claims') /\ IndInv'
        BY <1>2, CalmActions
  <2>2. \A k \in DOMAIN claims' : k \in DOMAIN claims /\ Calm(claims[k], claims'[k])
        BY <2>1 DEF Calmer
  <2> QED BY <2>1, <2>2, RightlyCalm
<1>3. ASSUME NEW r \in Shown, Observe(r[1], r[2], r[3])
      PROVE  IndInv' /\ Rightly(claims, claims', boundaries')
  <2>1. r[1] \in Commission /\ r[2] \in Statement /\ r[3] \in Strength
        BY Bounds
  <2> QED BY <1>3, <2>1, ObserveKeeps, ObserveRightly
<1>4. ASSUME NEW k \in DOMAIN claims, ConfirmClaim(k)
      PROVE  IndInv' /\ Rightly(claims, claims', boundaries')
      BY <1>4, ConfirmKeeps, ConfirmRightly
<1>5. ASSUME NEW k \in DOMAIN claims, NEW f \in Statement, ReviseClaim(k, f)
      PROVE  IndInv' /\ Rightly(claims, claims', boundaries')
      BY <1>5, ReviseKeeps, ReviseRightly
<1>6. ASSUME NEW k \in DOMAIN claims, ForgetClaim(k)
      PROVE  IndInv' /\ Rightly(claims, claims', boundaries')
      BY <1>6, ForgetKeeps, OtherRightly
<1>7. ASSUME NEW scope \in Scope, Export(scope)
      PROVE  IndInv' /\ Rightly(claims, claims', boundaries')
      BY <1>7, ExportKeeps, OtherRightly
<1>8. ASSUME NEW n \in DOMAIN bundles, NEW c \in Commission, Import(n, c)
      PROVE  IndInv' /\ Rightly(claims, claims', boundaries')
      BY <1>8, ImportKeeps, ImportRightly
<1>9. ASSUME NewInstallation
      PROVE  IndInv' /\ Rightly(claims, claims', boundaries')
      BY <1>9, NewInstallationKeeps, OtherRightly
<1> QED BY <1>1, <1>2, <1>3, <1>4, <1>5, <1>6, <1>7, <1>8, <1>9 DEF Next

\* The store's memory is always as the invariant says, whatever is learned, corrected,
\* forgotten, exported and imported.
THEOREM Invariance == Spec => []IndInv
<1>1. Init => IndInv
      BY InitIndInv
<1>2. IndInv /\ [Next]_vars => IndInv'
      BY NextKeeps
<1> QED BY <1>1, <1>2, PTL DEF Spec

\* Rows have the fields of the schema and links have both ends: in particular forgetting
\* and importing never leave a link to an observation that is gone.
THEOREM TypesCorrect == Spec => []TypeOK
<1>1. IndInv => TypeOK
      BY DEF IndInv
<1> QED BY <1>1, Invariance, PTL

\* The active profile of every scope keeps to its number of claims and of tokens, over
\* promotion, confirmation, correction and import, for every budget.
THEOREM BudgetCorrect == Spec => []BudgetKept
<1>1. IndInv => BudgetKept
      BY DEF IndInv
<1> QED BY <1>1, Invariance, PTL

\* Two elements make a set of two at least.
LEMMA TwoAtLeast ==
    ASSUME NEW S, IsFiniteSet(S), NEW x \in S, NEW y \in S, x # y
    PROVE  Cardinality(S) >= 2
<1>1. IsFiniteSet({x}) /\ Cardinality({x}) = 1 /\ IsFiniteSet({x} \union {y})
      BY FS_Singleton, FS_AddElement
<1>2. Cardinality({x} \union {y}) = Cardinality({x}) + 1
      BY <1>1, FS_AddElement
<1>3. {x} \union {y} \subseteq S
      OBVIOUS
<1>4. Cardinality({x} \union {y}) <= Cardinality(S) /\ Cardinality(S) \in Nat
      BY <1>3, FS_Subset, FS_CardinalityType
<1> QED BY <1>1, <1>2, <1>4

\* The same Commission about the same preference.
Again(r, q) == r.source = q.source /\ r.fp = q.fp

\* A row that was made here is the last its Commission made of the preference: the
\* request is refused while it is there, and what a bundle brings is older.
LocalIsLast ==
    \A o \in DOMAIN observations : observations[o].at = 0 =>
       /\ \A i \in DOMAIN observations : Again(observations[o], observations[i]) => i <= o
       /\ \A n \in 1..Len(bundles) : \A i \in DOMAIN bundles[n].observations :
             Again(observations[o], bundles[n].observations[i]) => i <= o

\* A step that adds no observation and makes no bundle of new ones.
NoneShown ==
    /\ \A o \in DOMAIN observations' : o \in DOMAIN observations /\ observations'[o] = observations[o]
    /\ Len(bundles') = Len(bundles)
    /\ \A n \in 1..Len(bundles) : bundles'[n].observations = bundles[n].observations

LEMMA NoneShownKeeps == ASSUME LocalIsLast, NoneShown PROVE LocalIsLast'
BY DEF LocalIsLast, NoneShown

LEMMA ConfirmShowsNothing ==
    ASSUME NEW k, ConfirmClaim(k) PROVE UNCHANGED <<observations, bundles>>
BY DEF ConfirmClaim, elsewhere

\* Every step but an observation, an import and an export is such a step.
LEMMA QuietSteps ==
    ASSUME IndInv,
           \/ \E r \in Stated : CreateClaim(r[1], r[2])
           \/ \E r \in Excluded : CreateBoundary(r[1], r[2])
           \/ \E k \in DOMAIN claims :
                 \/ ConfirmClaim(k) \/ SuppressClaim(k)
                 \/ \E f \in Statement : ReviseClaim(k, f)
                 \/ ForgetClaim(k)
           \/ NewInstallation \/ HalfYear \/ MaintainMemory
           \/ \E c \in Commission : PinMaterial(c)
           \/ UNCHANGED vars
    PROVE  NoneShown
<1>1. ASSUME UNCHANGED <<observations, bundles>> PROVE NoneShown
      BY <1>1 DEF NoneShown
<1>2. ASSUME NEW k \in DOMAIN claims, ForgetClaim(k) PROVE NoneShown
      BY <1>2 DEF ForgetClaim, NoneShown
<1>3. ASSUME NewInstallation PROVE NoneShown
      BY <1>3, EmptyHolding DEF NewInstallation, NoneShown
<1>4. ASSUME HalfYear PROVE NoneShown
  <2>1. bundles \in Seq({bundles[m] : m \in DOMAIN bundles})
        BY DEF IndInv, Counters
  <2>2. PICK L \in Nat : L = Len(bundles) /\ DOMAIN bundles = 1..L
        BY <2>1
  <2>3. /\ bundles' = [n \in 1..L |-> [bundles[n] EXCEPT !.claims = Aged(bundles[n].claims)]]
        /\ observations' = observations
        BY <1>4, <2>2 DEF HalfYear
  <2>4. Len(bundles') = L
        BY <2>3
  <2>5. ASSUME NEW n \in 1..L PROVE bundles'[n].observations = bundles[n].observations
    <3>1. DOMAIN bundles[n] = {"scope", "claims", "observations", "boundaries", "receipts"}
          BY <2>2 DEF IndInv, BundlesSound
    <3> QED BY <2>3, <3>1
  <2> QED BY <2>2, <2>3, <2>4, <2>5 DEF NoneShown
<1>5. ASSUME NEW r \in Stated, CreateClaim(r[1], r[2]) PROVE NoneShown
      BY <1>1, <1>5 DEF CreateClaim, elsewhere
<1>6. ASSUME NEW r \in Excluded, CreateBoundary(r[1], r[2]) PROVE NoneShown
      BY <1>1, <1>6 DEF CreateBoundary
<1>7. ASSUME NEW k \in DOMAIN claims, ConfirmClaim(k) \/ SuppressClaim(k) PROVE NoneShown
      BY <1>1, <1>7, ConfirmShowsNothing DEF SuppressClaim, elsewhere
<1>8. ASSUME NEW k \in DOMAIN claims, NEW f \in Statement, ReviseClaim(k, f) PROVE NoneShown
      BY <1>1, <1>8 DEF ReviseClaim, elsewhere
<1>9. ASSUME MaintainMemory \/ (\E c \in Commission : PinMaterial(c)) \/ UNCHANGED vars PROVE NoneShown
      BY <1>1, <1>9 DEF MaintainMemory, PinMaterial, vars
<1> QED BY <1>2, <1>3, <1>4, <1>5, <1>6, <1>7, <1>8, <1>9

\* What a Commission shows now is the last it showed.
LEMMA ObserveIsLast ==
    ASSUME IndInv, LocalIsLast, NEW c \in Commission, NEW f \in Statement, NEW s \in Strength,
           Observe(c, f, s)
    PROVE  LocalIsLast'
<1>1. PICK o : o = NextObservation
      OBVIOUS
<1>2. /\ DOMAIN observations' = DOMAIN observations \union {o}
      /\ observations'[o] = [source |-> <<c, installs>>, at |-> 0, fp |-> f, strength |-> s]
      /\ \A i \in DOMAIN observations : observations'[i] = observations[i]
      BY <1>1, ObserveShows
<1>3. /\ bundles' = bundles
      /\ ~ \E i \in DOMAIN observations :
             observations[i].source = <<c, installs>> /\ observations[i].at = 0 /\ observations[i].fp = f
      BY DEF Observe, elsewhere
<1>4. /\ o = created.observations + 1 /\ created.observations \in Nat
      /\ DOMAIN observations \subseteq 1..created.observations
      /\ \A n \in 1..Len(bundles) : DOMAIN bundles[n].observations \subseteq 1..created.observations
      BY <1>1, KnownIds DEF NextObservation, IndInv, TypeOK, BundlesSound
<1>5. /\ \A i \in DOMAIN observations' : i <= o
      /\ \A n \in 1..Len(bundles) : \A i \in DOMAIN bundles[n].observations : i <= o
      BY <1>2, <1>4
<1>6. ASSUME NEW i \in DOMAIN observations, observations[i].at = 0
      PROVE  ~Again(observations[i], observations'[o])
      BY <1>2, <1>3, <1>6 DEF Again
<1> QED BY <1>2, <1>3, <1>5, <1>6 DEF LocalIsLast

\* A bundle brings nothing that was shown later than what is there.
LEMMA ImportIsOlder ==
    ASSUME IndInv, LocalIsLast, NEW n \in DOMAIN bundles, NEW c \in Commission, Import(n, c)
    PROVE  LocalIsLast'
<1>1. n \in 1..Len(bundles) /\ n # 0
  <2>1. bundles \in Seq({bundles[m] : m \in DOMAIN bundles})
        BY DEF IndInv, Counters
  <2>2. n \in 1..Len(bundles) /\ Len(bundles) \in Nat
        BY <2>1
  <2> QED BY <2>2
<1>2. /\ DOMAIN observations' = DOMAIN observations \union DOMAIN bundles[n].observations
      /\ \A o \in DOMAIN observations : observations'[o] = observations[o]
      /\ \A o \in DOMAIN observations' \ DOMAIN observations :
           /\ observations'[o].at = n
           /\ observations'[o].source = bundles[n].observations[o].source
           /\ observations'[o].fp = bundles[n].observations[o].fp
      BY ImportShows
<1>3. bundles' = bundles
      BY DEF Import
<1>4. ASSUME NEW o \in DOMAIN observations', observations'[o].at = 0
      PROVE  o \in DOMAIN observations /\ observations[o] = observations'[o]
      BY <1>1, <1>2, <1>4
<1>5. ASSUME NEW o \in DOMAIN observations', observations'[o].at = 0, NEW i \in DOMAIN observations',
             Again(observations'[o], observations'[i])
      PROVE  i <= o
  <2>1. o \in DOMAIN observations /\ observations[o] = observations'[o]
        BY <1>4, <1>5
  <2>2. CASE i \in DOMAIN observations
        BY <1>2, <1>5, <2>1, <2>2 DEF LocalIsLast
  <2>3. CASE i \notin DOMAIN observations
    <3>1. i \in DOMAIN bundles[n].observations /\ Again(observations[o], bundles[n].observations[i])
          BY <1>2, <1>5, <2>1, <2>3 DEF Again
    <3> QED BY <1>1, <1>5, <2>1, <3>1 DEF LocalIsLast
  <2> QED BY <2>2, <2>3
<1> QED BY <1>3, <1>4, <1>5 DEF LocalIsLast

\* A new bundle holds what the store holds.
LEMMA ExportIsOlder ==
    ASSUME IndInv, LocalIsLast, NEW scope \in Scope, Export(scope)
    PROVE  LocalIsLast'
<1>1. PICK b : b = Exported(scope)
      OBVIOUS
<1>2. bundles' = Append(bundles, b) /\ observations' = observations
      BY <1>1 DEF Export
<1>3. /\ DOMAIN b.observations \subseteq DOMAIN observations
      /\ \A o \in DOMAIN b.observations : b.observations[o] = observations[o]
      BY <1>1, ExportedIsSound
<1>4. bundles \in Seq({bundles[m] : m \in DOMAIN bundles})
      BY DEF IndInv, Counters
<1>5. PICK L \in Nat : L = Len(bundles)
      BY <1>4
<1>6. /\ Len(bundles') = L + 1 /\ \A n \in 1..L : bundles'[n] = bundles[n]
      /\ bundles'[L + 1] = b
  <2>1. PICK S : S = {bundles[m] : m \in DOMAIN bundles}
        OBVIOUS
  <2>2. bundles \in Seq(S)
        BY <1>4, <2>1
  <2> QED BY <1>2, <1>5, <2>2
<1>7. \A n \in 1..(L + 1) : n \in 1..L \/ n = L + 1
      OBVIOUS
<1> QED BY <1>2, <1>3, <1>5, <1>6, <1>7 DEF LocalIsLast

\* No step changes that.
LEMMA LocalStaysLast == ASSUME IndInv, LocalIsLast, [Next]_vars PROVE LocalIsLast'
<1>1. ASSUME NEW r \in Shown, Observe(r[1], r[2], r[3]) PROVE LocalIsLast'
  <2>1. r[1] \in Commission /\ r[2] \in Statement /\ r[3] \in Strength
        BY Bounds
  <2> QED BY <1>1, <2>1, ObserveIsLast
<1>2. ASSUME NEW n \in DOMAIN bundles, NEW c \in Commission, Import(n, c) PROVE LocalIsLast'
      BY <1>2, ImportIsOlder
<1>3. ASSUME NEW scope \in Scope, Export(scope) PROVE LocalIsLast'
      BY <1>3, ExportIsOlder
<1> QED BY <1>1, <1>2, <1>3, QuietSteps, NoneShownKeeps DEF Next

\* Two observations of one preference are of two Commissions, or of one whose earlier
\* observation came back from a bundle.
LEMMA TwoOrigins ==
    ASSUME IndInv, LocalIsLast, NEW ids, NEW f, IsFiniteSet(ids), ids \subseteq DOMAIN observations,
           TwoOf(ids), \A o \in ids : observations[o].fp = f
    PROVE  Cardinality(OriginsIn(ids)) >= 2 \/ HistoryReturned(ids)
<1>1. PICK a \in ids, b \in ids : a # b
      BY DEF TwoOf
<1>2. ids \subseteq Nat
  <2>1. MaxObservations \in Nat /\ DOMAIN observations \subseteq 1..MaxObservations
        BY KnownIds, Bounds DEF ObservationId
  <2> QED BY <2>1
<1>3. CASE observations[a].source # observations[b].source
  <2> DEFINE F == [o \in ids |-> observations[o].source]
  <2>1. F \in Surjection(ids, OriginsIn(ids))
        BY DEF Surjection, OriginsIn
  <2>2. IsFiniteSet(OriginsIn(ids))
        BY <2>1, FS_Surjection
  <2>3. observations[a].source \in OriginsIn(ids) /\ observations[b].source \in OriginsIn(ids)
        BY <1>1 DEF OriginsIn
  <2> QED BY <1>3, <2>2, <2>3, TwoAtLeast
<1>4. CASE observations[a].source = observations[b].source
  <2>1. PICK o \in {a, b}, i \in {a, b} : o < i
        BY <1>1, <1>2
  <2>2. /\ o \in ids /\ i \in ids /\ observations[o].source = observations[i].source
        /\ Again(observations[o], observations[i])
        BY <1>1, <1>4, <2>1 DEF Again
  <2>3. observations[o].at # 0
        BY <1>2, <2>1, <2>2 DEF LocalIsLast
  <2> QED BY <2>1, <2>2, <2>3 DEF HistoryReturned
<1> QED BY <1>3, <1>4

\* An active Project claim that was inferred and never corrected rests on what two
\* Commissions showed, one of them strongly, whatever was forgotten, demoted or imported
\* since.  One Commission alone is enough only where what it showed was exported and
\* forgotten, came back with a bundle, and the Commission was observed again.
THEOREM IndependenceCorrect == Spec => []InferenceIsIndependent
<1>1. ASSUME IndInv, LocalIsLast PROVE InferenceIsIndependent
  <2> SUFFICES ASSUME NEW k \in DOMAIN claims, claims[k].strength = "soft", claims[k].state = "active",
                      claims[k].scope \in Project, claims[k].version = 1
               PROVE  /\ Cardinality(OriginsIn(claims[k].links)) >= 2 \/ HistoryReturned(claims[k].links)
                      /\ \E o \in claims[k].links : observations[o].strength = "strong"
      BY DEF InferenceIsIndependent
  <2>1. Sound(claims[k], observations)
        BY <1>1 DEF IndInv, Table
  <2>2. /\ claims[k].links \subseteq DOMAIN observations /\ TwoOf(claims[k].links)
        /\ \A o \in claims[k].links : observations[o].fp = claims[k].fp
        /\ \E o \in claims[k].links : observations[o].strength = "strong"
        BY <2>1 DEF Sound, Inferred, StrongIn
  <2>3. IsFiniteSet(claims[k].links)
    <3>1. MaxObservations \in Nat /\ DOMAIN observations \subseteq 1..MaxObservations
          BY <1>1, KnownIds, Bounds DEF ObservationId
    <3>2. IsFiniteSet(1..MaxObservations)
          BY <3>1, FS_Interval
    <3> QED BY <2>2, <3>1, <3>2, FS_Subset
  <2> QED BY <1>1, <2>2, <2>3, TwoOrigins
<1>2. Init => LocalIsLast
  <2> SUFFICES ASSUME Init PROVE LocalIsLast
      OBVIOUS
  <2>1. DOMAIN observations = {}
        BY EmptyHolding DEF Init
  <2> QED BY <2>1 DEF LocalIsLast
<1>3. IndInv /\ LocalIsLast /\ [Next]_vars => LocalIsLast'
      BY LocalStaysLast
<1> QED BY <1>1, <1>2, <1>3, Invariance, PTL DEF Spec

\* A claim only becomes active, or says something new while active, where no Learning
\* Boundary prevents it, in whatever order boundaries and claims arrive.
THEOREM BoundaryCorrect == Spec => NothingLearnedAcrossBoundary
<1> DEFINE A == \A k \in DOMAIN claims' :
                  /\ claims'[k].state = "active"
                  /\ k \notin DOMAIN claims \/ claims[k].state # "active" \/ claims[k].fp # claims'[k].fp
                  => ~ \E b \in boundaries' :
                         b.fp = claims'[k].fp /\ (Principal \in {b.scope, claims'[k].scope}
                                                   \/ b.scope = claims'[k].scope)
<1>1. ASSUME IndInv, Next PROVE A
  <2>1. Rightly(claims, claims', boundaries')
        BY <1>1, NextKeeps
  <2> QED BY <2>1 DEF Rightly, Free
<1> HIDE DEF A
<1>2. IndInv /\ [Next]_vars => [A]_vars
      BY <1>1
<1>3. Spec => [][A]_vars
      BY <1>2, Invariance, PTL DEF Spec
<1> QED BY <1>3 DEF A, NothingLearnedAcrossBoundary

\* What the Principal suppressed or evidence contradicted is used again only as a new
\* version, by the Principal's correction.
THEOREM CorrectionCorrect == Spec => BackOnlyByCorrection
<1> DEFINE A == \A k \in DOMAIN claims \cap DOMAIN claims' :
                  /\ claims[k].state \in {"suppressed", "contradicted"}
                  /\ claims'[k].state \in {"candidate", "active"}
                  => claims'[k].version > claims[k].version
<1>1. ASSUME IndInv, Next PROVE A
  <2>1. Rightly(claims, claims', boundaries')
        BY <1>1, NextKeeps
  <2> QED BY <2>1 DEF Rightly
<1> HIDE DEF A
<1>2. IndInv /\ [Next]_vars => [A]_vars
      BY <1>1
<1>3. Spec => [][A]_vars
      BY <1>2, Invariance, PTL DEF Spec
<1> QED BY <1>3 DEF A, BackOnlyByCorrection
=============================================================================
