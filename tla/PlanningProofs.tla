--------------------------- MODULE PlanningProofs ---------------------------
(***************************************************************************)
(* Proofs about Planning, for every set of files, scopes and groups, every *)
(* number of items, every ceiling and every number of failures.            *)
(*                                                                         *)
(* Rows come and go, plan items stay: a work row belongs to one item, and  *)
(* of the rows of an item at most one is not superseded.  An item is       *)
(* finished when somebody who owns it was accepted and all its work rows   *)
(* are settled; what has started rests on finished items (IndInv).  An     *)
(* item is cared for until it passed, what waits waits for somebody, and   *)
(* for as long as nobody was asked for help what failed is reconciled: the *)
(* chain of those who wait ends, since plans are acyclic (ProgressInv).  A *)
(* reconciliation that is not settled is there for a row that is not       *)
(* settled either (EndInv).                                                *)
(***************************************************************************)
EXTENDS Planning, SequenceTheorems, FiniteSetTheorems, WellFoundedInduction, TLAPS

Open == {"ready", "running"}
Status == Open \union Settled \union
          {"none", "resource_blocked", "verification_failed", "verification_pending"}

Row == [purpose : {"planning", "work", "reconciliation"}, owns : SUBSET Item,
        deps : SUBSET Nat, scope : SUBSET Path, group : Group \union Nat,
        position : Nat, status : Status, failed : BOOLEAN]

\* What validation leaves: known dependencies, fair comparisons.
GoodPlan(p) ==
    /\ \E n \in 1..MaxItems : p \in [1..n -> [deps: SUBSET Item, scope: Scope, group: Group \union {NoGroup}]]
    /\ \A i \in DOMAIN p : p[i].deps \subseteq DOMAIN p
    /\ ComparesFairly(p)

\* The plan items that are done with.
WorkOn(rs, o) == {j \in DOMAIN rs : rs[j].purpose = "work" /\ rs[j].owns = {o}}
Finished(p, rs) ==
    {o \in DOMAIN p : o \in Passed(rs) /\ \A j \in WorkOn(rs, o) : rs[j].status \in Settled}

\* A work row belongs to one item, as it was planned; a reconciliation has a group.
RowOfItem(p, rs, j) ==
    \E o \in DOMAIN p : /\ rs[j].owns = {o} /\ rs[j].scope = p[o].scope
                        /\ rs[j].group \in {p[o].group, j}
RowOfGroup(p, rs, j) ==
    /\ rs[j].owns \subseteq DOMAIN p
    /\ \/ rs[j].group \in Group
       \/ rs[j].group \in DOMAIN rs /\ rs[rs[j].group].group = rs[j].group
PlansOnly(rs, j) == rs[j].owns = {} /\ rs[j].group = NoGroup

Rooted(p, rs) ==
    \A j \in DOMAIN rs :
       /\ rs[j].purpose = "work" => RowOfItem(p, rs, j)
       /\ rs[j].purpose = "reconciliation" => RowOfGroup(p, rs, j)
       /\ rs[j].purpose = "planning" => PlansOnly(rs, j)

\* A row that left its group for one of its own is over.
LeftIsOver(rs) == \A j \in DOMAIN rs : rs[j].group = j => rs[j].status \notin Open \union {"none"}

\* A reconciliation owns what the rows of its group own.
ReconcilesAll(rs) ==
    \A r, j \in DOMAIN rs :
       /\ rs[r].purpose = "reconciliation" /\ rs[j].purpose # "reconciliation"
       /\ rs[j].group = rs[r].group
       => rs[j].owns \subseteq rs[r].owns

OneRowPerItem(rs) ==
    \A i, j \in DOMAIN rs :
       /\ rs[i].purpose = "work" /\ rs[j].purpose = "work" /\ rs[i].owns = rs[j].owns
       /\ rs[i].status # "superseded" /\ rs[j].status # "superseded"
       => i = j

StartsFinished(p, rs) ==
    \A j \in DOMAIN rs :
       rs[j].purpose # "planning" /\ rs[j].status # "none" =>
          \A o \in rs[j].owns : p[o].deps \subseteq Finished(p, rs)

\* A row that waits knows a row for everything its item depends on.
WaitsFor(p, rs, j) ==
    /\ rs[j].purpose = "work" /\ rs[j].deps \subseteq DOMAIN rs
    /\ \A o \in rs[j].owns : \A d \in p[o].deps :
          \E e \in rs[j].deps : rs[e].purpose = "work" /\ rs[e].owns = {d}
    /\ \A e \in rs[j].deps : rs[e].status = "superseded" => rs[e].owns \subseteq Finished(p, rs)

Well(p, rs) ==
    /\ rs \in Seq(Row) /\ Rooted(p, rs) /\ LeftIsOver(rs) /\ ReconcilesAll(rs)
    /\ OneRowPerItem(rs) /\ StartsFinished(p, rs)
    /\ \A j \in DOMAIN rs : rs[j].status = "none" => WaitsFor(p, rs, j)

\* Planning ends before the planned work begins, and one round at a time.
OpenPlanning(rs) == {j \in DOMAIN rs : rs[j].purpose = "planning" /\ rs[j].status \in Open}
Phases ==
    /\ OpenPlanning(row) # {} =>
         plan = NoPlan /\ source = "worker" /\ \A j \in Rows : row[j].purpose = "planning"
    /\ \A i, j \in OpenPlanning(row) : i = j
    /\ plan # NoPlan => GoodPlan(plan) /\ (source = "worker" => OverlapsAreOrdered(plan))

\* As long as nothing failed, the ceiling covers what is still to be dispatched.
Owed(rs) == {j \in DOMAIN rs : rs[j].status \in {"none", "ready"}}
Uncompared(p, rs) ==
    {g \in Groups(p) : ~ \E r \in DOMAIN rs : rs[r].group = g /\ rs[r].purpose = "reconciliation"}
Covers(p, rs, used) ==
    used + Cardinality(Owed(rs)) + Cardinality(Uncompared(p, rs)) <= maxAttempts
Covered ==
    /\ attempts \in Nat /\ maxAttempts \in Nat /\ failures \in Nat /\ excused \in Nat
    /\ failures = 0 =>
         /\ excused = 0
         /\ OpenPlanning(row) # {} => blocker = {}
         /\ plan # NoPlan => blocker = {} /\ Covers(plan, row, attempts)

IndInv == Well(plan, row) /\ Phases /\ Covered
-----------------------------------------------------------------------------
(* Plans and rows.                                                         *)

LEMMA Bounds ==
    /\ Scope \subseteq SUBSET Path /\ \A g \in Group : g \notin Nat
    /\ MaxItems \in Nat /\ Ceiling \subseteq Nat /\ MaxFailures \in Nat /\ MaxConcurrency \in Nat
BY PlanningAssumption

LEMMA RowFields ==
    ASSUME NEW r \in Row
    PROVE  /\ r.purpose \in {"planning", "work", "reconciliation"} /\ r.owns \subseteq Item
           /\ r.deps \subseteq Nat /\ r.scope \subseteq Path /\ r.group \in Group \union Nat
           /\ r.status \in Status
BY DEF Row

LEMMA PlanFacts ==
    ASSUME NEW p, GoodPlan(p)
    PROVE  /\ Len(p) \in Nat /\ Len(p) >= 1 /\ DOMAIN p = 1..Len(p) /\ DOMAIN p \subseteq Item
           /\ \A i \in DOMAIN p : /\ p[i].deps \subseteq DOMAIN p /\ p[i].scope \subseteq Path
                                  /\ p[i].group \in Group \union {NoGroup}
           /\ p # NoPlan
<1> DEFINE S == [deps: SUBSET Item, scope: Scope, group: Group \union {NoGroup}]
<1>1. PICK n \in 1..MaxItems : p \in [1..n -> S]
      BY DEF GoodPlan
<1>2. n \in Nat /\ n >= 1 /\ 1..n \subseteq Item
      BY Bounds DEF Item
<1>3. \A i \in DOMAIN p : p[i] \in S
      BY <1>1
<1>4. \A i \in DOMAIN p : p[i].scope \subseteq Path /\ p[i].group \in Group \union {NoGroup}
      BY <1>3, Bounds
<1> HIDE DEF S
<1>5. p \in Seq(S)
      BY <1>1, <1>2, SeqDef
<1>6. Len(p) = n /\ DOMAIN p = 1..n
      BY <1>1, <1>2, <1>5, LenProperties
<1>7. p # << >>
      BY <1>2, <1>6
<1> QED BY <1>2, <1>4, <1>6, <1>7 DEF GoodPlan, NoPlan

\* A row changes its status.
LEMMA StatusSet ==
    ASSUME NEW r \in Row, NEW s \in Status
    PROVE  LET t == [r EXCEPT !.status = s]
           IN  /\ t \in Row /\ t.status = s /\ t.purpose = r.purpose /\ t.owns = r.owns
               /\ t.deps = r.deps /\ t.scope = r.scope /\ t.group = r.group
<1> HIDE DEF Status
<1> QED BY DEF Row

LEMMA Statuses ==
    /\ "none" \in Status /\ "ready" \in Status /\ "running" \in Status /\ "accepted" \in Status
    /\ "superseded" \in Status /\ "resource_blocked" \in Status /\ "verification_failed" \in Status
    /\ "verification_pending" \in Status
BY DEF Status, Open, Settled

LEMMA RowsOf ==
    ASSUME NEW rs \in Seq(Row)
    PROVE  /\ Len(rs) \in Nat /\ DOMAIN rs = 1..Len(rs) /\ rs \in [1..Len(rs) -> Row]
           /\ \A j \in DOMAIN rs : rs[j] \in Row /\ j \in Nat /\ j # NoGroup
BY LenProperties DEF NoGroup

\* Rows that are changed where they are.
LEMMA RowsFrom ==
    ASSUME NEW rs \in Seq(Row), NEW rs2, rs2 \in [DOMAIN rs -> Row]
    PROVE  rs2 \in Seq(Row) /\ Len(rs2) = Len(rs) /\ DOMAIN rs2 = DOMAIN rs
<1>1. Len(rs) \in Nat /\ DOMAIN rs = 1..Len(rs)
      BY RowsOf
<1>2. rs2 \in Seq(Row)
      BY <1>1, SeqDef
<1> QED BY <1>1, <1>2, LenProperties

LEMMA RowsAppended ==
    ASSUME NEW rs \in Seq(Row), NEW r \in Row
    PROVE  LET rs2 == Append(rs, r)
               n == Len(rs) + 1
           IN  /\ rs2 \in Seq(Row) /\ Len(rs2) = n /\ DOMAIN rs2 = DOMAIN rs \union {n}
               /\ n \notin DOMAIN rs /\ rs2[n] = r /\ \A j \in DOMAIN rs : rs2[j] = rs[j]
<1> DEFINE rs2 == Append(rs, r)
           n == Len(rs) + 1
<1>1. /\ rs2 \in Seq(Row) /\ Len(rs2) = n /\ \A j \in 1..Len(rs) : rs2[j] = rs[j]
      /\ rs2[n] = r
      BY AppendProperties
<1>2. Len(rs) \in Nat /\ DOMAIN rs = 1..Len(rs)
      BY RowsOf
<1>3. DOMAIN rs2 = 1..n
      BY <1>1, LenProperties
<1> HIDE DEF rs2
<1>4. 1..n = (1..Len(rs)) \union {n} /\ n \notin 1..Len(rs)
      BY <1>2
<1> QED BY <1>1, <1>2, <1>3, <1>4 DEF rs2
-----------------------------------------------------------------------------
(* Attempts begin and end, and nothing is settled.                         *)

Final == {"none", "accepted", "superseded"}
QuietRow(rs, rs2, k) ==
    /\ rs2[k].purpose = rs[k].purpose /\ rs2[k].owns = rs[k].owns
    /\ rs2[k].deps = rs[k].deps /\ rs2[k].scope = rs[k].scope
    /\ rs[k].status \in Final \/ rs2[k].status \in Final => rs2[k].status = rs[k].status
    /\ rs2[k].status \in Open => rs[k].status \in Open
    /\ \/ rs2[k].group = rs[k].group
       \/ /\ rs2[k].group = k /\ rs[k].status = "running" /\ rs2[k].status \notin Open
          /\ rs[k].purpose # "planning"

Quiet(rs, rs2) ==
    /\ rs2 \in Seq(Row) /\ DOMAIN rs2 = DOMAIN rs
    /\ \A k \in DOMAIN rs : QuietRow(rs, rs2, k)

LEMMA QuietFinished ==
    ASSUME NEW p, NEW rs, NEW rs2, Quiet(rs, rs2)
    PROVE  Finished(p, rs2) = Finished(p, rs)
<1>1. \A k \in DOMAIN rs : (rs2[k].status \in Settled <=> rs[k].status \in Settled)
                           /\ (rs2[k].status = "accepted" <=> rs[k].status = "accepted")
      BY DEF Quiet, QuietRow, Final, Settled
<1>2. Passed(rs2) = Passed(rs)
      BY <1>1 DEF Passed, Quiet, QuietRow
<1>3. \A o : WorkOn(rs2, o) = WorkOn(rs, o) /\ WorkOn(rs, o) \subseteq DOMAIN rs
      BY DEF WorkOn, Quiet, QuietRow
<1> QED BY <1>1, <1>2, <1>3 DEF Finished

LEMMA QuietRooted ==
    ASSUME NEW p, NEW rs, NEW rs2, Quiet(rs, rs2), Rooted(p, rs)
    PROVE  Rooted(p, rs2)
<1> SUFFICES ASSUME NEW j \in DOMAIN rs2
             PROVE  /\ rs2[j].purpose = "work" => RowOfItem(p, rs2, j)
                    /\ rs2[j].purpose = "reconciliation" => RowOfGroup(p, rs2, j)
                    /\ rs2[j].purpose = "planning" => PlansOnly(rs2, j)
    BY DEF Rooted
<1>1. j \in DOMAIN rs /\ QuietRow(rs, rs2, j)
      BY DEF Quiet
<1>2. rs2[j].purpose = "work" => RowOfItem(p, rs2, j)
      BY <1>1 DEF Rooted, RowOfItem, QuietRow
<1>3. rs2[j].purpose = "planning" => PlansOnly(rs2, j)
      BY <1>1 DEF Rooted, PlansOnly, QuietRow
<1>4. ASSUME rs2[j].purpose = "reconciliation" PROVE RowOfGroup(p, rs2, j)
  <2>1. RowOfGroup(p, rs, j) /\ rs2[j].owns = rs[j].owns /\ rs2[j].group \in {rs[j].group, j}
        BY <1>1, <1>4 DEF Rooted, QuietRow
  <2>2. \A m \in DOMAIN rs : rs[m].group = m => rs2[m].group = m
        BY DEF Quiet, QuietRow
  <2> QED BY <1>1, <2>1, <2>2 DEF RowOfGroup, Quiet
<1> QED BY <1>2, <1>3, <1>4

LEMMA QuietReconciles ==
    ASSUME NEW p, NEW rs, NEW rs2, Quiet(rs, rs2), Well(p, rs), p # NoPlan => GoodPlan(p)
    PROVE  ReconcilesAll(rs2)
<1> SUFFICES ASSUME NEW r \in DOMAIN rs2, NEW j \in DOMAIN rs2, rs2[r].purpose = "reconciliation",
                    rs2[j].purpose # "reconciliation", rs2[j].group = rs2[r].group
             PROVE  rs2[j].owns \subseteq rs2[r].owns
    BY DEF ReconcilesAll
<1>1. /\ r \in DOMAIN rs /\ j \in DOMAIN rs /\ QuietRow(rs, rs2, r) /\ QuietRow(rs, rs2, j)
      /\ rs[r].purpose = "reconciliation" /\ rs[j].purpose # "reconciliation" /\ rs[j] \in Row
      /\ r \in Nat /\ j \in Nat /\ r # j /\ r # NoGroup
      BY RowsOf DEF Quiet, QuietRow, Well
<1>2. RowOfGroup(p, rs, r) /\ LeftIsOver(rs)
      BY <1>1 DEF Well, Rooted
<1>3. CASE rs2[r].group = rs[r].group /\ rs2[j].group = rs[j].group
      BY <1>1, <1>3 DEF Well, ReconcilesAll, QuietRow
<1>4. CASE rs2[j].group # rs[j].group /\ rs2[r].group = rs[r].group
  <2>1. rs2[j].group = j /\ rs[j].status = "running"
        BY <1>1, <1>4 DEF QuietRow
  <2>2. rs[r].group = j /\ j \notin Group
        BY <1>1, <1>4, <2>1, Bounds
  <2>3. rs[j].group = j
        BY <1>2, <2>2 DEF RowOfGroup
  <2> QED BY <1>1, <1>2, <2>1, <2>3 DEF LeftIsOver, Open
<1>5. CASE rs2[r].group # rs[r].group
  <2>1. rs2[r].group = r
        BY <1>1, <1>5 DEF QuietRow
  <2>2. rs[j].group = r
        BY <1>1, <2>1 DEF QuietRow
  <2>3. rs[j].purpose = "work"
        BY <1>1, <2>2, RowFields DEF Well, Rooted, PlansOnly
  <2>4. PICK o \in DOMAIN p : rs[j].group \in {p[o].group, j}
        BY <1>1, <2>3 DEF Well, Rooted, RowOfItem
  <2>5. p # NoPlan
        BY <2>4 DEF NoPlan
  <2>6. p[o].group \in Group \union {NoGroup}
        BY <2>4, <2>5, PlanFacts
  <2> QED BY <1>1, <2>2, <2>4, <2>6, Bounds
<1> QED BY <1>3, <1>4, <1>5

LEMMA QuietKeeps ==
    ASSUME NEW p, NEW rs, NEW rs2, Quiet(rs, rs2), Well(p, rs), p # NoPlan => GoodPlan(p)
    PROVE  Well(p, rs2)
<1>1. Finished(p, rs2) = Finished(p, rs)
      BY QuietFinished
<1>2. Rooted(p, rs2) /\ ReconcilesAll(rs2) /\ rs2 \in Seq(Row)
      BY QuietRooted, QuietReconciles DEF Well, Quiet
<1>3. LeftIsOver(rs2)
      BY DEF LeftIsOver, Well, Quiet, QuietRow, Open, Final
<1>4. OneRowPerItem(rs2)
      BY DEF OneRowPerItem, Well, Quiet, QuietRow, Final
<1>5. StartsFinished(p, rs2)
      BY <1>1 DEF StartsFinished, Well, Quiet, QuietRow, Final
<1>6. ASSUME NEW j \in DOMAIN rs2, rs2[j].status = "none" PROVE WaitsFor(p, rs2, j)
  <2>1. j \in DOMAIN rs /\ rs[j].status = "none" /\ QuietRow(rs, rs2, j)
        BY <1>6 DEF Quiet, QuietRow, Final
  <2>2. WaitsFor(p, rs, j)
        BY <2>1 DEF Well
  <2>3. \A e \in rs[j].deps : /\ e \in DOMAIN rs /\ rs2[e].purpose = rs[e].purpose /\ rs2[e].owns = rs[e].owns
                              /\ rs2[e].status = "superseded" => rs[e].status = "superseded"
        BY <2>2 DEF WaitsFor, Quiet, QuietRow, Final
  <2>4. rs2[j].deps = rs[j].deps /\ rs2[j].owns = rs[j].owns /\ rs2[j].purpose = "work"
        /\ rs2[j].deps \subseteq DOMAIN rs2
        BY <2>1, <2>2 DEF WaitsFor, QuietRow, Quiet
  <2>5. \A o \in rs2[j].owns : \A d \in p[o].deps :
          \E e \in rs2[j].deps : rs2[e].purpose = "work" /\ rs2[e].owns = {d}
        BY <2>2, <2>3, <2>4 DEF WaitsFor
  <2>6. \A e \in rs2[j].deps : rs2[e].status = "superseded" => rs2[e].owns \subseteq Finished(p, rs2)
        BY <1>1, <2>2, <2>3, <2>4 DEF WaitsFor
  <2> QED BY <2>4, <2>5, <2>6 DEF WaitsFor
<1> QED BY <1>2, <1>3, <1>4, <1>5, <1>6 DEF Well
-----------------------------------------------------------------------------
(* A reconciliation is planned.                                            *)

MayReconcile(p, rs, r) ==
    /\ r \in Row /\ r.purpose = "reconciliation" /\ r.status = "ready"
    /\ r.owns \subseteq DOMAIN p
    /\ r.group \in Group \/ (r.group \in DOMAIN rs /\ rs[r.group].group = r.group)
    /\ \A j \in DOMAIN rs : rs[j].purpose # "reconciliation" /\ rs[j].group = r.group => rs[j].owns \subseteq r.owns
    /\ \A o \in r.owns : p[o].deps \subseteq Finished(p, rs)

\* One more row, beside rows that stay as they are.
OneMore(rs, rs2, n) ==
    /\ rs2 \in Seq(Row) /\ DOMAIN rs2 = DOMAIN rs \union {n} /\ n \notin DOMAIN rs /\ n \in Nat
    /\ \A j \in DOMAIN rs : rs2[j] = rs[j]

LEMMA ReconciliationFinished ==
    ASSUME NEW p, NEW rs, NEW rs2, NEW n, OneMore(rs, rs2, n),
           rs2[n].purpose # "work", rs2[n].status # "accepted"
    PROVE  Finished(p, rs2) = Finished(p, rs)
<1>1. Passed(rs2) = Passed(rs)
      BY DEF Passed, OneMore
<1>2. \A o : WorkOn(rs2, o) = WorkOn(rs, o) /\ WorkOn(rs, o) \subseteq DOMAIN rs
      BY DEF WorkOn, OneMore
<1> QED BY <1>1, <1>2 DEF Finished, OneMore

LEMMA ReconciliationKeeps ==
    ASSUME NEW p, NEW rs, Well(p, rs), NEW r, MayReconcile(p, rs, r), p # NoPlan => GoodPlan(p)
    PROVE  Well(p, Append(rs, r))
<1>1. PICK n : n = Len(rs) + 1
      OBVIOUS
<1>2. PICK rs2 : rs2 = Append(rs, r)
      OBVIOUS
<1>3. rs \in Seq(Row) /\ r \in Row
      BY DEF Well, MayReconcile
<1>4. OneMore(rs, rs2, n) /\ rs2[n] = r
      BY <1>1, <1>2, <1>3, RowsAppended, RowsOf DEF OneMore
<1>5. Finished(p, rs2) = Finished(p, rs)
  <2>1. rs2[n].purpose # "work" /\ rs2[n].status # "accepted"
        BY <1>4 DEF MayReconcile
  <2> QED BY <1>4, <2>1, ReconciliationFinished
<1>6. \A j \in DOMAIN rs2 : j = n \/ (j \in DOMAIN rs /\ rs2[j] = rs[j])
      BY <1>4 DEF OneMore
<1>7. Rooted(p, rs2)
  <2> SUFFICES ASSUME NEW j \in DOMAIN rs2
               PROVE  /\ rs2[j].purpose = "work" => RowOfItem(p, rs2, j)
                      /\ rs2[j].purpose = "reconciliation" => RowOfGroup(p, rs2, j)
                      /\ rs2[j].purpose = "planning" => PlansOnly(rs2, j)
      BY DEF Rooted
  <2>1. \A m \in DOMAIN rs : m \in DOMAIN rs2 /\ rs2[m] = rs[m]
        BY <1>4 DEF OneMore
  <2>2. CASE j = n
        BY <1>4, <2>1, <2>2 DEF MayReconcile, RowOfGroup
  <2>3. CASE j \in DOMAIN rs
    <3>1. rs2[j].purpose = "work" => RowOfItem(p, rs2, j)
          BY <2>1, <2>3 DEF Well, Rooted, RowOfItem
    <3>2. rs2[j].purpose = "planning" => PlansOnly(rs2, j)
          BY <2>1, <2>3 DEF Well, Rooted, PlansOnly
    <3>3. rs2[j].purpose = "reconciliation" => RowOfGroup(p, rs2, j)
          BY <2>1, <2>3 DEF Well, Rooted, RowOfGroup
    <3> QED BY <3>1, <3>2, <3>3
  <2> QED BY <1>6, <2>2, <2>3
<1>8. LeftIsOver(rs2)
  <2>1. r.group # n
        BY <1>4, Bounds DEF MayReconcile, OneMore
  <2> QED BY <1>4, <1>6, <2>1 DEF LeftIsOver, Well
<1>9. ReconcilesAll(rs2)
  <2>1. r.purpose = "reconciliation"
        BY DEF MayReconcile
  <2> QED BY <1>4, <1>6, <2>1 DEF ReconcilesAll, Well, MayReconcile
<1>10. OneRowPerItem(rs2)
  <2>1. r.purpose # "work"
        BY DEF MayReconcile
  <2> QED BY <1>4, <1>6, <2>1 DEF OneRowPerItem, Well
<1>11. StartsFinished(p, rs2)
      BY <1>4, <1>5, <1>6 DEF StartsFinished, Well, MayReconcile
<1>12. ASSUME NEW j \in DOMAIN rs2, rs2[j].status = "none" PROVE WaitsFor(p, rs2, j)
  <2>1. j \in DOMAIN rs /\ rs2[j] = rs[j]
        BY <1>4, <1>6, <1>12 DEF MayReconcile
  <2>2. WaitsFor(p, rs, j)
        BY <1>12, <2>1 DEF Well
  <2>3. \A e \in rs[j].deps : e \in DOMAIN rs /\ rs2[e] = rs[e]
        BY <1>4, <2>2 DEF WaitsFor, OneMore
  <2>4. rs2[j].purpose = "work" /\ rs2[j].deps \subseteq DOMAIN rs2
        BY <1>4, <2>1, <2>2 DEF WaitsFor, OneMore
  <2>5. \A o \in rs2[j].owns : \A d \in p[o].deps :
          \E e \in rs2[j].deps : rs2[e].purpose = "work" /\ rs2[e].owns = {d}
        BY <2>1, <2>2, <2>3 DEF WaitsFor
  <2>6. \A e \in rs2[j].deps : rs2[e].status = "superseded" => rs2[e].owns \subseteq Finished(p, rs2)
        BY <1>5, <2>1, <2>2, <2>3 DEF WaitsFor
  <2> QED BY <2>4, <2>5, <2>6 DEF WaitsFor
<1> QED BY <1>2, <1>4, <1>7, <1>8, <1>9, <1>10, <1>11, <1>12 DEF Well, OneMore
-----------------------------------------------------------------------------
(* A row is given up for a copy of it.                                     *)

Moved(deps, i, n) == IF i \in deps THEN (deps \ {i}) \union {n} ELSE deps

Replaced(rs, rs2, i, n) ==
    /\ rs2 \in Seq(Row) /\ DOMAIN rs2 = DOMAIN rs \union {n} /\ n \notin DOMAIN rs /\ n \in Nat
    /\ n # NoGroup
    /\ \A j \in DOMAIN rs :
         /\ rs2[j].purpose = rs[j].purpose /\ rs2[j].owns = rs[j].owns /\ rs2[j].scope = rs[j].scope
         /\ rs2[j].group = rs[j].group /\ rs2[j].deps = Moved(rs[j].deps, i, n)
         /\ rs2[j].status = IF j = i THEN "superseded" ELSE rs[j].status
    /\ rs2[n].purpose = rs[i].purpose /\ rs2[n].owns = rs[i].owns /\ rs2[n].scope = rs[i].scope
    /\ rs2[n].group = rs[i].group /\ rs2[n].status = "ready"

LEMMA ReplacedKeeps ==
    ASSUME NEW p, NEW rs, Well(p, rs), NEW rs2, NEW i \in DOMAIN rs, NEW n, Replaced(rs, rs2, i, n),
           rs[i].status = "running", rs[i].purpose # "planning", p # NoPlan => GoodPlan(p)
    PROVE  Well(p, rs2)
<1>1. /\ rs \in Seq(Row) /\ rs2 \in Seq(Row) /\ n \notin DOMAIN rs /\ n \in DOMAIN rs2
      /\ \A j \in DOMAIN rs : j \in DOMAIN rs2
      /\ \A j \in DOMAIN rs2 : j = n \/ j \in DOMAIN rs
      BY DEF Well, Replaced
<1>2. rs[i].group # i
      BY DEF Well, LeftIsOver, Open
<1>3. rs[i].group \in Group \union {NoGroup} \union DOMAIN rs
  <2>1. CASE rs[i].purpose = "work"
    <3>1. PICK o \in DOMAIN p : rs[i].group \in {p[o].group, i}
          BY <2>1 DEF Well, Rooted, RowOfItem
    <3>2. p # NoPlan
          BY <3>1 DEF NoPlan
    <3>3. p[o].group \in Group \union {NoGroup}
          BY <3>1, <3>2, PlanFacts
    <3> QED BY <3>1, <3>3
  <2>2. CASE rs[i].purpose = "reconciliation"
        BY <2>2 DEF Well, Rooted, RowOfGroup
  <2>3. rs[i].purpose \in {"planning", "work", "reconciliation"}
        BY <1>1, RowsOf, RowFields
  <2> QED BY <2>1, <2>2, <2>3
<1>4. rs[i].group # n
      BY <1>1, <1>3, Bounds DEF Replaced
<1>5. Finished(p, rs) \subseteq Finished(p, rs2)
  <2> SUFFICES ASSUME NEW o \in Finished(p, rs) PROVE o \in Finished(p, rs2)
      OBVIOUS
  <2>1. o \in DOMAIN p /\ o \in Passed(rs) /\ \A j \in WorkOn(rs, o) : rs[j].status \in Settled
        BY DEF Finished
  <2>2. PICK k \in DOMAIN rs : rs[k].status = "accepted" /\ o \in rs[k].owns
        BY <2>1 DEF Passed
  <2>3. k \in DOMAIN rs2 /\ rs2[k].status = "accepted" /\ o \in rs2[k].owns
        BY <1>1, <2>2 DEF Replaced
  <2>4. o \in Passed(rs2)
        BY <2>3 DEF Passed
  <2>5. i \notin WorkOn(rs, o)
        BY <2>1 DEF Settled
  <2>6. ASSUME NEW j \in WorkOn(rs2, o) PROVE rs2[j].status \in Settled
    <3>1. j \in DOMAIN rs2 /\ rs2[j].purpose = "work" /\ rs2[j].owns = {o}
          BY DEF WorkOn
    <3>2. j # n
          BY <2>5, <3>1 DEF Replaced, WorkOn
    <3>3. j \in DOMAIN rs /\ j \in WorkOn(rs, o) /\ j # i
          BY <1>1, <2>5, <3>1, <3>2 DEF Replaced, WorkOn
    <3> QED BY <2>1, <3>3 DEF Replaced
  <2> QED BY <2>1, <2>4, <2>6 DEF Finished
<1>6. Rooted(p, rs2)
  <2> SUFFICES ASSUME NEW j \in DOMAIN rs2
               PROVE  /\ rs2[j].purpose = "work" => RowOfItem(p, rs2, j)
                      /\ rs2[j].purpose = "reconciliation" => RowOfGroup(p, rs2, j)
                      /\ rs2[j].purpose = "planning" => PlansOnly(rs2, j)
      BY DEF Rooted
  <2>1. \A m \in DOMAIN rs : m \in DOMAIN rs2 /\ rs2[m].group = rs[m].group
        BY <1>1 DEF Replaced
  <2>2. CASE j = n
    <3>1. ASSUME rs2[n].purpose = "work" PROVE RowOfItem(p, rs2, n)
      <4>1. rs[i].purpose = "work"
            BY <3>1 DEF Replaced
      <4>2. PICK o \in DOMAIN p : /\ rs[i].owns = {o} /\ rs[i].scope = p[o].scope
                                 /\ rs[i].group \in {p[o].group, i}
            BY <4>1 DEF Well, Rooted, RowOfItem
      <4>3. rs2[n].owns = {o} /\ rs2[n].scope = p[o].scope /\ rs2[n].group = p[o].group
            BY <1>2, <4>2 DEF Replaced
      <4> QED BY <4>3 DEF RowOfItem
    <3>2. rs2[n].purpose = "reconciliation" => RowOfGroup(p, rs2, n)
          BY <2>1, ZenonT(40) DEF Well, Rooted, RowOfGroup, Replaced
    <3>3. rs2[n].purpose # "planning"
          BY DEF Replaced
    <3> QED BY <2>2, <3>1, <3>2, <3>3
  <2>3. CASE j \in DOMAIN rs
    <3>1. rs2[j].purpose = "work" => RowOfItem(p, rs2, j)
          BY <2>3 DEF Well, Rooted, RowOfItem, Replaced
    <3>2. rs2[j].purpose = "planning" => PlansOnly(rs2, j)
          BY <2>3 DEF Well, Rooted, PlansOnly, Replaced
    <3>3. rs2[j].purpose = "reconciliation" => RowOfGroup(p, rs2, j)
          BY <2>1, <2>3 DEF Well, Rooted, RowOfGroup, Replaced
    <3> QED BY <3>1, <3>2, <3>3
  <2> QED BY <1>1, <2>2, <2>3
<1>7. LeftIsOver(rs2)
  <2> SUFFICES ASSUME NEW j \in DOMAIN rs2, rs2[j].group = j PROVE rs2[j].status \notin Open \union {"none"}
      BY DEF LeftIsOver
  <2>1. j \in DOMAIN rs /\ j # i
        BY <1>1, <1>2, <1>4 DEF Replaced
  <2> QED BY <2>1 DEF Well, LeftIsOver, Replaced
<1>8. ReconcilesAll(rs2)
  <2>1. \A j \in DOMAIN rs2 : \E k \in DOMAIN rs : /\ rs2[j].purpose = rs[k].purpose /\ rs2[j].owns = rs[k].owns
                                                   /\ rs2[j].group = rs[k].group
        BY <1>1 DEF Replaced
  <2> QED BY <2>1 DEF ReconcilesAll, Well
<1>9. OneRowPerItem(rs2)
  <2>1. \A j \in DOMAIN rs2 : rs2[j].status # "superseded" =>
           IF j = n THEN rs2[j].purpose = rs[i].purpose /\ rs2[j].owns = rs[i].owns
           ELSE /\ j \in DOMAIN rs /\ j # i /\ rs2[j].purpose = rs[j].purpose /\ rs2[j].owns = rs[j].owns
                /\ rs[j].status # "superseded"
        BY <1>1 DEF Replaced
  <2>2. OneRowPerItem(rs)
        BY DEF Well
  <2> QED BY <2>1, <2>2 DEF OneRowPerItem
<1>10. StartsFinished(p, rs2)
  <2> SUFFICES ASSUME NEW j \in DOMAIN rs2, rs2[j].purpose # "planning", rs2[j].status # "none",
                      NEW o \in rs2[j].owns
               PROVE  p[o].deps \subseteq Finished(p, rs2)
      BY DEF StartsFinished
  <2>1. \E k \in DOMAIN rs : rs[k].purpose # "planning" /\ rs[k].status # "none" /\ o \in rs[k].owns
        BY <1>1 DEF Replaced
  <2> QED BY <1>5, <2>1 DEF Well, StartsFinished
<1>11. ASSUME NEW j \in DOMAIN rs2, rs2[j].status = "none" PROVE WaitsFor(p, rs2, j)
  <2>1. j \in DOMAIN rs /\ rs[j].status = "none"
        BY <1>1, <1>11 DEF Replaced
  <2>2. WaitsFor(p, rs, j)
        BY <2>1 DEF Well
  <2>3. /\ rs2[j].purpose = "work" /\ rs2[j].owns = rs[j].owns /\ rs2[j].deps = Moved(rs[j].deps, i, n)
        /\ rs[j].deps \subseteq DOMAIN rs
        BY <2>1, <2>2 DEF Replaced, WaitsFor
  <2>4. rs2[j].deps \subseteq DOMAIN rs2
        BY <1>1, <2>3 DEF Moved
  <2>5. ASSUME NEW o \in rs2[j].owns, NEW d \in p[o].deps
        PROVE  \E e \in rs2[j].deps : rs2[e].purpose = "work" /\ rs2[e].owns = {d}
    <3>1. PICK e \in rs[j].deps : rs[e].purpose = "work" /\ rs[e].owns = {d}
          BY <2>2, <2>3 DEF WaitsFor
    <3>2. CASE e = i
          BY <2>3, <3>1, <3>2 DEF Moved, Replaced
    <3>3. CASE e # i
      <4>1. e \in rs2[j].deps /\ e \in DOMAIN rs
            BY <2>3, <3>1, <3>3 DEF Moved
      <4> QED BY <3>1, <4>1 DEF Replaced
    <3> QED BY <3>2, <3>3
  <2>6. ASSUME NEW e \in rs2[j].deps, rs2[e].status = "superseded"
        PROVE  rs2[e].owns \subseteq Finished(p, rs2)
    <3>1. e # n
          BY <2>6 DEF Replaced
    <3>2. e \in rs[j].deps /\ e # i /\ e \in DOMAIN rs
          BY <1>1, <2>3, <3>1 DEF Moved
    <3>3. rs[e].status = "superseded" /\ rs2[e].owns = rs[e].owns
          BY <2>6, <3>2 DEF Replaced
    <3> QED BY <1>5, <2>2, <3>2, <3>3 DEF WaitsFor
  <2> QED BY <2>3, <2>4, <2>5, <2>6 DEF WaitsFor
<1> QED BY <1>1, <1>6, <1>7, <1>8, <1>9, <1>10, <1>11 DEF Well
-----------------------------------------------------------------------------
(* A Result is accepted, and who waited for it is woken up.                *)

\* Only statuses change.
SameRows(rs, rs2) ==
    /\ rs2 \in Seq(Row) /\ DOMAIN rs2 = DOMAIN rs
    /\ \A j \in DOMAIN rs :
         /\ rs2[j].purpose = rs[j].purpose /\ rs2[j].owns = rs[j].owns /\ rs2[j].scope = rs[j].scope
         /\ rs2[j].group = rs[j].group /\ rs2[j].deps = rs[j].deps

\* What is settled stays as it is, so no item becomes unfinished.
LEMMA FinishedStays ==
    ASSUME NEW p, NEW rs, NEW rs2, SameRows(rs, rs2),
           \A j \in DOMAIN rs : rs[j].status \in Settled => rs2[j].status = rs[j].status
    PROVE  Finished(p, rs) \subseteq Finished(p, rs2)
<1>1. Passed(rs) \subseteq Passed(rs2)
      BY DEF Passed, SameRows, Settled
<1>2. \A o : WorkOn(rs2, o) = WorkOn(rs, o) /\ WorkOn(rs, o) \subseteq DOMAIN rs
      BY DEF WorkOn, SameRows
<1> QED BY <1>1, <1>2 DEF Finished

LEMMA SameRooted ==
    ASSUME NEW p, NEW rs, NEW rs2, SameRows(rs, rs2), Rooted(p, rs), ReconcilesAll(rs)
    PROVE  Rooted(p, rs2) /\ ReconcilesAll(rs2)
<1>1. ReconcilesAll(rs2)
      BY DEF SameRows, ReconcilesAll
<1>2. ASSUME NEW j \in DOMAIN rs2
      PROVE  /\ rs2[j].purpose = "work" => RowOfItem(p, rs2, j)
             /\ rs2[j].purpose = "reconciliation" => RowOfGroup(p, rs2, j)
             /\ rs2[j].purpose = "planning" => PlansOnly(rs2, j)
  <2>1. j \in DOMAIN rs
        BY DEF SameRows
  <2>2. rs2[j].purpose = "work" => RowOfItem(p, rs2, j)
        BY <2>1 DEF SameRows, Rooted, RowOfItem
  <2>3. rs2[j].purpose = "planning" => PlansOnly(rs2, j)
        BY <2>1 DEF SameRows, Rooted, PlansOnly
  <2>4. rs2[j].purpose = "reconciliation" => RowOfGroup(p, rs2, j)
        BY <2>1 DEF SameRows, Rooted, RowOfGroup
  <2> QED BY <2>2, <2>3, <2>4
<1> QED BY <1>1, <1>2 DEF Rooted

\* accept_planned_result, as Accepted(i) describes it.
AcceptedTo(rs, rs2, i) ==
    /\ SameRows(rs, rs2)
    /\ rs2[i].status = "accepted"
    /\ \A j \in DOMAIN rs \ {i} :
         \/ rs2[j].status = rs[j].status
         \/ /\ rs2[j].status = "superseded"
            /\ rs[j].status \in {"verification_pending", "verification_failed"}
            /\ rs[i].purpose = "reconciliation" /\ rs[j].purpose # "reconciliation"
            /\ rs[j].group = rs[i].group

LEMMA AcceptedKeeps ==
    ASSUME NEW p, NEW rs, Well(p, rs), NEW rs2, NEW i \in DOMAIN rs, AcceptedTo(rs, rs2, i),
           rs[i].status = "running", rs[i].purpose # "planning", p # NoPlan => GoodPlan(p)
    PROVE  Well(p, rs2)
<1>1. SameRows(rs, rs2) /\ rs2 \in Seq(Row) /\ DOMAIN rs2 = DOMAIN rs
      BY DEF AcceptedTo, SameRows
<1>2. \A j \in DOMAIN rs : /\ rs[j].status \in Settled => rs2[j].status = rs[j].status
                           /\ rs2[j].status = "none" <=> rs[j].status = "none"
                           /\ rs2[j].status \in Open => rs[j].status \in Open
                           /\ rs2[j].status # "superseded" => rs[j].status # "superseded"
      BY DEF AcceptedTo, Settled, Open
<1>3. Finished(p, rs) \subseteq Finished(p, rs2)
      BY <1>1, <1>2, FinishedStays
<1>4. Rooted(p, rs2) /\ ReconcilesAll(rs2)
      BY <1>1, SameRooted DEF Well
<1>5. LeftIsOver(rs2)
      BY <1>1, <1>2 DEF LeftIsOver, Well, SameRows
<1>6. OneRowPerItem(rs2)
      BY <1>1, <1>2 DEF OneRowPerItem, Well, SameRows
<1>7. StartsFinished(p, rs2)
      BY <1>1, <1>2, <1>3 DEF StartsFinished, Well, SameRows
<1>8. ASSUME NEW e \in DOMAIN rs, rs2[e].status = "superseded", rs[e].status # "superseded"
      PROVE  rs2[e].owns \subseteq Finished(p, rs2)
  <2>1. /\ e # i /\ rs[i].purpose = "reconciliation" /\ rs[e].purpose # "reconciliation"
        /\ rs[e].group = rs[i].group
        BY <1>8 DEF AcceptedTo
  <2>2. rs[e].owns \subseteq rs[i].owns
        BY <2>1 DEF Well, ReconcilesAll
  <2>3. rs[e].purpose = "work" \/ rs[e].owns = {}
    <3>1. rs[e].purpose \in {"planning", "work", "reconciliation"}
          BY RowsOf, RowFields DEF Well
    <3> QED BY <2>1, <3>1 DEF Well, Rooted, PlansOnly
  <2>4. CASE rs[e].owns = {}
        BY <1>1, <2>4 DEF SameRows
  <2>5. CASE rs[e].purpose = "work"
    <3>1. PICK o \in DOMAIN p : rs[e].owns = {o}
          BY <2>5 DEF Well, Rooted, RowOfItem
    <3>2. o \in Passed(rs2)
          BY <1>1, <2>2, <3>1 DEF Passed, AcceptedTo, SameRows
    <3>3. ASSUME NEW j \in WorkOn(rs2, o) PROVE rs2[j].status \in Settled
      <4>1. j \in DOMAIN rs /\ rs[j].purpose = "work" /\ rs[j].owns = rs[e].owns
            BY <1>1, <3>1 DEF WorkOn, SameRows
      <4>2. j = e \/ rs[j].status = "superseded"
            BY <1>8, <2>5, <4>1 DEF Well, OneRowPerItem
      <4> QED BY <1>2, <1>8, <4>1, <4>2 DEF Settled
    <3> QED BY <1>1, <3>1, <3>2, <3>3 DEF Finished, SameRows
  <2> QED BY <2>3, <2>4, <2>5
<1>9. ASSUME NEW j \in DOMAIN rs2, rs2[j].status = "none" PROVE WaitsFor(p, rs2, j)
  <2>1. j \in DOMAIN rs /\ rs[j].status = "none"
        BY <1>1, <1>2, <1>9
  <2>2. WaitsFor(p, rs, j)
        BY <2>1 DEF Well
  <2>3. /\ rs2[j].purpose = "work" /\ rs2[j].owns = rs[j].owns /\ rs2[j].deps = rs[j].deps
        /\ rs[j].deps \subseteq DOMAIN rs
        BY <1>1, <2>1, <2>2 DEF WaitsFor, SameRows
  <2>4. \A o \in rs2[j].owns : \A d \in p[o].deps :
          \E e \in rs2[j].deps : rs2[e].purpose = "work" /\ rs2[e].owns = {d}
        BY <1>1, <2>2, <2>3, ZenonT(40) DEF WaitsFor, SameRows
  <2>5. ASSUME NEW e \in rs2[j].deps, rs2[e].status = "superseded"
        PROVE  rs2[e].owns \subseteq Finished(p, rs2)
    <3>1. e \in rs[j].deps /\ e \in DOMAIN rs
          BY <2>3
    <3>2. CASE rs[e].status = "superseded"
          BY <1>1, <1>3, <2>2, <3>1, <3>2 DEF WaitsFor, SameRows
    <3>3. CASE rs[e].status # "superseded"
          BY <1>8, <2>5, <3>1, <3>3
    <3> QED BY <3>2, <3>3
  <2> QED BY <1>1, <2>3, <2>4, <2>5 DEF WaitsFor
<1> QED BY <1>1, <1>4, <1>5, <1>6, <1>7, <1>9 DEF Well

\* advance_plan_after_evidence, as Advanced(rs) describes it.
AdvancedTo(rs, rs2) ==
    /\ SameRows(rs, rs2)
    /\ \A j \in DOMAIN rs :
         \/ rs2[j].status = rs[j].status
         \/ /\ rs2[j].status = "ready" /\ rs[j].status = "none"
            /\ \A d \in rs[j].deps : rs[d].status \in Settled

LEMMA AdvancedKeeps ==
    ASSUME NEW p, NEW rs, Well(p, rs), NEW rs2, AdvancedTo(rs, rs2), p # NoPlan => GoodPlan(p)
    PROVE  Well(p, rs2)
<1>1. SameRows(rs, rs2) /\ rs2 \in Seq(Row) /\ DOMAIN rs2 = DOMAIN rs
      BY DEF AdvancedTo, SameRows
<1>2. \A j \in DOMAIN rs : /\ rs[j].status \in Settled => rs2[j].status = rs[j].status
                           /\ rs2[j].status = "none" => rs[j].status = "none"
                           /\ rs2[j].status = "superseded" <=> rs[j].status = "superseded"
      BY DEF AdvancedTo, Settled
<1>3. Finished(p, rs) \subseteq Finished(p, rs2)
      BY <1>1, <1>2, FinishedStays
<1>4. Rooted(p, rs2) /\ ReconcilesAll(rs2)
      BY <1>1, SameRooted DEF Well
<1>5. LeftIsOver(rs2)
      BY <1>1 DEF LeftIsOver, Well, SameRows, AdvancedTo
<1>6. OneRowPerItem(rs2)
      BY <1>1, <1>2 DEF OneRowPerItem, Well, SameRows
<1>7. ASSUME NEW e \in DOMAIN rs, NEW d \in DOMAIN p, rs[e].purpose = "work", rs[e].owns = {d},
             rs[e].status = "accepted"
      PROVE  d \in Finished(p, rs)
  <2>1. d \in Passed(rs)
        BY <1>7 DEF Passed
  <2>2. ASSUME NEW j \in WorkOn(rs, d) PROVE rs[j].status \in Settled
    <3>1. j = e \/ rs[j].status = "superseded"
          BY <1>7 DEF Well, OneRowPerItem, WorkOn
    <3> QED BY <1>7, <3>1 DEF Settled
  <2> QED BY <2>1, <2>2 DEF Finished
<1>8. StartsFinished(p, rs2)
  <2> SUFFICES ASSUME NEW j \in DOMAIN rs2, rs2[j].purpose # "planning", rs2[j].status # "none",
                      NEW o \in rs2[j].owns
               PROVE  p[o].deps \subseteq Finished(p, rs)
      BY <1>3 DEF StartsFinished
  <2>1. j \in DOMAIN rs /\ rs2[j].owns = rs[j].owns /\ rs2[j].purpose = rs[j].purpose
        BY <1>1 DEF SameRows
  <2>2. CASE rs[j].status # "none"
        BY <2>1, <2>2 DEF Well, StartsFinished
  <2>3. CASE rs[j].status = "none"
    <3>1. WaitsFor(p, rs, j) /\ \A d \in rs[j].deps : rs[d].status \in Settled
          BY <2>1, <2>3 DEF Well, AdvancedTo
    <3>2. o \in DOMAIN p
          BY <2>1, <3>1 DEF WaitsFor, Well, Rooted, RowOfItem
    <3>3. p # NoPlan
          BY <3>2 DEF NoPlan
    <3>4. p[o].deps \subseteq DOMAIN p
          BY <3>2, <3>3, PlanFacts
    <3>5. ASSUME NEW d \in p[o].deps PROVE d \in Finished(p, rs)
      <4>1. PICK e \in rs[j].deps : rs[e].purpose = "work" /\ rs[e].owns = {d}
            BY <2>1, <3>1 DEF WaitsFor
      <4>2. e \in DOMAIN rs /\ d \in DOMAIN p /\ rs[e].status \in {"accepted", "superseded"}
            BY <3>1, <3>4, <4>1 DEF WaitsFor, Settled
      <4>3. CASE rs[e].status = "accepted"
            BY <1>7, <4>1, <4>2, <4>3
      <4>4. CASE rs[e].status = "superseded"
            BY <3>1, <4>1, <4>4 DEF WaitsFor
      <4> QED BY <4>2, <4>3, <4>4
    <3> QED BY <3>5
  <2> QED BY <2>2, <2>3
<1>9. ASSUME NEW j \in DOMAIN rs2, rs2[j].status = "none" PROVE WaitsFor(p, rs2, j)
  <2>1. j \in DOMAIN rs /\ rs[j].status = "none"
        BY <1>1, <1>2, <1>9
  <2>2. WaitsFor(p, rs, j)
        BY <2>1 DEF Well
  <2>3. /\ rs2[j].purpose = "work" /\ rs2[j].owns = rs[j].owns /\ rs2[j].deps = rs[j].deps
        /\ rs[j].deps \subseteq DOMAIN rs
        BY <1>1, <2>1, <2>2 DEF WaitsFor, SameRows
  <2>4. \A o \in rs2[j].owns : \A d \in p[o].deps :
          \E e \in rs2[j].deps : rs2[e].purpose = "work" /\ rs2[e].owns = {d}
        BY <1>1, <2>2, <2>3 DEF WaitsFor, SameRows
  <2>5. ASSUME NEW e \in rs2[j].deps, rs2[e].status = "superseded"
        PROVE  rs2[e].owns \subseteq Finished(p, rs2)
        BY <1>1, <1>2, <1>3, <2>2, <2>3, <2>5 DEF WaitsFor, SameRows
  <2> QED BY <1>1, <2>3, <2>4, <2>5 DEF WaitsFor
<1> QED BY <1>1, <1>4, <1>5, <1>6, <1>8, <1>9 DEF Well
-----------------------------------------------------------------------------
(* A plan is recorded.                                                     *)

\* Rows of planning rounds, and no others.
RoundsOnly(rs) ==
    /\ rs \in Seq(Row)
    /\ \A j \in DOMAIN rs : rs[j].purpose = "planning" /\ PlansOnly(rs, j) /\ rs[j].status # "none"

LEMMA RoundsAreWell ==
    ASSUME NEW p, NEW rs, RoundsOnly(rs)
    PROVE  Well(p, rs)
<1>1. \A j \in DOMAIN rs : j # NoGroup
      BY RowsOf DEF RoundsOnly
<1>2. LeftIsOver(rs)
      BY <1>1 DEF RoundsOnly, LeftIsOver, PlansOnly
<1>3. Rooted(p, rs) /\ ReconcilesAll(rs) /\ OneRowPerItem(rs) /\ StartsFinished(p, rs)
      BY DEF RoundsOnly, Rooted, ReconcilesAll, OneRowPerItem, StartsFinished
<1> QED BY <1>2, <1>3 DEF Well, RoundsOnly

\* The rows of a plan after those of some rounds, index by index.
PlannedFrom(p, rs, n, rs2) ==
    /\ rs2 \in Seq(Row) /\ n \in Nat /\ DOMAIN rs = 1..n /\ DOMAIN rs2 = 1..(n + Len(p))
    /\ \A j \in DOMAIN rs : rs2[j] = rs[j]
    /\ \A i \in DOMAIN p : rs2[n + i] = PlanRows(p, n)[i]

\* One row for an item.
LEMMA PlanRow ==
    ASSUME NEW p, GoodPlan(p), NEW n \in Nat, NEW i \in DOMAIN p
    PROVE  LET r == PlanRows(p, n)[i]
           IN  /\ r \in Row /\ r.purpose = "work" /\ r.owns = {i} /\ r.deps = {n + d : d \in p[i].deps}
               /\ r.scope = p[i].scope /\ r.group = p[i].group
               /\ r.status = IF p[i].deps = {} THEN "ready" ELSE "none"
<1> DEFINE s == IF p[i].deps = {} THEN "ready" ELSE "none"
           D == {n + d : d \in p[i].deps}
           r == [purpose |-> "work", owns |-> {i}, deps |-> D, scope |-> p[i].scope,
                 group |-> p[i].group, position |-> n + i, status |-> s, failed |-> FALSE]
<1>1. PlanRows(p, n)[i] = r
      BY DEF PlanRows
<1>2. /\ i \in Item /\ i \in Nat /\ p[i].scope \subseteq Path /\ p[i].group \in Group \union Nat
      /\ p[i].deps \subseteq Nat
      BY PlanFacts DEF NoGroup
<1>3. D \subseteq Nat /\ n + i \in Nat
      BY <1>2
<1>4. s \in Status
      BY Statuses
<1> HIDE DEF s, D
<1>5. r \in Row
      BY <1>2, <1>3, <1>4 DEF Row
<1>6. /\ r.purpose = "work" /\ r.owns = {i} /\ r.deps = D /\ r.scope = p[i].scope
      /\ r.group = p[i].group /\ r.status = s
      OBVIOUS
<1> QED BY <1>1, <1>5, <1>6 DEF s, D

LEMMA PlannedIndex ==
    ASSUME NEW p, NEW rs, NEW n, NEW rs2, PlannedFrom(p, rs, n, rs2), GoodPlan(p)
    PROVE  /\ \A j \in DOMAIN rs2 : j \in DOMAIN rs \/ \E i \in DOMAIN p : j = n + i
           /\ \A i \in DOMAIN p : n + i \in DOMAIN rs2 /\ n + i \notin DOMAIN rs /\ i \in Nat /\ i >= 1
<1>1. Len(p) \in Nat /\ DOMAIN p = 1..Len(p) /\ n \in Nat /\ DOMAIN rs = 1..n
      BY PlanFacts DEF PlannedFrom
<1>2. ASSUME NEW j \in DOMAIN rs2 PROVE j \in DOMAIN rs \/ \E i \in DOMAIN p : j = n + i
  <2>1. j \in 1..(n + Len(p))
        BY DEF PlannedFrom
  <2>2. CASE j <= n
        BY <1>1, <2>1, <2>2
  <2>3. CASE j > n
    <3>1. j - n \in DOMAIN p /\ j = n + (j - n)
          BY <1>1, <2>1, <2>3
    <3> QED BY <3>1
  <2> QED BY <1>1, <2>1, <2>2, <2>3
<1>3. \A i \in DOMAIN p : n + i \in DOMAIN rs2 /\ n + i \notin DOMAIN rs /\ i \in Nat /\ i >= 1
      BY <1>1 DEF PlannedFrom
<1> QED BY <1>2, <1>3

LEMMA PlanRowsAreRows ==
    ASSUME NEW p, GoodPlan(p), NEW n \in Nat
    PROVE  PlanRows(p, n) \in Seq(Row) /\ Len(PlanRows(p, n)) = Len(p)
<1>1. PICK q : q = PlanRows(p, n)
      OBVIOUS
<1>2. q = [i \in DOMAIN p |-> q[i]]
      BY <1>1 DEF PlanRows
<1>3. \A i \in DOMAIN p : q[i] \in Row
      BY <1>1, PlanRow
<1>4. Len(p) \in Nat /\ DOMAIN p = 1..Len(p)
      BY PlanFacts
<1>5. q \in [1..Len(p) -> Row]
      BY <1>2, <1>3, <1>4
<1>6. q \in Seq(Row)
      BY <1>4, <1>5, SeqDef
<1>7. Len(q) = Len(p)
      BY <1>4, <1>5, <1>6, LenProperties
<1> QED BY <1>1, <1>6, <1>7

LEMMA PlannedWell ==
    ASSUME NEW p, GoodPlan(p), NEW rs, RoundsOnly(rs), NEW n, NEW rs2, PlannedFrom(p, rs, n, rs2)
    PROVE  Well(p, rs2)
<1>1. /\ \A j \in DOMAIN rs2 : j \in DOMAIN rs \/ \E i \in DOMAIN p : j = n + i
      /\ \A i \in DOMAIN p : n + i \in DOMAIN rs2 /\ n + i \notin DOMAIN rs /\ i \in Nat /\ i >= 1
      BY PlannedIndex
<1>2. \A j \in DOMAIN rs :
         /\ rs2[j].purpose = "planning" /\ rs2[j].owns = {} /\ rs2[j].group = NoGroup
         /\ rs2[j].status # "none" /\ j # NoGroup
      BY RowsOf DEF PlannedFrom, RoundsOnly, PlansOnly
<1>3. ASSUME NEW i \in DOMAIN p
      PROVE  /\ rs2[n + i].purpose = "work" /\ rs2[n + i].owns = {i}
             /\ rs2[n + i].deps = {n + d : d \in p[i].deps}
             /\ rs2[n + i].scope = p[i].scope /\ rs2[n + i].group = p[i].group
             /\ rs2[n + i].status = IF p[i].deps = {} THEN "ready" ELSE "none"
             /\ p[i].group # n + i /\ n + i \in Nat
  <2>1. n \in Nat /\ rs2[n + i] = PlanRows(p, n)[i]
        BY DEF PlannedFrom
  <2>2. p[i].group \in Group \union {NoGroup}
        BY PlanFacts
  <2>3. p[i].group # n + i /\ n + i \in Nat
        BY <1>1, <2>1, <2>2, Bounds DEF NoGroup
  <2> QED BY <2>1, <2>3, PlanRow
<1>4. Rooted(p, rs2)
  <2> SUFFICES ASSUME NEW j \in DOMAIN rs2
               PROVE  /\ rs2[j].purpose = "work" => RowOfItem(p, rs2, j)
                      /\ rs2[j].purpose = "reconciliation" => RowOfGroup(p, rs2, j)
                      /\ rs2[j].purpose = "planning" => PlansOnly(rs2, j)
      BY DEF Rooted
  <2>1. CASE j \in DOMAIN rs
        BY <1>2, <2>1 DEF PlansOnly
  <2>2. ASSUME NEW i \in DOMAIN p, j = n + i PROVE rs2[j].purpose = "work" /\ RowOfItem(p, rs2, j)
        BY <1>3, <2>2 DEF RowOfItem
  <2> QED BY <1>1, <2>1, <2>2
<1>5. LeftIsOver(rs2)
      BY <1>1, <1>2, <1>3 DEF LeftIsOver
<1>6. ReconcilesAll(rs2)
  <2>1. \A j \in DOMAIN rs2 : rs2[j].purpose # "reconciliation"
        BY <1>1, <1>2, <1>3
  <2> QED BY <2>1 DEF ReconcilesAll
<1>7. \A j \in DOMAIN rs2 : rs2[j].purpose = "work" => \E i \in DOMAIN p : j = n + i
      BY <1>1, <1>2
<1>8. OneRowPerItem(rs2)
  <2> SUFFICES ASSUME NEW k \in DOMAIN rs2, NEW j \in DOMAIN rs2, rs2[k].purpose = "work",
                      rs2[j].purpose = "work", rs2[k].owns = rs2[j].owns
               PROVE  k = j
      BY DEF OneRowPerItem
  <2>1. PICK i1 \in DOMAIN p : k = n + i1
        BY <1>7
  <2>2. PICK i2 \in DOMAIN p : j = n + i2
        BY <1>7
  <2>3. {i1} = {i2}
        BY <1>3, <2>1, <2>2
  <2> QED BY <2>1, <2>2, <2>3
<1>9. StartsFinished(p, rs2)
  <2> SUFFICES ASSUME NEW j \in DOMAIN rs2, rs2[j].purpose # "planning", rs2[j].status # "none",
                      NEW o \in rs2[j].owns
               PROVE  p[o].deps = {}
      BY DEF StartsFinished
  <2>1. PICK i \in DOMAIN p : j = n + i
        BY <1>1, <1>2
  <2> QED BY <1>3, <2>1
<1>10. ASSUME NEW j \in DOMAIN rs2, rs2[j].status = "none" PROVE WaitsFor(p, rs2, j)
  <2>1. PICK i \in DOMAIN p : j = n + i
        BY <1>1, <1>2, <1>10
  <2>2. rs2[j].purpose = "work" /\ rs2[j].owns = {i} /\ rs2[j].deps = {n + d : d \in p[i].deps}
        BY <1>3, <2>1
  <2>3. p[i].deps \subseteq DOMAIN p
        BY PlanFacts
  <2>4. \A e \in rs2[j].deps : e \in DOMAIN rs2 /\ rs2[e].status # "superseded"
        BY <1>1, <1>3, <2>2, <2>3
  <2>5. ASSUME NEW d \in p[i].deps
        PROVE  \E e \in rs2[j].deps : rs2[e].purpose = "work" /\ rs2[e].owns = {d}
    <3>1. n + d \in rs2[j].deps
          BY <2>2
    <3>2. rs2[n + d].purpose = "work" /\ rs2[n + d].owns = {d}
          BY <1>3, <2>3
    <3> QED BY <3>1, <3>2
  <2> QED BY <2>2, <2>4, <2>5 DEF WaitsFor
<1>11. rs2 \in Seq(Row)
      BY DEF PlannedFrom
<1> QED BY <1>4, <1>5, <1>6, <1>8, <1>9, <1>10, <1>11 DEF Well
-----------------------------------------------------------------------------
(* Steps, index by index.                                                  *)

LEMMA StatusChange ==
    ASSUME NEW rs \in Seq(Row), NEW i \in DOMAIN rs, NEW s \in Status
    PROVE  LET rs2 == [rs EXCEPT ![i].status = s]
           IN  /\ SameRows(rs, rs2) /\ rs2[i].status = s
               /\ \A j \in DOMAIN rs \ {i} : rs2[j] = rs[j]
<1> DEFINE rs2 == [rs EXCEPT ![i].status = s]
<1>1. DOMAIN rs2 = DOMAIN rs /\ rs2 = [j \in DOMAIN rs |-> rs2[j]]
      BY RowsOf
<1>2. \A j \in DOMAIN rs : rs[j] \in Row
      BY RowsOf
<1>3. rs2[i] = [rs[i] EXCEPT !.status = s] /\ \A j \in DOMAIN rs \ {i} : rs2[j] = rs[j]
      BY RowsOf
<1>4. /\ rs2[i] \in Row /\ rs2[i].status = s /\ rs2[i].purpose = rs[i].purpose
      /\ rs2[i].owns = rs[i].owns /\ rs2[i].deps = rs[i].deps /\ rs2[i].scope = rs[i].scope
      /\ rs2[i].group = rs[i].group
  <2> HIDE DEF rs2
  <2> QED BY <1>2, <1>3, StatusSet
<1> HIDE DEF rs2
<1>5. rs2 \in [DOMAIN rs -> Row]
      BY <1>1, <1>2, <1>3, <1>4
<1>6. rs2 \in Seq(Row)
      BY <1>5, RowsFrom
<1>7. SameRows(rs, rs2)
      BY <1>1, <1>3, <1>4, <1>6 DEF SameRows
<1> QED BY <1>3, <1>4, <1>7 DEF rs2

\* An Attempt begins or ends without settling anything.
Turns(rs, rs2, i, s) ==
    /\ Quiet(rs, rs2) /\ rs2[i].status = s /\ \A j \in DOMAIN rs \ {i} : rs2[j] = rs[j]
    /\ \A j \in DOMAIN rs : rs2[j].group = rs[j].group

LEMMA StatusQuiet ==
    ASSUME NEW rs \in Seq(Row), NEW i \in DOMAIN rs, NEW s \in Status, rs[i].status \in Open,
           s \notin Final, NEW rs2, rs2 = [rs EXCEPT ![i].status = s]
    PROVE  Turns(rs, rs2, i, s)
<1>1. /\ SameRows(rs, rs2) /\ rs2[i].status = s
      /\ \A j \in DOMAIN rs \ {i} : rs2[j] = rs[j]
      BY StatusChange
<1>2. \A k \in DOMAIN rs : QuietRow(rs, rs2, k)
      BY <1>1 DEF SameRows, QuietRow, Final, Open
<1> QED BY <1>1, <1>2 DEF Turns, Quiet, SameRows

LEMMA WorksFacts ==
    ASSUME IndInv, NEW i \in Rows, Works(i)
    PROVE  /\ row \in Seq(Row) /\ row[i] \in Row /\ row[i].status = "running" /\ row[i].purpose # "planning"
           /\ OpenPlanning(row) = {} /\ i \in Nat /\ i # NoGroup
           /\ plan # NoPlan => GoodPlan(plan)
BY RowsOf DEF IndInv, Well, Works, Phases, Rows

\* Nothing new is planned by planning.
LEMMA PhasesKept ==
    ASSUME Phases, UNCHANGED <<plan, source>>, OpenPlanning(row') \subseteq OpenPlanning(row),
           OpenPlanning(row) = {} \/ \A j \in DOMAIN row' : row'[j].purpose = "planning"
    PROVE  Phases'
BY DEF Phases, Rows

LEMMA QuietPhases ==
    ASSUME Phases, UNCHANGED <<plan, source>>, Quiet(row, row')
    PROVE  Phases'
<1>1. OpenPlanning(row') \subseteq OpenPlanning(row)
      BY DEF OpenPlanning, Quiet, QuietRow
<1>2. OpenPlanning(row) = {} \/ \A j \in DOMAIN row' : row'[j].purpose = "planning"
      BY DEF Phases, Quiet, QuietRow, Rows
<1> QED BY <1>1, <1>2, PhasesKept

LEMMA FailureCounts ==
    ASSUME Covered, Fail, UNCHANGED <<attempts, maxAttempts>>, excused' \in {excused, excused + 1}
    PROVE  Covered'
<1>1. /\ failures' = failures + 1 /\ failures \in Nat /\ attempts' \in Nat /\ maxAttempts' \in Nat
      /\ excused' \in Nat
      BY DEF Covered, Fail
<1>2. failures' \in Nat /\ failures' # 0
      BY <1>1
<1> QED BY <1>1, <1>2 DEF Covered

LEMMA FailAttemptKeeps ==
    ASSUME IndInv, NEW i \in Rows, FailAttempt(i)
    PROVE  IndInv'
<1>1. Fail /\ row[i].status = "running" /\ UNCHANGED <<mandateVars, plan, attempts, cStatus>>
      BY DEF FailAttempt
<1>2. row \in Seq(Row) /\ (plan # NoPlan => GoodPlan(plan)) /\ i \in DOMAIN row
      BY DEF IndInv, Well, Phases, Rows
<1>3. PICK s \in {"ready", "resource_blocked", "verification_failed"} : row' = [row EXCEPT ![i].status = s]
      BY DEF FailAttempt
<1>4. s \in Status /\ s \notin Final
      BY <1>3, Statuses DEF Final
<1>5. Quiet(row, row')
      BY <1>1, <1>2, <1>3, <1>4, StatusQuiet DEF Open, Turns
<1>6. Well(plan, row')
      BY <1>2, <1>5, QuietKeeps DEF IndInv
<1>7. Phases'
      BY <1>1, <1>5, QuietPhases DEF IndInv, mandateVars
<1>8. Covered'
  <2>1. excused' \in {excused, excused + 1}
        BY DEF FailAttempt
  <2> QED BY <1>1, <2>1, FailureCounts DEF IndInv, mandateVars
<1> QED BY <1>1, <1>6, <1>7, <1>8 DEF IndInv

LEMMA VerifierCannotRunKeeps ==
    ASSUME IndInv, NEW i \in Rows, VerifierCannotRun(i)
    PROVE  IndInv'
<1>1. /\ Fail /\ Works(i) /\ UNCHANGED <<mandateVars, plan, attempts, excused, cStatus>>
      /\ row' = [row EXCEPT ![i].status = "verification_failed"]
      BY DEF VerifierCannotRun
<1>2. row \in Seq(Row) /\ (plan # NoPlan => GoodPlan(plan)) /\ i \in DOMAIN row /\ row[i].status = "running"
      BY <1>1, WorksFacts DEF Rows
<1>4. "verification_failed" \in Status /\ "verification_failed" \notin Final
      BY Statuses DEF Final
<1>5. Quiet(row, row')
      BY <1>1, <1>2, <1>4, StatusQuiet DEF Open, Turns
<1>6. Well(plan, row')
      BY <1>2, <1>5, QuietKeeps DEF IndInv
<1>7. Phases'
      BY <1>1, <1>5, QuietPhases DEF IndInv, mandateVars
<1>8. Covered'
      BY <1>1, FailureCounts DEF IndInv, mandateVars
<1> QED BY <1>1, <1>6, <1>7, <1>8 DEF IndInv
-----------------------------------------------------------------------------
(* What the ceiling has to cover.                                          *)

LEMMA OwedFinite ==
    ASSUME NEW rs \in Seq(Row)
    PROVE  IsFiniteSet(Owed(rs)) /\ Cardinality(Owed(rs)) \in Nat
<1>1. Len(rs) \in Nat /\ DOMAIN rs = 1..Len(rs)
      BY RowsOf
<1>2. IsFiniteSet(1..Len(rs))
      BY <1>1, FS_Interval
<1>3. Owed(rs) \in SUBSET (1..Len(rs))
      BY <1>1 DEF Owed
<1>4. IsFiniteSet(Owed(rs))
      BY <1>2, <1>3, FS_Subset
<1> QED BY <1>4, FS_CardinalityType

LEMMA UncomparedFinite ==
    ASSUME NEW p, GoodPlan(p), NEW rs
    PROVE  IsFiniteSet(Uncompared(p, rs)) /\ Cardinality(Uncompared(p, rs)) \in Nat
<1>1. Len(p) \in Nat /\ DOMAIN p = 1..Len(p)
      BY PlanFacts
<1>2. IsFiniteSet(DOMAIN p)
      BY <1>1, FS_Interval
<1> DEFINE T == {p[i].group : i \in DOMAIN p}
           f == [i \in DOMAIN p |-> p[i].group]
<1>3. f \in Surjection(DOMAIN p, T)
      BY DEF Surjection
<1> HIDE DEF f
<1>4. IsFiniteSet(T)
      BY <1>2, <1>3, FS_Surjection
<1>5. Uncompared(p, rs) \in SUBSET T
      BY DEF Uncompared, Groups
<1> HIDE DEF T
<1>6. IsFiniteSet(Uncompared(p, rs))
      BY <1>4, <1>5, FS_Subset
<1> QED BY <1>6, FS_CardinalityType

\* Which comparisons are missing depends on purposes and groups.
LEMMA SameUncompared ==
    ASSUME NEW p, NEW rs, NEW rs2, DOMAIN rs2 = DOMAIN rs,
           \A j \in DOMAIN rs : rs2[j].purpose = rs[j].purpose /\ rs2[j].group = rs[j].group
    PROVE  Uncompared(p, rs2) = Uncompared(p, rs)
BY DEF Uncompared

LEMMA DispatchKeeps ==
    ASSUME IndInv, NEW i \in Rows, Dispatch(i)
    PROVE  IndInv'
<1>1. /\ i \in DOMAIN row /\ row[i].status = "ready"
      /\ UNCHANGED <<mandateVars, plan, excused, failures, cStatus>>
      BY DEF Dispatch, Selectable, With, Rows
<1>2. row \in Seq(Row) /\ (plan # NoPlan => GoodPlan(plan))
      BY DEF IndInv, Well, Phases
<1>3. PICK s \in {"running", "resource_blocked"} : row' = [row EXCEPT ![i].status = s]
      BY DEF Dispatch
<1>4. s \in Status /\ s \notin Final /\ row[i].status \in Open
      BY <1>1, <1>3, Statuses DEF Final, Open
<1>5. /\ Quiet(row, row') /\ row'[i].status = s /\ \A j \in DOMAIN row \ {i} : row'[j] = row[j]
      /\ \A j \in DOMAIN row : row'[j].group = row[j].group
  <2>1. Turns(row, row', i, s)
        BY <1>1, <1>2, <1>3, <1>4, StatusQuiet
  <2> QED BY <2>1 DEF Turns
<1>6. Well(plan, row')
      BY <1>2, <1>5, QuietKeeps DEF IndInv
<1>7. Phases'
      BY <1>1, <1>5, QuietPhases DEF IndInv, mandateVars
<1>8. /\ attempts \in Nat /\ maxAttempts \in Nat /\ failures \in Nat /\ excused \in Nat
      /\ maxAttempts' = maxAttempts /\ failures' = failures /\ plan' = plan /\ excused' = excused
      /\ failures = 0 => excused = 0
      BY <1>1 DEF IndInv, Covered, mandateVars
<1>9. DOMAIN row' = DOMAIN row /\ \A j \in DOMAIN row : row'[j].purpose = row[j].purpose
      BY <1>5 DEF Quiet, QuietRow
<1>10. ASSUME plan # NoPlan, failures = 0
       PROVE  /\ attempts < maxAttempts /\ blocker = {} /\ ~CeilingReached
              /\ attempts + 1 + Cardinality(Owed(row')) + Cardinality(Uncompared(plan, row')) <= maxAttempts
  <2>1. /\ blocker = {}
        /\ attempts + Cardinality(Owed(row)) + Cardinality(Uncompared(plan, row)) <= maxAttempts
        BY <1>10 DEF IndInv, Covered, Covers
  <2>2. /\ IsFiniteSet(Owed(row)) /\ Cardinality(Owed(row)) \in Nat
        /\ Cardinality(Uncompared(plan, row)) \in Nat
        BY <1>2, <1>10, OwedFinite, UncomparedFinite
  <2>3. Uncompared(plan, row') = Uncompared(plan, row)
        BY <1>5, <1>9, SameUncompared
  <2>4. i \in Owed(row)
        BY <1>1 DEF Owed
  <2>5. Owed(row') = Owed(row) \ {i}
        BY <1>3, <1>5, <1>9 DEF Owed
  <2>6. Cardinality(Owed(row')) = Cardinality(Owed(row)) - 1 /\ Cardinality(Owed(row')) \in Nat
    <3>1. IsFiniteSet(Owed(row) \ {i}) /\ Cardinality(Owed(row) \ {i}) = Cardinality(Owed(row)) - 1
          BY <2>2, <2>4, FS_RemoveElement
    <3>2. Cardinality(Owed(row) \ {i}) \in Nat
          BY <3>1, FS_CardinalityType
    <3> QED BY <2>5, <3>1, <3>2
  <2> QED BY <1>8, <1>10, <2>1, <2>2, <2>3, <2>6 DEF CeilingReached
<1>11. Covered'
  <2>1. CASE ~CeilingReached
    <3>1. attempts' = attempts + 1 /\ blocker' = blocker
          BY <2>1 DEF Dispatch
    <3>2. OpenPlanning(row') # {} => OpenPlanning(row) # {}
          BY <1>5 DEF OpenPlanning, Quiet, QuietRow
    <3> QED BY <1>8, <1>10, <3>1, <3>2 DEF Covered, Covers, IndInv
  <2>2. CASE CeilingReached
    <3>1. attempts' = attempts /\ row' = [row EXCEPT ![i].status = "resource_blocked"]
          BY <2>2 DEF Dispatch
    <3>2. row'[i].status = "resource_blocked"
          BY <1>1, <1>2, <3>1, StatusChange, Statuses
    <3>3. OpenPlanning(row') \subseteq OpenPlanning(row)
          BY <1>5 DEF OpenPlanning, Quiet, QuietRow
    <3>4. i \notin OpenPlanning(row')
          BY <3>2 DEF OpenPlanning, Open
    <3>5. OpenPlanning(row) # {} => i \in OpenPlanning(row)
          BY <1>1 DEF IndInv, Phases, OpenPlanning, Open, Rows
    <3>6. OpenPlanning(row') = {}
          BY <3>3, <3>4, <3>5 DEF IndInv, Phases
    <3> QED BY <1>8, <1>10, <2>2, <3>1, <3>6 DEF Covered
  <2> QED BY <2>1, <2>2
<1> QED BY <1>6, <1>7, <1>8, <1>11 DEF IndInv
-----------------------------------------------------------------------------
(* Rows that change in more than their status.                             *)

LEMMA FailedSet ==
    ASSUME NEW r \in Row, NEW b \in BOOLEAN
    PROVE  LET t == [r EXCEPT !.failed = b]
           IN  /\ t \in Row /\ t.status = r.status /\ t.purpose = r.purpose /\ t.owns = r.owns
               /\ t.deps = r.deps /\ t.scope = r.scope /\ t.group = r.group
<1> HIDE DEF Status
<1> QED BY DEF Row

LEMMA GroupSet ==
    ASSUME NEW r \in Row, NEW g \in Group \union Nat
    PROVE  LET t == [r EXCEPT !.group = g]
           IN  /\ t \in Row /\ t.status = r.status /\ t.purpose = r.purpose /\ t.owns = r.owns
               /\ t.deps = r.deps /\ t.scope = r.scope /\ t.group = g
<1> HIDE DEF Status
<1> QED BY DEF Row

LEMMA DepsSet ==
    ASSUME NEW r \in Row, NEW D \in SUBSET Nat
    PROVE  LET t == [r EXCEPT !.deps = D]
           IN  /\ t \in Row /\ t.status = r.status /\ t.purpose = r.purpose /\ t.owns = r.owns
               /\ t.deps = D /\ t.scope = r.scope /\ t.group = r.group
<1> HIDE DEF Status
<1> QED BY DEF Row

\* The row is tried again, and remembers that it failed.
LEMMA RetryQuiet ==
    ASSUME NEW rs \in Seq(Row), NEW i \in DOMAIN rs, rs[i].status = "running", NEW b \in BOOLEAN,
           NEW rs2, rs2 = [rs EXCEPT ![i].status = "ready", ![i].failed = b]
    PROVE  Turns(rs, rs2, i, "ready")
<1>1. /\ rs2[i] = [[rs[i] EXCEPT !.status = "ready"] EXCEPT !.failed = b]
      /\ rs2 = [j \in DOMAIN rs |-> rs2[j]]
      /\ \A j \in DOMAIN rs \ {i} : rs2[j] = rs[j]
  <2>1. rs2[i] = [[rs[i] EXCEPT !.status = "ready"] EXCEPT !.failed = b]
        OBVIOUS
  <2>2. rs2 = [j \in DOMAIN rs |-> rs2[j]]
        BY RowsOf
  <2>3. \A j \in DOMAIN rs \ {i} : rs2[j] = rs[j]
        BY RowsOf
  <2> QED BY <2>1, <2>2, <2>3
<1>2. \A j \in DOMAIN rs : rs[j] \in Row
      BY RowsOf
<1>3. PICK r1 : r1 = [rs[i] EXCEPT !.status = "ready"]
      OBVIOUS
<1>4. /\ r1 \in Row /\ r1.status = "ready" /\ r1.purpose = rs[i].purpose /\ r1.owns = rs[i].owns
      /\ r1.deps = rs[i].deps /\ r1.scope = rs[i].scope /\ r1.group = rs[i].group
      BY <1>2, <1>3, StatusSet, Statuses
<1>5. rs2[i] = [r1 EXCEPT !.failed = b]
      BY <1>1, <1>3
<1>6. /\ rs2[i] \in Row /\ rs2[i].status = "ready" /\ rs2[i].purpose = rs[i].purpose
      /\ rs2[i].owns = rs[i].owns /\ rs2[i].deps = rs[i].deps /\ rs2[i].scope = rs[i].scope
      /\ rs2[i].group = rs[i].group
  <2>1. PICK t : t = [r1 EXCEPT !.failed = b]
        OBVIOUS
  <2>2. /\ t \in Row /\ t.status = r1.status /\ t.purpose = r1.purpose /\ t.owns = r1.owns
        /\ t.deps = r1.deps /\ t.scope = r1.scope /\ t.group = r1.group
        BY <1>4, <1>5, <2>1, FailedSet
  <2>3. rs2[i] = t
        BY <1>5, <2>1
  <2> QED BY <1>4, <2>2, <2>3
<1>7. rs2 \in [DOMAIN rs -> Row]
      BY <1>1, <1>2, <1>6
<1>8. rs2 \in Seq(Row) /\ DOMAIN rs2 = DOMAIN rs
      BY <1>7, RowsFrom
<1>9. \A k \in DOMAIN rs : QuietRow(rs, rs2, k)
      BY <1>1, <1>6 DEF QuietRow, Final, Open
<1> QED BY <1>1, <1>6, <1>8, <1>9 DEF Turns, Quiet

\* The row leaves its group for one of its own.
Leaves(rs, rs2, i) ==
    /\ Quiet(rs, rs2) /\ rs2[i].group = i /\ rs2[i].status = "verification_failed"
    /\ \A j \in DOMAIN rs \ {i} : rs2[j] = rs[j]

LEMMA LeaveQuiet ==
    ASSUME NEW rs \in Seq(Row), NEW i \in DOMAIN rs, rs[i].status = "running",
           rs[i].purpose # "planning",
           NEW rs2, rs2 = [rs EXCEPT ![i].status = "verification_failed", ![i].group = i]
    PROVE  Leaves(rs, rs2, i)
<1>1. /\ rs2[i] = [[rs[i] EXCEPT !.status = "verification_failed"] EXCEPT !.group = i]
      /\ rs2 = [j \in DOMAIN rs |-> rs2[j]]
      /\ \A j \in DOMAIN rs \ {i} : rs2[j] = rs[j]
  <2>1. rs2[i] = [[rs[i] EXCEPT !.status = "verification_failed"] EXCEPT !.group = i]
        OBVIOUS
  <2>2. rs2 = [j \in DOMAIN rs |-> rs2[j]]
        BY RowsOf
  <2>3. \A j \in DOMAIN rs \ {i} : rs2[j] = rs[j]
        BY RowsOf
  <2> QED BY <2>1, <2>2, <2>3
<1>2. \A j \in DOMAIN rs : rs[j] \in Row /\ j \in Nat
      BY RowsOf
<1>3. PICK r1 : r1 = [rs[i] EXCEPT !.status = "verification_failed"]
      OBVIOUS
<1>4. /\ r1 \in Row /\ r1.status = "verification_failed" /\ r1.purpose = rs[i].purpose
      /\ r1.owns = rs[i].owns /\ r1.deps = rs[i].deps /\ r1.scope = rs[i].scope
      BY <1>2, <1>3, StatusSet, Statuses
<1>5. rs2[i] = [r1 EXCEPT !.group = i] /\ i \in Group \union Nat
      BY <1>1, <1>2, <1>3
<1>6. /\ rs2[i] \in Row /\ rs2[i].status = "verification_failed" /\ rs2[i].purpose = rs[i].purpose
      /\ rs2[i].owns = rs[i].owns /\ rs2[i].deps = rs[i].deps /\ rs2[i].scope = rs[i].scope
      /\ rs2[i].group = i
  <2>1. PICK t : t = [r1 EXCEPT !.group = i]
        OBVIOUS
  <2>2. /\ t \in Row /\ t.status = r1.status /\ t.purpose = r1.purpose /\ t.owns = r1.owns
        /\ t.deps = r1.deps /\ t.scope = r1.scope /\ t.group = i
        BY <1>4, <1>5, <2>1, GroupSet, SMTT(30)
  <2>3. rs2[i] = t
        BY <1>5, <2>1
  <2> QED BY <1>4, <2>2, <2>3
<1>7. rs2 \in [DOMAIN rs -> Row]
      BY <1>1, <1>2, <1>6
<1>8. rs2 \in Seq(Row) /\ DOMAIN rs2 = DOMAIN rs
      BY <1>7, RowsFrom
<1>9. \A k \in DOMAIN rs : QuietRow(rs, rs2, k)
      BY <1>1, <1>6 DEF QuietRow, Final, Open
<1> QED BY <1>1, <1>6, <1>8, <1>9 DEF Leaves, Quiet

\* The rows that stay when row i is given up for row n.
Redirected(r, i, n, s) == [r EXCEPT !.deps = Moved(r.deps, i, n), !.status = s]

LEMMA GivenUpRow ==
    ASSUME NEW r \in Row, NEW i, NEW n \in Nat, NEW s \in Status, NEW t,
           t = Redirected(r, i, n, s)
    PROVE  /\ t \in Row /\ t.purpose = r.purpose /\ t.owns = r.owns /\ t.scope = r.scope
           /\ t.group = r.group /\ t.deps = Moved(r.deps, i, n) /\ t.status = s
<1>1. PICK D \in SUBSET Nat : D = Moved(r.deps, i, n)
      BY RowFields DEF Moved
<1>2. PICK r1 : r1 = [r EXCEPT !.deps = D]
      OBVIOUS
<1>3. /\ r1 \in Row /\ r1.purpose = r.purpose /\ r1.owns = r.owns /\ r1.scope = r.scope
      /\ r1.group = r.group /\ r1.deps = D
      BY <1>2, DepsSet
<1>4. t = [r1 EXCEPT !.status = s]
      BY <1>1, <1>2 DEF Redirected
<1>5. /\ t \in Row /\ t.purpose = r1.purpose /\ t.owns = r1.owns /\ t.scope = r1.scope
      /\ t.group = r1.group /\ t.deps = r1.deps /\ t.status = s
      BY <1>3, <1>4, StatusSet
<1> QED BY <1>1, <1>3, <1>5

Copied(r) == [r EXCEPT !.status = "ready", !.failed = FALSE]

LEMMA CopiedRow ==
    ASSUME NEW r \in Row, NEW t, t = Copied(r)
    PROVE  /\ t \in Row /\ t.purpose = r.purpose /\ t.owns = r.owns /\ t.scope = r.scope
           /\ t.group = r.group /\ t.status = "ready"
<1>1. PICK b \in BOOLEAN : b = FALSE
      OBVIOUS
<1>2. PICK r1 : r1 = [r EXCEPT !.status = "ready"]
      OBVIOUS
<1>3. /\ r1 \in Row /\ r1.purpose = r.purpose /\ r1.owns = r.owns /\ r1.scope = r.scope
      /\ r1.group = r.group /\ r1.status = "ready"
      BY <1>2, StatusSet, Statuses
<1>4. t = [r1 EXCEPT !.failed = b]
      BY <1>1, <1>2 DEF Copied
<1>5. /\ t \in Row /\ t.purpose = r1.purpose /\ t.owns = r1.owns /\ t.scope = r1.scope
      /\ t.group = r1.group /\ t.status = r1.status
      BY <1>3, <1>4, FailedSet
<1> QED BY <1>3, <1>5

LEMMA ReplaceReplaces ==
    ASSUME row \in Seq(Row), NEW i \in Rows
    PROVE  Replaced(row, Replace(i), i, Len(row) + 1)
<1>1. PICK n : n = Len(row) + 1
      OBVIOUS
<1>2. n \in Nat /\ n # NoGroup /\ DOMAIN row = 1..Len(row) /\ \A j \in DOMAIN row : row[j] \in Row
      BY <1>1, RowsOf DEF NoGroup
<1>3. PICK q : q = [j \in Rows |-> [row[j] EXCEPT !.deps = DependenciesMoved(i, j, n),
                                                 !.status = IF j = i THEN "superseded" ELSE @]]
      OBVIOUS
<1>4. PICK c : c = Copied(row[i])
      OBVIOUS
<1>5. Replace(i) = Append(q, c)
      BY <1>1, <1>3, <1>4 DEF Replace, Copied
<1>6. ASSUME NEW j \in DOMAIN row
      PROVE  /\ q[j] \in Row /\ q[j].purpose = row[j].purpose /\ q[j].owns = row[j].owns
             /\ q[j].scope = row[j].scope /\ q[j].group = row[j].group
             /\ q[j].deps = Moved(row[j].deps, i, n)
             /\ q[j].status = IF j = i THEN "superseded" ELSE row[j].status
  <2>1. PICK s \in Status : s = IF j = i THEN "superseded" ELSE row[j].status
        BY <1>2, RowFields, Statuses
  <2>2. q[j] = Redirected(row[j], i, n, s)
        BY <1>3, <2>1 DEF Rows, DependenciesMoved, Moved, Redirected
  <2>3. PICK r \in Row : r = row[j]
        BY <1>2
  <2>4. PICK t : t = q[j]
        OBVIOUS
  <2>5. t = Redirected(r, i, n, s)
        BY <2>2, <2>3, <2>4
  <2>6. /\ t \in Row /\ t.purpose = r.purpose /\ t.owns = r.owns /\ t.scope = r.scope
        /\ t.group = r.group /\ t.deps = Moved(r.deps, i, n) /\ t.status = s
        BY <1>2, <2>5, GivenUpRow
  <2> QED BY <2>1, <2>3, <2>4, <2>6
<1>7. q = [j \in DOMAIN row |-> q[j]]
      BY <1>3 DEF Rows
<1>8. q \in [DOMAIN row -> Row]
      BY <1>6, <1>7
<1>9. q \in Seq(Row) /\ Len(q) = Len(row) /\ DOMAIN q = DOMAIN row
      BY <1>8, RowsFrom
<1>10. /\ c \in Row /\ c.purpose = row[i].purpose /\ c.owns = row[i].owns /\ c.scope = row[i].scope
       /\ c.group = row[i].group /\ c.status = "ready"
       BY <1>2, <1>4, CopiedRow DEF Rows
<1>11. PICK rs2 : rs2 = Append(q, c)
       OBVIOUS
<1>12. /\ rs2 \in Seq(Row) /\ DOMAIN rs2 = DOMAIN row \union {n} /\ n \notin DOMAIN row
       /\ rs2[n] = c /\ \A j \in DOMAIN row : rs2[j] = q[j]
       BY <1>1, <1>9, <1>10, <1>11, RowsAppended
<1>13. Replaced(row, rs2, i, n)
       BY <1>2, <1>6, <1>10, <1>12 DEF Replaced
<1> QED BY <1>1, <1>5, <1>11, <1>13

LEMMA CandidateFailsKeeps ==
    ASSUME IndInv, NEW i \in Rows, CandidateFails(i)
    PROVE  IndInv'
<1>1. Works(i) /\ Fail /\ UNCHANGED <<mandateVars, plan, attempts, excused, cStatus>>
      BY DEF CandidateFails
<1>2. /\ row \in Seq(Row) /\ (plan # NoPlan => GoodPlan(plan)) /\ i \in DOMAIN row
      /\ row[i].status = "running" /\ row[i].purpose # "planning" /\ OpenPlanning(row) = {}
      BY <1>1, WorksFacts DEF Rows
<1>3. Covered'
      BY <1>1, FailureCounts DEF IndInv, mandateVars
<1>4. CASE Quiet(row, row')
  <2>1. Well(plan, row')
        BY <1>2, <1>4, QuietKeeps DEF IndInv
  <2>2. Phases'
        BY <1>1, <1>4, QuietPhases DEF IndInv, mandateVars
  <2> QED BY <1>1, <1>3, <2>1, <2>2 DEF IndInv
<1>5. CASE row' = [row EXCEPT ![i].status = "verification_failed"]
  <2>1. "verification_failed" \in Status /\ "verification_failed" \notin Final
        BY Statuses DEF Final
  <2>2. Quiet(row, row')
        BY <1>2, <1>5, <2>1, StatusQuiet DEF Open, Turns
  <2> QED BY <1>4, <2>2
<1>6. CASE row' = [row EXCEPT ![i].status = "ready", ![i].failed = TRUE]
  <2>1. PICK b \in BOOLEAN : b = TRUE
        OBVIOUS
  <2>2. row' = [row EXCEPT ![i].status = "ready", ![i].failed = b]
        BY <1>6, <2>1
  <2>3. Turns(row, row', i, "ready")
        BY <1>2, <2>2, RetryQuiet
  <2> QED BY <1>4, <2>3 DEF Turns
<1>7. CASE row' = Replace(i)
  <2>1. PICK n : n = Len(row) + 1
        OBVIOUS
  <2>2. Replaced(row, row', i, n)
        BY <1>2, <1>7, <2>1, ReplaceReplaces
  <2>3. Well(plan, row')
        BY <1>2, <2>2, ReplacedKeeps DEF IndInv
  <2>4. OpenPlanning(row') \subseteq OpenPlanning(row)
    <3>1. \A j \in DOMAIN row' : row'[j].purpose = "planning" /\ row'[j].status \in Open =>
             j \in DOMAIN row /\ row[j].purpose = "planning" /\ row[j].status \in Open
          BY <1>2, <2>2 DEF Replaced, Open
    <3> QED BY <3>1 DEF OpenPlanning
  <2>5. Phases'
        BY <1>1, <1>2, <2>4, PhasesKept DEF IndInv, mandateVars
  <2> QED BY <1>1, <1>3, <2>3, <2>5 DEF IndInv
<1> QED BY <1>5, <1>6, <1>7 DEF CandidateFails
-----------------------------------------------------------------------------
(* Reconciliations and comparisons.                                        *)

\* The group of a plan's row is that of its item, or the row itself.
LEMMA GroupOfRow ==
    ASSUME NEW p, NEW rs, Well(p, rs), p # NoPlan => GoodPlan(p), NEW j \in DOMAIN rs,
           rs[j].purpose # "reconciliation"
    PROVE  rs[j].group \in Group \union {NoGroup, j}
<1>1. rs[j].purpose \in {"planning", "work", "reconciliation"}
      BY RowsOf, RowFields DEF Well
<1>2. CASE rs[j].purpose = "planning"
      BY <1>2 DEF Well, Rooted, PlansOnly
<1>3. CASE rs[j].purpose = "work"
  <2>1. PICK o \in DOMAIN p : rs[j].group \in {p[o].group, j}
        BY <1>3 DEF Well, Rooted, RowOfItem
  <2>2. p # NoPlan
        BY <2>1 DEF NoPlan
  <2>3. p[o].group \in Group \union {NoGroup}
        BY <2>1, <2>2, PlanFacts
  <2> QED BY <2>1, <2>3
<1> QED BY <1>1, <1>2, <1>3

\* What a row owns is planned.
LEMMA OwnsItems ==
    ASSUME NEW p, NEW rs, Well(p, rs), NEW j \in DOMAIN rs
    PROVE  rs[j].owns \subseteq DOMAIN p
<1>1. rs[j].purpose \in {"planning", "work", "reconciliation"}
      BY RowsOf, RowFields DEF Well
<1> QED BY <1>1 DEF Well, Rooted, RowOfItem, RowOfGroup, PlansOnly

LEMMA AddedRow ==
    ASSUME row \in Seq(Row), NEW owns \in SUBSET Item, NEW scope \in SUBSET Path,
           NEW g \in Group \union Nat, NEW r, r = Added("reconciliation", owns, scope, g)
    PROVE  /\ r \in Row /\ r.purpose = "reconciliation" /\ r.status = "ready" /\ r.owns = owns
           /\ r.group = g
<1>1. PICK n \in Nat : n = Len(row) + 1
      BY RowsOf
<1>2. PICK b \in BOOLEAN : b = FALSE
      OBVIOUS
<1>3. r = [purpose |-> "reconciliation", owns |-> owns, deps |-> {}, scope |-> scope, group |-> g,
           position |-> n, status |-> "ready", failed |-> b]
      BY <1>1, <1>2 DEF Added
<1>4. PICK s \in Status : s = "ready"
      BY Statuses
<1>5. PICK f : f = "reconciliation" /\ f \in {"planning", "work", "reconciliation"}
      OBVIOUS
<1>6. r = [purpose |-> f, owns |-> owns, deps |-> {}, scope |-> scope, group |-> g,
           position |-> n, status |-> s, failed |-> b]
      BY <1>3, <1>4, <1>5
<1>7. r \in Row
      BY <1>5, <1>6 DEF Row
<1> QED BY <1>3, <1>7

\* A reconciliation beside rows that settled nothing.
LEMMA ReconciliationPhases ==
    ASSUME Phases, UNCHANGED <<plan, source>>, OpenPlanning(row) = {}, NEW rs1, Quiet(row, rs1),
           NEW r \in Row, r.purpose = "reconciliation", row' = Append(rs1, r)
    PROVE  Phases' /\ OpenPlanning(row') = {}
<1>1. PICK n : n = Len(rs1) + 1
      OBVIOUS
<1>2. rs1 \in Seq(Row)
      BY DEF Quiet
<1>3. /\ DOMAIN row' = DOMAIN rs1 \union {n} /\ row'[n] = r
      /\ \A j \in DOMAIN rs1 : row'[j] = rs1[j]
      BY <1>1, <1>2, RowsAppended
<1>4. \A j \in DOMAIN row' : row'[j].purpose = "planning" /\ row'[j].status \in Open => j \in OpenPlanning(row)
      BY <1>3 DEF OpenPlanning, Quiet, QuietRow
<1>5. OpenPlanning(row') \subseteq OpenPlanning(row)
      BY <1>4 DEF OpenPlanning
<1> QED BY <1>5, PhasesKept

LEMMA RequireReconciliationKeeps ==
    ASSUME IndInv, NEW i \in Rows, NEW paths \in SUBSET Path, RequireReconciliation(i, paths)
    PROVE  IndInv'
<1>1. Works(i) /\ Fail /\ UNCHANGED <<mandateVars, plan, blocker, attempts, excused, cStatus>>
      BY DEF RequireReconciliation
<1>2. /\ row \in Seq(Row) /\ (plan # NoPlan => GoodPlan(plan)) /\ i \in DOMAIN row /\ i \in Nat
      /\ row[i].status = "running" /\ row[i].purpose # "planning" /\ OpenPlanning(row) = {}
      /\ row[i] \in Row /\ i # NoGroup
      BY <1>1, WorksFacts DEF Rows
<1>3. PICK rs1 : rs1 = [row EXCEPT ![i].status = "verification_failed", ![i].group = i]
      OBVIOUS
<1>4. /\ Quiet(row, rs1) /\ rs1[i].group = i
      /\ \A j \in DOMAIN row \ {i} : rs1[j] = row[j]
  <2>1. Leaves(row, rs1, i)
        BY <1>2, <1>3, LeaveQuiet
  <2> QED BY <2>1 DEF Leaves
<1>5. PICK r : r = Added("reconciliation", row[i].owns, paths, i)
      OBVIOUS
<1>6. /\ r \in Row /\ r.purpose = "reconciliation" /\ r.status = "ready" /\ r.owns = row[i].owns
      /\ r.group = i
      BY <1>2, <1>5, RowFields, AddedRow
<1>7. row' = Append(rs1, r)
      BY <1>3, <1>5 DEF RequireReconciliation
<1>8. Well(plan, rs1)
      BY <1>2, <1>4, QuietKeeps DEF IndInv
<1>9. DOMAIN rs1 = DOMAIN row /\ rs1[i].owns = row[i].owns /\ rs1[i].status # "none"
      /\ rs1[i].purpose = row[i].purpose
      BY <1>2, <1>4 DEF Quiet, QuietRow, Final
<1>10. MayReconcile(plan, rs1, r)
  <2>1. r.owns \subseteq DOMAIN plan
        BY <1>2, <1>6, OwnsItems DEF IndInv
  <2>2. \A o \in r.owns : plan[o].deps \subseteq Finished(plan, rs1)
        BY <1>2, <1>6, <1>8, <1>9 DEF Well, StartsFinished
  <2>3. ASSUME NEW j \in DOMAIN rs1, rs1[j].purpose # "reconciliation", rs1[j].group = r.group
        PROVE  rs1[j].owns \subseteq r.owns
    <3>1. rs1[j].group \in Group \union {NoGroup, j}
          BY <1>2, <1>8, <2>3, GroupOfRow
    <3>2. j = i
          BY <1>2, <1>6, <2>3, <3>1, Bounds
    <3> QED BY <1>6, <1>9, <3>2
  <2> QED BY <1>2, <1>4, <1>6, <1>9, <2>1, <2>2, <2>3 DEF MayReconcile
<1>11. Well(plan, row')
       BY <1>2, <1>7, <1>8, <1>10, ReconciliationKeeps
<1>12. Phases'
       BY <1>1, <1>2, <1>4, <1>6, <1>7, ReconciliationPhases DEF IndInv, mandateVars
<1>13. Covered'
       BY <1>1, FailureCounts DEF IndInv, mandateVars
<1> QED BY <1>1, <1>11, <1>12, <1>13 DEF IndInv

\* The comparison of a group is one of its members' reconciliation.
LEMMA ComparisonMay ==
    ASSUME IndInv, NEW i \in Rows, Works(i), IsCandidateOfCompetition(i), NEW rs1,
           Turns(row, rs1, i, "verification_pending"), NEW r, r = ComparisonRow(row[i].group)
    PROVE  /\ MayReconcile(plan, rs1, r) /\ r.group = row[i].group
           /\ plan # NoPlan => row[i].group \in Groups(plan)
<1>1. /\ row \in Seq(Row) /\ (plan # NoPlan => GoodPlan(plan)) /\ i \in DOMAIN row /\ i \in Nat
      /\ row[i].status = "running" /\ row[i].purpose # "planning" /\ row[i] \in Row
      /\ Well(plan, row)
      BY WorksFacts DEF Rows, IndInv
<1>2. row[i].purpose = "work" /\ row[i].group # NoGroup
      BY <1>1, RowFields DEF IsCandidateOfCompetition
<1>3. row[i].group # i
      BY <1>1 DEF Well, LeftIsOver, Open
<1>4. PICK g \in Group : g = row[i].group
      BY <1>1, <1>2, <1>3, GroupOfRow
<1>5. PICK o \in DOMAIN plan : row[i].owns = {o} /\ plan[o].group = g
      BY <1>1, <1>2, <1>3, <1>4 DEF Well, Rooted, RowOfItem
<1>6. GoodPlan(plan) /\ g \in Groups(plan) /\ o \in Members(plan, g)
  <2>1. plan # NoPlan
        BY <1>5 DEF NoPlan
  <2> QED BY <1>1, <1>2, <1>4, <1>5, <2>1 DEF Groups, Members
<1>7. PICK owns : owns = Members(plan, g)
      OBVIOUS
<1>8. PICK scope : scope = UNION {row[j].scope : j \in Contenders(g)}
      OBVIOUS
<1>9. \A j \in DOMAIN row : row[j] \in Row
      BY <1>1, RowsOf
<1>10. owns \in SUBSET Item /\ scope \in SUBSET Path
  <2>1. \A j \in Contenders(g) : row[j].scope \subseteq Path
        BY <1>9, RowFields DEF Contenders, GroupRows, Rows
  <2>2. DOMAIN plan \subseteq Item
        BY <1>6, PlanningAssumption DEF GoodPlan, Item
  <2> QED BY <1>7, <1>8, <2>1, <2>2 DEF Members
<1>11. /\ r \in Row /\ r.purpose = "reconciliation" /\ r.status = "ready" /\ r.owns = owns
       /\ r.group = g
  <2>1. r = Added("reconciliation", owns, scope, g)
        BY <1>4, <1>7, <1>8 DEF ComparisonRow
  <2>2. g \in Group \union Nat
        OBVIOUS
  <2> QED BY <1>1, <1>10, <2>1, <2>2, AddedRow
<1>12. DOMAIN rs1 = DOMAIN row /\ Finished(plan, rs1) = Finished(plan, row)
       BY QuietFinished DEF Turns, Quiet
<1>13. ASSUME NEW o2 \in owns PROVE o2 \in DOMAIN plan /\ plan[o2].deps \subseteq Finished(plan, rs1)
  <2>5. o2 \in Members(plan, g) /\ o2 \in DOMAIN plan
        BY <1>7, <1>13 DEF Members
  <2>6. plan[o2].deps = plan[o].deps
        BY <1>6, <2>5 DEF GoodPlan, ComparesFairly
  <2>7. plan[o].deps \subseteq Finished(plan, row)
        BY <1>1, <1>2, <1>5 DEF Well, StartsFinished
  <2> QED BY <1>12, <2>5, <2>6, <2>7
<1>14. ASSUME NEW j \in DOMAIN rs1, rs1[j].purpose # "reconciliation", rs1[j].group = g
       PROVE  rs1[j].owns \subseteq owns
  <2>1. j \in DOMAIN row /\ rs1[j].purpose = row[j].purpose /\ rs1[j].group = row[j].group
        /\ rs1[j].owns = row[j].owns
        BY <1>12 DEF Turns, Quiet, QuietRow
  <2>2. row[j].purpose = "work" /\ j \in Nat
    <3>1. g # NoGroup
          BY <1>2, <1>4
    <3>2. row[j].purpose \in {"planning", "work", "reconciliation"} /\ j \in Nat
          BY <1>1, <1>9, <2>1, RowsOf, RowFields
    <3>3. row[j].purpose # "planning"
          BY <1>1, <1>14, <2>1, <3>1 DEF Well, Rooted, PlansOnly
    <3> QED BY <1>14, <2>1, <3>2, <3>3
  <2>3. PICK k \in DOMAIN plan : row[j].owns = {k} /\ row[j].group \in {plan[k].group, j}
        BY <1>1, <2>1, <2>2 DEF Well, Rooted, RowOfItem
  <2>4. g # j
        BY <2>2, Bounds
  <2> QED BY <1>7, <1>14, <2>1, <2>3, <2>4 DEF Members
<1>15. MayReconcile(plan, rs1, r)
       BY <1>11, <1>13, <1>14 DEF MayReconcile
<1> QED BY <1>4, <1>6, <1>11, <1>15

LEMMA FinishCompetingKeeps ==
    ASSUME IndInv, NEW i \in Rows, FinishCompetingCandidate(i)
    PROVE  IndInv'
<1>1. /\ Works(i) /\ IsCandidateOfCompetition(i)
      /\ UNCHANGED <<mandateVars, plan, blocker, attempts, excused, failures, cStatus>>
      BY DEF FinishCompetingCandidate
<1>2. /\ row \in Seq(Row) /\ (plan # NoPlan => GoodPlan(plan)) /\ i \in DOMAIN row
      /\ row[i].status = "running" /\ OpenPlanning(row) = {}
      BY <1>1, WorksFacts DEF Rows
<1>3. PICK rs1 : rs1 = [row EXCEPT ![i].status = "verification_pending"]
      OBVIOUS
<1>4. Turns(row, rs1, i, "verification_pending")
  <2>1. "verification_pending" \in Status /\ "verification_pending" \notin Final
        BY Statuses DEF Final
  <2> QED BY <1>2, <1>3, <2>1, StatusQuiet DEF Open
<1>5. /\ Quiet(row, rs1) /\ rs1 \in Seq(Row) /\ DOMAIN rs1 = DOMAIN row
      /\ rs1[i].status = "verification_pending"
      /\ \A j \in DOMAIN row \ {i} : rs1[j] = row[j]
      /\ \A j \in DOMAIN row : rs1[j].group = row[j].group /\ rs1[j].purpose = row[j].purpose
      BY <1>4 DEF Turns, Quiet, QuietRow
<1>6. Well(plan, rs1)
      BY <1>2, <1>5, QuietKeeps DEF IndInv
<1>7. Owed(rs1) = Owed(row) /\ Uncompared(plan, rs1) = Uncompared(plan, row)
  <2>1. Owed(rs1) = Owed(row)
        BY <1>2, <1>5 DEF Owed
  <2> QED BY <1>5, <2>1, SameUncompared
<1>8. /\ attempts' = attempts /\ maxAttempts' = maxAttempts /\ failures' = failures
      /\ blocker' = blocker /\ plan' = plan /\ source' = source /\ excused' = excused
      /\ attempts \in Nat /\ maxAttempts \in Nat /\ failures \in Nat /\ excused \in Nat
      /\ failures = 0 => excused = 0
      BY <1>1 DEF mandateVars, IndInv, Covered
<1>9. CASE row' = rs1
  <2>1. Phases'
        BY <1>5, <1>8, <1>9, QuietPhases DEF IndInv
  <2>2. OpenPlanning(row') = {}
        BY <1>2, <1>5, <1>9 DEF OpenPlanning, Quiet, QuietRow
  <2>3. Covered'
        BY <1>7, <1>8, <1>9, <2>2 DEF IndInv, Covered, Covers
  <2> QED BY <1>6, <1>8, <1>9, <2>1, <2>3 DEF IndInv
<1>10. ASSUME ~Compared(row[i].group), row' = Append(rs1, ComparisonRow(row[i].group)) PROVE IndInv'
  <2>1. PICK r : r = ComparisonRow(row[i].group)
        OBVIOUS
  <2>2. PICK g : g = row[i].group
        OBVIOUS
  <2>3. MayReconcile(plan, rs1, r) /\ r.group = g /\ (plan # NoPlan => g \in Groups(plan))
        BY <1>1, <1>4, <2>1, <2>2, ComparisonMay
  <2>4. r \in Row /\ r.purpose = "reconciliation" /\ r.status = "ready" /\ row' = Append(rs1, r)
        BY <1>10, <2>1, <2>3 DEF MayReconcile
  <2>5. Well(plan, row')
        BY <1>2, <1>6, <2>3, <2>4, ReconciliationKeeps
  <2>6. Phases' /\ OpenPlanning(row') = {}
        BY <1>2, <1>5, <1>8, <2>4, ReconciliationPhases DEF IndInv
  <2>7. PICK n : n = Len(rs1) + 1
        OBVIOUS
  <2>8. /\ DOMAIN row' = DOMAIN rs1 \union {n} /\ n \notin DOMAIN rs1 /\ row'[n] = r
        /\ \A j \in DOMAIN rs1 : row'[j] = rs1[j]
        BY <1>5, <2>4, <2>7, RowsAppended
  <2>9. ASSUME plan # NoPlan, failures = 0
        PROVE  /\ blocker = {}
               /\ attempts + Cardinality(Owed(row')) + Cardinality(Uncompared(plan, row')) <= maxAttempts
    <3>1. /\ blocker = {}
          /\ attempts + Cardinality(Owed(row)) + Cardinality(Uncompared(plan, row)) <= maxAttempts
          BY <2>9 DEF IndInv, Covered, Covers
    <3>2. /\ IsFiniteSet(Owed(row)) /\ Cardinality(Owed(row)) \in Nat
          /\ IsFiniteSet(Uncompared(plan, row)) /\ Cardinality(Uncompared(plan, row)) \in Nat
          BY <1>2, <2>9, OwedFinite, UncomparedFinite
    <3>3. Owed(row') = Owed(row) \union {n} /\ n \notin Owed(row)
      <4>1. Owed(row') = Owed(rs1) \union {n} /\ n \notin Owed(rs1)
            BY <2>4, <2>8 DEF Owed
      <4> QED BY <1>7, <4>1
    <3>4. Cardinality(Owed(row')) = Cardinality(Owed(row)) + 1
      <4>1. Cardinality(Owed(row) \union {n}) = Cardinality(Owed(row)) + 1
            BY <3>2, <3>3, FS_AddElement
      <4> QED BY <3>3, <4>1
    <3>5. g \in Uncompared(plan, row)
          BY <1>10, <2>2, <2>3, <2>9 DEF Uncompared, Compared, Rows
    <3>6. Uncompared(plan, row') = Uncompared(plan, rs1) \ {g}
          BY <2>3, <2>4, <2>8 DEF Uncompared
    <3>7. Cardinality(Uncompared(plan, row')) = Cardinality(Uncompared(plan, row)) - 1
      <4>1. Cardinality(Uncompared(plan, row) \ {g}) = Cardinality(Uncompared(plan, row)) - 1
            BY <3>2, <3>5, FS_RemoveElement
      <4> QED BY <1>7, <3>6, <4>1
    <3> QED BY <1>8, <3>1, <3>2, <3>4, <3>7
  <2>10. Covered'
         BY <1>8, <2>6, <2>9 DEF Covered, Covers
  <2> QED BY <1>8, <2>5, <2>6, <2>10 DEF IndInv
<1>11. row' = rs1 \/ (~Compared(row[i].group) /\ row' = Append(rs1, ComparisonRow(row[i].group)))
       BY <1>3 DEF FinishCompetingCandidate
<1> QED BY <1>9, <1>10, <1>11
-----------------------------------------------------------------------------
(* A Result is accepted, and the plan goes on.                             *)

LEMMA AcceptedIs ==
    ASSUME row \in Seq(Row), NEW i \in Rows, NEW rs1, rs1 = Accepted(i)
    PROVE  AcceptedTo(row, rs1, i)
<1>1. /\ \A j \in DOMAIN row : row[j] \in Row
      /\ i \in DOMAIN row /\ "accepted" \in Status /\ "superseded" \in Status
      BY RowsOf, Statuses DEF Rows
<1>2. rs1 = [j \in DOMAIN row |-> rs1[j]]
      BY DEF Accepted, Rows
<1>3. ASSUME NEW j \in DOMAIN row
      PROVE  \/ j # i /\ rs1[j] = row[j]
             \/ j = i /\ rs1[j] = [row[j] EXCEPT !.status = "accepted"]
             \/ /\ j # i /\ rs1[j] = [row[j] EXCEPT !.status = "superseded"]
                /\ row[i].purpose = "reconciliation" /\ row[j].purpose # "reconciliation"
                /\ row[j].group = row[i].group
                /\ row[j].status \in {"verification_pending", "verification_failed"}
      BY DEF Accepted, Rows, GroupRows
<1>4. ASSUME NEW j \in DOMAIN row
      PROVE  /\ rs1[j] \in Row /\ rs1[j].purpose = row[j].purpose /\ rs1[j].owns = row[j].owns
             /\ rs1[j].scope = row[j].scope /\ rs1[j].group = row[j].group
             /\ rs1[j].deps = row[j].deps
             /\ j = i => rs1[j].status = "accepted"
             /\ j # i => \/ rs1[j].status = row[j].status
                         \/ /\ rs1[j].status = "superseded"
                            /\ row[i].purpose = "reconciliation" /\ row[j].purpose # "reconciliation"
                            /\ row[j].group = row[i].group
                            /\ row[j].status \in {"verification_pending", "verification_failed"}
  <2>1. CASE rs1[j] = row[j] /\ j # i
        BY <1>1, <2>1
  <2>2. CASE j = i /\ rs1[j] = [row[j] EXCEPT !.status = "accepted"]
        BY <1>1, <2>2, StatusSet
  <2>3. CASE /\ j # i /\ rs1[j] = [row[j] EXCEPT !.status = "superseded"]
             /\ row[i].purpose = "reconciliation" /\ row[j].purpose # "reconciliation"
             /\ row[j].group = row[i].group
             /\ row[j].status \in {"verification_pending", "verification_failed"}
    <3>1. /\ rs1[j] \in Row /\ rs1[j].purpose = row[j].purpose /\ rs1[j].owns = row[j].owns
          /\ rs1[j].scope = row[j].scope /\ rs1[j].group = row[j].group
          /\ rs1[j].deps = row[j].deps /\ rs1[j].status = "superseded"
          BY <1>1, <2>3, StatusSet
    <3> QED BY <2>3, <3>1
  <2> QED BY <1>3, <2>1, <2>2, <2>3
<1>5. rs1 \in [DOMAIN row -> Row]
      BY <1>2, <1>4
<1>6. rs1 \in Seq(Row) /\ DOMAIN rs1 = DOMAIN row
      BY <1>5, RowsFrom
<1>7. SameRows(row, rs1)
      BY <1>4, <1>6 DEF SameRows
<1> QED BY <1>1, <1>4, <1>7 DEF AcceptedTo

LEMMA AdvancedIs ==
    ASSUME NEW rs \in Seq(Row), NEW rs2, rs2 = Advanced(rs)
    PROVE  AdvancedTo(rs, rs2)
<1>1. /\ \A j \in DOMAIN rs : rs[j] \in Row
      /\ "ready" \in Status
      BY RowsOf, Statuses
<1>2. rs2 = [j \in DOMAIN rs |-> rs2[j]]
      BY DEF Advanced
<1>3. ASSUME NEW j \in DOMAIN rs
      PROVE  \/ rs2[j] = rs[j]
             \/ /\ rs2[j] = [rs[j] EXCEPT !.status = "ready"]
                /\ rs[j].status = "none" /\ \A d \in rs[j].deps : rs[d].status \in Settled
      BY DEF Advanced
<1>4. ASSUME NEW j \in DOMAIN rs
      PROVE  /\ rs2[j] \in Row /\ rs2[j].purpose = rs[j].purpose /\ rs2[j].owns = rs[j].owns
             /\ rs2[j].scope = rs[j].scope /\ rs2[j].group = rs[j].group
             /\ rs2[j].deps = rs[j].deps
             /\ \/ rs2[j].status = rs[j].status
                \/ /\ rs2[j].status = "ready" /\ rs[j].status = "none"
                   /\ \A d \in rs[j].deps : rs[d].status \in Settled
  <2>1. CASE rs2[j] = rs[j]
        BY <1>1, <2>1
  <2>2. CASE /\ rs2[j] = [rs[j] EXCEPT !.status = "ready"]
             /\ rs[j].status = "none" /\ \A d \in rs[j].deps : rs[d].status \in Settled
    <3>1. /\ rs2[j] \in Row /\ rs2[j].purpose = rs[j].purpose /\ rs2[j].owns = rs[j].owns
          /\ rs2[j].scope = rs[j].scope /\ rs2[j].group = rs[j].group
          /\ rs2[j].deps = rs[j].deps /\ rs2[j].status = "ready"
          BY <1>1, <2>2, StatusSet
    <3> QED BY <2>2, <3>1
  <2> QED BY <1>3, <2>1, <2>2
<1>5. rs2 \in [DOMAIN rs -> Row]
      BY <1>2, <1>4
<1>6. rs2 \in Seq(Row) /\ DOMAIN rs2 = DOMAIN rs
      BY <1>5, RowsFrom
<1>7. SameRows(rs, rs2)
      BY <1>4, <1>6 DEF SameRows
<1> QED BY <1>4, <1>7 DEF AdvancedTo

LEMMA FinishPlannedKeeps ==
    ASSUME IndInv, NEW i \in Rows, FinishPlannedAssignment(i)
    PROVE  IndInv'
<1>1. /\ Works(i) /\ UNCHANGED <<mandateVars, plan, blocker, attempts, excused, failures>>
      BY DEF FinishPlannedAssignment
<1>2. /\ row \in Seq(Row) /\ (plan # NoPlan => GoodPlan(plan)) /\ i \in DOMAIN row
      /\ row[i].status = "running" /\ row[i].purpose # "planning" /\ OpenPlanning(row) = {}
      BY <1>1, WorksFacts DEF Rows
<1>3. PICK rs1 : rs1 = Accepted(i)
      OBVIOUS
<1>4. row' = Advanced(rs1)
      BY <1>3 DEF FinishPlannedAssignment
<1>5. AcceptedTo(row, rs1, i) /\ SameRows(row, rs1) /\ rs1 \in Seq(Row)
      BY <1>2, <1>3, AcceptedIs DEF AcceptedTo, SameRows
<1>6. Well(plan, rs1)
      BY <1>2, <1>5, AcceptedKeeps DEF IndInv
<1>7. AdvancedTo(rs1, row') /\ SameRows(rs1, row')
      BY <1>4, <1>5, AdvancedIs DEF AdvancedTo
<1>8. Well(plan, row')
      BY <1>2, <1>6, <1>7, AdvancedKeeps
<1>9. /\ DOMAIN row' = DOMAIN row
      /\ \A j \in DOMAIN row : row'[j].purpose = row[j].purpose /\ row'[j].group = row[j].group
      BY <1>5, <1>7 DEF SameRows
<1>10. \A j \in DOMAIN row : rs1[j].status = "none" <=> row[j].status = "none"
      BY <1>2, <1>5 DEF AcceptedTo
<1>11. \A j \in DOMAIN row : row'[j].purpose = "planning" /\ row'[j].status \in Open => row[j].status \in Open
  <2>1. \A j \in DOMAIN row : row'[j].purpose = "planning" => row'[j].status = rs1[j].status
        BY <1>5, <1>6, <1>7 DEF AdvancedTo, SameRows, Well, WaitsFor
  <2>2. \A j \in DOMAIN row : rs1[j].status \in Open => row[j].status \in Open
        BY <1>5 DEF AcceptedTo, Open
  <2> QED BY <2>1, <2>2
<1>12. OpenPlanning(row') = {}
      BY <1>2, <1>9, <1>11 DEF OpenPlanning
<1>13. Phases'
      BY <1>1, <1>2, <1>12, PhasesKept DEF IndInv, mandateVars
<1>14. Owed(row') = Owed(row)
  <2>1. \A j \in DOMAIN row : rs1[j].status \in {"none", "ready"} <=> row[j].status \in {"none", "ready"}
        BY <1>2, <1>5 DEF AcceptedTo
  <2>2. \A j \in DOMAIN row : row'[j].status \in {"none", "ready"} <=> rs1[j].status \in {"none", "ready"}
        BY <1>5, <1>7 DEF AdvancedTo, SameRows
  <2> QED BY <1>9, <2>1, <2>2 DEF Owed
<1>15. Uncompared(plan, row') = Uncompared(plan, row)
      BY <1>9, SameUncompared
<1>16. Covered'
      BY <1>1, <1>12, <1>14, <1>15 DEF IndInv, Covered, Covers, mandateVars
<1> QED BY <1>1, <1>8, <1>13, <1>16 DEF IndInv
-----------------------------------------------------------------------------
(* Planning.                                                               *)

LEMMA PlansFacts ==
    ASSUME IndInv, NEW i \in Rows, Plans(i)
    PROVE  /\ RoundsOnly(row) /\ plan = NoPlan /\ source = "worker" /\ i \in DOMAIN row
           /\ row \in Seq(Row) /\ (failures = 0 => blocker = {})
           /\ \A j \in DOMAIN row : row[j].status \in Open => j = i
<1>1. i \in OpenPlanning(row) /\ i \in DOMAIN row
      BY DEF Plans, OpenPlanning, Open, Rows
<1>2. plan = NoPlan /\ source = "worker" /\ \A j \in DOMAIN row : row[j].purpose = "planning"
      BY <1>1 DEF IndInv, Phases, Rows
<1>3. \A j \in DOMAIN row : row[j].status \in Open => j = i
      BY <1>1, <1>2 DEF IndInv, Phases, OpenPlanning
<1>4. RoundsOnly(row)
      BY <1>2 DEF IndInv, Well, Rooted, WaitsFor, RoundsOnly
<1>5. failures = 0 => blocker = {}
      BY <1>1 DEF IndInv, Covered
<1> QED BY <1>1, <1>2, <1>3, <1>4, <1>5 DEF RoundsOnly

\* A round ends.
LEMMA RoundEnds ==
    ASSUME NEW rs, RoundsOnly(rs), NEW i \in DOMAIN rs, NEW s \in Status, s \notin Open \union {"none"},
           \A j \in DOMAIN rs : rs[j].status \in Open => j = i,
           NEW rs1, rs1 = [rs EXCEPT ![i].status = s]
    PROVE  RoundsOnly(rs1) /\ Len(rs1) = Len(rs) /\ \A j \in DOMAIN rs1 : rs1[j].status \notin Open
<1>1. rs \in Seq(Row)
      BY DEF RoundsOnly
<1>2. SameRows(rs, rs1) /\ rs1[i].status = s /\ \A j \in DOMAIN rs \ {i} : rs1[j] = rs[j]
      BY <1>1, StatusChange
<1>3. rs1 \in Seq(Row) /\ DOMAIN rs1 = DOMAIN rs
      BY <1>2 DEF SameRows
<1>4. Len(rs1) = Len(rs)
  <2>1. /\ Len(rs) \in Nat /\ DOMAIN rs = 1..Len(rs)
        /\ Len(rs1) \in Nat /\ DOMAIN rs1 = 1..Len(rs1)
        BY <1>1, <1>3, RowsOf
  <2> QED BY <1>3, <2>1
<1>5. RoundsOnly(rs1)
  <2>1. \A j \in DOMAIN rs : rs1[j].purpose = "planning" /\ rs1[j].owns = {} /\ rs1[j].group = NoGroup
        BY <1>2 DEF SameRows, RoundsOnly, PlansOnly
  <2>2. \A j \in DOMAIN rs : rs1[j].status # "none"
        BY <1>2 DEF RoundsOnly
  <2> QED BY <1>3, <2>1, <2>2 DEF RoundsOnly, PlansOnly
<1>6. \A j \in DOMAIN rs1 : rs1[j].status \notin Open
      BY <1>2, <1>3
<1> QED BY <1>4, <1>5, <1>6

LEMMA PlannedIs ==
    ASSUME NEW p, GoodPlan(p), NEW rs \in Seq(Row), NEW n, n = Len(rs), NEW rs2,
           rs2 = rs \o PlanRows(p, n)
    PROVE  PlannedFrom(p, rs, n, rs2)
<1>1. n \in Nat /\ DOMAIN rs = 1..n /\ Len(p) \in Nat /\ DOMAIN p = 1..Len(p)
      BY RowsOf, PlanFacts
<1>2. PICK q : q = PlanRows(p, n)
      OBVIOUS
<1>3. q \in Seq(Row) /\ Len(q) = Len(p)
      BY <1>1, <1>2, PlanRowsAreRows
<1>4. /\ rs2 \in Seq(Row) /\ Len(rs2) = n + Len(p)
      /\ \A i \in 1..(n + Len(p)) : rs2[i] = IF i <= n THEN rs[i] ELSE q[i - n]
  <2>1. rs2 = rs \o q
        BY <1>2
  <2>2. /\ rs \o q \in Seq(Row) /\ Len(rs \o q) = Len(rs) + Len(q)
        /\ \A i \in 1..Len(rs) + Len(q) :
              (rs \o q)[i] = IF i <= Len(rs) THEN rs[i] ELSE q[i - Len(rs)]
        BY <1>3, ConcatProperties
  <2> QED BY <1>3, <2>1, <2>2
<1>5. DOMAIN rs2 = 1..(n + Len(p))
      BY <1>4, RowsOf
<1>6. \A j \in DOMAIN rs : rs2[j] = rs[j]
      BY <1>1, <1>4
<1>7. ASSUME NEW i \in DOMAIN p PROVE rs2[n + i] = q[i]
  <2>1. n + i \in 1..(n + Len(p)) /\ ~(n + i <= n) /\ (n + i) - n = i
        BY <1>1
  <2> QED BY <1>4, <2>1
<1> QED BY <1>1, <1>2, <1>4, <1>5, <1>6, <1>7 DEF PlannedFrom

\* Validation counted the rows of a plan and its comparisons.
LEMMA PlannedCovers ==
    ASSUME NEW p, GoodPlan(p), NEW rs, NEW n, NEW rs2, PlannedFrom(p, rs, n, rs2),
           \A j \in DOMAIN rs : rs[j].status \notin {"none", "ready"}
    PROVE  /\ Cardinality(Owed(rs2)) \in Nat /\ Cardinality(Owed(rs2)) <= Len(p)
           /\ Cardinality(Uncompared(p, rs2)) \in Nat /\ Cardinality(Groups(p)) \in Nat
           /\ Cardinality(Uncompared(p, rs2)) <= Cardinality(Groups(p))
<1>1. n \in Nat /\ DOMAIN rs = 1..n /\ rs2 \in Seq(Row) /\ DOMAIN rs2 = 1..(n + Len(p))
      /\ \A j \in DOMAIN rs : rs2[j] = rs[j]
      BY DEF PlannedFrom
<1>2. Len(p) \in Nat /\ Len(p) >= 1
      BY PlanFacts
<1>3. Cardinality(Owed(rs2)) \in Nat /\ Cardinality(Uncompared(p, rs2)) \in Nat
      BY <1>1, OwedFinite, UncomparedFinite
<1>4. Owed(rs2) \in SUBSET ((n + 1)..(n + Len(p)))
  <2>1. ASSUME NEW j \in Owed(rs2) PROVE j \in (n + 1)..(n + Len(p))
    <3>1. j \in 1..(n + Len(p)) /\ j \notin 1..n
          BY <1>1 DEF Owed
    <3> QED BY <1>1, <1>2, <3>1
  <2> QED BY <2>1
<1>5. IsFiniteSet((n + 1)..(n + Len(p))) /\ Cardinality((n + 1)..(n + Len(p))) = Len(p)
  <2>1. n + 1 \in Int /\ n + Len(p) \in Int /\ ~(n + 1 > n + Len(p))
        BY <1>1, <1>2
  <2>2. /\ IsFiniteSet((n + 1)..(n + Len(p)))
        /\ Cardinality((n + 1)..(n + Len(p))) = (n + Len(p)) - (n + 1) + 1
        BY <2>1, FS_Interval
  <2> QED BY <1>1, <1>2, <2>2
<1>6. Cardinality(Owed(rs2)) <= Len(p)
      BY <1>4, <1>5, FS_Subset
<1>7. Uncompared(p, << >>) = Groups(p)
      BY DEF Uncompared
<1>8. IsFiniteSet(Groups(p)) /\ Cardinality(Groups(p)) \in Nat
      BY <1>7, UncomparedFinite
<1>9. Uncompared(p, rs2) \in SUBSET Groups(p)
      BY DEF Uncompared
<1>10. Cardinality(Uncompared(p, rs2)) <= Cardinality(Groups(p))
      BY <1>8, <1>9, FS_Subset
<1> QED BY <1>3, <1>6, <1>8, <1>10

LEMMA PlanIsGood ==
    ASSUME NEW p \in Plan, NEW available, ValidPlan(p, available)
    PROVE  GoodPlan(p)
<1>1. \E n \in 1..MaxItems : p \in [1..n -> [deps: SUBSET Item, scope: Scope, group: Group \union {NoGroup}]]
      BY DEF Plan
<1>2. \A i \in DOMAIN p : p[i].deps \subseteq DOMAIN p
      BY DEF ValidPlan, KnowsDependencies
<1> QED BY <1>1, <1>2 DEF GoodPlan, ValidPlan

LEMMA PlanAcceptedKeeps ==
    ASSUME IndInv, NEW i \in Rows, PlanAccepted(i)
    PROVE  IndInv'
<1>1. Plans(i) /\ UNCHANGED <<mandateVars, blocker, attempts, excused, failures, cStatus>>
      BY DEF PlanAccepted
<1>2. /\ RoundsOnly(row) /\ plan = NoPlan /\ i \in DOMAIN row /\ row \in Seq(Row)
      /\ failures = 0 => blocker = {}
      /\ \A j \in DOMAIN row : row[j].status \in Open => j = i
      BY <1>1, PlansFacts
<1>3. PICK p \in Plan : /\ ValidProposal(p) /\ plan' = p
                        /\ row' = [row EXCEPT ![i].status = "accepted"] \o PlanRows(p, Len(row))
      BY DEF PlanAccepted
<1>4. PICK available : /\ available = IF attempts > maxAttempts THEN 0 ELSE maxAttempts - attempts
                       /\ ValidPlan(p, available)
      BY <1>3 DEF ValidProposal
<1>5. GoodPlan(p) /\ OverlapsAreOrdered(p)
      BY <1>3, <1>4, PlanIsGood DEF ValidProposal
<1>6. PICK rs1 : rs1 = [row EXCEPT ![i].status = "accepted"]
      OBVIOUS
<1>7. RoundsOnly(rs1) /\ Len(rs1) = Len(row) /\ \A j \in DOMAIN rs1 : rs1[j].status \notin Open
  <2>1. "accepted" \in Status /\ "accepted" \notin Open \union {"none"}
        BY Statuses DEF Open
  <2> QED BY <1>2, <1>6, <2>1, RoundEnds
<1>8. PICK n : n = Len(row)
      OBVIOUS
<1>9. PlannedFrom(p, rs1, n, row')
  <2>1. rs1 \in Seq(Row) /\ row' = rs1 \o PlanRows(p, n)
        BY <1>3, <1>6, <1>7, <1>8 DEF RoundsOnly
  <2> QED BY <1>5, <1>7, <1>8, <2>1, PlannedIs
<1>10. Well(p, row')
       BY <1>5, <1>7, <1>9, PlannedWell
<1>11. OpenPlanning(row') = {}
  <2>1. ASSUME NEW j \in DOMAIN row', row'[j].purpose = "planning" PROVE row'[j].status \notin Open
    <3>1. j \in DOMAIN rs1 \/ \E k \in DOMAIN p : j = n + k
          BY <1>5, <1>9, PlannedIndex
    <3>2. CASE j \in DOMAIN rs1
          BY <1>7, <1>9, <3>2 DEF PlannedFrom
    <3>3. ASSUME NEW k \in DOMAIN p, j = n + k PROVE FALSE
      <4>1. n \in Nat /\ row'[j] = PlanRows(p, n)[k]
            BY <1>9, <3>3 DEF PlannedFrom
      <4>2. PlanRows(p, n)[k].purpose = "work"
            BY <1>5, <4>1, PlanRow
      <4> QED BY <2>1, <4>1, <4>2
    <3> QED BY <3>1, <3>2, <3>3
  <2> QED BY <2>1 DEF OpenPlanning
<1>12. Phases'
       BY <1>3, <1>5, <1>11 DEF Phases
<1>13. Covers(p, row', attempts)
  <2>1. \A j \in DOMAIN rs1 : rs1[j].status \notin {"none", "ready"}
        BY <1>7 DEF RoundsOnly, Open
  <2>2. /\ Cardinality(Owed(row')) \in Nat /\ Cardinality(Owed(row')) <= Len(p)
        /\ Cardinality(Uncompared(p, row')) \in Nat /\ Cardinality(Groups(p)) \in Nat
        /\ Cardinality(Uncompared(p, row')) <= Cardinality(Groups(p))
        BY <1>5, <1>9, <2>1, PlannedCovers
  <2>3. Len(p) \in Nat /\ Len(p) >= 1
        BY <1>5, PlanFacts
  <2>4. Len(p) + Cardinality(Groups(p)) <= available
        BY <1>4 DEF ValidPlan, FitsAttempts
  <2>5. attempts \in Nat /\ maxAttempts \in Nat
        BY DEF IndInv, Covered
  <2>6. available = maxAttempts - attempts
        BY <1>4, <2>2, <2>3, <2>4, <2>5
  <2> QED BY <2>2, <2>3, <2>4, <2>5, <2>6 DEF Covers
<1>14. Covered'
       BY <1>1, <1>2, <1>3, <1>11, <1>13 DEF IndInv, Covered, Covers, mandateVars
<1> QED BY <1>3, <1>10, <1>12, <1>14 DEF IndInv

LEMMA PlanningRowIs ==
    ASSUME NEW n \in Nat, NEW r, r = PlanningRow(n)
    PROVE  /\ r \in Row /\ r.purpose = "planning" /\ r.owns = {} /\ r.group = NoGroup
           /\ r.status = "ready"
<1>1. PICK b \in BOOLEAN : b = FALSE
      OBVIOUS
<1>2. PICK s \in Status : s = "ready"
      BY Statuses
<1>3. PICK f : f = "planning" /\ f \in {"planning", "work", "reconciliation"}
      OBVIOUS
<1>4. PICK g \in Group \union Nat : g = NoGroup
      BY DEF NoGroup
<1>5. r = [purpose |-> f, owns |-> {}, deps |-> {}, scope |-> {}, group |-> g,
           position |-> n, status |-> s, failed |-> b]
      BY <1>1, <1>2, <1>3, <1>4 DEF PlanningRow
<1>6. r \in Row
      BY <1>3, <1>5 DEF Row
<1>7. r.purpose = f /\ r.owns = {} /\ r.group = g /\ r.status = s
      BY <1>5
<1> QED BY <1>2, <1>3, <1>4, <1>6, <1>7

LEMMA PlanRejectedKeeps ==
    ASSUME IndInv, NEW i \in Rows, PlanRejected(i)
    PROVE  IndInv'
<1>1. Plans(i) /\ UNCHANGED <<mandateVars, plan, attempts, excused, failures, cStatus>>
      BY DEF PlanRejected
<1>2. /\ RoundsOnly(row) /\ plan = NoPlan /\ source = "worker" /\ i \in DOMAIN row
      /\ row \in Seq(Row) /\ (failures = 0 => blocker = {})
      /\ \A j \in DOMAIN row : row[j].status \in Open => j = i
      BY <1>1, PlansFacts
<1>3. CASE /\ row' = Append([row EXCEPT ![i].status = "superseded"], PlanningRow(Len(row) + 1))
           /\ blocker' = blocker
  <2>1. PICK rs1 : rs1 = [row EXCEPT ![i].status = "superseded"]
        OBVIOUS
  <2>2. RoundsOnly(rs1) /\ Len(rs1) = Len(row) /\ \A j \in DOMAIN rs1 : rs1[j].status \notin Open
    <3>1. "superseded" \in Status /\ "superseded" \notin Open \union {"none"}
          BY Statuses DEF Open
    <3> QED BY <1>2, <2>1, <3>1, RoundEnds
  <2>3. PICK n \in Nat : n = Len(row) + 1
        BY <1>2, RowsOf
  <2>4. PICK r : r = PlanningRow(n)
        OBVIOUS
  <2>5. /\ r \in Row /\ r.purpose = "planning" /\ r.owns = {} /\ r.group = NoGroup
        /\ r.status = "ready"
        BY <2>4, PlanningRowIs
  <2>6. row' = Append(rs1, r) /\ rs1 \in Seq(Row)
        BY <1>3, <2>1, <2>2, <2>3, <2>4 DEF RoundsOnly
  <2>7. /\ row' \in Seq(Row) /\ DOMAIN row' = DOMAIN rs1 \union {n} /\ row'[n] = r
        /\ \A j \in DOMAIN rs1 : row'[j] = rs1[j]
        BY <2>2, <2>3, <2>5, <2>6, RowsAppended
  <2>8. RoundsOnly(row')
        BY <2>2, <2>5, <2>7 DEF RoundsOnly, PlansOnly
  <2>9. \A j \in OpenPlanning(row') : j = n
        BY <2>2, <2>7 DEF OpenPlanning
  <2>10. Well(plan, row')
         BY <2>8, RoundsAreWell
  <2>11. Phases'
         BY <1>1, <1>2, <2>8, <2>9 DEF Phases, RoundsOnly, Rows, mandateVars
  <2>12. Covered'
         BY <1>1, <1>2, <1>3 DEF IndInv, Covered, mandateVars
  <2> QED BY <1>1, <2>10, <2>11, <2>12 DEF IndInv
<1>4. CASE row' = [row EXCEPT ![i].status = "verification_failed"]
  <2>1. RoundsOnly(row') /\ \A j \in DOMAIN row' : row'[j].status \notin Open
    <3>1. "verification_failed" \in Status /\ "verification_failed" \notin Open \union {"none"}
          BY Statuses DEF Open
    <3> QED BY <1>2, <1>4, <3>1, RoundEnds
  <2>2. OpenPlanning(row') = {}
        BY <2>1 DEF OpenPlanning
  <2>3. Well(plan, row')
        BY <2>1, RoundsAreWell
  <2>4. Phases'
        BY <1>1, <1>2, <2>2 DEF Phases
  <2>5. Covered'
        BY <1>1, <1>2, <2>2 DEF IndInv, Covered, mandateVars
  <2> QED BY <1>1, <2>3, <2>4, <2>5 DEF IndInv
<1> QED BY <1>3, <1>4 DEF PlanRejected
-----------------------------------------------------------------------------
(* The inductive invariant.                                                *)

LEMMA InitIndInv ==
    ASSUME Init
    PROVE  IndInv
<1>1. /\ maxAttempts \in Nat /\ attempts = 0 /\ excused = 0 /\ failures = 0 /\ blocker = {}
      BY Bounds DEF Init
<1>2. CASE source = "principal" /\ plan \in PrincipalPlans /\ row = PlanRows(plan, 0)
  <2>1. plan \in Plan /\ ValidPlan(plan, maxAttempts)
        BY <1>2 DEF PrincipalPlans
  <2>2. GoodPlan(plan)
        BY <2>1, PlanIsGood
  <2>3. << >> \in Seq(Row) /\ Len(<< >>) = 0
        BY EmptySeq
  <2>4. PICK rs : rs = << >> /\ rs \in Seq(Row) /\ Len(rs) = 0 /\ DOMAIN rs = {}
    <3>1. PICK rs : rs = << >>
          OBVIOUS
    <3>2. rs \in Seq(Row) /\ Len(rs) = 0
          BY <2>3, <3>1
    <3>3. DOMAIN rs = 1..0
          BY <3>2, RowsOf
    <3>4. DOMAIN rs = {}
          BY <3>3
    <3> QED BY <3>1, <3>2, <3>4
  <2>5. RoundsOnly(rs)
        BY <2>4 DEF RoundsOnly
  <2>6. row \in Seq(Row)
        BY <1>2, <2>2, PlanRowsAreRows
  <2>7. PICK n \in Nat : n = 0
        OBVIOUS
  <2>8. PlannedFrom(plan, rs, n, row)
    <3>1. row = rs \o PlanRows(plan, n)
          BY <1>2, <2>4, <2>6, <2>7, ConcatEmptySeq
    <3> QED BY <2>2, <2>4, <2>7, <3>1, PlannedIs
  <2>9. Well(plan, row)
        BY <2>2, <2>5, <2>8, PlannedWell
  <2>10. OpenPlanning(row) = {}
    <3>1. ASSUME NEW j \in DOMAIN row PROVE row[j].purpose = "work"
      <4>1. PICK k \in DOMAIN plan : j = n + k
            BY <2>2, <2>4, <2>8, PlannedIndex
      <4>2. row[j] = PlanRows(plan, n)[k]
            BY <2>8, <4>1 DEF PlannedFrom
      <4> QED BY <2>2, <4>2, PlanRow
    <3> QED BY <3>1 DEF OpenPlanning
  <2>11. Phases
         BY <1>2, <2>2, <2>10 DEF Phases
  <2>12. Covers(plan, row, 0)
    <3>1. \A j \in DOMAIN rs : rs[j].status \notin {"none", "ready"}
          BY <2>4
    <3>2. /\ Cardinality(Owed(row)) \in Nat /\ Cardinality(Owed(row)) <= Len(plan)
          /\ Cardinality(Uncompared(plan, row)) \in Nat /\ Cardinality(Groups(plan)) \in Nat
          /\ Cardinality(Uncompared(plan, row)) <= Cardinality(Groups(plan))
          BY <2>2, <2>8, <3>1, PlannedCovers
    <3>3. Len(plan) \in Nat /\ Len(plan) + Cardinality(Groups(plan)) <= maxAttempts
          BY <2>1, <2>2, PlanFacts DEF ValidPlan, FitsAttempts
    <3> QED BY <1>1, <3>2, <3>3 DEF Covers
  <2>13. Covered
         BY <1>1, <2>10, <2>12 DEF Covered
  <2> QED BY <2>9, <2>11, <2>13 DEF IndInv
<1>3. CASE source = "worker" /\ plan = NoPlan /\ row = <<PlanningRow(1)>>
  <2>1. PICK r : r = PlanningRow(1)
        OBVIOUS
  <2>2. /\ r \in Row /\ r.purpose = "planning" /\ r.owns = {} /\ r.group = NoGroup
        /\ r.status = "ready"
        BY <2>1, PlanningRowIs
  <2>3. row = <<r>>
        BY <1>3, <2>1
  <2>4. row \in Seq(Row) /\ DOMAIN row = {1} /\ row[1] = r
        BY <2>2, <2>3
  <2>5. RoundsOnly(row)
        BY <2>2, <2>4 DEF RoundsOnly, PlansOnly
  <2>6. Well(plan, row)
        BY <2>5, RoundsAreWell
  <2>7. Phases
        BY <1>3, <2>2, <2>4 DEF Phases, OpenPlanning, Rows
  <2>8. Covered
        BY <1>1, <1>3 DEF Covered
  <2> QED BY <2>6, <2>7, <2>8 DEF IndInv
<1> QED BY <1>2, <1>3 DEF Init

LEMMA NextKeeps ==
    ASSUME IndInv, [Next]_vars
    PROVE  IndInv'
<1>1. CASE UNCHANGED vars
      BY <1>1 DEF vars, mandateVars, IndInv, Phases, Covered, Covers, Rows
<1>2. ASSUME NEW i \in Rows, Dispatch(i) PROVE IndInv'
      BY <1>2, DispatchKeeps
<1>3. ASSUME NEW i \in Rows, Settle(i) PROVE IndInv'
  <2>1. CASE FailAttempt(i)
        BY <1>3, <2>1, FailAttemptKeeps
  <2>2. CASE PlanAccepted(i)
        BY <1>3, <2>2, PlanAcceptedKeeps
  <2>3. CASE PlanRejected(i)
        BY <1>3, <2>3, PlanRejectedKeeps
  <2>4. CASE VerifierCannotRun(i)
        BY <1>3, <2>4, VerifierCannotRunKeeps
  <2>5. CASE CandidateFails(i)
        BY <1>3, <2>5, CandidateFailsKeeps
  <2>6. ASSUME NEW paths \in SUBSET Path \ {{}}, RequireReconciliation(i, paths) PROVE IndInv'
        BY <1>3, <2>6, RequireReconciliationKeeps
  <2>7. CASE FinishCompetingCandidate(i)
        BY <1>3, <2>7, FinishCompetingKeeps
  <2>8. CASE FinishPlannedAssignment(i)
        BY <1>3, <2>8, FinishPlannedKeeps
  <2> QED BY <1>3, <2>1, <2>2, <2>3, <2>4, <2>5, <2>6, <2>7, <2>8 DEF Settle
<1> QED BY <1>1, <1>2, <1>3 DEF Next

LEMMA Inductive == Spec => []IndInv
<1>1. Init => IndInv
      BY InitIndInv
<1>2. IndInv /\ [Next]_vars => IndInv'
      BY NextKeeps
<1> QED BY <1>1, <1>2, PTL DEF Spec
-----------------------------------------------------------------------------
\* Work starts on finished work, for every plan that passes validation and every
\* sequence of failures, replacements, reconciliations and comparisons: what an
\* Assignment's item depends on belongs to accepted work before the Assignment
\* exists (advance_plan_after_evidence, recover_failed_verification).
THEOREM StartsCorrect == Spec => []WorkStartsOnFinishedWork
<1>1. ASSUME IndInv PROVE WorkStartsOnFinishedWork
  <2> SUFFICES ASSUME NEW i \in Rows, row[i].purpose # "planning", row[i].status # "none",
                      NEW o \in row[i].owns
               PROVE  plan[o].deps \subseteq Passed(row)
      BY DEF WorkStartsOnFinishedWork
  <2>1. plan[o].deps \subseteq Finished(plan, row)
        BY <1>1 DEF IndInv, Well, StartsFinished, Rows
  <2>2. Finished(plan, row) \subseteq Passed(row)
        BY DEF Finished
  <2> QED BY <2>1, <2>2
<1> QED BY <1>1, Inductive, PTL

\* An item that started, and one it comes after, are not both open.
LEMMA OrderedAreApart ==
    ASSUME IndInv, GoodPlan(plan), NEW i \in Rows, NEW j \in Rows, NEW o1 \in DOMAIN plan,
           NEW o2 \in DOMAIN plan, row[i].purpose = "work", row[j].purpose = "work",
           row[i].owns = {o1}, row[j].owns = {o2}, row[i].status # "none",
           DependsOn(plan, o1, o2)
    PROVE  row[j].status \in Settled
<1>1. PICK S : S = Finished(plan, row)
      OBVIOUS
<1>2. S \in SUBSET DOMAIN plan
      BY <1>1 DEF Finished
<1>3. plan[o1].deps \subseteq S
      BY <1>1 DEF IndInv, Well, StartsFinished, Rows
<1>4. ASSUME NEW k \in S PROVE plan[k].deps \subseteq S
  <2>1. k \in Passed(row)
        BY <1>1 DEF Finished
  <2>2. PICK m \in DOMAIN row : row[m].status = "accepted" /\ k \in row[m].owns
        BY <2>1 DEF Passed
  <2>3. row[m].purpose # "planning"
        BY <2>2 DEF IndInv, Well, Rooted, PlansOnly
  <2> QED BY <1>1, <2>2, <2>3 DEF IndInv, Well, StartsFinished
<1>5. o2 \in S
      BY <1>2, <1>3, <1>4 DEF DependsOn
<1>6. j \in WorkOn(row, o2)
      BY DEF WorkOn, Rows
<1> QED BY <1>1, <1>5, <1>6 DEF Finished

\* In a planning Worker's plan two Assignments that write the same file are never
\* open together, whatever fails, is replaced or reconciled: the order that
\* ensure_overlaps_are_ordered asks of the plan holds for the rows made from it.
THEOREM WritersCorrect == Spec => []OrderedWritersNeverMeet
<1>1. ASSUME IndInv PROVE OrderedWritersNeverMeet
  <2> SUFFICES ASSUME source = "worker", NEW i \in Rows, NEW j \in Rows,
                      row[i].purpose = "work", row[j].purpose = "work",
                      row[i].status \notin Settled \union {"none"},
                      row[j].status \notin Settled \union {"none"},
                      Overlap(row[i].scope, row[j].scope)
               PROVE  i = j
      BY DEF OrderedWritersNeverMeet
  <2>1. PICK o1 \in DOMAIN plan : row[i].owns = {o1} /\ row[i].scope = plan[o1].scope
        BY <1>1 DEF IndInv, Well, Rooted, RowOfItem, Rows
  <2>2. PICK o2 \in DOMAIN plan : row[j].owns = {o2} /\ row[j].scope = plan[o2].scope
        BY <1>1 DEF IndInv, Well, Rooted, RowOfItem, Rows
  <2>3. plan # NoPlan
        BY <2>1 DEF NoPlan
  <2>4. GoodPlan(plan) /\ OverlapsAreOrdered(plan)
        BY <1>1, <2>3 DEF IndInv, Phases
  <2>5. CASE o1 = o2
        BY <1>1, <2>1, <2>2, <2>5 DEF IndInv, Well, OneRowPerItem, Rows, Settled
  <2>6. CASE o1 # o2
    <3>1. DependsOn(plan, o1, o2) \/ DependsOn(plan, o2, o1)
          BY <2>1, <2>2, <2>4, <2>6 DEF OverlapsAreOrdered
    <3>2. ~DependsOn(plan, o1, o2)
          BY <1>1, <2>1, <2>2, <2>4, OrderedAreApart
    <3>3. ~DependsOn(plan, o2, o1)
          BY <1>1, <2>1, <2>2, <2>4, OrderedAreApart
    <3> QED BY <3>1, <3>2, <3>3
  <2> QED BY <2>5, <2>6
<1> QED BY <1>1, Inductive, PTL

\* While no Attempt on the plan's work failed, the ceiling stops nothing: what
\* validate_plan_against counted covers every Attempt that is still to come, the
\* comparisons of competitions included.
THEOREM BudgetCorrect == Spec => []BudgetCoversPlan
<1>1. IndInv => BudgetCoversPlan
      BY DEF IndInv, Covered, BudgetCoversPlan
<1> QED BY <1>1, Inductive, PTL
-----------------------------------------------------------------------------
(* Nothing stops silently.                                                 *)

\* A row that waits does so for rows of items its own item depends on, one of
\* which is not settled.
WaitsForSomebody(p, rs) ==
    \A j \in DOMAIN rs : rs[j].status = "none" =>
       /\ \E e \in rs[j].deps : rs[e].status \notin Settled
       /\ \E o \in DOMAIN p : /\ rs[j].owns = {o}
                              /\ \A e \in rs[j].deps : \E d \in p[o].deps : rs[e].owns = {d}

\* An item has rows, and one of them is not settled or the item passed.
ItemsAreCared(p, rs) ==
    \A o \in DOMAIN p : /\ WorkOn(rs, o) # {}
                        /\ o \in Passed(rs) \/ \E j \in WorkOn(rs, o) : rs[j].status \notin Settled

\* Members of a competition wait for the same rows, and so together; only they
\* wait for a comparison.
Competing(rs, i) == rs[i].purpose = "work" /\ rs[i].group \in Group
CompeteTogether(rs) ==
    /\ \A i, j \in DOMAIN rs :
          Competing(rs, i) /\ Competing(rs, j) /\ rs[i].group = rs[j].group
             /\ rs[i].status = "none"
          => rs[j].status = "none" /\ rs[j].deps = rs[i].deps
    /\ \A i \in DOMAIN rs : rs[i].status = "verification_pending" => Competing(rs, i)

Waiting(p, rs) ==
    Acyclic(p) /\ WaitsForSomebody(p, rs) /\ ItemsAreCared(p, rs) /\ CompeteTogether(rs)

\* Nobody was asked for help, and the cases that IdleIsBlocked names have not occurred.
Lost(p, rs) ==
    \E i \in DOMAIN rs :
       /\ rs[i].purpose = "work" /\ \A o \in rs[i].owns : p[o].group # NoGroup
       /\ \/ rs[i].group = i
          \/ \E j \in DOMAIN rs : i < j /\ rs[j].purpose = "work" /\ rs[j].owns = rs[i].owns
Nested(rs) ==
    \E i \in DOMAIN rs : rs[i].purpose = "reconciliation" /\ rs[i].status = "verification_failed"
Calm(p, rs) == ~Lost(p, rs) /\ ~Nested(rs)
Clean == blocker = {} /\ Calm(plan, row)

\* Somebody reconciles the rows of group g.
Reconciles(rs, g) ==
    \E r \in DOMAIN rs : /\ rs[r].purpose = "reconciliation" /\ rs[r].group = g
                         /\ rs[r].status \in Open

FailedIsReconciled(rs) ==
    \A i \in DOMAIN rs :
       /\ rs[i].status # "resource_blocked"
       /\ rs[i].status = "verification_failed" /\ rs[i].purpose # "reconciliation" => Reconciles(rs, i)

\* A competition runs, then it is compared.
HasComparison(rs, g) == \E r \in DOMAIN rs : rs[r].purpose = "reconciliation" /\ rs[r].group = g
OpenMember(rs, g) ==
    \E j \in DOMAIN rs : Competing(rs, j) /\ rs[j].group = g /\ rs[j].status \in Open
MemberGoesOn(rs, i) ==
    /\ rs[i].status \in Open \union {"none", "verification_pending", "superseded"}
    /\ rs[i].status = "superseded" => HasComparison(rs, rs[i].group)
    /\ rs[i].status \in Open \union {"none"} => ~HasComparison(rs, rs[i].group)
    /\ rs[i].status = "verification_pending" =>
         Reconciles(rs, rs[i].group) \/ OpenMember(rs, rs[i].group)
CompetitionGoesOn(rs) == \A i \in DOMAIN rs : Competing(rs, i) => MemberGoesOn(rs, i)

GoesOn(rs) == FailedIsReconciled(rs) /\ CompetitionGoesOn(rs)

EndIsSeen == EveryAssignmentAccepted(row) => cStatus = "verified_complete"

ProgressInv == Waiting(plan, row) /\ (Clean => GoesOn(row) /\ EndIsSeen)
-----------------------------------------------------------------------------
(* Rows that wait for one another end somewhere, for the plan is acyclic.  *)

Below(p, o) == {k \in DOMAIN p : DependsOn(p, o, k)}

\* An item has more below it than what it depends on has.
LEMMA DependencyIsLower ==
    ASSUME NEW p, GoodPlan(p), Acyclic(p), NEW o \in DOMAIN p, NEW d \in p[o].deps
    PROVE  /\ d \in DOMAIN p /\ IsFiniteSet(Below(p, d)) /\ IsFiniteSet(Below(p, o))
           /\ Cardinality(Below(p, d)) \in Nat /\ Cardinality(Below(p, o)) \in Nat
           /\ Cardinality(Below(p, d)) < Cardinality(Below(p, o))
<1>1. d \in DOMAIN p /\ IsFiniteSet(DOMAIN p)
  <2>1. Len(p) \in Nat /\ DOMAIN p = 1..Len(p) /\ d \in DOMAIN p
        BY PlanFacts
  <2> QED BY <2>1, FS_Interval
<1>2. d \in Below(p, o)
      BY <1>1 DEF Below, DependsOn
<1>3. d \notin Below(p, d)
      BY <1>1 DEF Below, Acyclic
<1>4. ASSUME NEW k \in Below(p, d) PROVE k \in Below(p, o)
  <2> SUFFICES ASSUME NEW S \in SUBSET DOMAIN p, p[o].deps \subseteq S,
                      \A m \in S : p[m].deps \subseteq S
               PROVE  k \in S
      BY DEF Below, DependsOn
  <2>1. p[d].deps \subseteq S
        OBVIOUS
  <2> QED BY <2>1 DEF Below, DependsOn
<1>5. Below(p, o) \in SUBSET DOMAIN p /\ Below(p, d) \in SUBSET Below(p, o)
      BY <1>4 DEF Below
<1>6. IsFiniteSet(Below(p, o))
      BY <1>1, <1>5, FS_Subset
<1>7. /\ IsFiniteSet(Below(p, d)) /\ Cardinality(Below(p, d)) <= Cardinality(Below(p, o))
      /\ Cardinality(Below(p, o)) # Cardinality(Below(p, d))
      BY <1>2, <1>3, <1>5, <1>6, FS_Subset
<1>8. Cardinality(Below(p, d)) \in Nat /\ Cardinality(Below(p, o)) \in Nat
      BY <1>6, <1>7, FS_CardinalityType
<1>9. Cardinality(Below(p, d)) < Cardinality(Below(p, o))
      BY <1>7, <1>8
<1> QED BY <1>1, <1>6, <1>7, <1>8, <1>9

\* If all that is not settled waits, nothing waits.
LEMMA NobodyWaits ==
    ASSUME NEW p, NEW rs, Well(p, rs), p # NoPlan => GoodPlan(p), Waiting(p, rs),
           \A j \in DOMAIN rs : rs[j].status \in Settled \union {"none"}
    PROVE  \A j \in DOMAIN rs : rs[j].status # "none"
<1> SUFFICES ASSUME NEW w \in DOMAIN rs, rs[w].status = "none" PROVE FALSE
    OBVIOUS
<1> DEFINE Waits(o) == \E j \in DOMAIN rs : rs[j].status = "none" /\ rs[j].owns = {o}
           S == {n \in Nat : \E o \in DOMAIN p : Waits(o) /\ n = Cardinality(Below(p, o))}
<1>1. PICK v \in DOMAIN p : rs[w].owns = {v}
      BY DEF Waiting, WaitsForSomebody
<1>2. GoodPlan(p) /\ Acyclic(p)
      BY <1>1 DEF NoPlan, Waiting
<1>3. ASSUME NEW o \in DOMAIN p, Waits(o)
      PROVE  \E d \in DOMAIN p : /\ Waits(d) /\ Cardinality(Below(p, d)) \in Nat
                                 /\ Cardinality(Below(p, o)) \in Nat
                                 /\ Cardinality(Below(p, d)) < Cardinality(Below(p, o))
  <2>1. PICK j \in DOMAIN rs : rs[j].status = "none" /\ rs[j].owns = {o}
        BY <1>3
  <2>2. PICK e \in rs[j].deps : rs[e].status \notin Settled
        BY <2>1 DEF Waiting, WaitsForSomebody
  <2>3. PICK d \in p[o].deps : rs[e].owns = {d}
        BY <2>1, <2>2 DEF Waiting, WaitsForSomebody
  <2>4. e \in DOMAIN rs
        BY <2>1 DEF Well, WaitsFor
  <2>5. Waits(d)
        BY <2>2, <2>3, <2>4
  <2> QED BY <1>2, <2>3, <2>5, DependencyIsLower
<1>4. Waits(v)
      BY <1>1
<1> HIDE DEF Waits
<1>5. S # {} /\ S \subseteq Nat
      BY <1>1, <1>3, <1>4
<1>6. \E x \in S : \A y \in S : ~(<<y, x>> \in OpToRel(<, Nat))
      BY <1>5, NatLessThanWellFounded, WFMin
<1>7. PICK n \in S : \A y \in S : ~(y < n)
      BY <1>5, <1>6 DEF OpToRel
<1>8. PICK o \in DOMAIN p : Waits(o) /\ n = Cardinality(Below(p, o))
      OBVIOUS
<1>9. PICK d \in DOMAIN p : /\ Waits(d) /\ Cardinality(Below(p, d)) \in Nat
                            /\ Cardinality(Below(p, d)) < n
      BY <1>3, <1>8
<1>10. Cardinality(Below(p, d)) \in S
      BY <1>9
<1> QED BY <1>7, <1>9, <1>10

LEMMA ProgressMeansHelp ==
    ASSUME IndInv, ProgressInv
    PROVE  IdleIsBlocked
<1> SUFFICES ASSUME Idle, blocker = {}, ~LostCompetitor, ~NestedReconciliation PROVE FALSE
    BY DEF IdleIsBlocked
<1>1. Clean
      BY DEF Clean, Calm, Lost, Nested, LostCompetitor, NestedReconciliation, Rows
<1>2. Well(plan, row) /\ (plan # NoPlan => GoodPlan(plan)) /\ Waiting(plan, row) /\ GoesOn(row) /\ EndIsSeen
      BY <1>1 DEF IndInv, Phases, ProgressInv
<1>3. \A j \in DOMAIN row : row[j].status \notin Open
      BY DEF Idle, With, Running, Rows, Open
<1>4. \A g : ~Reconciles(row, g)
      BY <1>3 DEF Reconciles
<1>5. ASSUME NEW j \in DOMAIN row PROVE row[j].status \in Settled \union {"none"}
  <2>1. row[j].status \in Status
        BY <1>2, RowsOf, RowFields DEF Well
  <2>2. row[j].status # "resource_blocked"
        BY <1>2 DEF GoesOn, FailedIsReconciled
  <2>3. row[j].status # "verification_failed"
        BY <1>1, <1>2, <1>4 DEF GoesOn, FailedIsReconciled, Clean, Calm, Nested
  <2>4. row[j].status # "verification_pending"
    <3>1. row[j].status = "verification_pending" => Competing(row, j)
          BY <1>2 DEF Waiting, CompeteTogether
    <3> QED BY <1>2, <1>3, <1>4, <3>1 DEF GoesOn, CompetitionGoesOn, MemberGoesOn, OpenMember
  <2> QED BY <1>3, <2>1, <2>2, <2>3, <2>4 DEF Status
<1>6. \A j \in DOMAIN row : row[j].status # "none"
      BY <1>2, <1>5, NobodyWaits
<1>7. EveryAssignmentAccepted(row)
      BY <1>5, <1>6 DEF EveryAssignmentAccepted
<1> QED BY <1>2, <1>7 DEF EndIsSeen, Idle
-----------------------------------------------------------------------------
(* Waiting, step by step.                                                  *)

\* What an item has stays when no row is settled or unsettled.
LEMMA SettledAlike ==
    ASSUME NEW rs, NEW rs2, Quiet(rs, rs2), NEW k \in DOMAIN rs
    PROVE  /\ rs2[k].status \in Settled <=> rs[k].status \in Settled
           /\ rs2[k].status = "accepted" <=> rs[k].status = "accepted"
           /\ rs2[k].status = "none" <=> rs[k].status = "none"
           /\ rs2[k].purpose = rs[k].purpose /\ rs2[k].owns = rs[k].owns /\ rs2[k].deps = rs[k].deps
           /\ rs2[k].group \in {rs[k].group, k}
           /\ k \in DOMAIN rs2
BY DEF Quiet, QuietRow, Final, Settled

LEMMA QuietWaits ==
    ASSUME NEW p, NEW rs, Well(p, rs), Waiting(p, rs), NEW rs2, Quiet(rs, rs2),
           \A k \in DOMAIN rs : rs2[k].status = "verification_pending" => Competing(rs2, k)
    PROVE  Waiting(p, rs2)
<1>1. DOMAIN rs2 = DOMAIN rs /\ \A k \in DOMAIN rs : k \notin Group
      BY RowsOf, Bounds DEF Quiet, Well
<1>2. WaitsForSomebody(p, rs2)
  <2> SUFFICES ASSUME NEW j \in DOMAIN rs2, rs2[j].status = "none"
               PROVE  /\ \E e \in rs2[j].deps : rs2[e].status \notin Settled
                      /\ \E o \in DOMAIN p :
                           /\ rs2[j].owns = {o}
                           /\ \A e \in rs2[j].deps : \E d \in p[o].deps : rs2[e].owns = {d}
      BY DEF WaitsForSomebody
  <2>1. /\ j \in DOMAIN rs /\ rs[j].status = "none" /\ rs2[j].owns = rs[j].owns
        /\ rs2[j].deps = rs[j].deps
        BY <1>1, SettledAlike
  <2>2. rs[j].deps \subseteq DOMAIN rs
        BY <2>1 DEF Well, WaitsFor
  <2>3. \A e \in rs[j].deps : /\ rs2[e].status \in Settled <=> rs[e].status \in Settled
                              /\ rs2[e].owns = rs[e].owns
        BY <2>2, SettledAlike
  <2> QED BY <2>1, <2>3 DEF Waiting, WaitsForSomebody
<1>3. ItemsAreCared(p, rs2)
  <2>1. Passed(rs2) = Passed(rs)
        BY <1>1, SettledAlike DEF Passed
  <2>2. \A o : WorkOn(rs2, o) = WorkOn(rs, o) /\ WorkOn(rs, o) \subseteq DOMAIN rs
        BY <1>1, SettledAlike DEF WorkOn
  <2> QED BY <2>1, <2>2, SettledAlike DEF Waiting, ItemsAreCared
<1>4. CompeteTogether(rs2)
  <2>1. ASSUME NEW k \in DOMAIN rs, Competing(rs2, k)
        PROVE  Competing(rs, k) /\ rs2[k].group = rs[k].group
        BY <1>1, <2>1, SettledAlike DEF Competing
  <2>2. ASSUME NEW i \in DOMAIN rs, NEW j \in DOMAIN rs, Competing(rs2, i), Competing(rs2, j),
               rs2[i].group = rs2[j].group, rs2[i].status = "none"
        PROVE  rs2[j].status = "none" /\ rs2[j].deps = rs2[i].deps
    <3>1. /\ Competing(rs, i) /\ Competing(rs, j) /\ rs[i].group = rs[j].group
          /\ rs[i].status = "none"
          BY <2>1, <2>2, SettledAlike
    <3>2. rs[j].status = "none" /\ rs[j].deps = rs[i].deps
          BY <3>1 DEF Waiting, CompeteTogether
    <3> QED BY <3>2, SettledAlike
  <2> QED BY <1>1, <2>2 DEF CompeteTogether
<1> QED BY <1>2, <1>3, <1>4 DEF Waiting

\* A reconciliation beside the rows.
LEMMA AddedWaits ==
    ASSUME NEW p, NEW rs, Well(p, rs), Waiting(p, rs), NEW rs2, NEW n, OneMore(rs, rs2, n),
           rs2[n].purpose = "reconciliation", rs2[n].status = "ready"
    PROVE  Waiting(p, rs2)
<1>1. \A j \in DOMAIN rs2 : j = n \/ (j \in DOMAIN rs /\ rs2[j] = rs[j])
      BY DEF OneMore
<1>2. \A j \in DOMAIN rs : j \in DOMAIN rs2 /\ rs2[j] = rs[j]
      BY DEF OneMore
<1>3. ASSUME NEW j \in DOMAIN rs2, rs2[j].status = "none"
      PROVE  /\ \E e \in rs2[j].deps : rs2[e].status \notin Settled
             /\ \E o \in DOMAIN p :
                  /\ rs2[j].owns = {o}
                  /\ \A e \in rs2[j].deps : \E d \in p[o].deps : rs2[e].owns = {d}
  <2>1. j \in DOMAIN rs /\ rs2[j] = rs[j] /\ rs[j].status = "none"
        BY <1>1, <1>3
  <2>2. \A e \in rs[j].deps : rs2[e] = rs[e]
        BY <1>2, <2>1 DEF Well, WaitsFor
  <2> QED BY <2>1, <2>2 DEF Waiting, WaitsForSomebody
<1>4. WaitsForSomebody(p, rs2)
      BY <1>3 DEF WaitsForSomebody
<1>5. ItemsAreCared(p, rs2)
  <2>1. Passed(rs2) = Passed(rs)
        BY DEF Passed, OneMore
  <2>2. \A o : WorkOn(rs2, o) = WorkOn(rs, o) /\ WorkOn(rs, o) \subseteq DOMAIN rs
        BY DEF WorkOn, OneMore
  <2> QED BY <1>2, <2>1, <2>2 DEF Waiting, ItemsAreCared
<1>6. CompeteTogether(rs2)
  <2>1. \A j \in DOMAIN rs2 : Competing(rs2, j) => j \in DOMAIN rs /\ rs2[j] = rs[j] /\ Competing(rs, j)
        BY <1>1 DEF Competing
  <2>2. \A j \in DOMAIN rs2 : rs2[j].status = "verification_pending" => Competing(rs2, j)
        BY <1>1 DEF Waiting, CompeteTogether, Competing
  <2> QED BY <2>1, <2>2 DEF Waiting, CompeteTogether
<1> QED BY <1>4, <1>5, <1>6 DEF Waiting

LEMMA ReplacedWaits ==
    ASSUME NEW p, NEW rs, Well(p, rs), Waiting(p, rs), NEW rs2, NEW i \in DOMAIN rs, NEW n,
           Replaced(rs, rs2, i, n), rs[i].status = "running"
    PROVE  Waiting(p, rs2)
<1>1. \A j \in DOMAIN rs2 : j = n \/ (j \in DOMAIN rs /\ j # n)
      BY DEF Replaced
<1>2. ASSUME NEW j \in DOMAIN rs
      PROVE  /\ j \in DOMAIN rs2 /\ rs2[j].purpose = rs[j].purpose /\ rs2[j].owns = rs[j].owns
             /\ rs2[j].group = rs[j].group /\ rs2[j].deps = Moved(rs[j].deps, i, n)
             /\ j # i => rs2[j].status = rs[j].status
             /\ j = i => rs2[j].status = "superseded"
      BY DEF Replaced
<1>3. /\ n \in DOMAIN rs2 /\ rs2[n].purpose = rs[i].purpose /\ rs2[n].owns = rs[i].owns
      /\ rs2[n].group = rs[i].group /\ rs2[n].status = "ready"
      BY DEF Replaced
<1>4. ASSUME NEW j \in DOMAIN rs2, rs2[j].status = "none"
      PROVE  /\ \E e \in rs2[j].deps : rs2[e].status \notin Settled
             /\ \E o \in DOMAIN p :
                  /\ rs2[j].owns = {o}
                  /\ \A e \in rs2[j].deps : \E d \in p[o].deps : rs2[e].owns = {d}
  <2>1. /\ j \in DOMAIN rs /\ j # i /\ rs[j].status = "none" /\ rs2[j].owns = rs[j].owns
        /\ rs2[j].deps = Moved(rs[j].deps, i, n)
        BY <1>1, <1>2, <1>3, <1>4
  <2>2. rs[j].deps \subseteq DOMAIN rs
        BY <2>1 DEF Well, WaitsFor
  <2>3. PICK e \in rs[j].deps : rs[e].status \notin Settled
        BY <2>1 DEF Waiting, WaitsForSomebody
  <2>4. \E f \in rs2[j].deps : rs2[f].status \notin Settled
    <3>1. CASE e = i
      <4>1. n \in rs2[j].deps
            BY <2>1, <2>3, <3>1 DEF Moved
      <4> QED BY <1>3, <4>1 DEF Settled
    <3>2. CASE e # i
      <4>1. e \in rs2[j].deps /\ rs2[e].status = rs[e].status
            BY <1>2, <2>1, <2>2, <2>3, <3>2 DEF Moved
      <4> QED BY <2>3, <4>1
    <3> QED BY <3>1, <3>2
  <2>5. PICK o \in DOMAIN p : /\ rs[j].owns = {o}
                              /\ \A f \in rs[j].deps : \E d \in p[o].deps : rs[f].owns = {d}
        BY <2>1 DEF Waiting, WaitsForSomebody
  <2>6. ASSUME NEW f \in rs2[j].deps PROVE \E d \in p[o].deps : rs2[f].owns = {d}
    <3>1. f \in rs[j].deps \/ (f = n /\ i \in rs[j].deps)
          BY <2>1, <2>6 DEF Moved
    <3>2. CASE f \in rs[j].deps
          BY <1>2, <2>2, <2>5, <3>2
    <3>3. CASE f = n /\ i \in rs[j].deps
          BY <1>3, <2>5, <3>3
    <3> QED BY <3>1, <3>2, <3>3
  <2> QED BY <2>1, <2>4, <2>5, <2>6
<1>5. WaitsForSomebody(p, rs2)
      BY <1>4 DEF WaitsForSomebody
<1>6. ItemsAreCared(p, rs2)
  <2> SUFFICES ASSUME NEW o \in DOMAIN p
               PROVE  /\ WorkOn(rs2, o) # {}
                      /\ \/ o \in Passed(rs2)
                         \/ \E j \in WorkOn(rs2, o) : rs2[j].status \notin Settled
      BY DEF ItemsAreCared
  <2>1. \A j \in WorkOn(rs, o) : j \in DOMAIN rs /\ j \in WorkOn(rs2, o)
        BY <1>2 DEF WorkOn
  <2>2. /\ WorkOn(rs, o) # {}
        /\ o \in Passed(rs) \/ \E j \in WorkOn(rs, o) : rs[j].status \notin Settled
        BY DEF Waiting, ItemsAreCared
  <2>3. CASE o \in Passed(rs)
    <3>1. PICK k \in DOMAIN rs : rs[k].status = "accepted" /\ o \in rs[k].owns
          BY <2>3 DEF Passed
    <3>2. k \in DOMAIN rs2 /\ rs2[k].status = "accepted" /\ o \in rs2[k].owns
          BY <1>2, <3>1
    <3>3. o \in Passed(rs2)
          BY <3>2 DEF Passed
    <3> QED BY <2>1, <2>2, <3>3
  <2>4. ASSUME NEW j \in WorkOn(rs, o), rs[j].status \notin Settled
        PROVE  \E k \in WorkOn(rs2, o) : rs2[k].status \notin Settled
    <3>1. CASE j = i
      <4>1. n \in WorkOn(rs2, o)
            BY <1>3, <2>4, <3>1 DEF WorkOn
      <4> QED BY <1>3, <4>1 DEF Settled
    <3>2. CASE j # i
          BY <1>2, <2>1, <2>4, <3>2
    <3> QED BY <3>1, <3>2
  <2> QED BY <2>1, <2>2, <2>3, <2>4
<1>7. CompeteTogether(rs2)
  <2>1. \A j \in DOMAIN rs : Competing(rs2, j) <=> Competing(rs, j)
        BY <1>2 DEF Competing
  <2>2. Competing(rs2, n) <=> Competing(rs, i)
        BY <1>3 DEF Competing
  <2>3. \A j \in DOMAIN rs2 : rs2[j].status = "verification_pending" => Competing(rs2, j)
        BY <1>1, <1>2, <1>3, <2>1 DEF Waiting, CompeteTogether
  <2>4. ASSUME NEW k \in DOMAIN rs2, NEW j \in DOMAIN rs2, Competing(rs2, k), Competing(rs2, j),
               rs2[k].group = rs2[j].group, rs2[k].status = "none"
        PROVE  rs2[j].status = "none" /\ rs2[j].deps = rs2[k].deps
    <3>1. k \in DOMAIN rs /\ rs[k].status = "none" /\ Competing(rs, k) /\ rs2[k].group = rs[k].group
          BY <1>1, <1>2, <1>3, <2>1, <2>4
    <3>2. j # n
      <4>1. j = n => Competing(rs, i) /\ rs[k].group = rs[i].group
            BY <1>3, <2>2, <2>4, <3>1
      <4>2. j = n => rs[i].status = "none"
            BY <3>1, <4>1 DEF Waiting, CompeteTogether
      <4> QED BY <4>2
    <3>3. j \in DOMAIN rs /\ Competing(rs, j) /\ rs[j].group = rs[k].group
          BY <1>1, <1>2, <2>1, <2>4, <3>1, <3>2
    <3>4. rs[j].status = "none" /\ rs[j].deps = rs[k].deps
          BY <3>1, <3>3 DEF Waiting, CompeteTogether
    <3> QED BY <1>2, <3>1, <3>3, <3>4
  <2> QED BY <2>3, <2>4 DEF CompeteTogether
<1> QED BY <1>5, <1>6, <1>7 DEF Waiting

\* Whoever still waits has somebody to wait for.
LEMMA AdvancedLeaves ==
    ASSUME NEW rs \in Seq(Row), NEW rs2, rs2 = Advanced(rs), NEW j \in DOMAIN rs,
           rs2[j].status = "none", rs[j].purpose # "reconciliation"
    PROVE  \E d \in rs[j].deps : rs[d].status \notin Settled
<1> SUFFICES ASSUME \A d \in rs[j].deps : rs[d].status \in Settled PROVE FALSE
    OBVIOUS
<1>1. AdvancedTo(rs, rs2)
      BY AdvancedIs
<1>2. rs[j].status = "none" /\ rs[j] \in Row
      BY <1>1, RowsOf DEF AdvancedTo
<1>3. rs2[j] = [rs[j] EXCEPT !.status = "ready"]
      BY <1>2 DEF Advanced
<1>4. rs2[j].status = "ready"
      BY <1>2, <1>3, StatusSet, Statuses
<1> QED BY <1>4

\* A reconciliation that is accepted ends what its group waits for.
LEMMA AcceptedEnds ==
    ASSUME row \in Seq(Row), NEW i \in Rows, NEW rs1, rs1 = Accepted(i), NEW j \in Rows, j # i,
           row[i].purpose = "reconciliation", row[j].purpose # "reconciliation",
           row[j].group = row[i].group,
           row[j].status \in {"verification_pending", "verification_failed"}
    PROVE  rs1[j].status = "superseded"
<1>1. row[j] \in Row
      BY RowsOf DEF Rows
<1>2. rs1[j] = [row[j] EXCEPT !.status = "superseded"]
      BY DEF Accepted, GroupRows, Rows
<1> QED BY <1>1, <1>2, StatusSet, Statuses

\* A Result is accepted and the plan advances.
Finishes(rs, rs1, rs2, i) ==
    /\ AcceptedTo(rs, rs1, i) /\ AdvancedTo(rs1, rs2)
    /\ \A j \in DOMAIN rs : rs2[j].status = "none" /\ rs[j].purpose # "reconciliation" =>
         \E d \in rs[j].deps : rs1[d].status \notin Settled
    /\ \A j \in DOMAIN rs \ {i} :
         /\ rs[i].purpose = "reconciliation" /\ rs[j].purpose # "reconciliation"
         /\ rs[j].group = rs[i].group
         /\ rs[j].status \in {"verification_pending", "verification_failed"}
         => rs2[j].status = "superseded"

LEMMA FinishFinishes ==
    ASSUME row \in Seq(Row), NEW i \in Rows, row' = Advanced(Accepted(i))
    PROVE  \E rs1 : Finishes(row, rs1, row', i)
<1>1. PICK rs1 : rs1 = Accepted(i)
      OBVIOUS
<1>2. AcceptedTo(row, rs1, i) /\ SameRows(row, rs1) /\ rs1 \in Seq(Row) /\ DOMAIN rs1 = DOMAIN row
      BY <1>1, AcceptedIs DEF AcceptedTo, SameRows
<1>3. row' = Advanced(rs1)
      BY <1>1
<1>4. AdvancedTo(rs1, row')
      BY <1>2, <1>3, AdvancedIs
<1>5. ASSUME NEW j \in DOMAIN row, row'[j].status = "none", row[j].purpose # "reconciliation"
      PROVE  \E d \in row[j].deps : rs1[d].status \notin Settled
  <2>1. j \in DOMAIN rs1 /\ rs1[j].purpose = row[j].purpose /\ rs1[j].deps = row[j].deps
        BY <1>2 DEF SameRows
  <2> QED BY <1>2, <1>3, <1>5, <2>1, AdvancedLeaves
<1>6. ASSUME NEW j \in DOMAIN row \ {i}, row[i].purpose = "reconciliation",
             row[j].purpose # "reconciliation", row[j].group = row[i].group,
             row[j].status \in {"verification_pending", "verification_failed"}
      PROVE  row'[j].status = "superseded"
  <2>1. rs1[j].status = "superseded"
        BY <1>1, <1>6, AcceptedEnds DEF Rows
  <2> QED BY <1>2, <1>4, <2>1 DEF AdvancedTo
<1>7. Finishes(row, rs1, row', i)
      BY <1>2, <1>4, <1>5, <1>6 DEF Finishes
<1> QED BY <1>7

\* Row by row.
LEMMA FinishesRow ==
    ASSUME NEW rs, NEW rs1, NEW rs2, NEW i \in DOMAIN rs, Finishes(rs, rs1, rs2, i),
           rs[i].status = "running", NEW j \in DOMAIN rs
    PROVE  /\ j \in DOMAIN rs2 /\ rs2[j].purpose = rs[j].purpose /\ rs2[j].owns = rs[j].owns
           /\ rs2[j].group = rs[j].group /\ rs2[j].deps = rs[j].deps
           /\ j = i => rs2[j].status = "accepted"
           /\ rs2[j].status \in Settled <=> rs1[j].status \in Settled
           /\ rs2[j].status = "none" => rs[j].status = "none"
           /\ j # i => \/ rs2[j].status = rs[j].status
                       \/ rs[j].status = "none" /\ rs2[j].status = "ready"
                       \/ /\ rs2[j].status = "superseded"
                          /\ rs[j].status \in {"verification_pending", "verification_failed"}
                          /\ rs[i].purpose = "reconciliation" /\ rs[j].purpose # "reconciliation"
                          /\ rs[j].group = rs[i].group
<1>1. SameRows(rs, rs1) /\ SameRows(rs1, rs2)
      BY DEF Finishes, AcceptedTo, AdvancedTo
<1>2. /\ j \in DOMAIN rs1 /\ j \in DOMAIN rs2 /\ rs2[j].purpose = rs[j].purpose
      /\ rs2[j].owns = rs[j].owns /\ rs2[j].group = rs[j].group /\ rs2[j].deps = rs[j].deps
      BY <1>1 DEF SameRows
<1>3. rs2[j].status = rs1[j].status \/ (rs2[j].status = "ready" /\ rs1[j].status = "none")
      BY <1>2 DEF Finishes, AdvancedTo
<1>4. /\ j = i => rs1[j].status = "accepted"
      /\ j # i => \/ rs1[j].status = rs[j].status
                  \/ /\ rs1[j].status = "superseded"
                     /\ rs[j].status \in {"verification_pending", "verification_failed"}
                     /\ rs[i].purpose = "reconciliation" /\ rs[j].purpose # "reconciliation"
                     /\ rs[j].group = rs[i].group
      BY DEF Finishes, AcceptedTo
<1> QED BY <1>2, <1>3, <1>4 DEF Settled

LEMMA FinishedWaits ==
    ASSUME NEW p, NEW rs, Well(p, rs), Waiting(p, rs), NEW rs1, NEW rs2, NEW i \in DOMAIN rs,
           Finishes(rs, rs1, rs2, i), rs[i].status = "running"
    PROVE  Waiting(p, rs2)
<1>1. DOMAIN rs2 = DOMAIN rs
      BY DEF Finishes, AcceptedTo, AdvancedTo, SameRows
<1>2. ASSUME NEW j \in DOMAIN rs, rs2[j].status = "none"
      PROVE  /\ rs[j].status = "none" /\ rs[j].purpose = "work" /\ rs[j].deps \subseteq DOMAIN rs
             /\ \E e \in rs[j].deps : rs2[e].status \notin Settled
  <2>1. rs[j].status = "none"
        BY <1>2, FinishesRow
  <2>2. rs[j].purpose = "work" /\ rs[j].deps \subseteq DOMAIN rs
        BY <2>1 DEF Well, WaitsFor
  <2>3. PICK e \in rs[j].deps : rs1[e].status \notin Settled
        BY <1>2, <2>2 DEF Finishes
  <2>4. rs2[e].status \notin Settled
        BY <2>2, <2>3, FinishesRow
  <2> QED BY <2>1, <2>2, <2>3, <2>4
<1>3. ASSUME NEW j \in DOMAIN rs, rs2[j].status = "none"
      PROVE  /\ \E e \in rs2[j].deps : rs2[e].status \notin Settled
             /\ \E o \in DOMAIN p :
                  /\ rs2[j].owns = {o}
                  /\ \A e \in rs2[j].deps : \E d \in p[o].deps : rs2[e].owns = {d}
  <2>1. rs2[j].deps = rs[j].deps /\ rs2[j].owns = rs[j].owns
        BY FinishesRow
  <2>2. \A e \in rs[j].deps : rs2[e].owns = rs[e].owns
        BY <1>2, <1>3, FinishesRow
  <2> QED BY <1>2, <1>3, <2>1, <2>2 DEF Waiting, WaitsForSomebody
<1>4. WaitsForSomebody(p, rs2)
      BY <1>1, <1>3 DEF WaitsForSomebody
<1>5. ItemsAreCared(p, rs2)
  <2> SUFFICES ASSUME NEW o \in DOMAIN p
               PROVE  /\ WorkOn(rs2, o) # {}
                      /\ \/ o \in Passed(rs2)
                         \/ \E j \in WorkOn(rs2, o) : rs2[j].status \notin Settled
      BY DEF ItemsAreCared
  <2>1. WorkOn(rs2, o) = WorkOn(rs, o) /\ WorkOn(rs, o) \subseteq DOMAIN rs
        BY <1>1, FinishesRow DEF WorkOn
  <2>2. /\ WorkOn(rs, o) # {}
        /\ o \in Passed(rs) \/ \E j \in WorkOn(rs, o) : rs[j].status \notin Settled
        BY DEF Waiting, ItemsAreCared
  <2>3. ASSUME NEW k \in DOMAIN rs, rs2[k].status = "accepted", o \in rs[k].owns
        PROVE  o \in Passed(rs2)
    <3>1. k \in DOMAIN rs2 /\ o \in rs2[k].owns
          BY <2>3, FinishesRow
    <3> QED BY <2>3, <3>1 DEF Passed
  <2>4. CASE o \in Passed(rs)
    <3>1. PICK k \in DOMAIN rs : rs[k].status = "accepted" /\ o \in rs[k].owns
          BY <2>4 DEF Passed
    <3>2. rs2[k].status = "accepted"
          BY <3>1, FinishesRow
    <3> QED BY <2>1, <2>2, <2>3, <3>1, <3>2
  <2>5. ASSUME NEW j \in WorkOn(rs, o), rs[j].status \notin Settled
        PROVE  o \in Passed(rs2) \/ rs2[j].status \notin Settled
    <3>1. j \in DOMAIN rs /\ o \in rs[j].owns
          BY DEF WorkOn
    <3>2. rs2[i].status = "accepted"
          BY FinishesRow
    <3>3. CASE j = i
          BY <2>3, <3>1, <3>2, <3>3
    <3>4. CASE rs2[j].status = rs[j].status
          BY <2>5, <3>4
    <3>5. CASE rs2[j].status = "ready"
          BY <3>5 DEF Settled
    <3>6. CASE /\ rs[i].purpose = "reconciliation" /\ rs[j].purpose # "reconciliation"
               /\ rs[j].group = rs[i].group
      <4>1. o \in rs[i].owns
            BY <3>1, <3>6 DEF Well, ReconcilesAll
      <4> QED BY <2>3, <3>2, <4>1
    <3> QED BY <3>1, <3>3, <3>4, <3>5, <3>6, FinishesRow
  <2> QED BY <2>1, <2>2, <2>4, <2>5
<1>6. CompeteTogether(rs2)
  <2>1. \A j \in DOMAIN rs : /\ Competing(rs2, j) <=> Competing(rs, j)
                             /\ rs2[j].group = rs[j].group /\ rs2[j].deps = rs[j].deps
        BY FinishesRow DEF Competing
  <2>2. \A j \in DOMAIN rs : rs2[j].status = "verification_pending" => rs[j].status = "verification_pending"
        BY FinishesRow
  <2>3. ASSUME NEW k \in DOMAIN rs, NEW j \in DOMAIN rs, Competing(rs2, k), Competing(rs2, j),
               rs2[k].group = rs2[j].group, rs2[k].status = "none"
        PROVE  rs2[j].status = "none" /\ rs2[j].deps = rs2[k].deps
    <3>1. rs[k].status = "none"
          BY <1>2, <2>3
    <3>2. rs[j].status = "none" /\ rs[j].deps = rs[k].deps
          BY <2>1, <2>3, <3>1 DEF Waiting, CompeteTogether
    <3>3. PICK e \in rs[j].deps : e \in DOMAIN rs /\ rs2[e].status \notin Settled
          BY <1>2, <2>3, <3>2
    <3>4. rs1[e].status \notin Settled
          BY <3>3, FinishesRow
    <3>5. rs2[j].status = "none"
      <4>1. j # i /\ j \in DOMAIN rs1 /\ rs1[j].status = "none" /\ rs1[j].deps = rs[j].deps
            BY <3>2 DEF Finishes, AcceptedTo, SameRows
      <4> QED BY <3>3, <3>4, <4>1 DEF Finishes, AdvancedTo
    <3> QED BY <2>1, <3>2, <3>5
  <2> QED BY <1>1, <2>1, <2>2, <2>3 DEF Waiting, CompeteTogether
<1> QED BY <1>4, <1>5, <1>6 DEF Waiting

NonePending(rs) == \A j \in DOMAIN rs : rs[j].status # "verification_pending"

LEMMA RoundsWait ==
    ASSUME NEW rs, RoundsOnly(rs), NonePending(rs)
    PROVE  Waiting(NoPlan, rs)
<1>1. DOMAIN NoPlan = {}
      BY DEF NoPlan
<1>2. Acyclic(NoPlan) /\ ItemsAreCared(NoPlan, rs)
      BY <1>1 DEF Acyclic, ItemsAreCared
<1>3. WaitsForSomebody(NoPlan, rs) /\ CompeteTogether(rs)
      BY DEF RoundsOnly, WaitsForSomebody, CompeteTogether, NonePending
<1> QED BY <1>2, <1>3 DEF Waiting

\* The row of an item after n others.
LEMMA PlannedRow ==
    ASSUME NEW p, GoodPlan(p), NEW rs, NEW n, NEW rs2, PlannedFrom(p, rs, n, rs2), NEW o \in DOMAIN p
    PROVE  /\ n + o \in DOMAIN rs2 /\ rs2[n + o].purpose = "work" /\ rs2[n + o].owns = {o}
           /\ rs2[n + o].deps = {n + d : d \in p[o].deps} /\ rs2[n + o].group = p[o].group
           /\ rs2[n + o].status = IF p[o].deps = {} THEN "ready" ELSE "none"
           /\ rs2[n + o].status \notin Settled
<1>1. n \in Nat /\ rs2[n + o] = PlanRows(p, n)[o]
      BY DEF PlannedFrom
<1>2. n + o \in DOMAIN rs2
      BY PlannedIndex
<1>3. LET r == PlanRows(p, n)[o]
      IN  /\ r.purpose = "work" /\ r.owns = {o} /\ r.deps = {n + d : d \in p[o].deps}
          /\ r.group = p[o].group
          /\ r.status = IF p[o].deps = {} THEN "ready" ELSE "none"
      BY <1>1, PlanRow
<1> QED BY <1>1, <1>2, <1>3 DEF Settled

LEMMA PlannedWaits ==
    ASSUME NEW p, GoodPlan(p), Acyclic(p), NEW rs, RoundsOnly(rs), NonePending(rs), NEW n, NEW rs2,
           PlannedFrom(p, rs, n, rs2)
    PROVE  Waiting(p, rs2)
<1>1. \A j \in DOMAIN rs2 : \/ j \in DOMAIN rs /\ rs2[j] = rs[j]
                            \/ \E o \in DOMAIN p : j = n + o
  <2>1. \A j \in DOMAIN rs2 : j \in DOMAIN rs \/ \E o \in DOMAIN p : j = n + o
        BY PlannedIndex
  <2>2. \A j \in DOMAIN rs : rs2[j] = rs[j]
        BY DEF PlannedFrom
  <2> QED BY <2>1, <2>2
<1>2. \A j \in DOMAIN rs : rs[j].purpose = "planning" /\ rs[j].status \notin {"none", "verification_pending"}
      BY DEF RoundsOnly, NonePending
<1>3. ASSUME NEW j \in DOMAIN rs2, rs2[j].purpose = "work" \/ rs2[j].status \in {"none", "verification_pending"}
      PROVE  \E o \in DOMAIN p : j = n + o
      BY <1>1, <1>2, <1>3
<1>4. ASSUME NEW j \in DOMAIN rs2, rs2[j].status = "none"
      PROVE  /\ \E e \in rs2[j].deps : rs2[e].status \notin Settled
             /\ \E o \in DOMAIN p :
                  /\ rs2[j].owns = {o}
                  /\ \A e \in rs2[j].deps : \E d \in p[o].deps : rs2[e].owns = {d}
  <2>1. PICK o \in DOMAIN p : j = n + o
        BY <1>3, <1>4
  <2>2. /\ rs2[j].owns = {o} /\ rs2[j].deps = {n + d : d \in p[o].deps} /\ p[o].deps # {}
        /\ p[o].deps \subseteq DOMAIN p
        BY <1>4, <2>1, PlannedRow, PlanFacts
  <2>3. \A d \in p[o].deps : n + d \in rs2[j].deps /\ rs2[n + d].owns = {d} /\ rs2[n + d].status \notin Settled
        BY <2>2, PlannedRow
  <2>4. \A e \in rs2[j].deps : \E d \in p[o].deps : rs2[e].owns = {d}
        BY <2>2, <2>3
  <2> QED BY <2>2, <2>3, <2>4
<1>5. WaitsForSomebody(p, rs2)
      BY <1>4 DEF WaitsForSomebody
<1>6. ItemsAreCared(p, rs2)
  <2>1. \A o \in DOMAIN p : n + o \in WorkOn(rs2, o) /\ rs2[n + o].status \notin Settled
        BY PlannedRow DEF WorkOn
  <2> QED BY <2>1 DEF ItemsAreCared
<1>7. ASSUME NEW i \in DOMAIN rs2, NEW j \in DOMAIN rs2, Competing(rs2, i), Competing(rs2, j),
             rs2[i].group = rs2[j].group, rs2[i].status = "none"
      PROVE  rs2[j].status = "none" /\ rs2[j].deps = rs2[i].deps
  <2>1. PICK a \in DOMAIN p : i = n + a
        BY <1>3, <1>7
  <2>2. PICK b \in DOMAIN p : j = n + b
        BY <1>3, <1>7 DEF Competing
  <2>3. PICK g \in Group : g = p[a].group /\ g = p[b].group
        BY <1>7, <2>1, <2>2, PlannedRow DEF Competing
  <2>4. g \in Groups(p) /\ a \in Members(p, g) /\ b \in Members(p, g)
        BY <2>3, Bounds DEF Groups, Members, NoGroup
  <2>5. p[a].deps = p[b].deps
        BY <2>4 DEF GoodPlan, ComparesFairly
  <2>6. rs2[j].deps = rs2[i].deps /\ rs2[j].status = rs2[i].status
    <3>1. /\ rs2[i].deps = {n + d : d \in p[a].deps}
          /\ rs2[i].status = IF p[a].deps = {} THEN "ready" ELSE "none"
          BY <2>1, PlannedRow
    <3>2. /\ rs2[j].deps = {n + d : d \in p[b].deps}
          /\ rs2[j].status = IF p[b].deps = {} THEN "ready" ELSE "none"
          BY <2>2, PlannedRow
    <3> QED BY <2>5, <3>1, <3>2
  <2> QED BY <1>7, <2>6
<1>8. ASSUME NEW j \in DOMAIN rs2 PROVE rs2[j].status # "verification_pending"
      BY <1>1, <1>2, PlannedRow
<1>9. CompeteTogether(rs2)
      BY <1>7, <1>8 DEF CompeteTogether
<1> QED BY <1>5, <1>6, <1>9 DEF Waiting
-----------------------------------------------------------------------------
(* As long as nobody was asked for help.                                   *)

\* Rows stay, and with them what makes a case of LostCompetitor or of
\* NestedReconciliation: those cases do not go away again.
Stays(rs, rs2) ==
    \A k \in DOMAIN rs :
       /\ k \in DOMAIN rs2 /\ rs2[k].purpose = rs[k].purpose /\ rs2[k].owns = rs[k].owns
       /\ rs[k].group = k => rs2[k].group = k
       /\ rs[k].purpose = "reconciliation" /\ rs[k].status = "verification_failed" =>
             rs2[k].status = "verification_failed"

LEMMA CalmBefore ==
    ASSUME NEW p, NEW rs, NEW rs2, Stays(rs, rs2), Calm(p, rs2)
    PROVE  Calm(p, rs)
<1>1. ~Nested(rs)
      BY DEF Calm, Nested, Stays
<1>2. ~Lost(p, rs)
  <2> SUFFICES ASSUME NEW i \in DOMAIN rs, rs[i].purpose = "work",
                      \A o \in rs[i].owns : p[o].group # NoGroup,
                      \/ rs[i].group = i
                      \/ \E j \in DOMAIN rs : i < j /\ rs[j].purpose = "work" /\ rs[j].owns = rs[i].owns
               PROVE  FALSE
      BY DEF Lost
  <2>1. /\ i \in DOMAIN rs2 /\ rs2[i].purpose = "work" /\ rs2[i].owns = rs[i].owns
        /\ rs[i].group = i => rs2[i].group = i
        BY DEF Stays
  <2>2. \A j \in DOMAIN rs : j \in DOMAIN rs2 /\ rs2[j].purpose = rs[j].purpose /\ rs2[j].owns = rs[j].owns
        BY DEF Stays
  <2> QED BY <2>1, <2>2 DEF Calm, Lost
<1> QED BY <1>1, <1>2 DEF Calm

\* A member of a competition belongs to an item of the group.
LEMMA CompetingItem ==
    ASSUME NEW p, NEW rs, Well(p, rs), NEW i \in DOMAIN rs, Competing(rs, i)
    PROVE  \E o \in DOMAIN p : rs[i].owns = {o} /\ p[o].group = rs[i].group /\ p[o].group # NoGroup
<1>1. i \in Nat /\ rs[i].group # i /\ rs[i].group # NoGroup
      BY RowsOf, Bounds DEF Well, Competing, NoGroup
<1> QED BY <1>1 DEF Well, Rooted, RowOfItem, Competing

\* A member goes on as its group does.
LEMMA MemberKept ==
    ASSUME NEW rs, NEW rs2, NEW k, MemberGoesOn(rs, k), rs2[k].group = rs[k].group,
           \/ rs2[k].status = rs[k].status
           \/ rs2[k].status \in Open /\ rs[k].status \in Open \union {"none"},
           HasComparison(rs2, rs[k].group) <=> HasComparison(rs, rs[k].group),
           Reconciles(rs, rs[k].group) => Reconciles(rs2, rs[k].group),
           OpenMember(rs, rs[k].group) => OpenMember(rs2, rs[k].group)
    PROVE  MemberGoesOn(rs2, k)
<1>1. "superseded" \notin Open /\ "verification_pending" \notin Open
      BY DEF Open
<1> QED BY <1>1 DEF MemberGoesOn

\* Nothing stops: Attempts begin, and end with another one.
LEMMA TurnGoesOn ==
    ASSUME NEW rs, NEW rs2, NEW i \in DOMAIN rs, NEW s \in Open, Turns(rs, rs2, i, s),
           rs[i].status \in Open, GoesOn(rs)
    PROVE  GoesOn(rs2)
<1>1. /\ DOMAIN rs2 = DOMAIN rs
      /\ \A k \in DOMAIN rs : /\ rs2[k].group = rs[k].group /\ rs2[k].purpose = rs[k].purpose
                              /\ rs2[k].status = rs[k].status \/ (rs2[k].status \in Open /\ rs[k].status \in Open)
      BY DEF Turns, Quiet, QuietRow
<1>2. \A g : /\ Reconciles(rs2, g) <=> Reconciles(rs, g)
             /\ HasComparison(rs2, g) <=> HasComparison(rs, g)
      BY <1>1 DEF Reconciles, HasComparison
<1>3. \A k \in DOMAIN rs : /\ Competing(rs2, k) <=> Competing(rs, k)
                           /\ rs2[k].status \in Open <=> rs[k].status \in Open
      BY <1>1 DEF Competing
<1>4. FailedIsReconciled(rs2)
      BY <1>1, <1>2 DEF GoesOn, FailedIsReconciled, Open
<1>5. CompetitionGoesOn(rs2)
  <2> SUFFICES ASSUME NEW k \in DOMAIN rs, Competing(rs2, k) PROVE MemberGoesOn(rs2, k)
      BY <1>1 DEF CompetitionGoesOn
  <2>1. MemberGoesOn(rs, k)
        BY <1>3 DEF GoesOn, CompetitionGoesOn
  <2>2. \A g : OpenMember(rs, g) => OpenMember(rs2, g)
        BY <1>1, <1>3 DEF OpenMember
  <2> QED BY <1>1, <1>2, <2>1, <2>2, MemberKept
<1> QED BY <1>4, <1>5 DEF GoesOn

\* A row leaves for a reconciliation, which no member of a competition and no
\* reconciliation does while all is calm.
LEMMA LeavingGoesOn ==
    ASSUME NEW p, NEW rs, Well(p, rs), p # NoPlan => GoodPlan(p), NEW i \in DOMAIN rs, NEW rs1,
           Leaves(rs, rs1, i), rs[i].status = "running", rs[i].purpose # "planning",
           NEW rs2, NEW n, OneMore(rs1, rs2, n), rs2[n].purpose = "reconciliation",
           rs2[n].status = "ready", rs2[n].group = i, Calm(p, rs2), GoesOn(rs)
    PROVE  GoesOn(rs2)
<1>1. /\ DOMAIN rs2 = DOMAIN rs \union {n} /\ n \notin DOMAIN rs /\ \A k \in DOMAIN rs : k \in DOMAIN rs2
      /\ \A k \in DOMAIN rs \ {i} : rs2[k] = rs[k]
      /\ rs2[i].group = i /\ rs2[i].status = "verification_failed"
      /\ rs2[i].purpose = rs[i].purpose /\ rs2[i].owns = rs[i].owns
      BY DEF Leaves, OneMore, Quiet, QuietRow
<1>2. i \in Nat /\ i \notin Group /\ rs[i].purpose \in {"work", "reconciliation"}
      BY RowsOf, RowFields, Bounds DEF Well
<1>3. rs[i].purpose = "work"
      BY <1>1, <1>2 DEF Calm, Nested
<1>4. ~Competing(rs, i)
  <2> SUFFICES ASSUME Competing(rs, i) PROVE FALSE
      OBVIOUS
  <2>1. PICK o \in DOMAIN p : rs[i].owns = {o} /\ p[o].group # NoGroup
        BY CompetingItem
  <2>2. Lost(p, rs2)
        BY <1>1, <1>3, <2>1 DEF Lost
  <2> QED BY <2>2 DEF Calm
<1>5. \A k \in DOMAIN rs2 : Competing(rs2, k) => k \in DOMAIN rs /\ k # i /\ rs2[k] = rs[k] /\ Competing(rs, k)
      BY <1>1, <1>2 DEF Competing
<1>6. \A k \in DOMAIN rs : Competing(rs, k) => k \in DOMAIN rs2 /\ k # i /\ rs2[k] = rs[k] /\ Competing(rs2, k)
      BY <1>1, <1>4 DEF Competing
<1>7. \A g \in Group : HasComparison(rs2, g) <=> HasComparison(rs, g)
      BY <1>1, <1>2, <1>3 DEF HasComparison
<1>8. \A g : Reconciles(rs, g) => Reconciles(rs2, g)
      BY <1>1, <1>3 DEF Reconciles
<1>9. Reconciles(rs2, i)
      BY <1>1 DEF Reconciles, Open
<1>10. FailedIsReconciled(rs2)
  <2> SUFFICES ASSUME NEW k \in DOMAIN rs2
               PROVE  /\ rs2[k].status # "resource_blocked"
                      /\ rs2[k].status = "verification_failed" /\ rs2[k].purpose # "reconciliation" =>
                           Reconciles(rs2, k)
      BY DEF FailedIsReconciled
  <2>1. CASE k = n
        BY <2>1
  <2>2. CASE k = i
        BY <1>1, <1>9, <2>2
  <2>3. CASE k \in DOMAIN rs \ {i}
        BY <1>1, <1>8, <2>3 DEF GoesOn, FailedIsReconciled
  <2> QED BY <1>1, <2>1, <2>2, <2>3
<1>11. CompetitionGoesOn(rs2)
  <2> SUFFICES ASSUME NEW k \in DOMAIN rs2, Competing(rs2, k) PROVE MemberGoesOn(rs2, k)
      BY DEF CompetitionGoesOn
  <2>1. k \in DOMAIN rs /\ rs2[k] = rs[k] /\ Competing(rs, k) /\ rs[k].group \in Group
        BY <1>5 DEF Competing
  <2>2. MemberGoesOn(rs, k)
        BY <2>1 DEF GoesOn, CompetitionGoesOn
  <2>3. \A g : OpenMember(rs, g) => OpenMember(rs2, g)
        BY <1>6 DEF OpenMember
  <2> QED BY <1>7, <1>8, <2>1, <2>2, <2>3, MemberKept
<1> QED BY <1>10, <1>11 DEF GoesOn

\* A row is given up for its copy, which no member of a competition is while all
\* is calm; the copy of a reconciliation reconciles the same group.
LEMMA ReplacedGoesOn ==
    ASSUME NEW p, NEW rs, Well(p, rs), NEW i \in DOMAIN rs, NEW rs2, NEW n, Replaced(rs, rs2, i, n),
           i < n, rs[i].status = "running", Calm(p, rs2), GoesOn(rs)
    PROVE  GoesOn(rs2)
<1>1. ASSUME NEW k \in DOMAIN rs
      PROVE  /\ k \in DOMAIN rs2 /\ k # n /\ rs2[k].purpose = rs[k].purpose /\ rs2[k].owns = rs[k].owns
             /\ rs2[k].group = rs[k].group
             /\ k # i => rs2[k].status = rs[k].status
             /\ k = i => rs2[k].status = "superseded"
      BY DEF Replaced
<1>2. /\ \A k \in DOMAIN rs2 : k \in DOMAIN rs \/ k = n
      /\ n \in DOMAIN rs2 /\ rs2[n].purpose = rs[i].purpose /\ rs2[n].owns = rs[i].owns
      /\ rs2[n].group = rs[i].group /\ rs2[n].status = "ready"
      BY DEF Replaced
<1>3. ~Competing(rs, i)
  <2> SUFFICES ASSUME Competing(rs, i) PROVE FALSE
      OBVIOUS
  <2>1. PICK o \in DOMAIN p : rs[i].owns = {o} /\ p[o].group # NoGroup
        BY CompetingItem
  <2>2. Lost(p, rs2)
    <3>1. /\ rs2[i].purpose = "work" /\ rs2[i].owns = {o} /\ i \in DOMAIN rs2
          /\ rs2[n].purpose = "work" /\ rs2[n].owns = {o}
          BY <1>1, <1>2, <2>1 DEF Competing
    <3> QED BY <1>2, <2>1, <3>1 DEF Lost
  <2> QED BY <2>2 DEF Calm
<1>4. ~Competing(rs2, n) /\ \A k \in DOMAIN rs : Competing(rs2, k) <=> Competing(rs, k)
      BY <1>1, <1>2, <1>3 DEF Competing
<1>5. \A g : HasComparison(rs2, g) <=> HasComparison(rs, g)
      BY <1>1, <1>2 DEF HasComparison
<1>6. ASSUME NEW g, Reconciles(rs, g) PROVE Reconciles(rs2, g)
  <2>1. PICK r \in DOMAIN rs : rs[r].purpose = "reconciliation" /\ rs[r].group = g /\ rs[r].status \in Open
        BY <1>6 DEF Reconciles
  <2>2. CASE r = i
        BY <1>2, <2>1, <2>2 DEF Reconciles, Open
  <2>3. CASE r # i
        BY <1>1, <2>1, <2>3 DEF Reconciles
  <2> QED BY <2>2, <2>3
<1>7. FailedIsReconciled(rs2)
  <2> SUFFICES ASSUME NEW k \in DOMAIN rs2
               PROVE  /\ rs2[k].status # "resource_blocked"
                      /\ rs2[k].status = "verification_failed" /\ rs2[k].purpose # "reconciliation" =>
                           Reconciles(rs2, k)
      BY DEF FailedIsReconciled
  <2>1. CASE k = n
        BY <1>2, <2>1
  <2>2. CASE k = i
        BY <1>1, <2>2
  <2>3. CASE k \in DOMAIN rs \ {i}
        BY <1>1, <1>6, <2>3 DEF GoesOn, FailedIsReconciled
  <2> QED BY <1>2, <2>1, <2>2, <2>3
<1>8. CompetitionGoesOn(rs2)
  <2> SUFFICES ASSUME NEW k \in DOMAIN rs2, Competing(rs2, k) PROVE MemberGoesOn(rs2, k)
      BY DEF CompetitionGoesOn
  <2>1. k \in DOMAIN rs /\ Competing(rs, k) /\ k # i
        BY <1>2, <1>3, <1>4
  <2>2. MemberGoesOn(rs, k) /\ rs2[k].group = rs[k].group /\ rs2[k].status = rs[k].status
        BY <1>1, <2>1 DEF GoesOn, CompetitionGoesOn
  <2>3. ASSUME NEW g, OpenMember(rs, g) PROVE OpenMember(rs2, g)
    <3>1. PICK j \in DOMAIN rs : Competing(rs, j) /\ rs[j].group = g /\ rs[j].status \in Open
          BY <2>3 DEF OpenMember
    <3>2. j # i
          BY <1>3, <3>1
    <3> QED BY <1>1, <1>4, <3>1, <3>2 DEF OpenMember
  <2> QED BY <1>5, <1>6, <2>2, <2>3, MemberKept
<1> QED BY <1>7, <1>8 DEF GoesOn

\* An accepted reconciliation ends what its group waits for, and the rows that
\* are woken go on.
LEMMA FinishGoesOn ==
    ASSUME NEW p, NEW rs, Well(p, rs), NEW rs1, NEW rs2, NEW i \in DOMAIN rs,
           Finishes(rs, rs1, rs2, i), rs[i].status = "running", ~Competing(rs, i), GoesOn(rs)
    PROVE  GoesOn(rs2)
<1>1. DOMAIN rs2 = DOMAIN rs
      BY DEF Finishes, AcceptedTo, AdvancedTo, SameRows
<1>2. \A k \in DOMAIN rs : /\ rs2[k].purpose = rs[k].purpose /\ rs2[k].group = rs[k].group
                           /\ Competing(rs2, k) <=> Competing(rs, k)
      BY FinishesRow DEF Competing
<1>3. \A g : HasComparison(rs2, g) <=> HasComparison(rs, g)
      BY <1>1, <1>2 DEF HasComparison
<1>4. \A k \in DOMAIN rs : k # i /\ rs[k].status \in Open => rs2[k].status \in Open
      BY FinishesRow DEF Open
<1>5. ASSUME NEW g, Reconciles(rs, g), ~Reconciles(rs2, g)
      PROVE  rs[i].purpose = "reconciliation" /\ rs[i].group = g
      BY <1>1, <1>2, <1>4, <1>5 DEF Reconciles
<1>6. FailedIsReconciled(rs2)
  <2> SUFFICES ASSUME NEW k \in DOMAIN rs
               PROVE  /\ rs2[k].status # "resource_blocked"
                      /\ rs2[k].status = "verification_failed" /\ rs2[k].purpose # "reconciliation" =>
                           Reconciles(rs2, k)
      BY <1>1 DEF FailedIsReconciled
  <2>1. rs2[k].status \in {"resource_blocked", "verification_failed"} => rs2[k].status = rs[k].status
        BY FinishesRow
  <2>2. rs2[k].status # "resource_blocked"
        BY <2>1 DEF GoesOn, FailedIsReconciled
  <2>3. ASSUME rs2[k].status = "verification_failed", rs2[k].purpose # "reconciliation",
               ~Reconciles(rs2, k)
        PROVE  FALSE
    <3>1. rs[k].status = "verification_failed" /\ rs[k].purpose # "reconciliation" /\ k # i
          BY <1>2, <2>1, <2>3
    <3>2. Reconciles(rs, k)
          BY <3>1 DEF GoesOn, FailedIsReconciled
    <3>3. rs[i].purpose = "reconciliation" /\ rs[i].group = k
          BY <1>5, <2>3, <3>2
    <3>4. k \notin Group /\ RowOfGroup(p, rs, i)
          BY <3>3, RowsOf, Bounds DEF Well, Rooted
    <3>5. rs[k].group = k
          BY <3>3, <3>4 DEF RowOfGroup
    <3>6. rs2[k].status = "superseded"
          BY <3>1, <3>3, <3>5 DEF Finishes
    <3> QED BY <2>3, <3>6
  <2> QED BY <2>2, <2>3
<1>7. CompetitionGoesOn(rs2)
  <2> SUFFICES ASSUME NEW k \in DOMAIN rs, Competing(rs2, k) PROVE MemberGoesOn(rs2, k)
      BY <1>1 DEF CompetitionGoesOn
  <2>1. Competing(rs, k) /\ k # i /\ MemberGoesOn(rs, k) /\ rs2[k].group = rs[k].group
        BY <1>2 DEF GoesOn, CompetitionGoesOn
  <2>2. ASSUME NEW g, OpenMember(rs, g) PROVE OpenMember(rs2, g)
    <3>1. PICK j \in DOMAIN rs : Competing(rs, j) /\ rs[j].group = g /\ rs[j].status \in Open
          BY <2>2 DEF OpenMember
    <3> QED BY <1>1, <1>2, <1>4, <3>1 DEF OpenMember
  <2>3. CASE rs2[k].status = "superseded" /\ rs2[k].status # rs[k].status
    <3>1. rs[i].purpose = "reconciliation" /\ rs[k].group = rs[i].group
          BY <2>1, <2>3, FinishesRow
    <3>2. HasComparison(rs2, rs2[k].group)
          BY <1>3, <2>1, <3>1 DEF HasComparison
    <3> QED BY <2>3, <3>2 DEF MemberGoesOn, Open
  <2>4. CASE rs2[k].status = "ready" /\ rs[k].status = "none"
    <3>1. ~HasComparison(rs2, rs2[k].group)
          BY <1>3, <2>1, <2>4 DEF MemberGoesOn
    <3> QED BY <2>4, <3>1 DEF MemberGoesOn, Open
  <2>5. CASE rs2[k].status = rs[k].status
    <3>1. CASE Reconciles(rs, rs[k].group) => Reconciles(rs2, rs[k].group)
          BY <1>3, <2>1, <2>2, <2>5, <3>1, MemberKept
    <3>2. CASE Reconciles(rs, rs[k].group) /\ ~Reconciles(rs2, rs[k].group)
      <4>1. rs[i].purpose = "reconciliation" /\ rs[i].group = rs[k].group /\ rs[k].purpose = "work"
            BY <1>5, <2>1, <3>2 DEF Competing
      <4>2. rs[k].status # "verification_pending"
            BY <2>1, <2>5, <4>1 DEF Finishes
      <4> QED BY <1>3, <2>1, <2>5, <4>2 DEF MemberGoesOn
    <3> QED BY <3>1, <3>2
  <2> QED BY <2>1, <2>3, <2>4, <2>5, FinishesRow
<1> QED BY <1>6, <1>7 DEF GoesOn

\* A set with two members, and its size.
LEMMA TwoMembers ==
    ASSUME NEW S, IsFiniteSet(S)
    PROVE  Cardinality(S) >= 2 <=> \E a, b \in S : a # b
<1>1. Cardinality(S) \in Nat
      BY FS_CardinalityType
<1>2. ASSUME NEW a \in S, NEW b \in S, a # b PROVE Cardinality(S) >= 2
  <2>1. IsFiniteSet(S \ {a}) /\ Cardinality(S \ {a}) = Cardinality(S) - 1
        BY FS_RemoveElement
  <2>2. Cardinality(S \ {a}) \in Nat /\ Cardinality(S \ {a}) # 0
    <3>1. b \in S \ {a}
          BY <1>2
    <3> QED BY <2>1, <3>1, FS_CardinalityType, FS_EmptySet
  <2> QED BY <1>1, <2>1, <2>2
<1>3. ASSUME Cardinality(S) >= 2 PROVE \E a, b \in S : a # b
  <2>1. S # {}
        BY <1>3, FS_EmptySet
  <2>2. PICK a \in S : TRUE
        BY <2>1
  <2>3. IsFiniteSet(S \ {a}) /\ Cardinality(S \ {a}) = Cardinality(S) - 1
        BY <2>2, FS_RemoveElement
  <2>4. S \ {a} # {}
        BY <1>1, <1>3, <2>3, FS_EmptySet
  <2> QED BY <2>2, <2>4
<1> QED BY <1>2, <1>3

\* While all is calm a running member has another one beside it, the contenders
\* are the members, and nobody compares them yet.
LEMMA ContendersAreMembers ==
    ASSUME IndInv, Waiting(plan, row), Calm(plan, row), GoesOn(row), NEW i \in Rows, Works(i),
           IsCandidateOfCompetition(i), NEW g, g = row[i].group
    PROVE  /\ Competing(row, i) /\ g \in Group
           /\ \A k \in Rows : Competing(row, k) /\ row[k].group = g <=> k \in Contenders(g)
           /\ ~HasComparison(row, g) /\ Cardinality(Contenders(g)) >= 2
<1>1. /\ row \in Seq(Row) /\ (plan # NoPlan => GoodPlan(plan)) /\ i \in DOMAIN row /\ i \in Nat
      /\ row[i].status = "running" /\ row[i].purpose # "planning" /\ row[i] \in Row
      /\ Well(plan, row)
      BY WorksFacts DEF Rows, IndInv
<1>2. row[i].purpose = "work" /\ row[i].group # NoGroup /\ row[i].group # i
      BY <1>1, RowFields DEF IsCandidateOfCompetition, Well, LeftIsOver, Open
<1>3. g \in Group /\ Competing(row, i)
      BY <1>1, <1>2, GroupOfRow DEF Competing
<1>4. ~HasComparison(row, g)
      BY <1>1, <1>3 DEF GoesOn, CompetitionGoesOn, MemberGoesOn, Open
<1>5. ASSUME NEW k \in Rows PROVE Competing(row, k) /\ row[k].group = g <=> k \in Contenders(g)
  <2>1. k \in DOMAIN row /\ row[k].purpose \in {"planning", "work", "reconciliation"}
        BY <1>1, RowsOf, RowFields DEF Rows
  <2>2. row[k].purpose = "planning" => row[k].group = NoGroup
        BY <1>1, <2>1 DEF Well, Rooted, PlansOnly
  <2>3. Competing(row, k) /\ row[k].group = g => row[k].status # "none"
        BY <1>1, <1>3, <2>1 DEF Waiting, CompeteTogether
  <2> QED BY <1>2, <1>3, <2>1, <2>2, <2>3 DEF Competing, Contenders, GroupRows
<1>6. PICK o \in DOMAIN plan : row[i].owns = {o} /\ plan[o].group = g
      BY <1>1, <1>3, CompetingItem
<1>7. GoodPlan(plan) /\ g \in Groups(plan) /\ o \in Members(plan, g)
  <2>1. plan # NoPlan
        BY <1>6 DEF NoPlan
  <2> QED BY <1>1, <1>2, <1>6, <2>1 DEF Groups, Members
<1>8. PICK o2 \in Members(plan, g) : o2 # o
  <2>1. Len(plan) \in Nat /\ DOMAIN plan = 1..Len(plan)
        BY <1>7, PlanFacts
  <2>2. IsFiniteSet(DOMAIN plan) /\ Members(plan, g) \in SUBSET DOMAIN plan
        BY <2>1, FS_Interval DEF Members
  <2>3. IsFiniteSet(Members(plan, g))
        BY <2>2, FS_Subset
  <2>4. Cardinality(Members(plan, g)) >= 2
        BY <1>7 DEF GoodPlan, ComparesFairly
  <2>5. \E a, b \in Members(plan, g) : a # b
        BY <2>3, <2>4, TwoMembers
  <2> QED BY <2>5
<1>9. PICK j \in DOMAIN row : row[j].purpose = "work" /\ row[j].owns = {o2}
  <2>1. o2 \in DOMAIN plan
        BY DEF Members
  <2>2. WorkOn(row, o2) # {}
        BY <2>1 DEF Waiting, ItemsAreCared
  <2> QED BY <2>2 DEF WorkOn
<1>10. row[j].group = g
  <2>1. plan[o2].group = g /\ g # NoGroup
        BY <1>2 DEF Members
  <2>2. row[j].group # j
        BY <1>9, <2>1 DEF Calm, Lost
  <2>3. row[j].group \in {plan[o2].group, j}
        BY <1>1, <1>9 DEF Well, Rooted, RowOfItem
  <2> QED BY <2>1, <2>2, <2>3
<1>11. i \in Contenders(g) /\ j \in Contenders(g) /\ i # j
       BY <1>3, <1>5, <1>6, <1>8, <1>9, <1>10 DEF Competing, Rows
<1>12. IsFiniteSet(Contenders(g))
  <2>1. Len(row) \in Nat /\ DOMAIN row = 1..Len(row)
        BY <1>1, RowsOf
  <2>2. IsFiniteSet(DOMAIN row)
        BY <2>1, FS_Interval
  <2>3. Contenders(g) \in SUBSET DOMAIN row
        BY DEF Contenders, GroupRows, Rows
  <2> QED BY <2>2, <2>3, FS_Subset
<1>13. Cardinality(Contenders(g)) >= 2
       BY <1>11, <1>12, TwoMembers
<1> QED BY <1>3, <1>4, <1>5, <1>13

\* A member waits for the comparison while another one runs.
LEMMA PendingGoesOn ==
    ASSUME NEW rs, NEW i \in DOMAIN rs, Competing(rs, i), NEW rs2,
           Turns(rs, rs2, i, "verification_pending"), GoesOn(rs), OpenMember(rs2, rs[i].group)
    PROVE  GoesOn(rs2)
<1>1. /\ DOMAIN rs2 = DOMAIN rs /\ rs2[i].status = "verification_pending"
      /\ \A k \in DOMAIN rs : rs2[k].group = rs[k].group /\ rs2[k].purpose = rs[k].purpose
      /\ \A k \in DOMAIN rs \ {i} : rs2[k] = rs[k]
      BY DEF Turns, Quiet, QuietRow
<1>2. rs[i].purpose = "work"
      BY DEF Competing
<1>3. \A g : /\ Reconciles(rs2, g) <=> Reconciles(rs, g)
             /\ HasComparison(rs2, g) <=> HasComparison(rs, g)
      BY <1>1, <1>2 DEF Reconciles, HasComparison
<1>4. \A k \in DOMAIN rs : Competing(rs2, k) <=> Competing(rs, k)
      BY <1>1 DEF Competing
<1>5. FailedIsReconciled(rs2)
      BY <1>1, <1>3 DEF GoesOn, FailedIsReconciled
<1>6. \A g : OpenMember(rs, g) => OpenMember(rs2, g)
      BY <1>1, <1>4 DEF OpenMember
<1>7. CompetitionGoesOn(rs2)
  <2> SUFFICES ASSUME NEW k \in DOMAIN rs, Competing(rs2, k) PROVE MemberGoesOn(rs2, k)
      BY <1>1 DEF CompetitionGoesOn
  <2>1. CASE k = i
        BY <1>1, <2>1 DEF MemberGoesOn, Open
  <2>2. CASE k # i
    <3>1. MemberGoesOn(rs, k) /\ rs2[k].group = rs[k].group /\ rs2[k].status = rs[k].status
          BY <1>1, <1>4, <2>2 DEF GoesOn, CompetitionGoesOn
    <3> QED BY <1>3, <1>6, <3>1, MemberKept
  <2> QED BY <2>1, <2>2
<1> QED BY <1>5, <1>7 DEF GoesOn

\* All members wait, and a comparison is planned.
LEMMA ComparisonGoesOn ==
    ASSUME NEW rs, NEW i \in DOMAIN rs, Competing(rs, i), NEW rs1,
           Turns(rs, rs1, i, "verification_pending"), GoesOn(rs),
           \A k \in DOMAIN rs1 : Competing(rs1, k) /\ rs1[k].group = rs[i].group =>
                                    rs1[k].status = "verification_pending",
           NEW rs2, NEW n, OneMore(rs1, rs2, n), rs2[n].purpose = "reconciliation",
           rs2[n].status = "ready", rs2[n].group = rs[i].group
    PROVE  GoesOn(rs2)
<1>1. /\ DOMAIN rs2 = DOMAIN rs \union {n} /\ n \notin DOMAIN rs
      /\ rs2[i].status = "verification_pending"
      /\ \A k \in DOMAIN rs : /\ rs2[k].group = rs[k].group /\ rs2[k].purpose = rs[k].purpose
                              /\ rs2[k] = rs1[k] /\ k \in DOMAIN rs1
      /\ \A k \in DOMAIN rs \ {i} : rs2[k] = rs[k]
      BY DEF Turns, Quiet, QuietRow, OneMore
<1>2. rs[i].purpose = "work"
      BY DEF Competing
<1>3. Reconciles(rs2, rs[i].group) /\ \A g : Reconciles(rs, g) => Reconciles(rs2, g)
      BY <1>1, <1>2 DEF Reconciles, Open
<1>4. \A g : g # rs[i].group => (HasComparison(rs2, g) <=> HasComparison(rs, g))
      BY <1>1, <1>2 DEF HasComparison
<1>5. \A k \in DOMAIN rs : (Competing(rs2, k) <=> Competing(rs, k)) /\ (Competing(rs2, k) <=> Competing(rs1, k))
      BY <1>1 DEF Competing
<1>6. ~Competing(rs2, n)
      BY DEF Competing
<1>7. FailedIsReconciled(rs2)
  <2> SUFFICES ASSUME NEW k \in DOMAIN rs2
               PROVE  /\ rs2[k].status # "resource_blocked"
                      /\ rs2[k].status = "verification_failed" /\ rs2[k].purpose # "reconciliation" =>
                           Reconciles(rs2, k)
      BY DEF FailedIsReconciled
  <2>1. CASE k = n
        BY <2>1
  <2>2. CASE k = i
        BY <1>1, <2>2
  <2>3. CASE k \in DOMAIN rs \ {i}
        BY <1>1, <1>3, <2>3 DEF GoesOn, FailedIsReconciled
  <2> QED BY <1>1, <2>1, <2>2, <2>3
<1>8. CompetitionGoesOn(rs2)
  <2> SUFFICES ASSUME NEW k \in DOMAIN rs2, Competing(rs2, k) PROVE MemberGoesOn(rs2, k)
      BY DEF CompetitionGoesOn
  <2>1. k \in DOMAIN rs /\ rs2[k].group = rs[k].group
        BY <1>1, <1>6
  <2>2. CASE rs[k].group = rs[i].group
    <3>1. rs2[k].status = "verification_pending"
          BY <1>1, <1>5, <2>1, <2>2
    <3> QED BY <1>3, <2>1, <2>2, <3>1 DEF MemberGoesOn, Open
  <2>3. CASE rs[k].group # rs[i].group
    <3>1. MemberGoesOn(rs, k) /\ rs2[k].status = rs[k].status
          BY <1>1, <1>5, <2>1, <2>3 DEF GoesOn, CompetitionGoesOn
    <3>2. ASSUME OpenMember(rs, rs[k].group) PROVE OpenMember(rs2, rs[k].group)
      <4>1. PICK j \in DOMAIN rs : Competing(rs, j) /\ rs[j].group = rs[k].group /\ rs[j].status \in Open
            BY <3>2 DEF OpenMember
      <4>2. j # i
            BY <2>3, <4>1
      <4> QED BY <1>1, <1>5, <4>1, <4>2 DEF OpenMember
    <3> QED BY <1>3, <1>4, <2>1, <2>3, <3>1, <3>2, MemberKept
  <2> QED BY <2>2, <2>3
<1> QED BY <1>7, <1>8 DEF GoesOn
-----------------------------------------------------------------------------
(* Progress, action by action.                                             *)

\* What is left to show of a step that keeps the plan and ends no Commission.
LEMMA ProgressStep ==
    ASSUME ProgressInv, UNCHANGED <<plan, cStatus>>, blocker \subseteq blocker', Stays(row, row'),
           Waiting(plan, row'), EveryAssignmentAccepted(row') => EveryAssignmentAccepted(row),
           blocker' = {} /\ Calm(plan, row) /\ Calm(plan, row') /\ GoesOn(row) => GoesOn(row')
    PROVE  ProgressInv'
<1>1. plan' = plan /\ cStatus' = cStatus
      OBVIOUS
<1>2. Waiting(plan, row)' 
      BY <1>1
<1>3. ASSUME Clean' PROVE GoesOn(row') /\ EndIsSeen'
  <2>1. blocker' = {} /\ Calm(plan, row')
        BY <1>1, <1>3 DEF Clean
  <2>2. Calm(plan, row) /\ blocker = {}
        BY <2>1, CalmBefore
  <2>3. GoesOn(row) /\ EndIsSeen
        BY <2>2 DEF ProgressInv, Clean
  <2>4. GoesOn(row')
        BY <2>1, <2>2, <2>3
  <2>5. EndIsSeen'
        BY <1>1, <2>3 DEF EndIsSeen
  <2> QED BY <2>4, <2>5
<1> QED BY <1>2, <1>3 DEF ProgressInv

\* An Attempt begins or ends, and its row stays open or asks for help or for a comparison.
LEMMA TurnProgress ==
    ASSUME IndInv, ProgressInv, NEW i \in Rows, NEW s, Turns(row, row', i, s), row[i].status \in Open,
           UNCHANGED <<plan, cStatus>>, blocker \subseteq blocker',
           s = "verification_pending" => Competing(row, i),
           s \notin Open /\ blocker' = {} /\ Calm(plan, row) /\ GoesOn(row) => GoesOn(row')
    PROVE  ProgressInv'
<1>1. i \in DOMAIN row /\ Well(plan, row) /\ Waiting(plan, row)
      BY DEF Rows, IndInv, ProgressInv
<1>2. /\ Quiet(row, row') /\ DOMAIN row' = DOMAIN row /\ row'[i].status = s
      /\ \A k \in DOMAIN row \ {i} : row'[k] = row[k]
      /\ \A k \in DOMAIN row : row'[k].group = row[k].group
      BY DEF Turns, Quiet
<1>3. \A k \in DOMAIN row : row'[k].purpose = row[k].purpose /\ row'[k].owns = row[k].owns
      BY <1>2, SettledAlike
<1>4. Stays(row, row')
      BY <1>1, <1>2, <1>3 DEF Stays, Open
<1>5. \A k \in DOMAIN row : row'[k].status = "verification_pending" => Competing(row', k)
  <2>1. \A k \in DOMAIN row : Competing(row', k) <=> Competing(row, k)
        BY <1>2, <1>3 DEF Competing
  <2> QED BY <1>1, <1>2, <2>1 DEF Waiting, CompeteTogether
<1>6. Waiting(plan, row')
      BY <1>1, <1>2, <1>5, QuietWaits
<1>7. EveryAssignmentAccepted(row') => EveryAssignmentAccepted(row)
      BY <1>2, <1>3, SettledAlike DEF EveryAssignmentAccepted
<1>8. ASSUME blocker' = {}, Calm(plan, row), Calm(plan, row'), GoesOn(row) PROVE GoesOn(row')
  <2>1. CASE s \in Open
        BY <1>1, <1>8, <2>1, TurnGoesOn
  <2>2. CASE s \notin Open
        BY <1>8, <2>2
  <2> QED BY <2>1, <2>2
<1> QED BY <1>4, <1>6, <1>7, <1>8, ProgressStep

LEMMA DispatchProgress ==
    ASSUME IndInv, ProgressInv, NEW i \in Rows, Dispatch(i)
    PROVE  ProgressInv'
<1>1. i \in DOMAIN row /\ row[i].status = "ready" /\ UNCHANGED <<plan, cStatus>> /\ row \in Seq(Row)
      BY DEF Dispatch, Selectable, With, Rows, IndInv, Well
<1>2. PICK s \in {"running", "resource_blocked"} :
         /\ row' = [row EXCEPT ![i].status = s] /\ blocker \subseteq blocker'
         /\ s = "resource_blocked" => blocker' # {}
      BY DEF Dispatch
<1>3. s \in Status /\ s \notin Final /\ row[i].status \in Open /\ s # "verification_pending"
      BY <1>1, <1>2, Statuses DEF Final, Open
<1>4. Turns(row, row', i, s)
      BY <1>1, <1>2, <1>3, StatusQuiet
<1>5. s \notin Open => blocker' # {}
      BY <1>2 DEF Open
<1> QED BY <1>1, <1>2, <1>3, <1>4, <1>5, TurnProgress

LEMMA FailAttemptProgress ==
    ASSUME IndInv, ProgressInv, NEW i \in Rows, FailAttempt(i)
    PROVE  ProgressInv'
<1>1. i \in DOMAIN row /\ row[i].status = "running" /\ UNCHANGED <<plan, cStatus>> /\ row \in Seq(Row)
      BY DEF FailAttempt, Rows, IndInv, Well
<1>2. PICK s \in {"ready", "resource_blocked", "verification_failed"} :
         /\ row' = [row EXCEPT ![i].status = s] /\ blocker \subseteq blocker'
         /\ s # "ready" => blocker' # {}
      BY DEF FailAttempt
<1>3. s \in Status /\ s \notin Final /\ row[i].status \in Open /\ s # "verification_pending"
      BY <1>1, <1>2, Statuses DEF Final, Open
<1>4. Turns(row, row', i, s)
      BY <1>1, <1>2, <1>3, StatusQuiet
<1>5. s \notin Open => blocker' # {}
      BY <1>2 DEF Open
<1> QED BY <1>1, <1>2, <1>3, <1>4, <1>5, TurnProgress

\* A row fails for good, and somebody is asked for help.
LEMMA FailureProgress ==
    ASSUME IndInv, ProgressInv, NEW i \in Rows, row[i].status = "running",
           row' = [row EXCEPT ![i].status = "verification_failed"], blocker' = blocker \union {i},
           UNCHANGED <<plan, cStatus>>
    PROVE  ProgressInv'
<1>1. PICK s \in Status : s = "verification_failed"
      BY Statuses
<1>2. row \in Seq(Row) /\ i \in DOMAIN row /\ row[i].status \in Open /\ s \notin Final
      BY <1>1 DEF Rows, IndInv, Well, Open, Final
<1>3. Turns(row, row', i, s)
      BY <1>1, <1>2, StatusQuiet
<1>4. blocker \subseteq blocker' /\ blocker' # {}
      OBVIOUS
<1> QED BY <1>1, <1>2, <1>3, <1>4, TurnProgress

LEMMA VerifierCannotRunProgress ==
    ASSUME IndInv, ProgressInv, NEW i \in Rows, VerifierCannotRun(i)
    PROVE  ProgressInv'
BY FailureProgress DEF VerifierCannotRun, Works

LEMMA CandidateFailsProgress ==
    ASSUME IndInv, ProgressInv, NEW i \in Rows, CandidateFails(i)
    PROVE  ProgressInv'
<1>1. Works(i) /\ UNCHANGED <<plan, cStatus>>
      BY DEF CandidateFails
<1>2. /\ row \in Seq(Row) /\ (plan # NoPlan => GoodPlan(plan)) /\ i \in DOMAIN row
      /\ row[i].status = "running" /\ row[i].purpose # "planning" /\ i \in Nat
      /\ Well(plan, row) /\ Waiting(plan, row)
      BY <1>1, WorksFacts DEF Rows, IndInv, ProgressInv
<1>3. CASE row' = [row EXCEPT ![i].status = "verification_failed"] /\ blocker' = blocker \union {i}
      BY <1>1, <1>2, <1>3, FailureProgress
<1>4. CASE row' = [row EXCEPT ![i].status = "ready", ![i].failed = TRUE] /\ blocker' = blocker
  <2>1. PICK b \in BOOLEAN : b = TRUE
        OBVIOUS
  <2>2. row' = [row EXCEPT ![i].status = "ready", ![i].failed = b]
        BY <1>4, <2>1
  <2>3. Turns(row, row', i, "ready")
        BY <1>2, <2>2, RetryQuiet
  <2>4. "ready" \in Open /\ row[i].status \in Open
        BY <1>2 DEF Open
  <2> QED BY <1>1, <1>4, <2>3, <2>4, TurnProgress
<1>5. CASE row' = Replace(i) /\ blocker' = blocker
  <2>1. PICK n : n = Len(row) + 1
        OBVIOUS
  <2>2. Replaced(row, row', i, n)
        BY <1>2, <1>5, <2>1, ReplaceReplaces DEF Rows
  <2>3. i < n
    <3>1. Len(row) \in Nat /\ i \in 1..Len(row)
          BY <1>2, RowsOf
    <3> QED BY <2>1, <3>1
  <2>4. Stays(row, row')
        BY <1>2, <2>2 DEF Replaced, Stays
  <2>5. Waiting(plan, row')
        BY <1>2, <2>2, ReplacedWaits
  <2>6. ASSUME EveryAssignmentAccepted(row'), NEW j \in DOMAIN row, row[j].purpose # "reconciliation"
        PROVE  row[j].status \in Settled
    <3>1. n \in DOMAIN row' /\ row'[n].status = "ready" /\ row'[n].purpose = row[i].purpose
          BY <2>2 DEF Replaced
    <3>2. row[i].purpose = "reconciliation"
          BY <2>6, <3>1 DEF EveryAssignmentAccepted, Settled
    <3>3. j \in DOMAIN row' /\ row'[j].purpose = row[j].purpose /\ row'[j].status = row[j].status
          BY <2>2, <2>6, <3>2 DEF Replaced
    <3> QED BY <2>6, <3>3 DEF EveryAssignmentAccepted
  <2>7. EveryAssignmentAccepted(row') => EveryAssignmentAccepted(row)
        BY <2>6 DEF EveryAssignmentAccepted
  <2>8. Calm(plan, row') /\ GoesOn(row) => GoesOn(row')
        BY <1>2, <2>2, <2>3, ReplacedGoesOn
  <2> QED BY <1>1, <1>5, <2>4, <2>5, <2>7, <2>8, ProgressStep
<1> QED BY <1>3, <1>4, <1>5 DEF CandidateFails

LEMMA RequireReconciliationProgress ==
    ASSUME IndInv, ProgressInv, NEW i \in Rows, NEW paths \in SUBSET Path, RequireReconciliation(i, paths)
    PROVE  ProgressInv'
<1>1. Works(i) /\ UNCHANGED <<plan, blocker, cStatus>>
      BY DEF RequireReconciliation
<1>2. /\ row \in Seq(Row) /\ (plan # NoPlan => GoodPlan(plan)) /\ i \in DOMAIN row /\ i \in Nat
      /\ row[i].status = "running" /\ row[i].purpose # "planning" /\ row[i] \in Row
      /\ Well(plan, row) /\ Waiting(plan, row)
      BY <1>1, WorksFacts DEF Rows, IndInv, ProgressInv
<1>3. PICK rs1 : rs1 = [row EXCEPT ![i].status = "verification_failed", ![i].group = i]
      OBVIOUS
<1>4. Leaves(row, rs1, i)
      BY <1>2, <1>3, LeaveQuiet
<1>5. /\ Quiet(row, rs1) /\ rs1 \in Seq(Row) /\ DOMAIN rs1 = DOMAIN row
      /\ rs1[i].group = i /\ rs1[i].status = "verification_failed"
      /\ \A j \in DOMAIN row \ {i} : rs1[j] = row[j]
      BY <1>4 DEF Leaves, Quiet
<1>6. PICK r : r = Added("reconciliation", row[i].owns, paths, i)
      OBVIOUS
<1>7. r \in Row /\ r.purpose = "reconciliation" /\ r.status = "ready" /\ r.group = i
      BY <1>2, <1>6, RowFields, AddedRow
<1>8. row' = Append(rs1, r)
      BY <1>3, <1>6 DEF RequireReconciliation
<1>9. PICK n : n = Len(rs1) + 1
      OBVIOUS
<1>10. OneMore(rs1, row', n) /\ row'[n] = r
      BY <1>5, <1>7, <1>8, <1>9, RowsAppended, RowsOf DEF OneMore
<1>11. \A k \in DOMAIN row : /\ k \in DOMAIN row' /\ row'[k] = rs1[k] /\ row'[k].purpose = row[k].purpose
                             /\ row'[k].owns = row[k].owns
                             /\ row'[k].status \in Settled <=> row[k].status \in Settled
  <2>1. \A k \in DOMAIN row : k \in DOMAIN row' /\ row'[k] = rs1[k]
        BY <1>5, <1>10 DEF OneMore
  <2> QED BY <1>5, <2>1, SettledAlike
<1>12. Stays(row, row')
  <2>1. \A k \in DOMAIN row : row[k].group = k => rs1[k].group = k
        BY <1>5
  <2>2. \A k \in DOMAIN row : row[k].status = "verification_failed" => rs1[k].status = "verification_failed"
        BY <1>5
  <2> QED BY <1>11, <2>1, <2>2 DEF Stays
<1>13. Waiting(plan, row')
  <2>1. \A k \in DOMAIN row : rs1[k].status = "verification_pending" => Competing(rs1, k)
        BY <1>2, <1>5 DEF Waiting, CompeteTogether, Competing
  <2>2. Waiting(plan, rs1)
        BY <1>2, <1>5, <2>1, QuietWaits
  <2>3. Well(plan, rs1)
        BY <1>2, <1>5, QuietKeeps
  <2> QED BY <1>7, <1>10, <2>2, <2>3, AddedWaits
<1>14. EveryAssignmentAccepted(row') => EveryAssignmentAccepted(row)
      BY <1>11 DEF EveryAssignmentAccepted
<1>15. Calm(plan, row') /\ GoesOn(row) => GoesOn(row')
      BY <1>2, <1>4, <1>7, <1>10, LeavingGoesOn
<1> QED BY <1>1, <1>12, <1>13, <1>14, <1>15, ProgressStep

LEMMA FinishCompetingProgress ==
    ASSUME IndInv, ProgressInv, NEW i \in Rows, FinishCompetingCandidate(i)
    PROVE  ProgressInv'
<1>1. /\ Works(i) /\ IsCandidateOfCompetition(i) /\ UNCHANGED <<plan, blocker, cStatus>>
      BY DEF FinishCompetingCandidate
<1>2. /\ row \in Seq(Row) /\ (plan # NoPlan => GoodPlan(plan)) /\ i \in DOMAIN row
      /\ row[i].status = "running" /\ row[i] \in Row /\ row[i].purpose # "planning"
      /\ Well(plan, row) /\ Waiting(plan, row)
      BY <1>1, WorksFacts DEF Rows, IndInv, ProgressInv
<1>3. PICK rs1 : rs1 = [row EXCEPT ![i].status = "verification_pending"]
      OBVIOUS
<1>4. Turns(row, rs1, i, "verification_pending")
  <2>1. "verification_pending" \in Status /\ "verification_pending" \notin Final
        BY Statuses DEF Final
  <2> QED BY <1>2, <1>3, <2>1, StatusQuiet DEF Open
<1>5. /\ Quiet(row, rs1) /\ rs1 \in Seq(Row) /\ DOMAIN rs1 = DOMAIN row
      /\ rs1[i].status = "verification_pending"
      /\ \A j \in DOMAIN row \ {i} : rs1[j] = row[j]
      /\ \A j \in DOMAIN row : rs1[j].group = row[j].group /\ rs1[j].purpose = row[j].purpose
      BY <1>4 DEF Turns, Quiet, QuietRow
<1>6. PICK g : g = row[i].group
      OBVIOUS
<1>7. Competing(row, i)
  <2>1. row[i].purpose = "work" /\ row[i].group # NoGroup /\ row[i].group # i
        BY <1>1, <1>2, RowFields DEF IsCandidateOfCompetition, Well, LeftIsOver, Open
  <2> QED BY <1>2, <2>1, GroupOfRow DEF Competing
<1>8. \A k \in DOMAIN row : Competing(rs1, k) <=> Competing(row, k)
      BY <1>5 DEF Competing
<1>9. CASE row' = rs1 /\ ~(/\ Cardinality(Contenders(g)) >= 2
                           /\ \A j \in Contenders(g) : rs1[j].status = "verification_pending"
                           /\ ~Compared(g))
  <2>1. ASSUME Calm(plan, row), GoesOn(row) PROVE GoesOn(row')
    <3>1. /\ \A k \in Rows : Competing(row, k) /\ row[k].group = g <=> k \in Contenders(g)
          /\ ~HasComparison(row, g) /\ Cardinality(Contenders(g)) >= 2
          BY <1>1, <1>2, <1>6, <2>1, ContendersAreMembers
    <3>2. ~Compared(g)
          BY <3>1 DEF Compared, HasComparison, Rows
    <3>3. PICK j \in Contenders(g) : rs1[j].status # "verification_pending"
          BY <1>9, <3>1, <3>2
    <3>4. j \in DOMAIN row /\ j # i /\ rs1[j] = row[j] /\ row[j].status # "none"
          BY <1>5, <3>3 DEF Contenders, GroupRows, Rows
    <3>5. Competing(row, j) /\ row[j].group = g
          BY <3>1, <3>3, <3>4 DEF Rows
    <3>6. row[j].status \in Open
          BY <2>1, <3>1, <3>3, <3>4, <3>5 DEF GoesOn, CompetitionGoesOn, MemberGoesOn
    <3>7. OpenMember(rs1, g)
          BY <1>5, <1>8, <3>4, <3>5, <3>6 DEF OpenMember
    <3> QED BY <1>2, <1>4, <1>6, <1>7, <1>9, <2>1, <3>7, PendingGoesOn
  <2>2. Turns(row, row', i, "verification_pending") /\ row[i].status \in Open
        BY <1>2, <1>4, <1>9 DEF Open
  <2> QED BY <1>1, <1>7, <2>1, <2>2, TurnProgress
<1>10. CASE /\ row' = Append(rs1, ComparisonRow(g))
            /\ \A j \in Contenders(g) : rs1[j].status = "verification_pending"
  <2>1. PICK r : r = ComparisonRow(g)
        OBVIOUS
  <2>2. MayReconcile(plan, rs1, r) /\ r.group = g
        BY <1>1, <1>4, <1>6, <2>1, ComparisonMay
  <2>3. r \in Row /\ r.purpose = "reconciliation" /\ r.status = "ready" /\ row' = Append(rs1, r)
        BY <1>10, <2>1, <2>2 DEF MayReconcile
  <2>4. PICK n : n = Len(rs1) + 1
        OBVIOUS
  <2>5. OneMore(rs1, row', n) /\ row'[n] = r
        BY <1>5, <2>3, <2>4, RowsAppended, RowsOf DEF OneMore
  <2>6. \A k \in DOMAIN row : /\ k \in DOMAIN row' /\ row'[k] = rs1[k] /\ row'[k].purpose = row[k].purpose
                              /\ row'[k].owns = row[k].owns
                              /\ row'[k].status \in Settled <=> row[k].status \in Settled
    <3>1. \A k \in DOMAIN row : k \in DOMAIN row' /\ row'[k] = rs1[k]
          BY <1>5, <2>5 DEF OneMore
    <3> QED BY <1>5, <3>1, SettledAlike
  <2>7. Stays(row, row')
    <3>1. \A k \in DOMAIN row : row[k].status = "verification_failed" => rs1[k].status = "verification_failed"
          BY <1>2, <1>5
    <3> QED BY <1>5, <2>6, <3>1 DEF Stays
  <2>8. Waiting(plan, row')
    <3>1. \A k \in DOMAIN row : rs1[k].status = "verification_pending" => Competing(rs1, k)
          BY <1>2, <1>5, <1>7, <1>8 DEF Waiting, CompeteTogether
    <3>2. Waiting(plan, rs1)
          BY <1>2, <1>5, <3>1, QuietWaits
    <3>3. Well(plan, rs1)
          BY <1>2, <1>5, QuietKeeps
    <3> QED BY <2>3, <2>5, <3>2, <3>3, AddedWaits
  <2>9. EveryAssignmentAccepted(row') => EveryAssignmentAccepted(row)
        BY <2>6 DEF EveryAssignmentAccepted
  <2>10. ASSUME Calm(plan, row), GoesOn(row) PROVE GoesOn(row')
    <3>1. \A k \in Rows : Competing(row, k) /\ row[k].group = g <=> k \in Contenders(g)
          BY <1>1, <1>2, <1>6, <2>10, ContendersAreMembers
    <3>2. \A k \in DOMAIN rs1 : Competing(rs1, k) /\ rs1[k].group = row[i].group =>
                                   rs1[k].status = "verification_pending"
          BY <1>5, <1>6, <1>8, <1>10, <3>1 DEF Rows
    <3> QED BY <1>2, <1>4, <1>6, <1>7, <2>2, <2>3, <2>5, <2>10, <3>2, ComparisonGoesOn
  <2> QED BY <1>1, <2>7, <2>8, <2>9, <2>10, ProgressStep
<1> QED BY <1>3, <1>6, <1>9, <1>10 DEF FinishCompetingCandidate

LEMMA FinishPlannedProgress ==
    ASSUME IndInv, IndInv', ProgressInv, NEW i \in Rows, FinishPlannedAssignment(i)
    PROVE  ProgressInv'
<1>1. /\ Works(i) /\ ~IsCandidateOfCompetition(i) /\ UNCHANGED <<plan, blocker>>
      /\ row' = Advanced(Accepted(i))
      /\ cStatus' = IF EveryAssignmentAccepted(row') /\ Passed(row') = DOMAIN plan
                    THEN "verified_complete" ELSE cStatus
      BY DEF FinishPlannedAssignment
<1>2. /\ row \in Seq(Row) /\ i \in DOMAIN row /\ row[i].status = "running"
      /\ Well(plan, row) /\ Waiting(plan, row) /\ Well(plan, row')
      BY <1>1, WorksFacts DEF Rows, IndInv, ProgressInv
<1>3. PICK rs1 : Finishes(row, rs1, row', i)
      BY <1>1, <1>2, FinishFinishes
<1>4. Waiting(plan, row')
      BY <1>2, <1>3, FinishedWaits
<1>5. Stays(row, row')
  <2> SUFFICES ASSUME NEW k \in DOMAIN row
               PROVE  /\ k \in DOMAIN row' /\ row'[k].purpose = row[k].purpose /\ row'[k].owns = row[k].owns
                      /\ row[k].group = k => row'[k].group = k
                      /\ row[k].purpose = "reconciliation" /\ row[k].status = "verification_failed" =>
                            row'[k].status = "verification_failed"
      BY DEF Stays
  <2> QED BY <1>2, <1>3, FinishesRow
<1>6. ~Competing(row, i)
      BY <1>1, Bounds DEF Competing, IsCandidateOfCompetition, NoGroup
<1>7. ASSUME EveryAssignmentAccepted(row') PROVE cStatus' = "verified_complete"
  <2>1. \A o \in DOMAIN plan : o \in Passed(row')
    <3> SUFFICES ASSUME NEW o \in DOMAIN plan, o \notin Passed(row') PROVE FALSE
        OBVIOUS
    <3>1. PICK j \in WorkOn(row', o) : row'[j].status \notin Settled
          BY <1>4 DEF Waiting, ItemsAreCared
    <3> QED BY <1>7, <3>1 DEF WorkOn, EveryAssignmentAccepted
  <2>2. Passed(row') \subseteq DOMAIN plan
        BY <1>2, OwnsItems DEF Passed
  <2> QED BY <1>1, <1>7, <2>1, <2>2
<1>8. ASSUME Clean' PROVE GoesOn(row')
  <2>1. Calm(plan, row') /\ blocker = {}
        BY <1>1, <1>8 DEF Clean
  <2>2. Calm(plan, row)
        BY <1>5, <2>1, CalmBefore
  <2>3. GoesOn(row)
        BY <2>1, <2>2 DEF ProgressInv, Clean
  <2> QED BY <1>2, <1>3, <1>6, <2>3, FinishGoesOn
<1> QED BY <1>1, <1>4, <1>7, <1>8 DEF ProgressInv, EndIsSeen

\* A plan whose items have rows that are ready or wait.
LEMMA PlannedProgress ==
    ASSUME NEW p, GoodPlan(p), NEW rs, RoundsOnly(rs), NEW n, NEW rs2, PlannedFrom(p, rs, n, rs2),
           \A j \in DOMAIN rs : rs[j].status \in Settled
    PROVE  GoesOn(rs2) /\ ~EveryAssignmentAccepted(rs2)
<1>1. ASSUME NEW j \in DOMAIN rs2
      PROVE  rs2[j].purpose # "reconciliation" /\ rs2[j].status \in Settled \union {"ready", "none"}
             /\ (rs2[j].purpose = "work" => rs2[j].status \in {"ready", "none"})
  <2>1. j \in DOMAIN rs \/ \E o \in DOMAIN p : j = n + o
        BY PlannedIndex
  <2>2. CASE j \in DOMAIN rs
    <3>1. rs2[j] = rs[j] /\ rs[j].purpose = "planning"
          BY <2>2 DEF PlannedFrom, RoundsOnly
    <3> QED BY <2>2, <3>1
  <2>3. CASE \E o \in DOMAIN p : j = n + o
        BY <2>3, PlannedRow
  <2> QED BY <2>1, <2>2, <2>3
<1>2. \A g : ~HasComparison(rs2, g)
      BY <1>1 DEF HasComparison
<1>3. FailedIsReconciled(rs2)
      BY <1>1 DEF FailedIsReconciled, Settled
<1>4. CompetitionGoesOn(rs2)
      BY <1>1, <1>2 DEF CompetitionGoesOn, MemberGoesOn, Competing, Open
<1>5. ~EveryAssignmentAccepted(rs2)
  <2>1. 1 \in DOMAIN p
        BY PlanFacts
  <2>2. n + 1 \in DOMAIN rs2 /\ rs2[n + 1].purpose = "work" /\ rs2[n + 1].status \notin Settled
        BY <2>1, PlannedRow
  <2> QED BY <2>2 DEF EveryAssignmentAccepted
<1> QED BY <1>3, <1>4, <1>5 DEF GoesOn

\* Rounds of planning, of which one is open: nobody competes, nobody waits, and
\* without a Blocker all others are settled.
LEMMA RoundsProgress ==
    ASSUME IndInv, ProgressInv, NEW i \in Rows, Plans(i)
    PROVE  /\ NonePending(row)
           /\ blocker = {} => \A j \in DOMAIN row \ {i} : row[j].status \in Settled
<1>1. /\ RoundsOnly(row) /\ plan = NoPlan /\ i \in DOMAIN row /\ row \in Seq(Row)
      /\ \A j \in DOMAIN row : row[j].status \in Open => j = i
      BY PlansFacts
<1>2. \A j \in DOMAIN row : row[j].purpose = "planning" /\ row[j].status # "none"
      BY <1>1 DEF RoundsOnly
<1>3. NonePending(row)
      BY <1>2 DEF ProgressInv, Waiting, CompeteTogether, Competing, NonePending
<1>4. ASSUME blocker = {}, NEW j \in DOMAIN row \ {i} PROVE row[j].status \in Settled
  <2>1. Calm(plan, row)
        BY <1>2 DEF Calm, Lost, Nested
  <2>2. FailedIsReconciled(row)
        BY <1>4, <2>1 DEF ProgressInv, Clean, GoesOn
  <2>3. ~Reconciles(row, j)
        BY <1>2 DEF Reconciles
  <2>4. row[j].status \in Status /\ row[j].status \notin Open
        BY <1>1, RowsOf, RowFields
  <2>5. row[j].status \notin {"none", "verification_pending", "resource_blocked", "verification_failed"}
        BY <1>2, <1>3, <2>2, <2>3 DEF NonePending, FailedIsReconciled
  <2> QED BY <2>4, <2>5 DEF Status
<1> QED BY <1>3, <1>4

LEMMA PlanAcceptedProgress ==
    ASSUME IndInv, ProgressInv, NEW i \in Rows, PlanAccepted(i)
    PROVE  ProgressInv'
<1>1. Plans(i) /\ UNCHANGED <<blocker, cStatus>>
      BY DEF PlanAccepted
<1>2. /\ RoundsOnly(row) /\ i \in DOMAIN row /\ row \in Seq(Row)
      /\ \A j \in DOMAIN row : row[j].status \in Open => j = i
      BY <1>1, PlansFacts
<1>3. PICK p \in Plan : /\ ValidProposal(p) /\ plan' = p
                        /\ row' = [row EXCEPT ![i].status = "accepted"] \o PlanRows(p, Len(row))
      BY DEF PlanAccepted
<1>4. PICK available : ValidPlan(p, available)
      BY <1>3 DEF ValidProposal
<1>5. GoodPlan(p) /\ Acyclic(p)
      BY <1>4, PlanIsGood DEF ValidPlan
<1>6. PICK rs1 : rs1 = [row EXCEPT ![i].status = "accepted"]
      OBVIOUS
<1>7. "accepted" \in Status /\ "accepted" \notin Open \union {"none"}
      BY Statuses DEF Open
<1>8. RoundsOnly(rs1) /\ Len(rs1) = Len(row)
      BY <1>2, <1>6, <1>7, RoundEnds
<1>9. PICK n : n = Len(row)
      OBVIOUS
<1>10. PlannedFrom(p, rs1, n, row')
  <2>1. rs1 \in Seq(Row) /\ row' = rs1 \o PlanRows(p, n)
        BY <1>3, <1>6, <1>8, <1>9 DEF RoundsOnly
  <2> QED BY <1>5, <1>8, <1>9, <2>1, PlannedIs
<1>11. DOMAIN rs1 = DOMAIN row /\ rs1[i].status = "accepted" /\ \A j \in DOMAIN row \ {i} : rs1[j] = row[j]
       BY <1>2, <1>6, <1>7, StatusChange DEF SameRows
<1>12. Waiting(p, row')
  <2>1. NonePending(rs1)
        BY <1>1, <1>11, RoundsProgress DEF NonePending
  <2> QED BY <1>5, <1>8, <1>10, <2>1, PlannedWaits
<1>13. ASSUME blocker = {} PROVE GoesOn(row') /\ ~EveryAssignmentAccepted(row')
  <2>1. \A j \in DOMAIN rs1 : rs1[j].status \in Settled
    <3>1. \A j \in DOMAIN row \ {i} : row[j].status \in Settled
          BY <1>1, <1>13, RoundsProgress
    <3> QED BY <1>11, <3>1 DEF Settled
  <2> QED BY <1>5, <1>8, <1>10, <2>1, PlannedProgress
<1> QED BY <1>1, <1>3, <1>12, <1>13 DEF ProgressInv, Clean, EndIsSeen

LEMMA PlanRejectedProgress ==
    ASSUME IndInv, ProgressInv, NEW i \in Rows, PlanRejected(i)
    PROVE  ProgressInv'
<1>1. Plans(i) /\ UNCHANGED <<plan, cStatus>>
      BY DEF PlanRejected
<1>2. /\ RoundsOnly(row) /\ plan = NoPlan /\ i \in DOMAIN row /\ row \in Seq(Row)
      /\ \A j \in DOMAIN row : row[j].status \in Open => j = i
      BY <1>1, PlansFacts
<1>3. CASE /\ row' = Append([row EXCEPT ![i].status = "superseded"], PlanningRow(Len(row) + 1))
           /\ blocker' = blocker
  <2>1. PICK rs1 : rs1 = [row EXCEPT ![i].status = "superseded"]
        OBVIOUS
  <2>2. "superseded" \in Status /\ "superseded" \notin Open \union {"none"}
        BY Statuses DEF Open
  <2>3. RoundsOnly(rs1) /\ Len(rs1) = Len(row)
        BY <1>2, <2>1, <2>2, RoundEnds
  <2>4. DOMAIN rs1 = DOMAIN row /\ rs1[i].status = "superseded" /\ \A j \in DOMAIN row \ {i} : rs1[j] = row[j]
        BY <1>2, <2>1, <2>2, StatusChange DEF SameRows
  <2>5. PICK n \in Nat : n = Len(row) + 1
        BY <1>2, RowsOf
  <2>6. PICK r : r = PlanningRow(n)
        OBVIOUS
  <2>7. /\ r \in Row /\ r.purpose = "planning" /\ r.owns = {} /\ r.group = NoGroup
        /\ r.status = "ready"
        BY <2>6, PlanningRowIs
  <2>8. row' = Append(rs1, r) /\ rs1 \in Seq(Row)
        BY <1>3, <2>1, <2>3, <2>5, <2>6 DEF RoundsOnly
  <2>9. /\ row' \in Seq(Row) /\ DOMAIN row' = DOMAIN rs1 \union {n} /\ row'[n] = r
        /\ \A j \in DOMAIN rs1 : row'[j] = rs1[j]
        BY <2>3, <2>5, <2>7, <2>8, RowsAppended
  <2>10. RoundsOnly(row')
         BY <2>3, <2>7, <2>9 DEF RoundsOnly, PlansOnly
  <2>11. Waiting(plan, row')
    <3>1. NonePending(rs1)
          BY <1>1, <2>4, RoundsProgress DEF NonePending
    <3>2. NonePending(row')
          BY <2>7, <2>9, <3>1 DEF NonePending
    <3> QED BY <1>2, <2>10, <3>2, RoundsWait
  <2>12. ~EveryAssignmentAccepted(row')
         BY <2>7, <2>9 DEF EveryAssignmentAccepted, Settled
  <2>13. ASSUME blocker = {} PROVE GoesOn(row')
    <3>1. \A j \in DOMAIN row \ {i} : row[j].status \in Settled
          BY <1>1, <2>13, RoundsProgress
    <3>2. \A j \in DOMAIN row' : row'[j].status \in Settled \union {"ready"} /\ row'[j].purpose = "planning"
          BY <2>4, <2>7, <2>9, <2>10, <3>1 DEF Settled, RoundsOnly
    <3> QED BY <3>2 DEF GoesOn, FailedIsReconciled, CompetitionGoesOn, Competing, Settled
  <2> QED BY <1>1, <1>3, <2>11, <2>12, <2>13 DEF ProgressInv, Clean, EndIsSeen
<1>4. CASE row' = [row EXCEPT ![i].status = "verification_failed"] /\ blocker' = BlockedByRejection(i)
      BY <1>1, <1>4, FailureProgress DEF Plans, BlockedByRejection
<1> QED BY <1>3, <1>4 DEF PlanRejected

LEMMA InitProgress ==
    ASSUME Init
    PROVE  ProgressInv
<1>1. CASE source = "principal" /\ plan \in PrincipalPlans /\ row = PlanRows(plan, 0)
  <2>1. plan \in Plan /\ ValidPlan(plan, maxAttempts)
        BY <1>1 DEF PrincipalPlans
  <2>2. GoodPlan(plan) /\ Acyclic(plan)
        BY <2>1, PlanIsGood DEF ValidPlan
  <2>3. << >> \in Seq(Row) /\ Len(<< >>) = 0
        BY EmptySeq
  <2>4. PICK rs : rs = << >> /\ rs \in Seq(Row) /\ Len(rs) = 0 /\ DOMAIN rs = {}
    <3>1. PICK rs : rs = << >>
          OBVIOUS
    <3>2. rs \in Seq(Row) /\ Len(rs) = 0
          BY <2>3, <3>1
    <3>3. DOMAIN rs = 1..0
          BY <3>2, RowsOf
    <3>4. DOMAIN rs = {}
          BY <3>3
    <3> QED BY <3>1, <3>2, <3>4
  <2>5. RoundsOnly(rs) /\ NonePending(rs)
        BY <2>4 DEF RoundsOnly, NonePending
  <2>6. row \in Seq(Row)
        BY <1>1, <2>2, PlanRowsAreRows
  <2>7. PICK n \in Nat : n = 0
        OBVIOUS
  <2>8. PlannedFrom(plan, rs, n, row)
    <3>1. row = rs \o PlanRows(plan, n)
          BY <1>1, <2>4, <2>6, <2>7, ConcatEmptySeq
    <3> QED BY <2>2, <2>4, <2>7, <3>1, PlannedIs
  <2>9. Waiting(plan, row)
        BY <2>2, <2>5, <2>8, PlannedWaits
  <2>10. GoesOn(row) /\ ~EveryAssignmentAccepted(row)
    <3>1. \A j \in DOMAIN rs : rs[j].status \in Settled
          BY <2>4
    <3> QED BY <2>2, <2>5, <2>8, <3>1, PlannedProgress
  <2> QED BY <2>9, <2>10 DEF ProgressInv, EndIsSeen
<1>2. CASE source = "worker" /\ plan = NoPlan /\ row = <<PlanningRow(1)>>
  <2>1. PICK r : r = PlanningRow(1)
        OBVIOUS
  <2>2. /\ r \in Row /\ r.purpose = "planning" /\ r.owns = {} /\ r.group = NoGroup
        /\ r.status = "ready"
        BY <2>1, PlanningRowIs
  <2>3. row = <<r>>
        BY <1>2, <2>1
  <2>4. row \in Seq(Row) /\ DOMAIN row = {1} /\ row[1] = r
        BY <2>2, <2>3
  <2>5. RoundsOnly(row) /\ NonePending(row)
        BY <2>2, <2>4 DEF RoundsOnly, PlansOnly, NonePending
  <2>6. Waiting(plan, row)
        BY <1>2, <2>5, RoundsWait
  <2>7. ~EveryAssignmentAccepted(row)
        BY <2>2, <2>4 DEF EveryAssignmentAccepted, Settled
  <2>8. GoesOn(row)
        BY <2>2, <2>4 DEF GoesOn, FailedIsReconciled, CompetitionGoesOn, Competing
  <2> QED BY <2>6, <2>7, <2>8 DEF ProgressInv, EndIsSeen
<1> QED BY <1>1, <1>2 DEF Init

LEMMA NextProgress ==
    ASSUME IndInv, IndInv', ProgressInv, [Next]_vars
    PROVE  ProgressInv'
<1>1. CASE UNCHANGED vars
      BY <1>1 DEF vars, mandateVars, ProgressInv, Clean, EndIsSeen
<1>2. ASSUME NEW i \in Rows, Dispatch(i) PROVE ProgressInv'
      BY <1>2, DispatchProgress
<1>3. ASSUME NEW i \in Rows, Settle(i) PROVE ProgressInv'
  <2>1. CASE FailAttempt(i)
        BY <1>3, <2>1, FailAttemptProgress
  <2>2. CASE PlanAccepted(i)
        BY <1>3, <2>2, PlanAcceptedProgress
  <2>3. CASE PlanRejected(i)
        BY <1>3, <2>3, PlanRejectedProgress
  <2>4. CASE VerifierCannotRun(i)
        BY <1>3, <2>4, VerifierCannotRunProgress
  <2>5. CASE CandidateFails(i)
        BY <1>3, <2>5, CandidateFailsProgress
  <2>6. ASSUME NEW paths \in SUBSET Path \ {{}}, RequireReconciliation(i, paths) PROVE ProgressInv'
        BY <1>3, <2>6, RequireReconciliationProgress
  <2>7. CASE FinishCompetingCandidate(i)
        BY <1>3, <2>7, FinishCompetingProgress
  <2>8. CASE FinishPlannedAssignment(i)
        BY <1>3, <2>8, FinishPlannedProgress
  <2> QED BY <1>3, <2>1, <2>2, <2>3, <2>4, <2>5, <2>6, <2>7, <2>8 DEF Settle
<1> QED BY <1>1, <1>2, <1>3 DEF Next

\* A Commission with nothing ready and nothing running is complete or has asked
\* for help, for every plan that passes validation and every sequence of failures,
\* replacements, reconciliations and comparisons, except for the two cases the
\* property names: what waits waits for somebody, what failed is reconciled, and
\* the last acceptance is seen (complete_planning, advance_plan_after_evidence).
THEOREM IdleCorrect == Spec => []IdleIsBlocked
<1>1. Init => ProgressInv
      BY InitProgress
<1>2. IndInv /\ IndInv' /\ ProgressInv /\ [Next]_vars => ProgressInv'
      BY NextProgress
<1>3. IndInv /\ ProgressInv => IdleIsBlocked
      BY ProgressMeansHelp
<1> QED BY <1>1, <1>2, <1>3, Inductive, PTL DEF Spec
-----------------------------------------------------------------------------
(* A complete Commission is over.                                          *)

\* A reconciliation that is not settled is there for a row that is not either.
Held(rs, k) ==
    rs[k].purpose # "reconciliation" /\ rs[k].status \in {"verification_pending", "verification_failed"}

\* Nobody will ever settle row k: its reconciliation left for one of its own.
Moves(rs, g) == \E j \in DOMAIN rs : rs[j].group = g /\ rs[j].status \in Open \union {"none"}
Stranded(rs, k) == Held(rs, k) /\ ~Moves(rs, rs[k].group)

IsNeeded(rs, r) ==
    \/ \E k \in DOMAIN rs : Held(rs, k) /\ rs[k].group = rs[r].group
    \/ \E k \in DOMAIN rs : Stranded(rs, k)

Reconciling(rs, r) ==
    rs[r].purpose = "reconciliation" /\ rs[r].status # "superseded" /\ rs[r].group # r

ReconciledOnce(rs) ==
    \A r, q \in DOMAIN rs :
       Reconciling(rs, r) /\ Reconciling(rs, q) /\ rs[r].group = rs[q].group => r = q

\* Members of a competition that is compared have come to an end.
ComparedIsOver(rs) ==
    \A r, k \in DOMAIN rs :
       /\ rs[r].purpose = "reconciliation" /\ rs[k].purpose # "reconciliation"
       /\ rs[k].group = rs[r].group
       => rs[k].status \notin Open \union {"none"}

Needed(rs) ==
    /\ ReconciledOnce(rs) /\ ComparedIsOver(rs)
    /\ \A r \in DOMAIN rs :
          rs[r].purpose = "reconciliation" /\ rs[r].status \notin Settled => IsNeeded(rs, r)

CompleteIsDone ==
    cStatus = "verified_complete" => EveryAssignmentAccepted(row) /\ Passed(row) = DOMAIN plan

EndInv == Needed(row) /\ CompleteIsDone

\* Of a complete Commission every item passed and every row is settled
\* (finish_planned_assignment, complete_planned_commission).
PlanIsOver ==
    cStatus = "verified_complete" =>
       Passed(row) = DOMAIN plan /\ \A j \in Rows : row[j].status \in Settled

\* A row of the plan has a group of the plan or one of its own.
LEMMA OwnGroup ==
    ASSUME NEW p, NEW rs, Well(p, rs), p # NoPlan => GoodPlan(p), NEW k \in DOMAIN rs,
           rs[k].purpose # "reconciliation", NEW i \in DOMAIN rs, rs[k].group = i
    PROVE  k = i
<1>1. rs[k].group \in Group \union {NoGroup, k} /\ i \in Nat /\ i # NoGroup
      BY GroupOfRow, RowsOf DEF Well
<1> QED BY <1>1, Bounds

\* An open row is still in its group, and nobody reconciles it.
LEMMA OpenIsInGroup ==
    ASSUME NEW p, NEW rs, Well(p, rs), NEW i \in DOMAIN rs, rs[i].status \in Open
    PROVE  rs[i].group # i /\ \A r \in DOMAIN rs : rs[r].purpose = "reconciliation" => rs[r].group # i
<1>1. rs[i].group # i
      BY DEF Well, LeftIsOver
<1>2. ASSUME NEW r \in DOMAIN rs, rs[r].purpose = "reconciliation", rs[r].group = i PROVE FALSE
  <2>1. i \notin Group /\ RowOfGroup(p, rs, r)
        BY <1>2, RowsOf, Bounds DEF Well, Rooted
  <2> QED BY <1>1, <1>2, <2>1 DEF RowOfGroup
<1> QED BY <1>1, <1>2

LEMMA TurnNeeded ==
    ASSUME NEW rs, NEW i \in DOMAIN rs, NEW rs2, NEW s, Turns(rs, rs2, i, s), rs[i].status \in Open,
           Needed(rs)
    PROVE  Needed(rs2)
<1>1. /\ DOMAIN rs2 = DOMAIN rs
      /\ \A k \in DOMAIN rs :
            /\ rs2[k].group = rs[k].group /\ rs2[k].purpose = rs[k].purpose
            /\ rs2[k].status \in Open \union {"none"} => rs[k].status \in Open \union {"none"}
            /\ rs2[k].status \in Settled <=> rs[k].status \in Settled
            /\ rs2[k].status = "superseded" <=> rs[k].status = "superseded"
            /\ k # i => rs2[k].status = rs[k].status
      BY DEF Turns, Quiet, QuietRow, Final, Settled
<1>2. ReconciledOnce(rs2)
      BY <1>1 DEF Needed, ReconciledOnce, Reconciling
<1>3. ComparedIsOver(rs2)
      BY <1>1 DEF Needed, ComparedIsOver
<1>4. \A k \in DOMAIN rs : Held(rs, k) => Held(rs2, k)
      BY <1>1 DEF Held, Open
<1>5. \A g : Moves(rs2, g) => Moves(rs, g)
      BY <1>1 DEF Moves
<1>6. ASSUME NEW r \in DOMAIN rs2, rs2[r].purpose = "reconciliation", rs2[r].status \notin Settled
      PROVE  IsNeeded(rs2, r)
  <2>1. IsNeeded(rs, r) /\ r \in DOMAIN rs
        BY <1>1, <1>6 DEF Needed
  <2>2. \A k \in DOMAIN rs : Stranded(rs, k) => Stranded(rs2, k)
        BY <1>1, <1>4, <1>5 DEF Stranded
  <2> QED BY <1>1, <1>4, <2>1, <2>2 DEF IsNeeded
<1> QED BY <1>2, <1>3, <1>6 DEF Needed

\* A row leaves for a reconciliation.  When it is one itself, what it was there for
\* is stranded.
LEMMA LeavingNeeded ==
    ASSUME NEW p, NEW rs, Well(p, rs), p # NoPlan => GoodPlan(p), NEW i \in DOMAIN rs, NEW rs1,
           Leaves(rs, rs1, i), rs[i].status = "running",
           NEW rs2, NEW n, OneMore(rs1, rs2, n), rs2[n].purpose = "reconciliation",
           rs2[n].status = "ready", rs2[n].group = i, Needed(rs)
    PROVE  Needed(rs2)
<1>1. /\ DOMAIN rs2 = DOMAIN rs \union {n} /\ n \notin DOMAIN rs /\ n \in DOMAIN rs2
      /\ \A k \in DOMAIN rs : k \in DOMAIN rs2
      /\ \A k \in DOMAIN rs \ {i} : rs2[k] = rs[k]
      /\ rs2[i].group = i /\ rs2[i].status = "verification_failed"
      /\ rs2[i].purpose = rs[i].purpose
      BY DEF Leaves, OneMore, Quiet, QuietRow
<1>2. rs[i].group # i /\ \A r \in DOMAIN rs : rs[r].purpose = "reconciliation" => rs[r].group # i
      BY OpenIsInGroup DEF Open
<1>3. \A k \in DOMAIN rs : rs[k].purpose # "reconciliation" => rs[k].group # i
      BY <1>2, OwnGroup
<1>4. ReconciledOnce(rs2)
  <2> SUFFICES ASSUME NEW r \in DOMAIN rs2, NEW q \in DOMAIN rs2, Reconciling(rs2, r), Reconciling(rs2, q),
                      rs2[r].group = rs2[q].group
               PROVE  r = q
      BY DEF ReconciledOnce
  <2>1. r # i /\ q # i
        BY <1>1 DEF Reconciling
  <2>2. CASE r = n \/ q = n
        BY <1>1, <1>2, <2>1, <2>2 DEF Reconciling
  <2>3. CASE r # n /\ q # n
    <3>1. r \in DOMAIN rs \ {i} /\ q \in DOMAIN rs \ {i}
          BY <1>1, <2>1, <2>3
    <3> QED BY <1>1, <3>1 DEF Needed, ReconciledOnce, Reconciling
  <2> QED BY <2>2, <2>3
<1>5. ComparedIsOver(rs2)
  <2> SUFFICES ASSUME NEW r \in DOMAIN rs2, NEW k \in DOMAIN rs2, rs2[r].purpose = "reconciliation",
                      rs2[k].purpose # "reconciliation", rs2[k].group = rs2[r].group
               PROVE  rs2[k].status \notin Open \union {"none"}
      BY DEF ComparedIsOver
  <2>1. CASE k = i
        BY <1>1, <2>1 DEF Open
  <2>2. CASE k # i
    <3>1. k \in DOMAIN rs \ {i} /\ rs2[k] = rs[k] /\ rs[k].group # i
          BY <1>1, <1>3, <2>2
    <3>2. r \in DOMAIN rs \ {i} /\ rs2[r] = rs[r]
          BY <1>1, <3>1
    <3> QED BY <3>1, <3>2 DEF Needed, ComparedIsOver
  <2> QED BY <2>1, <2>2
<1>6. \A k \in DOMAIN rs : Held(rs, k) => Held(rs2, k) /\ k # i /\ rs2[k] = rs[k]
      BY <1>1 DEF Held
<1>7. \A g : g # i /\ Moves(rs2, g) => Moves(rs, g)
      BY <1>1 DEF Moves, Open
<1>8. \A k \in DOMAIN rs : Stranded(rs, k) => Stranded(rs2, k)
      BY <1>3, <1>6, <1>7 DEF Stranded, Held
<1>9. CASE rs[i].purpose = "reconciliation"
  <2>1. \E k \in DOMAIN rs2 : Stranded(rs2, k)
    <3>1. IsNeeded(rs, i)
          BY <1>9 DEF Needed, Settled
    <3>2. ASSUME NEW k \in DOMAIN rs, Held(rs, k), rs[k].group = rs[i].group PROVE Stranded(rs2, k)
      <4>1. ASSUME NEW j \in DOMAIN rs2, rs2[j].group = rs[i].group, rs2[j].status \in Open \union {"none"}
            PROVE  FALSE
        <5>1. j \in DOMAIN rs \ {i} /\ rs2[j] = rs[j]
              BY <1>1, <1>2, <4>1 DEF Open
        <5>2. rs[j].purpose = "reconciliation"
              BY <1>9, <4>1, <5>1 DEF Needed, ComparedIsOver
        <5>3. rs[j].status # "none"
              BY <5>1, <5>2 DEF Well, WaitsFor
        <5>4. rs[j].group # j
              BY <4>1, <5>1, <5>3, OpenIsInGroup
        <5>5. Reconciling(rs, j) /\ Reconciling(rs, i)
              BY <1>2, <1>9, <4>1, <5>1, <5>2, <5>4 DEF Reconciling, Open
        <5> QED BY <4>1, <5>1, <5>5 DEF Needed, ReconciledOnce
      <4> QED BY <1>6, <3>2, <4>1 DEF Stranded, Moves
    <3> QED BY <1>1, <1>8, <3>1, <3>2 DEF IsNeeded
  <2>2. \A r \in DOMAIN rs2 : IsNeeded(rs2, r)
        BY <2>1 DEF IsNeeded
  <2> QED BY <1>4, <1>5, <2>2 DEF Needed
<1>10. CASE rs[i].purpose # "reconciliation"
  <2> SUFFICES ASSUME NEW r \in DOMAIN rs2, rs2[r].purpose = "reconciliation", rs2[r].status \notin Settled
               PROVE  IsNeeded(rs2, r)
      BY <1>4, <1>5 DEF Needed
  <2>1. CASE r = n
        BY <1>1, <1>10, <2>1 DEF IsNeeded, Held
  <2>2. CASE r # n
    <3>1. r \in DOMAIN rs \ {i} /\ rs2[r] = rs[r]
          BY <1>1, <1>10, <2>2
    <3>2. IsNeeded(rs, r)
          BY <3>1 DEF Needed
    <3> QED BY <1>1, <1>6, <1>8, <3>1, <3>2 DEF IsNeeded
  <2> QED BY <2>1, <2>2
<1> QED BY <1>9, <1>10

\* The competition of row i is compared.
LEMMA ComparisonNeeded ==
    ASSUME NEW p, NEW rs, Well(p, rs), Waiting(p, rs), NEW i \in DOMAIN rs, rs[i].status = "running",
           NEW g, g = rs[i].group, Competing(rs, i), NEW rs1, Turns(rs, rs1, i, "verification_pending"),
           \A k \in DOMAIN rs : /\ rs[k].purpose # "reconciliation" /\ rs[k].group = g
                                /\ rs[k].status # "none"
                                => rs1[k].status = "verification_pending",
           ~HasComparison(rs, g), NEW rs2, NEW n, OneMore(rs1, rs2, n),
           rs2[n].purpose = "reconciliation", rs2[n].status = "ready", rs2[n].group = g, Needed(rs)
    PROVE  Needed(rs2)
<1>1. /\ DOMAIN rs2 = DOMAIN rs \union {n} /\ n \notin DOMAIN rs /\ n \in DOMAIN rs2
      /\ \A k \in DOMAIN rs :
            /\ k \in DOMAIN rs2 /\ rs2[k] = rs1[k]
            /\ rs2[k].group = rs[k].group /\ rs2[k].purpose = rs[k].purpose
            /\ rs2[k].status \in Open \union {"none"} => rs[k].status \in Open \union {"none"}
            /\ rs2[k].status \in Settled <=> rs[k].status \in Settled
            /\ rs2[k].status = "superseded" <=> rs[k].status = "superseded"
            /\ k # i => rs2[k].status = rs[k].status
      /\ rs2[i].status = "verification_pending"
      BY DEF Turns, OneMore, Quiet, QuietRow, Final, Settled
<1>2. \A r \in DOMAIN rs : rs[r].purpose = "reconciliation" => rs[r].group # g
      BY DEF HasComparison
<1>3. ReconciledOnce(rs2)
  <2> SUFFICES ASSUME NEW r \in DOMAIN rs2, NEW q \in DOMAIN rs2, Reconciling(rs2, r), Reconciling(rs2, q),
                      rs2[r].group = rs2[q].group
               PROVE  r = q
      BY DEF ReconciledOnce
  <2>1. CASE r = n \/ q = n
        BY <1>1, <1>2, <2>1 DEF Reconciling
  <2>2. CASE r # n /\ q # n
    <3>1. r \in DOMAIN rs /\ q \in DOMAIN rs
          BY <1>1, <2>2
    <3>2. Reconciling(rs, r) /\ Reconciling(rs, q) /\ rs[r].group = rs[q].group
          BY <1>1, <3>1 DEF Reconciling
    <3> QED BY <3>1, <3>2 DEF Needed, ReconciledOnce
  <2> QED BY <2>1, <2>2
<1>4. ComparedIsOver(rs2)
  <2> SUFFICES ASSUME NEW r \in DOMAIN rs2, NEW k \in DOMAIN rs2, rs2[r].purpose = "reconciliation",
                      rs2[k].purpose # "reconciliation", rs2[k].group = rs2[r].group
               PROVE  rs2[k].status \notin Open \union {"none"}
      BY DEF ComparedIsOver
  <2>1. k \in DOMAIN rs /\ rs[k].purpose # "reconciliation"
        BY <1>1
  <2>2. CASE r = n
    <3>1. rs[k].group = g
          BY <1>1, <2>1, <2>2
    <3>2. Competing(rs, k)
      <4>1. g \in Group /\ g # NoGroup
            BY Bounds DEF Competing, NoGroup
      <4>2. rs[k] \in Row /\ rs[k].purpose # "planning"
            BY <2>1, <3>1, <4>1, RowsOf DEF Well, Rooted, PlansOnly
      <4> QED BY <2>1, <3>1, <4>1, <4>2, RowFields DEF Competing
    <3>3. rs[k].status # "none"
          BY <2>1, <3>1, <3>2 DEF Waiting, CompeteTogether
    <3>4. rs2[k].status = "verification_pending"
          BY <1>1, <2>1, <3>1, <3>3
    <3> QED BY <3>4 DEF Open
  <2>3. CASE r # n
    <3>1. r \in DOMAIN rs /\ rs[r].purpose = "reconciliation" /\ rs[k].group = rs[r].group
          BY <1>1, <2>1, <2>3
    <3>2. rs[k].status \notin Open \union {"none"}
          BY <2>1, <3>1 DEF Needed, ComparedIsOver
    <3> QED BY <1>1, <2>1, <3>2
  <2> QED BY <2>2, <2>3
<1>5. \A k \in DOMAIN rs : Held(rs, k) => Held(rs2, k) /\ k # i
      BY <1>1 DEF Held
<1>6. ASSUME NEW k \in DOMAIN rs, Stranded(rs, k) PROVE Stranded(rs2, k)
  <2>1. rs[k].group # g
        BY <1>6 DEF Stranded, Moves, Open
  <2>2. Moves(rs2, rs[k].group) => Moves(rs, rs[k].group)
        BY <1>1, <2>1 DEF Moves
  <2> QED BY <1>1, <1>5, <1>6, <2>2 DEF Stranded
<1>7. ASSUME NEW r \in DOMAIN rs2, rs2[r].purpose = "reconciliation", rs2[r].status \notin Settled
      PROVE  IsNeeded(rs2, r)
  <2>1. CASE r = n
    <3>1. Held(rs2, i) /\ rs2[i].group = rs2[n].group
          BY <1>1 DEF Held, Competing
    <3> QED BY <1>1, <2>1, <3>1 DEF IsNeeded
  <2>2. CASE r # n
    <3>1. r \in DOMAIN rs /\ rs[r].purpose = "reconciliation" /\ rs[r].status \notin Settled
          /\ rs2[r].group = rs[r].group
          BY <1>1, <1>7, <2>2
    <3>2. IsNeeded(rs, r)
          BY <3>1 DEF Needed
    <3> QED BY <1>1, <1>5, <1>6, <3>1, <3>2 DEF IsNeeded
  <2> QED BY <2>1, <2>2
<1> QED BY <1>3, <1>4, <1>7 DEF Needed

\* Row n takes the place of row i.
LEMMA ReplacedNeeded ==
    ASSUME NEW p, NEW rs, Well(p, rs), NEW i \in DOMAIN rs, rs[i].status = "running", NEW rs2, NEW n,
           Replaced(rs, rs2, i, n), Needed(rs)
    PROVE  Needed(rs2)
<1>1. /\ DOMAIN rs2 = DOMAIN rs \union {n} /\ n \notin DOMAIN rs /\ n \in DOMAIN rs2
      /\ \A k \in DOMAIN rs : /\ k \in DOMAIN rs2 /\ rs2[k].group = rs[k].group
                              /\ rs2[k].purpose = rs[k].purpose
                              /\ k # i => rs2[k].status = rs[k].status
      /\ rs2[i].status = "superseded"
      /\ rs2[n].purpose = rs[i].purpose /\ rs2[n].group = rs[i].group /\ rs2[n].status = "ready"
      BY DEF Replaced
<1>2. rs[i].group # i
      BY OpenIsInGroup DEF Open
<1>3. ReconciledOnce(rs2)
  <2> SUFFICES ASSUME NEW r \in DOMAIN rs2, NEW q \in DOMAIN rs2, Reconciling(rs2, r), Reconciling(rs2, q),
                      rs2[r].group = rs2[q].group
               PROVE  r = q
      BY DEF ReconciledOnce
  <2>1. r # i /\ q # i
        BY <1>1 DEF Reconciling
  <2>2. ASSUME NEW k \in DOMAIN rs, k # i, Reconciling(rs2, k), Reconciling(rs2, n),
               rs2[k].group = rs2[n].group
        PROVE  FALSE
    <3>1. Reconciling(rs, k) /\ Reconciling(rs, i) /\ rs[k].group = rs[i].group
          BY <1>1, <1>2, <2>2 DEF Reconciling
    <3> QED BY <2>2, <3>1 DEF Needed, ReconciledOnce
  <2>3. CASE r = n \/ q = n
        BY <1>1, <2>1, <2>2, <2>3
  <2>4. CASE r # n /\ q # n
    <3>1. r \in DOMAIN rs /\ q \in DOMAIN rs
          BY <1>1, <2>4
    <3>2. Reconciling(rs, r) /\ Reconciling(rs, q) /\ rs[r].group = rs[q].group
          BY <1>1, <2>1, <3>1 DEF Reconciling
    <3> QED BY <3>1, <3>2 DEF Needed, ReconciledOnce
  <2> QED BY <2>3, <2>4
<1>4. ComparedIsOver(rs2)
  <2> SUFFICES ASSUME NEW r \in DOMAIN rs2, NEW k \in DOMAIN rs2, rs2[r].purpose = "reconciliation",
                      rs2[k].purpose # "reconciliation", rs2[k].group = rs2[r].group
               PROVE  rs2[k].status \notin Open \union {"none"}
      BY DEF ComparedIsOver
  <2>1. PICK q \in DOMAIN rs : rs[q].purpose = "reconciliation" /\ rs[q].group = rs2[r].group
        BY <1>1
  <2>2. CASE k = n
    <3>1. rs[i].status \notin Open
          BY <1>1, <2>1, <2>2 DEF Needed, ComparedIsOver
    <3> QED BY <3>1 DEF Open
  <2>3. CASE k # n
    <3>1. k \in DOMAIN rs /\ rs[k].status \notin Open \union {"none"}
          BY <1>1, <2>1, <2>3 DEF Needed, ComparedIsOver
    <3> QED BY <1>1, <3>1 DEF Open
  <2> QED BY <2>2, <2>3
<1>5. \A k \in DOMAIN rs : Held(rs, k) => Held(rs2, k)
      BY <1>1 DEF Held
<1>6. \A g : Moves(rs2, g) => Moves(rs, g)
  <2> SUFFICES ASSUME NEW g, NEW j \in DOMAIN rs2, rs2[j].group = g, rs2[j].status \in Open \union {"none"}
               PROVE  Moves(rs, g)
      BY DEF Moves
  <2>1. CASE j = n
        BY <1>1, <2>1 DEF Moves, Open
  <2>2. CASE j # n
    <3>1. j \in DOMAIN rs /\ j # i
          BY <1>1, <2>2 DEF Open
    <3> QED BY <1>1, <3>1 DEF Moves
  <2> QED BY <2>1, <2>2
<1>7. \A k \in DOMAIN rs : Stranded(rs, k) => Stranded(rs2, k)
      BY <1>1, <1>5, <1>6 DEF Stranded
<1>8. ASSUME NEW r \in DOMAIN rs2, rs2[r].purpose = "reconciliation", rs2[r].status \notin Settled
      PROVE  IsNeeded(rs2, r)
  <2>1. PICK q \in DOMAIN rs : /\ rs[q].purpose = "reconciliation" /\ rs[q].status \notin Settled
                               /\ rs[q].group = rs2[r].group
    <3>1. CASE r = n
          BY <1>1, <1>8, <3>1 DEF Settled
    <3>2. CASE r # n
          BY <1>1, <1>8, <3>2 DEF Settled
    <3> QED BY <3>1, <3>2
  <2>2. IsNeeded(rs, q)
        BY <2>1 DEF Needed
  <2> QED BY <1>1, <1>5, <1>7, <2>1, <2>2 DEF IsNeeded
<1> QED BY <1>3, <1>4, <1>8 DEF Needed

\* A Result is accepted: what its reconciliation ends, nobody else reconciles.
LEMMA FinishNeeded ==
    ASSUME NEW p, NEW rs, Well(p, rs), p # NoPlan => GoodPlan(p), NEW i \in DOMAIN rs,
           rs[i].status = "running", NEW rs1, NEW rs2, Finishes(rs, rs1, rs2, i), Needed(rs)
    PROVE  Needed(rs2)
<1>1. DOMAIN rs2 = DOMAIN rs
      BY DEF Finishes, AcceptedTo, AdvancedTo, SameRows
<1>2. \A k \in DOMAIN rs :
         /\ rs2[k].purpose = rs[k].purpose /\ rs2[k].group = rs[k].group
         /\ rs2[k].status \in Open \union {"none"} => rs[k].status \in Open \union {"none"}
         /\ rs2[k].status \notin Settled => rs[k].status \notin Settled /\ k # i
         /\ rs[k].status = "superseded" => rs2[k].status = "superseded"
      BY FinishesRow DEF Open, Settled
<1>3. ReconciledOnce(rs2)
      BY <1>1, <1>2 DEF Needed, ReconciledOnce, Reconciling
<1>4. ComparedIsOver(rs2)
      BY <1>1, <1>2 DEF Needed, ComparedIsOver
<1>5. \A g : Moves(rs2, g) => Moves(rs, g)
      BY <1>1, <1>2 DEF Moves
<1>6. ASSUME NEW k \in DOMAIN rs, Held(rs, k), ~Held(rs2, k)
      PROVE  rs[i].purpose = "reconciliation" /\ rs[k].group = rs[i].group
  <2>1. k # i
        BY <1>6 DEF Held
  <2>2. rs2[k].status # rs[k].status /\ rs[k].status # "none"
        BY <1>2, <1>6 DEF Held
  <2> QED BY <2>1, <2>2, FinishesRow
<1>7. ASSUME NEW k \in DOMAIN rs, Stranded(rs, k) PROVE Stranded(rs2, k)
  <2>1. Held(rs2, k)
    <3>1. rs[k].group # rs[i].group
          BY <1>7 DEF Stranded, Moves, Open
    <3> QED BY <1>6, <1>7, <3>1 DEF Stranded
  <2> QED BY <1>2, <1>5, <1>7, <2>1 DEF Stranded
<1>8. ASSUME NEW r \in DOMAIN rs2, rs2[r].purpose = "reconciliation", rs2[r].status \notin Settled
      PROVE  IsNeeded(rs2, r)
  <2>1. /\ r \in DOMAIN rs /\ rs[r].purpose = "reconciliation" /\ rs[r].status \notin Settled /\ r # i
        BY <1>1, <1>2, <1>8
  <2>2. IsNeeded(rs, r)
        BY <2>1 DEF Needed
  <2>3. ASSUME NEW k \in DOMAIN rs, Held(rs, k), rs[k].group = rs[r].group PROVE Held(rs2, k)
    <3> SUFFICES ASSUME ~Held(rs2, k) PROVE FALSE
        OBVIOUS
    <3>1. rs[i].purpose = "reconciliation" /\ rs[r].group = rs[i].group
          BY <1>6, <2>3
    <3>2. rs[r].group # r
          BY <2>1, <2>3, OwnGroup DEF Held
    <3>3. rs[i].group # i
          BY OpenIsInGroup DEF Open
    <3>4. Reconciling(rs, r) /\ Reconciling(rs, i)
          BY <2>1, <3>1, <3>2, <3>3 DEF Reconciling, Settled
    <3> QED BY <2>1, <3>1, <3>4 DEF Needed, ReconciledOnce
  <2> QED BY <1>1, <1>2, <1>7, <2>1, <2>2, <2>3 DEF IsNeeded
<1> QED BY <1>3, <1>4, <1>8 DEF Needed

LEMMA NobodyReconciles ==
    ASSUME NEW rs, \A r \in DOMAIN rs : rs[r].purpose # "reconciliation"
    PROVE  Needed(rs)
BY DEF Needed, ReconciledOnce, Reconciling, ComparedIsOver
-----------------------------------------------------------------------------
(* A complete Commission stays complete, action by action.                 *)

\* What is left to show of a step that keeps the plan and ends no Commission.
LEMMA EndStep ==
    ASSUME EndInv, UNCHANGED <<plan, cStatus>>, Needed(row'),
           EveryAssignmentAccepted(row) => EveryAssignmentAccepted(row') /\ Passed(row') = Passed(row)
    PROVE  EndInv'
<1>1. CompleteIsDone'
      BY DEF EndInv, CompleteIsDone
<1> QED BY <1>1 DEF EndInv

LEMMA QuietEnds ==
    ASSUME NEW rs, NEW rs2, Quiet(rs, rs2)
    PROVE  /\ EveryAssignmentAccepted(rs) => EveryAssignmentAccepted(rs2)
           /\ Passed(rs2) = Passed(rs)
<1>1. DOMAIN rs2 = DOMAIN rs
      BY DEF Quiet
<1> QED BY <1>1, SettledAlike DEF EveryAssignmentAccepted, Passed

LEMMA OneMoreEnds ==
    ASSUME NEW rs, NEW rs2, NEW n, OneMore(rs, rs2, n), rs2[n].purpose = "reconciliation",
           rs2[n].status = "ready"
    PROVE  /\ EveryAssignmentAccepted(rs) => EveryAssignmentAccepted(rs2)
           /\ Passed(rs2) = Passed(rs)
<1>1. Passed(rs2) = Passed(rs)
      BY DEF Passed, OneMore
<1> QED BY <1>1 DEF EveryAssignmentAccepted, OneMore

LEMMA TurnEnd ==
    ASSUME EndInv, NEW i \in Rows, NEW s, Turns(row, row', i, s), row[i].status \in Open,
           UNCHANGED <<plan, cStatus>>
    PROVE  EndInv'
<1>1. i \in DOMAIN row /\ Needed(row) /\ Quiet(row, row')
      BY DEF Rows, EndInv, Turns
<1>2. Needed(row')
      BY <1>1, TurnNeeded
<1> QED BY <1>1, <1>2, QuietEnds, EndStep

\* A row gets a status that is not final.
LEMMA StatusEnd ==
    ASSUME IndInv, EndInv, NEW i \in Rows, NEW s \in Status, s \notin Final, row[i].status \in Open,
           row' = [row EXCEPT ![i].status = s], UNCHANGED <<plan, cStatus>>
    PROVE  EndInv'
<1>1. row \in Seq(Row) /\ i \in DOMAIN row
      BY DEF Rows, IndInv, Well
<1>2. Turns(row, row', i, s)
      BY <1>1, StatusQuiet
<1> QED BY <1>2, TurnEnd

LEMMA DispatchEnd ==
    ASSUME IndInv, EndInv, NEW i \in Rows, Dispatch(i)
    PROVE  EndInv'
<1>1. row[i].status \in Open /\ UNCHANGED <<plan, cStatus>>
      BY DEF Dispatch, Selectable, With, Open
<1>2. PICK s \in {"running", "resource_blocked"} : row' = [row EXCEPT ![i].status = s]
      BY DEF Dispatch
<1>3. s \in Status /\ s \notin Final
      BY <1>2, Statuses DEF Final
<1> QED BY <1>1, <1>2, <1>3, StatusEnd

LEMMA FailAttemptEnd ==
    ASSUME IndInv, EndInv, NEW i \in Rows, FailAttempt(i)
    PROVE  EndInv'
<1>1. row[i].status \in Open /\ UNCHANGED <<plan, cStatus>>
      BY DEF FailAttempt, Open
<1>2. PICK s \in {"ready", "resource_blocked", "verification_failed"} : row' = [row EXCEPT ![i].status = s]
      BY DEF FailAttempt
<1>3. s \in Status /\ s \notin Final
      BY <1>2, Statuses DEF Final
<1> QED BY <1>1, <1>2, <1>3, StatusEnd

LEMMA FailureEnd ==
    ASSUME IndInv, EndInv, NEW i \in Rows, row[i].status = "running",
           row' = [row EXCEPT ![i].status = "verification_failed"], UNCHANGED <<plan, cStatus>>
    PROVE  EndInv'
<1>1. PICK s \in Status : s = "verification_failed"
      BY Statuses
<1>2. s \notin Final /\ row[i].status \in Open
      BY <1>1 DEF Final, Open
<1> QED BY <1>1, <1>2, StatusEnd

LEMMA CandidateFailsEnd ==
    ASSUME IndInv, EndInv, NEW i \in Rows, CandidateFails(i)
    PROVE  EndInv'
<1>1. Works(i) /\ UNCHANGED <<plan, cStatus>>
      BY DEF CandidateFails
<1>2. /\ row \in Seq(Row) /\ i \in DOMAIN row /\ row[i].status = "running" /\ row[i].purpose # "planning"
      /\ Well(plan, row) /\ Needed(row)
      BY <1>1, WorksFacts DEF Rows, IndInv, EndInv
<1>3. CASE row' = [row EXCEPT ![i].status = "verification_failed"]
      BY <1>1, <1>2, <1>3, FailureEnd
<1>4. CASE row' = [row EXCEPT ![i].status = "ready", ![i].failed = TRUE]
  <2>1. PICK b \in BOOLEAN : b = TRUE
        OBVIOUS
  <2>2. row' = [row EXCEPT ![i].status = "ready", ![i].failed = b]
        BY <1>4, <2>1
  <2>3. Turns(row, row', i, "ready") /\ row[i].status \in Open
        BY <1>2, <2>2, RetryQuiet DEF Open
  <2> QED BY <1>1, <2>3, TurnEnd
<1>5. CASE row' = Replace(i)
  <2>1. PICK n : n = Len(row) + 1
        OBVIOUS
  <2>2. Replaced(row, row', i, n)
        BY <1>2, <1>5, <2>1, ReplaceReplaces DEF Rows
  <2>3. Needed(row')
        BY <1>2, <2>2, ReplacedNeeded
  <2>4. ASSUME EveryAssignmentAccepted(row)
        PROVE  EveryAssignmentAccepted(row') /\ Passed(row') = Passed(row)
    <3>1. row[i].purpose = "reconciliation"
          BY <1>2, <2>4 DEF EveryAssignmentAccepted, Settled
    <3>2. /\ DOMAIN row' = DOMAIN row \union {n} /\ n \notin DOMAIN row
          /\ \A k \in DOMAIN row : /\ row'[k].purpose = row[k].purpose /\ row'[k].owns = row[k].owns
                                   /\ k # i => row'[k].status = row[k].status
          /\ row'[i].status = "superseded" /\ row'[n].purpose = "reconciliation"
          /\ row'[n].status = "ready"
          BY <1>2, <2>2, <3>1 DEF Replaced
    <3>3. EveryAssignmentAccepted(row')
          BY <2>4, <3>1, <3>2 DEF EveryAssignmentAccepted
    <3>4. Passed(row') = Passed(row)
          BY <1>2, <3>2 DEF Passed
    <3> QED BY <3>3, <3>4
  <2> QED BY <1>1, <2>3, <2>4, EndStep
<1> QED BY <1>3, <1>4, <1>5 DEF CandidateFails

LEMMA RequireReconciliationEnd ==
    ASSUME IndInv, EndInv, NEW i \in Rows, NEW paths \in SUBSET Path, RequireReconciliation(i, paths)
    PROVE  EndInv'
<1>1. Works(i) /\ UNCHANGED <<plan, cStatus>>
      BY DEF RequireReconciliation
<1>2. /\ row \in Seq(Row) /\ (plan # NoPlan => GoodPlan(plan)) /\ i \in DOMAIN row /\ i \in Nat
      /\ row[i].status = "running" /\ row[i].purpose # "planning" /\ row[i] \in Row
      /\ Well(plan, row) /\ Needed(row)
      BY <1>1, WorksFacts DEF Rows, IndInv, EndInv
<1>3. PICK rs1 : rs1 = [row EXCEPT ![i].status = "verification_failed", ![i].group = i]
      OBVIOUS
<1>4. Leaves(row, rs1, i)
      BY <1>2, <1>3, LeaveQuiet
<1>5. Quiet(row, rs1) /\ rs1 \in Seq(Row)
      BY <1>4 DEF Leaves, Quiet
<1>6. PICK r : r = Added("reconciliation", row[i].owns, paths, i)
      OBVIOUS
<1>7. r \in Row /\ r.purpose = "reconciliation" /\ r.status = "ready" /\ r.group = i
      BY <1>2, <1>6, RowFields, AddedRow
<1>8. row' = Append(rs1, r)
      BY <1>3, <1>6 DEF RequireReconciliation
<1>9. PICK n : n = Len(rs1) + 1
      OBVIOUS
<1>10. OneMore(rs1, row', n) /\ row'[n] = r
      BY <1>5, <1>7, <1>8, <1>9, RowsAppended, RowsOf DEF OneMore
<1>11. Needed(row')
       BY <1>2, <1>4, <1>7, <1>10, LeavingNeeded
<1>12. /\ EveryAssignmentAccepted(row) => EveryAssignmentAccepted(row')
       /\ Passed(row') = Passed(row)
  <2>1. EveryAssignmentAccepted(row) => EveryAssignmentAccepted(rs1)
        BY <1>5, QuietEnds
  <2>2. Passed(rs1) = Passed(row)
        BY <1>5, QuietEnds
  <2> QED BY <1>7, <1>10, <2>1, <2>2, OneMoreEnds
<1> QED BY <1>1, <1>11, <1>12, EndStep

LEMMA FinishCompetingEnd ==
    ASSUME IndInv, ProgressInv, EndInv, NEW i \in Rows, FinishCompetingCandidate(i)
    PROVE  EndInv'
<1>1. Works(i) /\ IsCandidateOfCompetition(i) /\ UNCHANGED <<plan, cStatus>>
      BY DEF FinishCompetingCandidate
<1>2. /\ row \in Seq(Row) /\ (plan # NoPlan => GoodPlan(plan)) /\ i \in DOMAIN row
      /\ row[i].status = "running" /\ row[i] \in Row /\ row[i].purpose # "planning"
      /\ Well(plan, row) /\ Waiting(plan, row) /\ Needed(row)
      BY <1>1, WorksFacts DEF Rows, IndInv, ProgressInv, EndInv
<1>3. PICK rs1 : rs1 = [row EXCEPT ![i].status = "verification_pending"]
      OBVIOUS
<1>4. Turns(row, rs1, i, "verification_pending")
  <2>1. "verification_pending" \in Status /\ "verification_pending" \notin Final
        BY Statuses DEF Final
  <2> QED BY <1>2, <1>3, <2>1, StatusQuiet DEF Open
<1>5. Quiet(row, rs1) /\ rs1 \in Seq(Row)
      BY <1>4 DEF Turns, Quiet
<1>6. PICK g : g = row[i].group
      OBVIOUS
<1>7. Competing(row, i)
  <2>1. row[i].purpose = "work" /\ row[i].group # NoGroup /\ row[i].group # i
        BY <1>1, <1>2, RowFields DEF IsCandidateOfCompetition, Well, LeftIsOver, Open
  <2> QED BY <1>2, <2>1, GroupOfRow DEF Competing
<1>8. CASE row' = rs1
  <2>1. Turns(row, row', i, "verification_pending") /\ row[i].status \in Open
        BY <1>2, <1>4, <1>8 DEF Open
  <2> QED BY <1>1, <2>1, TurnEnd
<1>9. CASE /\ row' = Append(rs1, ComparisonRow(g)) /\ ~Compared(g)
           /\ \A j \in Contenders(g) : rs1[j].status = "verification_pending"
  <2>1. PICK r : r = ComparisonRow(g)
        OBVIOUS
  <2>2. MayReconcile(plan, rs1, r) /\ r.group = g
        BY <1>1, <1>4, <1>6, <2>1, ComparisonMay
  <2>3. r \in Row /\ r.purpose = "reconciliation" /\ r.status = "ready" /\ row' = Append(rs1, r)
        BY <1>9, <2>1, <2>2 DEF MayReconcile
  <2>4. PICK n : n = Len(rs1) + 1
        OBVIOUS
  <2>5. OneMore(rs1, row', n) /\ row'[n] = r
        BY <1>5, <2>3, <2>4, RowsAppended, RowsOf DEF OneMore
  <2>6. \A k \in DOMAIN row : /\ row[k].purpose # "reconciliation" /\ row[k].group = g
                              /\ row[k].status # "none"
                              => rs1[k].status = "verification_pending"
        BY <1>9 DEF Contenders, GroupRows, Rows
  <2>7. ~HasComparison(row, g)
        BY <1>9 DEF HasComparison, Compared, Rows
  <2>8. Needed(row')
        BY <1>2, <1>4, <1>6, <1>7, <2>2, <2>3, <2>5, <2>6, <2>7, ComparisonNeeded
  <2>9. ~EveryAssignmentAccepted(row)
        BY <1>2, <1>7 DEF EveryAssignmentAccepted, Competing, Settled
  <2> QED BY <1>1, <2>8, <2>9, EndStep
<1> QED BY <1>3, <1>6, <1>8, <1>9 DEF FinishCompetingCandidate

\* Accepted rows stay, and one more is accepted.
LEMMA FinishPlannedEnd ==
    ASSUME IndInv, IndInv', EndInv, NEW i \in Rows, FinishPlannedAssignment(i)
    PROVE  EndInv'
<1>1. /\ Works(i) /\ plan' = plan /\ row' = Advanced(Accepted(i))
      /\ cStatus' = IF EveryAssignmentAccepted(row') /\ Passed(row') = DOMAIN plan
                    THEN "verified_complete" ELSE cStatus
      BY DEF FinishPlannedAssignment
<1>2. /\ row \in Seq(Row) /\ i \in DOMAIN row /\ row[i].status = "running"
      /\ (plan # NoPlan => GoodPlan(plan)) /\ Well(plan, row) /\ Well(plan, row') /\ Needed(row)
      BY <1>1, WorksFacts DEF Rows, IndInv, EndInv
<1>3. PICK rs1 : Finishes(row, rs1, row', i)
      BY <1>1, <1>2, FinishFinishes
<1>4. Needed(row')
      BY <1>2, <1>3, FinishNeeded
<1>5. DOMAIN row' = DOMAIN row
      BY <1>3 DEF Finishes, AcceptedTo, AdvancedTo, SameRows
<1>6. \A k \in DOMAIN row :
         /\ row'[k].purpose = row[k].purpose /\ row'[k].owns = row[k].owns
         /\ row[k].status = "accepted" => row'[k].status = "accepted"
         /\ row[k].status \in Settled => row'[k].status \in Settled
      BY <1>2, <1>3, FinishesRow DEF Settled
<1>7. ASSUME cStatus' = "verified_complete"
      PROVE  EveryAssignmentAccepted(row') /\ Passed(row') = DOMAIN plan
  <2>1. CASE cStatus # "verified_complete"
        BY <1>1, <1>7, <2>1
  <2>2. CASE cStatus = "verified_complete"
    <3>1. EveryAssignmentAccepted(row) /\ Passed(row) = DOMAIN plan
          BY <2>2 DEF EndInv, CompleteIsDone
    <3>2. EveryAssignmentAccepted(row')
          BY <1>5, <1>6, <3>1 DEF EveryAssignmentAccepted
    <3>3. Passed(row) \subseteq Passed(row')
          BY <1>5, <1>6 DEF Passed
    <3>4. Passed(row') \subseteq DOMAIN plan
          BY <1>2, OwnsItems DEF Passed
    <3> QED BY <3>1, <3>2, <3>3, <3>4
  <2> QED BY <2>1, <2>2
<1> QED BY <1>1, <1>4, <1>7 DEF EndInv, CompleteIsDone

\* While there is a planner, nobody reconciles and nothing is complete.
LEMMA PlansEnd ==
    ASSUME IndInv, EndInv, NEW i \in Rows, Plans(i), cStatus' = cStatus,
           \A j \in DOMAIN row' : row'[j].purpose # "reconciliation"
    PROVE  EndInv'
<1>1. cStatus # "verified_complete"
      BY DEF EndInv, CompleteIsDone, EveryAssignmentAccepted, Plans, Rows, Settled
<1>2. Needed(row')
      BY NobodyReconciles
<1> QED BY <1>1, <1>2 DEF EndInv, CompleteIsDone

LEMMA PlanAcceptedEnd ==
    ASSUME IndInv, EndInv, NEW i \in Rows, PlanAccepted(i)
    PROVE  EndInv'
<1>1. Plans(i) /\ cStatus' = cStatus
      BY DEF PlanAccepted
<1>2. /\ RoundsOnly(row) /\ i \in DOMAIN row /\ row \in Seq(Row)
      /\ \A j \in DOMAIN row : row[j].status \in Open => j = i
      BY <1>1, PlansFacts
<1>3. PICK p \in Plan : /\ ValidProposal(p)
                        /\ row' = [row EXCEPT ![i].status = "accepted"] \o PlanRows(p, Len(row))
      BY DEF PlanAccepted
<1>4. PICK available : ValidPlan(p, available)
      BY <1>3 DEF ValidProposal
<1>5. GoodPlan(p)
      BY <1>4, PlanIsGood DEF ValidPlan
<1>6. PICK rs1 : rs1 = [row EXCEPT ![i].status = "accepted"]
      OBVIOUS
<1>7. "accepted" \in Status /\ "accepted" \notin Open \union {"none"}
      BY Statuses DEF Open
<1>8. RoundsOnly(rs1) /\ Len(rs1) = Len(row)
      BY <1>2, <1>6, <1>7, RoundEnds
<1>9. PICK n : n = Len(row)
      OBVIOUS
<1>10. PlannedFrom(p, rs1, n, row')
  <2>1. rs1 \in Seq(Row) /\ row' = rs1 \o PlanRows(p, n)
        BY <1>3, <1>6, <1>8, <1>9 DEF RoundsOnly
  <2> QED BY <1>5, <1>8, <1>9, <2>1, PlannedIs
<1>11. ASSUME NEW j \in DOMAIN row' PROVE row'[j].purpose # "reconciliation"
  <2>1. CASE j \in DOMAIN rs1
        BY <1>8, <1>10, <2>1 DEF PlannedFrom, RoundsOnly
  <2>2. ASSUME NEW o \in DOMAIN p, j = n + o PROVE row'[j].purpose = "work"
        BY <1>5, <1>10, <2>2, PlannedRow
  <2> QED BY <1>5, <1>10, <2>1, <2>2, PlannedIndex
<1> QED BY <1>1, <1>11, PlansEnd

LEMMA PlanRejectedEnd ==
    ASSUME IndInv, EndInv, NEW i \in Rows, PlanRejected(i)
    PROVE  EndInv'
<1>1. Plans(i) /\ UNCHANGED <<plan, cStatus>>
      BY DEF PlanRejected
<1>2. /\ RoundsOnly(row) /\ i \in DOMAIN row /\ row \in Seq(Row)
      /\ \A j \in DOMAIN row : row[j].status \in Open => j = i
      BY <1>1, PlansFacts
<1>3. CASE row' = Append([row EXCEPT ![i].status = "superseded"], PlanningRow(Len(row) + 1))
  <2>1. PICK rs1 : rs1 = [row EXCEPT ![i].status = "superseded"]
        OBVIOUS
  <2>2. "superseded" \in Status /\ "superseded" \notin Open \union {"none"}
        BY Statuses DEF Open
  <2>3. RoundsOnly(rs1) /\ Len(rs1) = Len(row)
        BY <1>2, <2>1, <2>2, RoundEnds
  <2>4. PICK n \in Nat : n = Len(row) + 1
        BY <1>2, RowsOf
  <2>5. PICK r : r = PlanningRow(n)
        OBVIOUS
  <2>6. r \in Row /\ r.purpose = "planning"
        BY <2>5, PlanningRowIs
  <2>7. row' = Append(rs1, r) /\ rs1 \in Seq(Row)
        BY <1>3, <2>1, <2>3, <2>4, <2>5 DEF RoundsOnly
  <2>8. /\ DOMAIN row' = DOMAIN rs1 \union {n} /\ row'[n] = r
        /\ \A j \in DOMAIN rs1 : row'[j] = rs1[j]
        BY <2>3, <2>4, <2>6, <2>7, RowsAppended
  <2>9. \A j \in DOMAIN row' : row'[j].purpose # "reconciliation"
        BY <2>3, <2>6, <2>8 DEF RoundsOnly
  <2> QED BY <1>1, <2>9, PlansEnd
<1>4. CASE row' = [row EXCEPT ![i].status = "verification_failed"]
      BY <1>1, <1>4, FailureEnd DEF Plans
<1> QED BY <1>3, <1>4 DEF PlanRejected

LEMMA InitEnd ==
    ASSUME Init
    PROVE  EndInv
<1>1. CompleteIsDone
      BY DEF Init, CompleteIsDone
<1>2. CASE plan \in PrincipalPlans /\ row = PlanRows(plan, 0)
  <2>1. plan \in Plan /\ ValidPlan(plan, maxAttempts)
        BY <1>2 DEF PrincipalPlans
  <2>2. GoodPlan(plan)
        BY <2>1, PlanIsGood DEF ValidPlan
  <2>3. DOMAIN row = DOMAIN plan
        BY <1>2 DEF PlanRows
  <2>4. \A j \in DOMAIN row : row[j].purpose = "work"
        BY <1>2, <2>2, <2>3, PlanRow
  <2>5. Needed(row)
        BY <2>4, NobodyReconciles
  <2> QED BY <1>1, <2>5 DEF EndInv
<1>3. CASE row = <<PlanningRow(1)>>
  <2>1. PICK r : r = PlanningRow(1)
        OBVIOUS
  <2>2. r \in Row /\ r.purpose = "planning"
        BY <2>1, PlanningRowIs
  <2>3. row = <<r>>
        BY <1>3, <2>1
  <2>4. DOMAIN row = {1} /\ row[1] = r
        BY <2>2, <2>3
  <2>5. Needed(row)
        BY <2>2, <2>4, NobodyReconciles
  <2> QED BY <1>1, <2>5 DEF EndInv
<1> QED BY <1>2, <1>3 DEF Init

LEMMA NextEnd ==
    ASSUME IndInv, IndInv', ProgressInv, EndInv, [Next]_vars
    PROVE  EndInv'
<1>1. CASE UNCHANGED vars
      BY <1>1 DEF vars, mandateVars, EndInv, CompleteIsDone
<1>2. ASSUME NEW i \in Rows, Dispatch(i) PROVE EndInv'
      BY <1>2, DispatchEnd
<1>3. ASSUME NEW i \in Rows, Settle(i) PROVE EndInv'
  <2>1. CASE FailAttempt(i)
        BY <1>3, <2>1, FailAttemptEnd
  <2>2. CASE PlanAccepted(i)
        BY <1>3, <2>2, PlanAcceptedEnd
  <2>3. CASE PlanRejected(i)
        BY <1>3, <2>3, PlanRejectedEnd
  <2>4. CASE VerifierCannotRun(i)
        BY <1>3, <2>4, FailureEnd DEF VerifierCannotRun, Works
  <2>5. CASE CandidateFails(i)
        BY <1>3, <2>5, CandidateFailsEnd
  <2>6. ASSUME NEW paths \in SUBSET Path \ {{}}, RequireReconciliation(i, paths) PROVE EndInv'
        BY <1>3, <2>6, RequireReconciliationEnd
  <2>7. CASE FinishCompetingCandidate(i)
        BY <1>3, <2>7, FinishCompetingEnd
  <2>8. CASE FinishPlannedAssignment(i)
        BY <1>3, <2>8, FinishPlannedEnd
  <2> QED BY <1>3, <2>1, <2>2, <2>3, <2>4, <2>5, <2>6, <2>7, <2>8 DEF Settle
<1> QED BY <1>1, <1>2, <1>3 DEF Next

LEMMA EndMeansOver ==
    ASSUME EndInv
    PROVE  PlanIsOver
<1> SUFFICES ASSUME cStatus = "verified_complete", NEW j \in DOMAIN row, row[j].status \notin Settled
             PROVE  FALSE
    BY DEF PlanIsOver, EndInv, CompleteIsDone, Rows
<1>1. EveryAssignmentAccepted(row)
      BY DEF EndInv, CompleteIsDone
<1>2. row[j].purpose = "reconciliation"
      BY <1>1 DEF EveryAssignmentAccepted
<1>3. PICK k \in DOMAIN row : Held(row, k)
      BY <1>2 DEF EndInv, Needed, IsNeeded, Stranded
<1> QED BY <1>1, <1>3 DEF Held, EveryAssignmentAccepted, Settled

\* A Commission that is verified complete has accepted work for every item of its
\* plan, and none of its rows is ready, running, waiting or failed, now or later:
\* finish_planned_assignment looks at the plan's own Assignments alone, and it need
\* not look at reconciliations, for one that is not settled is there for a row of
\* the plan that is not settled either.
THEOREM OverCorrect == Spec => []PlanIsOver
<1>1. Init => IndInv /\ ProgressInv /\ EndInv
      BY InitIndInv, InitProgress, InitEnd
<1>2. IndInv /\ ProgressInv /\ EndInv /\ [Next]_vars => (IndInv /\ ProgressInv /\ EndInv)'
      BY NextKeeps, NextProgress, NextEnd
<1>3. EndInv => PlanIsOver
      BY EndMeansOver
<1> QED BY <1>1, <1>2, <1>3, PTL DEF Spec
=============================================================================
