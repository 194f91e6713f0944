-------------------------- MODULE IntegrationProofs --------------------------
(***************************************************************************)
(* Proofs about Integration, for every number of Attempts, every           *)
(* concurrency and every number of faults.                                 *)
(*                                                                         *)
(* The inductive invariant says who may be between integrate and the end   *)
(* of its thread (Locked), what such a thread knows of HEAD, of the record *)
(* and of where it can go back to (Merged), that an author is in the       *)
(* history only from its own integrate on and never after its rollback was *)
(* recorded (Absent), that every accepted revision is below every place HEAD can go *)
(* to (AcceptedBelow), and that somebody is left to clean up while HEAD    *)
(* and the record differ (Accounted).                                      *)
(***************************************************************************)
EXTENDS Integration, FiniteSetTheorems, TLAPS

Begun == {u \in Attempt : status[u] # "none"}

\* Attempts are numbered in the order they are dispatched, and have a thread then.
InOrder ==
    /\ \E k \in 0..AttemptBound : Begun = 1..k
    /\ \A t \in Attempt : status[t] = "none" <=> pc[t] = "none"
    /\ cleanup \subseteq Begun

\* Threads hold the locks for these steps, and no thread outlives the Control Plane.
Locked ==
    /\ \A t \in Attempt : /\ pc[t] \in {"integrate", "commit"} <=> mutex = t
                          /\ pc[t] \in {"commit", "finish", "reconcile"} <=> flock = t
                          /\ ~up => pc[t] \in {"none", "end"}
                          /\ status[t] = "accepted" => pc[t] = "end"

\* An Attempt whose thread is about to change HEAD, or has, is running, or somebody
\* will clean up after it.
Fenced ==
    \A t \in Attempt : pc[t] \in {"integrate", "commit", "finish"} =>
        status[t] = "running" \/ t \in cleanup \/ cancelled

\* A thread that holds the repository has put its commits on top of what it found.
Merged ==
    \A t \in Attempt :
        /\ pc[t] \in {"commit", "finish"} =>
                /\ head = Append(previous[t], [by |-> t, whole |-> TRUE])
                /\ IsPrefix(base[t], previous[t])
        /\ pc[t] = "finish" => artifact = head /\ revision[t] = head

\* No commit of t is in any of them.
NoTrace(t) ==
    /\ t \notin Authors(head) /\ t \notin Authors(artifact)
    /\ \A u \in Attempt : pc[u] \in {"commit", "finish"} => t \notin Authors(previous[u])

\* Before its integrate and once its rollback is recorded there is no trace of an
\* Attempt; what was rolled back is not accepted either way.
Absent ==
    /\ \A t \in Attempt :
        /\ pc[t] \in {"none", "work", "lock", "integrate"} => NoTrace(t)
        /\ pc[t] = "commit" => t \notin Authors(artifact)
        /\ pc[t] \in {"commit", "finish"} => t \notin Authors(previous[t])
    /\ \A t \in undone : /\ pc[t] \in {"reconcile", "end"} /\ status[t] # "accepted"
                         /\ revision[t] = <<>> => NoTrace(t)

\* Accepted revisions are below wherever HEAD can go.
Below(t) ==
    /\ IsPrefix(revision[t], head) /\ IsPrefix(revision[t], artifact)
    /\ \A u \in Attempt : pc[u] \in {"commit", "finish"} => IsPrefix(revision[t], previous[u])

AcceptedBelow ==
    \A t \in Attempt : status[t] = "accepted" =>
        /\ t \in Authors(revision[t])
        /\ "regressed" \notin slips => Below(t)

\* Somebody will reset HEAD to the record.
Dirty == cleanup # {} \/ cancelled \/ \E t \in Running : pc[t] = "end"

Accounted ==
    slips = {} =>
        \/ Dirty
        \/ head = artifact
        \/ \E t \in Attempt : pc[t] = "commit" /\ previous[t] = artifact

IndInv ==
    /\ TypeOK /\ InOrder /\ Locked /\ Fenced /\ Merged /\ Absent /\ AcceptedBelow /\ Accounted
-----------------------------------------------------------------------------
(* Histories.                                                              *)

\* The prefix order, pointwise.
LEMMA PrefixPointwise ==
    ASSUME NEW S, NEW r \in Seq(S), NEW s \in Seq(S)
    PROVE  IsPrefix(r, s) <=> Len(r) <= Len(s) /\ \A i \in 1..Len(r) : r[i] = s[i]
<1>1. Len(r) \in Nat /\ Len(s) \in Nat
      OBVIOUS
<1>2. ASSUME Len(r) <= Len(s)
      PROVE  SubSeq(r, 1, Len(r)) = SubSeq(s, 1, Len(r)) <=> \A i \in 1..Len(r) : r[i] = s[i]
  <2> DEFINE a == SubSeq(r, 1, Len(r))
             b == SubSeq(s, 1, Len(r))
  <2>1. a \in Seq(S) /\ Len(a) = Len(r) /\ \A i \in 1..Len(r) : a[i] = r[i]
        BY <1>1
  <2>2. b \in Seq(S) /\ Len(b) = Len(r) /\ \A i \in 1..Len(r) : b[i] = s[i]
        BY <1>1, <1>2
  <2> HIDE DEF a, b
  <2>3. a = b <=> \A i \in 1..Len(r) : a[i] = b[i]
        BY <2>1, <2>2
  <2>4. a = b <=> \A i \in 1..Len(r) : r[i] = s[i]
        BY <2>1, <2>2, <2>3
  <2> QED BY <2>4 DEF a, b
<1> QED BY <1>2 DEF IsPrefix

LEMMA PrefixReflexive == ASSUME NEW S, NEW r \in Seq(S) PROVE IsPrefix(r, r)
<1>1. Len(r) <= Len(r)
      OBVIOUS
<1> QED BY <1>1, PrefixPointwise

\* What comes on top keeps what is below.
LEMMA PrefixAppend ==
    ASSUME NEW S, NEW r \in Seq(S), NEW s \in Seq(S), NEW p \in S, IsPrefix(r, s)
    PROVE  IsPrefix(r, Append(s, p))
<1>1. Append(s, p) \in Seq(S) /\ Len(Append(s, p)) = Len(s) + 1
      /\ \A i \in 1..Len(s) : Append(s, p)[i] = s[i]
      OBVIOUS
<1>2. Len(r) <= Len(s) /\ \A i \in 1..Len(r) : r[i] = s[i]
      BY PrefixPointwise
<1>3. Len(r) <= Len(Append(s, p)) /\ \A i \in 1..Len(r) : r[i] = Append(s, p)[i]
      BY <1>1, <1>2
<1> QED BY <1>1, <1>3, PrefixPointwise

\* Two histories below the same one are on one line.
LEMMA PrefixComparable ==
    ASSUME NEW S, NEW q \in Seq(S), NEW r \in Seq(S), NEW s \in Seq(S),
           IsPrefix(q, s), IsPrefix(r, s), Len(q) <= Len(r)
    PROVE  IsPrefix(q, r)
<1>1. Len(q) <= Len(s) /\ \A i \in 1..Len(q) : q[i] = s[i]
      BY PrefixPointwise
<1>2. Len(r) <= Len(s) /\ \A i \in 1..Len(r) : r[i] = s[i]
      BY PrefixPointwise
<1>3. \A i \in 1..Len(q) : q[i] = r[i]
      BY <1>1, <1>2
<1> QED BY <1>3, PrefixPointwise

\* Authors of a history, and of one below another.
LEMMA AuthorsAppend ==
    ASSUME NEW r \in Seq(Pick), NEW p \in Pick
    PROVE  Authors(Append(r, p)) = Authors(r) \union {p.by}
<1>1. /\ Append(r, p) \in Seq(Pick) /\ Len(Append(r, p)) = Len(r) + 1 /\ Len(r) \in Nat
      /\ \A i \in 1..Len(r) : Append(r, p)[i] = r[i]
      /\ Append(r, p)[Len(r) + 1] = p
      OBVIOUS
<1>2. 1..(Len(r) + 1) = (1..Len(r)) \union {Len(r) + 1}
      BY <1>1
<1> QED BY <1>1, <1>2 DEF Authors

LEMMA PrefixAuthors ==
    ASSUME NEW r \in Seq(Pick), NEW s \in Seq(Pick), IsPrefix(r, s)
    PROVE  Authors(r) \subseteq Authors(s)
<1>1. Len(r) <= Len(s) /\ \A i \in 1..Len(r) : r[i] = s[i]
      BY PrefixPointwise
<1>2. \A i \in 1..Len(r) : i \in 1..Len(s)
      BY <1>1
<1> QED BY <1>1, <1>2 DEF Authors

LEMMA NoAuthors == Authors(<<>>) = {}
BY DEF Authors
-----------------------------------------------------------------------------
(* Attempts, threads and locks.                                            *)

\* The constants; nobody is no Attempt.
LEMMA Bounds ==
    /\ AttemptBound \in Nat /\ MaxConcurrency \in Nat /\ MaxFaults \in Nat
    /\ NoOne \notin Attempt /\ \A t \in Attempt : t \in Nat
BY IntegrationAssumption DEF Attempt, NoOne

Control == TypeOK /\ InOrder /\ Locked /\ Fenced

\* The Attempt that Dispatch starts is a new one.
LEMMA FreshAttempt ==
    ASSUME InOrder, Cardinality(Begun) + 1 \in Attempt
    PROVE  LET t == Cardinality(Begun) + 1
           IN  status[t] = "none" /\ Begun \union {t} = 1..t /\ t \in 0..AttemptBound
<1>1. PICK k \in 0..AttemptBound : Begun = 1..k
      BY DEF InOrder
<1>2. k \in Nat /\ Cardinality(1..k) = k
      BY FS_Interval, Bounds
<1>3. Cardinality(Begun) = k
      BY <1>1, <1>2
<1>4. k + 1 \in Attempt /\ k + 1 \notin 1..k /\ (1..k) \union {k + 1} = 1..(k + 1)
      /\ k + 1 \in 0..AttemptBound
      BY <1>2, <1>3, Bounds DEF Attempt
<1>5. status[k + 1] = "none"
      BY <1>1, <1>4 DEF Begun
<1> QED BY <1>1, <1>3, <1>4, <1>5

\* What Dispatch does, with the Attempt it starts.
LEMMA DispatchEffects ==
    ASSUME Control, Dispatch
    PROVE  /\ up /\ ~cancelled
           /\ UNCHANGED <<head, artifact, previous, revision, mutex, flock, cleanup, undone, up,
                          cancelled, faults, slips>>
           /\ \E t \in Attempt :
                /\ status[t] = "none" /\ pc[t] = "none"
                /\ Begun \union {t} = 1..t /\ t \in 0..AttemptBound
                /\ status' = [status EXCEPT ![t] = "running"]
                /\ base' = [base EXCEPT ![t] = artifact]
                /\ pc' = [pc EXCEPT ![t] = "work"]
<1> DEFINE t == Cardinality(Begun) + 1
<1>1. /\ t \in Attempt
      /\ status' = [status EXCEPT ![t] = "running"]
      /\ base' = [base EXCEPT ![t] = artifact]
      /\ pc' = [pc EXCEPT ![t] = "work"]
      BY DEF Dispatch, Begun, SetStatus, GoTo, StartingRevision
<1>2. status[t] = "none" /\ Begun \union {t} = 1..t /\ t \in 0..AttemptBound
      BY <1>1, FreshAttempt DEF Control
<1> HIDE DEF t
<1>3. pc[t] = "none"
      BY <1>1, <1>2 DEF Control, InOrder
<1>4. \E u \in Attempt :
                /\ status[u] = "none" /\ pc[u] = "none"
                /\ Begun \union {u} = 1..u /\ u \in 0..AttemptBound
                /\ status' = [status EXCEPT ![u] = "running"]
                /\ base' = [base EXCEPT ![u] = artifact]
                /\ pc' = [pc EXCEPT ![u] = "work"]
      BY <1>1, <1>2, <1>3
<1>5. /\ up /\ ~cancelled
      /\ UNCHANGED <<head, artifact, previous, revision, mutex, flock, cleanup, undone, up,
                     cancelled, faults, slips>>
      BY DEF Dispatch
<1> QED BY <1>4, <1>5

\* A thread returns.
LEMMA EndEffects ==
    ASSUME TypeOK, NEW t \in Attempt, EndThread(t)
    PROVE  /\ pc'[t] = "end" /\ \A u \in Attempt : u # t => pc'[u] = pc[u]
           /\ pc' \in [Attempt -> ThreadStage]
           /\ mutex' \in {NoOne} \union Attempt /\ mutex' # t
           /\ flock' \in {NoOne} \union Attempt /\ flock' # t
           /\ \A u \in Attempt : u # t => (mutex' = u <=> mutex = u) /\ (flock' = u <=> flock = u)
<1>1. pc'[t] = "end" /\ \A u \in Attempt : u # t => pc'[u] = pc[u]
      BY DEF EndThread, GoTo, TypeOK
<1>2. pc' \in [Attempt -> ThreadStage]
      BY DEF EndThread, GoTo, TypeOK, ThreadStage
<1>3. /\ mutex' \in {NoOne} \union Attempt /\ mutex' # t
      /\ \A u \in Attempt : u # t => (mutex' = u <=> mutex = u)
      BY Bounds DEF EndThread, TypeOK
<1>4. /\ flock' \in {NoOne} \union Attempt /\ flock' # t
      /\ \A u \in Attempt : u # t => (flock' = u <=> flock = u)
      BY Bounds DEF EndThread, TypeOK
<1> QED BY <1>1, <1>2, <1>3, <1>4

\* The status of one Attempt is set.
LEMMA StatusEffects ==
    ASSUME TypeOK, NEW t \in Attempt, NEW s \in AttemptStatus, SetStatus(t, s)
    PROVE  /\ status' \in [Attempt -> AttemptStatus]
           /\ status'[t] = s /\ \A u \in Attempt : u # t => status'[u] = status[u]
BY DEF SetStatus, TypeOK

\* The order of Attempts is kept by every step that starts none.
LEMMA OrderKept ==
    ASSUME InOrder, \A u \in Attempt : /\ status'[u] = "none" <=> status[u] = "none"
                                       /\ pc'[u] = "none" <=> pc[u] = "none",
           cleanup' \subseteq cleanup \union Running
    PROVE  InOrder'
<1>1. Begun' = Begun
      BY DEF Begun
<1>2. Running \subseteq Begun
      BY DEF Running, Begun
<1> QED BY <1>1, <1>2 DEF InOrder

\* A thread that ends leaves its locks to the others, and its Attempt as it is or over.
LEMMA EndingControl ==
    ASSUME Control, up, NEW t \in Attempt, EndThread(t), TypeOK', pc[t] # "none",
           \A u \in Attempt : u # t => status'[u] = status[u],
           status'[t] # "none",
           UNCHANGED <<cleanup, cancelled, up>>
    PROVE  Control'
<1>1. TypeOK
      BY DEF Control
<1>2. /\ pc'[t] = "end" /\ \A u \in Attempt : u # t => pc'[u] = pc[u]
      /\ mutex' # t /\ flock' # t
      /\ \A u \in Attempt : u # t => (mutex' = u <=> mutex = u) /\ (flock' = u <=> flock = u)
      BY <1>1, EndEffects
<1>3. status[t] # "none"
      BY DEF Control, InOrder
<1>4. InOrder'
      BY <1>2, <1>3, OrderKept DEF Control
<1>5. Locked'
      BY <1>2 DEF Control, Locked
<1>6. Fenced'
      BY <1>2 DEF Control, Fenced
<1> QED BY <1>4, <1>5, <1>6 DEF Control

\* Only one thread is between integrate and the commit of its outcome, and only one
\* holds the repository.
LEMMA OneHolder ==
    ASSUME Control, NEW t \in Attempt, NEW u \in Attempt
    PROVE  /\ pc[t] \in {"integrate", "commit"} /\ pc[u] \in {"integrate", "commit"} => t = u
           /\ pc[t] \in {"commit", "finish", "reconcile"} /\ pc[u] \in {"commit", "finish", "reconcile"}
                => t = u
BY DEF Control, Locked
\* A candidate's pick is one.
LEMMA PickTyped ==
    ASSUME NEW t \in Attempt, NEW w \in BOOLEAN, NEW r \in Seq(Pick)
    PROVE  [by |-> t, whole |-> w] \in Pick /\ Append(r, [by |-> t, whole |-> w]) \in Seq(Pick)
<1>1. [by |-> t, whole |-> w] \in Pick
      BY DEF Pick
<1> QED BY <1>1

\* A failed integrate leaves HEAD alone or puts commits on top of it.
LEMMA FailureTyped ==
    ASSUME TypeOK, NEW t \in Attempt, NEW h \in HeadAfterFailure(t)
    PROVE  /\ h \in Seq(Pick)
           /\ h = head \/ \E w \in BOOLEAN : h = Append(head, [by |-> t, whole |-> w])
<1>1. head \in Seq(Pick)
      BY DEF TypeOK
<1>2. h = head \/ \E w \in BOOLEAN : h = Append(head, [by |-> t, whole |-> w])
      BY DEF HeadAfterFailure
<1> QED BY <1>1, <1>2, PickTyped

\* Values of the kinds of TypeOK for what most threads do not touch.
LEMMA DispatchControl == ASSUME Control, Dispatch PROVE Control'
<1>1. TypeOK /\ InOrder /\ Locked /\ Fenced
      BY DEF Control
<1>2. PICK t \in Attempt :
                /\ status[t] = "none" /\ pc[t] = "none"
                /\ Begun \union {t} = 1..t /\ t \in 0..AttemptBound
                /\ status' = [status EXCEPT ![t] = "running"]
                /\ base' = [base EXCEPT ![t] = artifact]
                /\ pc' = [pc EXCEPT ![t] = "work"]
      BY DispatchEffects
<1>3. up /\ UNCHANGED <<head, artifact, previous, revision, mutex, flock, cleanup, undone, up,
                        cancelled, faults, slips>>
      BY DispatchEffects
<1>4. TypeOK'
      BY <1>1, <1>2, <1>3 DEF TypeOK, AttemptStatus, ThreadStage
<1>5. /\ status'[t] = "running" /\ pc'[t] = "work"
      /\ \A u \in Attempt : u # t => status'[u] = status[u] /\ pc'[u] = pc[u]
      BY <1>1, <1>2 DEF TypeOK
<1>6. InOrder'
  <2>1. Begun' = Begun \union {t}
        BY <1>5 DEF Begun
  <2> QED BY <1>1, <1>2, <1>3, <1>5, <2>1 DEF InOrder
<1>7. Locked' /\ Fenced'
      BY <1>1, <1>2, <1>3, <1>5 DEF Locked, Fenced
<1> QED BY <1>4, <1>6, <1>7 DEF Control

LEMMA WorkEndsControl == ASSUME Control, NEW t \in Attempt, WorkEnds(t) PROVE Control'
<1>1. TypeOK /\ InOrder /\ Locked /\ Fenced
      BY DEF Control
<1>2. /\ up /\ pc[t] = "work"
      /\ UNCHANGED <<head, artifact, base, previous, revision, cleanup, undone, up, cancelled,
                     faults, slips>>
      BY DEF WorkEnds
<1>3. CASE GoTo(t, "lock") /\ UNCHANGED <<status, mutex, flock>>
  <2>1. /\ pc'[t] = "lock" /\ \A u \in Attempt : u # t => pc'[u] = pc[u]
        /\ pc' \in [Attempt -> ThreadStage]
        BY <1>1, <1>3 DEF GoTo, TypeOK, ThreadStage
  <2>2. TypeOK'
        BY <1>1, <1>2, <1>3, <2>1 DEF TypeOK
  <2>3. InOrder'
        BY <1>1, <1>2, <1>3, <2>1, OrderKept
  <2>4. Locked' /\ Fenced'
        BY <1>1, <1>2, <1>3, <2>1 DEF Locked, Fenced
  <2> QED BY <2>2, <2>3, <2>4 DEF Control
<1>4. CASE EndThread(t) /\ (status' = status \/ SetStatus(t, "failed"))
  <2>1. /\ status' \in [Attempt -> AttemptStatus] /\ status'[t] # "none"
        /\ \A u \in Attempt : u # t => status'[u] = status[u]
        BY <1>1, <1>2, <1>4, StatusEffects DEF TypeOK, AttemptStatus, InOrder
  <2>2. TypeOK'
        BY <1>1, <1>2, <1>4, <2>1, EndEffects DEF TypeOK
  <2> QED BY <1>2, <1>4, <2>1, <2>2, EndingControl
<1> QED BY <1>3, <1>4 DEF WorkEnds

LEMMA LockControl == ASSUME Control, NEW t \in Attempt, LockIntegration(t) PROVE Control'
<1>1. TypeOK /\ InOrder /\ Locked /\ Fenced
      BY DEF Control
<1>2. /\ up /\ pc[t] = "lock" /\ mutex = NoOne
      /\ UNCHANGED <<head, artifact, status, base, previous, revision, cleanup, undone, up,
                     cancelled, faults, slips>>
      BY DEF LockIntegration
<1>3. CASE IsCurrent(t) /\ mutex' = t /\ GoTo(t, "integrate") /\ UNCHANGED flock
  <2>1. /\ pc'[t] = "integrate" /\ \A u \in Attempt : u # t => pc'[u] = pc[u]
        /\ pc' \in [Attempt -> ThreadStage]
        BY <1>1, <1>3 DEF GoTo, TypeOK, ThreadStage
  <2>2. TypeOK'
        BY <1>1, <1>2, <1>3, <2>1 DEF TypeOK
  <2>3. InOrder'
        BY <1>1, <1>2, <2>1, OrderKept
  <2>4. Locked'
        BY <1>1, <1>2, <1>3, <2>1, Bounds DEF Locked, IsCurrent
  <2>5. Fenced'
        BY <1>1, <1>2, <1>3, <2>1 DEF Fenced, IsCurrent
  <2> QED BY <2>2, <2>3, <2>4, <2>5 DEF Control
<1>4. CASE EndThread(t)
  <2>1. TypeOK'
        BY <1>1, <1>2, <1>4, EndEffects DEF TypeOK
  <2> QED BY <1>1, <1>2, <1>4, <2>1, EndingControl DEF InOrder
<1> QED BY <1>3, <1>4 DEF LockIntegration

LEMMA IntegrateControl == ASSUME Control, NEW t \in Attempt, IntegrateSucceeds(t) PROVE Control'
<1>1. TypeOK /\ InOrder /\ Locked /\ Fenced
      BY DEF Control
<1>2. /\ up /\ pc[t] = "integrate" /\ flock = NoOne /\ flock' = t
      /\ pc' = [pc EXCEPT ![t] = "commit"]
      /\ head' = Append(head, [by |-> t, whole |-> TRUE])
      /\ previous' = [previous EXCEPT ![t] = head]
      /\ UNCHANGED <<artifact, status, base, revision, mutex, cleanup, undone, up, cancelled,
                     faults, slips>>
      BY DEF IntegrateSucceeds, Merge, GoTo
<1>3. /\ pc'[t] = "commit" /\ \A u \in Attempt : u # t => pc'[u] = pc[u]
      /\ pc' \in [Attempt -> ThreadStage]
      BY <1>1, <1>2 DEF TypeOK, ThreadStage
<1>4. head' \in Seq(Pick)
      BY <1>1, <1>2, PickTyped DEF TypeOK
<1>5. TypeOK'
      BY <1>1, <1>2, <1>3, <1>4 DEF TypeOK
<1>6. InOrder'
      BY <1>1, <1>2, <1>3, OrderKept
<1>7. Locked'
      BY <1>1, <1>2, <1>3, Bounds DEF Locked
<1>8. Fenced'
      BY <1>1, <1>2, <1>3 DEF Fenced
<1> QED BY <1>5, <1>6, <1>7, <1>8 DEF Control

LEMMA IntegrateFailsControl == ASSUME Control, NEW t \in Attempt, IntegrateFails(t) PROVE Control'
<1>1. TypeOK
      BY DEF Control
<1>2. /\ up /\ pc[t] = "integrate" /\ head' \in HeadAfterFailure(t) /\ EndThread(t)
      /\ slips' = slips \union {x \in {"stray"} : head' # head}
      /\ status' = status \/ SetStatus(t, "failed")
      /\ UNCHANGED <<artifact, base, previous, revision, cleanup, undone, up, cancelled, faults>>
      BY DEF IntegrateFails
<1>3. /\ status' \in [Attempt -> AttemptStatus] /\ status'[t] # "none"
      /\ \A u \in Attempt : u # t => status'[u] = status[u]
      BY <1>1, <1>2, StatusEffects DEF TypeOK, AttemptStatus, Control, InOrder
<1>4. head' \in Seq(Pick)
      BY <1>1, <1>2, FailureTyped
<1>5. TypeOK'
      BY <1>1, <1>2, <1>3, <1>4, EndEffects DEF TypeOK
<1> QED BY <1>1, <1>2, <1>3, <1>5, EndingControl DEF Control, InOrder

LEMMA CommitControl == ASSUME Control, NEW t \in Attempt, CommitIntegration(t) PROVE Control'
<1>1. TypeOK /\ InOrder /\ Locked /\ Fenced
      BY DEF Control
<1>2. /\ up /\ pc[t] = "commit"
      /\ UNCHANGED <<status, base, previous, cleanup, up, cancelled, faults, slips>>
      BY DEF CommitIntegration
<1>3. CASE /\ artifact' = head /\ revision' = [revision EXCEPT ![t] = head] /\ mutex' = NoOne
           /\ GoTo(t, "finish") /\ UNCHANGED <<head, undone, flock>>
  <2>1. /\ pc'[t] = "finish" /\ \A u \in Attempt : u # t => pc'[u] = pc[u]
        /\ pc' \in [Attempt -> ThreadStage]
        BY <1>1, <1>3 DEF GoTo, TypeOK, ThreadStage
  <2>2. TypeOK'
        BY <1>1, <1>2, <1>3, <2>1 DEF TypeOK
  <2>3. InOrder'
        BY <1>1, <1>2, <2>1, OrderKept
  <2>4. Locked'
        BY <1>1, <1>2, <1>3, <2>1, Bounds DEF Locked
  <2>5. Fenced'
        BY <1>1, <1>2, <2>1 DEF Fenced
  <2> QED BY <2>2, <2>3, <2>4, <2>5 DEF Control
<1>4. CASE Rollback(t) /\ EndThread(t) /\ UNCHANGED <<artifact, revision>>
  <2>1. head' \in Seq(Pick) /\ undone' \subseteq Attempt
        BY <1>1, <1>4 DEF Rollback, TypeOK
  <2>2. TypeOK'
        BY <1>1, <1>2, <1>4, <2>1, EndEffects DEF TypeOK
  <2> QED BY <1>1, <1>2, <1>4, <2>2, EndingControl DEF InOrder
<1> QED BY <1>3, <1>4 DEF CommitIntegration

LEMMA FinishControl ==
    ASSUME Control, NEW t \in Attempt,
           AcceptPlannedResult(t) \/ FinishNoncurrent(t) \/ RequireReconciliation(t)
    PROVE  Control'
<1>1. TypeOK
      BY DEF Control
<1>2. /\ up /\ pc[t] \in {"finish", "reconcile"} /\ EndThread(t)
      /\ UNCHANGED <<head, base, previous, revision, cleanup, undone, up, cancelled, faults, slips>>
      /\ artifact' = artifact \/ artifact' = revision[t]
      BY DEF AcceptPlannedResult, FinishNoncurrent, RequireReconciliation
<1>3. /\ status' \in [Attempt -> AttemptStatus] /\ status'[t] # "none"
      /\ \A u \in Attempt : u # t => status'[u] = status[u]
  <2>1. status[t] # "none"
        BY <1>2 DEF Control, InOrder
  <2>2. status' = status \/ SetStatus(t, "accepted") \/ SetStatus(t, "failed")
        BY DEF AcceptPlannedResult, FinishNoncurrent, RequireReconciliation
  <2> QED BY <1>1, <2>1, <2>2, StatusEffects DEF TypeOK, AttemptStatus
<1>4. TypeOK'
      BY <1>1, <1>2, <1>3, EndEffects DEF TypeOK
<1> QED BY <1>2, <1>3, <1>4, EndingControl

LEMMA AssembledControl == ASSUME Control, NEW t \in Attempt, AssembledStateFails(t) PROVE Control'
<1>1. TypeOK /\ InOrder /\ Locked /\ Fenced
      BY DEF Control
<1>2. /\ up /\ pc[t] = "finish" /\ pc' = [pc EXCEPT ![t] = "reconcile"]
      /\ head' = previous[t] /\ artifact' = base[t] /\ undone' = undone \union {t}
      /\ slips' = slips \union {x \in {"regressed"} : base[t] # previous[t]}
      /\ UNCHANGED <<status, base, previous, mutex, flock, cleanup, up, cancelled, faults>>
      BY DEF AssembledStateFails, Rollback, GoTo
<1>3. /\ pc'[t] = "reconcile" /\ \A u \in Attempt : u # t => pc'[u] = pc[u]
      /\ pc' \in [Attempt -> ThreadStage]
      BY <1>1, <1>2 DEF TypeOK, ThreadStage
<1>4. revision' \in [Attempt -> Seq(Pick)]
  <2>1. revision' = [revision EXCEPT ![t] = <<>>] /\ <<>> \in Seq(Pick)
        BY DEF AssembledStateFails
  <2> QED BY <1>1, <2>1 DEF TypeOK
<1>5. TypeOK'
      BY <1>1, <1>2, <1>3, <1>4 DEF TypeOK, ThreadStage
<1>6. InOrder'
      BY <1>1, <1>2, <1>3, OrderKept
<1>7. Locked'
      BY <1>1, <1>2, <1>3 DEF Locked
<1>8. Fenced'
      BY <1>1, <1>2, <1>3 DEF Fenced
<1> QED BY <1>5, <1>6, <1>7, <1>8 DEF Control

LEMMA UncommittedControl == ASSUME Control, NEW t \in Attempt, RollbackUncommitted(t) PROVE Control'
<1>1. TypeOK
      BY DEF Control
<1>2. /\ up /\ pc[t] = "finish" /\ EndThread(t) /\ faults < MaxFaults /\ faults' = faults + 1
      /\ head' = previous[t] /\ undone' = undone \union {t}
      /\ UNCHANGED <<artifact, status, base, previous, revision, cleanup, up, cancelled, slips>>
      BY DEF RollbackUncommitted, Rollback
<1>3. faults' \in 0..MaxFaults
      BY <1>1, <1>2, Bounds DEF TypeOK
<1>4. TypeOK'
      BY <1>1, <1>2, <1>3, EndEffects DEF TypeOK
<1> QED BY <1>1, <1>2, <1>4, EndingControl DEF Control, InOrder

LEMMA FaultControl ==
    ASSUME Control, NEW t \in Attempt, ThreadError(t) \/ WatchdogFence(t) \/ WatchdogFail(t)
    PROVE  Control'
<1>1. TypeOK /\ InOrder /\ Locked /\ Fenced
      BY DEF Control
<1>2. CASE ThreadError(t)
  <2>1. /\ up /\ pc[t] # "none" /\ EndThread(t) /\ faults < MaxFaults /\ faults' = faults + 1
        /\ UNCHANGED <<head, artifact, status, base, previous, revision, cleanup, undone, up,
                       cancelled, slips>>
        BY <1>2 DEF ThreadError
  <2>2. faults' \in 0..MaxFaults
        BY <1>1, <2>1, Bounds DEF TypeOK
  <2>3. TypeOK'
        BY <1>1, <2>1, <2>2, EndEffects DEF TypeOK
  <2> QED BY <1>1, <2>1, <2>3, EndingControl DEF InOrder
<1>3. CASE WatchdogFence(t)
  <2>1. /\ up /\ t \in Running /\ cleanup' = cleanup \union {t}
        /\ faults' = faults \/ (faults < MaxFaults /\ faults' = faults + 1)
        /\ UNCHANGED <<head, artifact, status, base, previous, revision, pc, mutex, flock, undone,
                       up, cancelled, slips>>
        BY <1>3 DEF WatchdogFence
  <2>2. faults' \in 0..MaxFaults
        BY <1>1, <2>1, Bounds DEF TypeOK
  <2>3. TypeOK'
        BY <1>1, <2>1, <2>2 DEF TypeOK
  <2>4. InOrder'
        BY <1>1, <2>1, OrderKept
  <2>5. Locked' /\ Fenced'
        BY <1>1, <2>1 DEF Locked, Fenced
  <2> QED BY <2>3, <2>4, <2>5 DEF Control
<1>4. CASE WatchdogFail(t)
  <2>1. /\ up /\ t \in cleanup /\ status[t] = "running" /\ SetStatus(t, StatusWhenContained(t))
        /\ UNCHANGED <<head, artifact, base, previous, revision, pc, mutex, flock, cleanup, undone,
                       up, cancelled, faults, slips>>
        BY <1>4 DEF WatchdogFail, Running
  <2>2. StatusWhenContained(t) \in {"retained", "failed"}
        BY DEF StatusWhenContained
  <2>3. /\ status' \in [Attempt -> AttemptStatus] /\ status'[t] \in {"retained", "failed"}
        /\ \A u \in Attempt : u # t => status'[u] = status[u]
        BY <1>1, <2>1, <2>2, StatusEffects DEF AttemptStatus
  <2>4. TypeOK'
        BY <1>1, <2>1, <2>3 DEF TypeOK
  <2>5. InOrder'
        BY <1>1, <2>1, <2>3, OrderKept
  <2>6. Locked' /\ Fenced'
        BY <1>1, <2>1, <2>3 DEF Locked, Fenced
  <2> QED BY <2>4, <2>5, <2>6 DEF Control
<1> QED BY <1>2, <1>3, <1>4

\* Whoever resets HEAD finds both locks free: no thread is in the repository.
LEMMA FreeMeansIdle ==
    ASSUME Control, IntegrationIsFree
    PROVE  \A u \in Attempt : pc[u] \notin {"integrate", "commit", "finish", "reconcile"}
BY Bounds DEF Control, Locked, IntegrationIsFree

LEMMA RestoreControl == ASSUME Control, NEW t \in Attempt, RestoreRepository(t) PROVE Control'
<1>1. TypeOK /\ InOrder /\ Locked /\ Fenced
      BY DEF Control
<1>2. /\ IntegrationIsFree /\ head' = artifact /\ cleanup' = cleanup \ {t}
      /\ UNCHANGED <<artifact, status, base, previous, revision, pc, mutex, flock, undone, up,
                     cancelled, faults, slips>>
      BY DEF RestoreRepository
<1>3. TypeOK'
      BY <1>1, <1>2 DEF TypeOK
<1>4. InOrder'
      BY <1>1, <1>2, OrderKept
<1>5. Locked'
      BY <1>1, <1>2 DEF Locked
<1>6. Fenced'
      BY <1>2, FreeMeansIdle DEF Fenced
<1> QED BY <1>3, <1>4, <1>5, <1>6 DEF Control

LEMMA CancelControl == ASSUME Control, CancelCommission PROVE Control'
<1>1. TypeOK /\ InOrder /\ Locked /\ Fenced
      BY DEF Control
<1>2. /\ cancelled' = TRUE
      /\ status' = [t \in Attempt |-> IF t \in Running THEN "cancelled" ELSE status[t]]
      /\ UNCHANGED <<head, artifact, base, previous, revision, pc, mutex, flock, cleanup, undone,
                     up, faults, slips>>
      BY DEF CancelCommission
<1>3. \A t \in Attempt : status'[t] = IF status[t] = "running" THEN "cancelled" ELSE status[t]
      BY <1>2 DEF Running
<1>4. status' \in [Attempt -> AttemptStatus]
      BY <1>1, <1>2 DEF TypeOK, AttemptStatus
<1>5. TypeOK'
      BY <1>1, <1>2, <1>4 DEF TypeOK
<1>6. InOrder'
      BY <1>1, <1>2, <1>3, OrderKept
<1>7. Locked' /\ Fenced'
      BY <1>1, <1>2, <1>3 DEF Locked, Fenced
<1> QED BY <1>5, <1>6, <1>7 DEF Control

LEMMA CrashControl == ASSUME Control, Crash PROVE Control'
<1>1. TypeOK /\ InOrder /\ Locked /\ Fenced
      BY DEF Control
<1>2. /\ up' = FALSE /\ faults < MaxFaults /\ faults' = faults + 1
      /\ pc' = [t \in Attempt |-> IF pc[t] = "none" THEN "none" ELSE "end"]
      /\ mutex' = NoOne /\ flock' = NoOne
      /\ UNCHANGED <<head, artifact, status, base, previous, revision, cleanup, undone, cancelled,
                     slips>>
      BY DEF Crash
<1>3. \A t \in Attempt : pc'[t] = IF pc[t] = "none" THEN "none" ELSE "end"
      BY <1>2
<1>4. faults' \in 0..MaxFaults
      BY <1>1, <1>2, Bounds DEF TypeOK
<1>5. pc' \in [Attempt -> ThreadStage]
      BY <1>2 DEF ThreadStage
<1>6. TypeOK'
      BY <1>1, <1>2, <1>4, <1>5 DEF TypeOK
<1>7. InOrder'
      BY <1>1, <1>2, <1>3, OrderKept
<1>8. Locked' /\ Fenced'
      BY <1>1, <1>2, <1>3, Bounds DEF Locked, Fenced
<1> QED BY <1>6, <1>7, <1>8 DEF Control

\* What is done about an Attempt that was running when the Control Plane went down.
LEMMA RestartEffects ==
    ASSUME Control, Restart
    PROVE  /\ ~up /\ up' = TRUE /\ cleanup' = {}
           /\ head' = head \/ head' = artifact
           /\ ~cancelled /\ (cleanup # {} \/ Running # {}) => head' = artifact
           /\ UNCHANGED <<artifact, base, previous, revision, pc, mutex, flock, undone, cancelled,
                          faults, slips>>
           /\ status' \in [Attempt -> AttemptStatus]
           /\ \A t \in Attempt : status'[t] = status[t]
                  \/ (status[t] = "running" /\ status'[t] \in {"retained", "failed"})
           /\ \A t \in Attempt : pc[t] \in {"none", "end"}
           /\ ~cancelled => \A t \in Attempt : status'[t] # "running"
<1>1. /\ ~up /\ up' = TRUE /\ cleanup' = {}
      /\ status' = [t \in Attempt |-> IF t \in Running /\ ~cancelled
                                      THEN StatusWhenContained(t) ELSE status[t]]
      /\ head' = IF cleanup \union (IF cancelled THEN {} ELSE Running) = {} THEN head ELSE artifact
      /\ UNCHANGED <<artifact, base, previous, revision, pc, mutex, flock, undone, cancelled,
                     faults, slips>>
      BY DEF Restart
<1>2. \A t \in Attempt : StatusWhenContained(t) \in {"retained", "failed"}
      BY DEF StatusWhenContained
<1>3. \A t \in Attempt : status'[t] = IF status[t] = "running" /\ ~cancelled
                                      THEN StatusWhenContained(t) ELSE status[t]
      BY <1>1 DEF Running
<1>4. status' \in [Attempt -> AttemptStatus]
      BY <1>1, <1>2 DEF Control, TypeOK, AttemptStatus
<1>5. /\ \A t \in Attempt : status'[t] = status[t]
                  \/ (status[t] = "running" /\ status'[t] \in {"retained", "failed"})
      /\ ~cancelled => \A t \in Attempt : status'[t] # "running"
      BY <1>2, <1>3
<1>6. \A t \in Attempt : pc[t] \in {"none", "end"}
      BY <1>1 DEF Control, Locked
<1>7. /\ head' = head \/ head' = artifact
      /\ ~cancelled /\ (cleanup # {} \/ Running # {}) => head' = artifact
      BY <1>1
<1> QED BY <1>1, <1>4, <1>5, <1>6, <1>7

LEMMA RestartControl == ASSUME Control, Restart PROVE Control'
<1>1. TypeOK /\ InOrder /\ Locked /\ Fenced
      BY DEF Control
<1>2. TypeOK'
      BY <1>1, RestartEffects DEF TypeOK
<1>3. InOrder'
  <2>1. \A t \in Attempt : /\ status'[t] = "none" <=> status[t] = "none"
                           /\ pc'[t] = "none" <=> pc[t] = "none"
        BY RestartEffects
  <2> QED BY <1>1, <2>1, OrderKept, RestartEffects
<1>4. Locked' /\ Fenced'
      BY <1>1, RestartEffects DEF Locked, Fenced
<1> QED BY <1>2, <1>3, <1>4 DEF Control
-----------------------------------------------------------------------------
(* HEAD, the record and what they contain.                                 *)

History == Merged /\ Absent /\ AcceptedBelow /\ Accounted

\* Steps that touch neither the repository nor the record.
LEMMA QuietHistory ==
    ASSUME IndInv, UNCHANGED <<head, artifact, previous, revision, slips, undone>>,
           \A u \in Attempt :
            /\ pc'[u] \in {"commit", "finish"} => pc'[u] = pc[u] /\ base'[u] = base[u]
            /\ pc'[u] \in {"none", "work", "lock", "integrate"} =>
                    pc[u] \in {"none", "work", "lock", "integrate"}
            /\ pc[u] \in {"reconcile", "end"} => pc'[u] \in {"reconcile", "end"}
            /\ status'[u] = "accepted" => status[u] = "accepted"
            /\ pc[u] = "commit" => pc'[u] = "commit" \/ Dirty',
           Dirty => Dirty'
    PROVE  History'
<1>1. Merged'
      BY DEF IndInv, Merged
<1>2. \A t \in Attempt : NoTrace(t) => NoTrace(t)'
      BY DEF NoTrace
<1>3. Absent'
      BY <1>2 DEF IndInv, Absent, TypeOK
<1>4. \A t \in Attempt : Below(t) => Below(t)'
      BY DEF Below
<1>5. AcceptedBelow'
      BY <1>4 DEF IndInv, AcceptedBelow
<1>6. Accounted'
      BY DEF IndInv, Accounted
<1> QED BY <1>1, <1>3, <1>5, <1>6 DEF History

\* The Control part of the invariant.
LEMMA ControlOf == ASSUME IndInv PROVE Control
BY DEF IndInv, Control

LEMMA DispatchHistory == ASSUME IndInv, Dispatch PROVE History'
<1>1. Control /\ TypeOK
      BY ControlOf DEF Control
<1>2. PICK t \in Attempt :
                /\ status[t] = "none" /\ pc[t] = "none"
                /\ status' = [status EXCEPT ![t] = "running"]
                /\ base' = [base EXCEPT ![t] = artifact]
                /\ pc' = [pc EXCEPT ![t] = "work"]
      BY <1>1, DispatchEffects
<1>3. UNCHANGED <<head, artifact, previous, revision, cleanup, undone, cancelled, slips>>
      BY <1>1, DispatchEffects
<1>4. /\ pc'[t] = "work" /\ status'[t] = "running"
      /\ \A u \in Attempt : u # t => status'[u] = status[u] /\ pc'[u] = pc[u] /\ base'[u] = base[u]
      BY <1>1, <1>2 DEF TypeOK
<1>5. Dirty => Dirty'
      BY <1>2, <1>3, <1>4 DEF Dirty, Running
<1> QED BY <1>2, <1>3, <1>4, <1>5, QuietHistory

\* A thread that ends where it has not changed the repository, or leaves it to others.
LEMMA EndingHistory ==
    ASSUME IndInv, NEW t \in Attempt, EndThread(t),
           UNCHANGED <<head, artifact, previous, revision, base, slips, undone, cleanup, cancelled>>,
           \A u \in Attempt : u # t => status'[u] = status[u],
           status'[t] \in {status[t], "failed"}, pc[t] # "end",
           pc[t] = "commit" => status'[t] = status[t]
    PROVE  History'
<1>1. TypeOK /\ Fenced
      BY DEF IndInv
<1>2. pc'[t] = "end" /\ \A u \in Attempt : u # t => pc'[u] = pc[u]
      BY <1>1, EndEffects
<1>3. Dirty => Dirty'
      BY <1>2 DEF Dirty, Running
<1>4. pc[t] = "commit" => Dirty'
      BY <1>1, <1>2 DEF Fenced, Dirty, Running
<1> QED BY <1>2, <1>3, <1>4, QuietHistory

LEMMA QuietThreadHistory ==
    ASSUME IndInv, NEW t \in Attempt,
           WorkEnds(t) \/ LockIntegration(t) \/ FinishNoncurrent(t) \/ RequireReconciliation(t)
               \/ ThreadError(t)
    PROVE  History'
<1>1. TypeOK
      BY DEF IndInv
<1>2. UNCHANGED <<head, artifact, previous, revision, base, slips, undone, cleanup, cancelled>>
      BY DEF WorkEnds, LockIntegration, FinishNoncurrent, RequireReconciliation, ThreadError
<1>3. CASE EndThread(t) /\ pc[t] # "end" /\ (status' = status \/ (SetStatus(t, "failed") /\ pc[t] # "commit"))
  <2>1. /\ status'[t] \in {status[t], "failed"} /\ (pc[t] = "commit" => status'[t] = status[t])
        /\ \A u \in Attempt : u # t => status'[u] = status[u]
        BY <1>1, <1>3, StatusEffects DEF AttemptStatus
  <2> QED BY <1>2, <1>3, <2>1, EndingHistory
<1>4. CASE \/ pc[t] = "work" /\ GoTo(t, "lock") /\ status' = status
           \/ pc[t] = "lock" /\ GoTo(t, "integrate") /\ status' = status
  <2>1. /\ pc'[t] \in {"lock", "integrate"} /\ \A u \in Attempt : u # t => pc'[u] = pc[u]
        BY <1>1, <1>4 DEF GoTo, TypeOK
  <2>2. Dirty => Dirty'
        BY <1>2, <1>4, <2>1 DEF Dirty, Running
  <2> QED BY <1>2, <1>4, <2>1, <2>2, QuietHistory
<1> QED BY <1>3, <1>4 DEF WorkEnds, LockIntegration, FinishNoncurrent, RequireReconciliation, ThreadError

LEMMA QuietFaultHistory ==
    ASSUME IndInv, CancelCommission \/ Crash \/ \E t \in Attempt : WatchdogFence(t) \/ WatchdogFail(t)
    PROVE  History'
<1>1. TypeOK /\ Fenced
      BY DEF IndInv
<1>2. CASE CancelCommission
  <2>1. /\ cancelled' = TRUE /\ UNCHANGED <<head, artifact, previous, revision, base, slips, undone, pc>>
        /\ \A u \in Attempt : status'[u] = "accepted" => status[u] = "accepted"
        BY <1>2 DEF CancelCommission, Running
  <2> QED BY <2>1, QuietHistory DEF Dirty
<1>3. CASE Crash
  <2>1. /\ UNCHANGED <<head, artifact, previous, revision, base, slips, undone, status, cleanup, cancelled>>
        /\ \A u \in Attempt : pc'[u] = IF pc[u] = "none" THEN "none" ELSE "end"
        BY <1>3 DEF Crash
  <2>2. Dirty => Dirty'
        BY <2>1 DEF Dirty, Running
  <2>3. \A u \in Attempt : pc[u] = "commit" => Dirty'
        BY <1>1, <2>1 DEF Dirty, Running, Fenced
  <2> QED BY <2>1, <2>2, <2>3, QuietHistory
<1>4. ASSUME NEW t \in Attempt, WatchdogFence(t) PROVE History'
  <2>1. /\ UNCHANGED <<head, artifact, previous, revision, base, slips, undone, status, pc>>
        /\ cleanup' = cleanup \union {t}
        BY <1>4 DEF WatchdogFence
  <2> QED BY <2>1, QuietHistory DEF Dirty
<1>5. ASSUME NEW t \in Attempt, WatchdogFail(t) PROVE History'
  <2>1. /\ UNCHANGED <<head, artifact, previous, revision, base, slips, undone, pc, cleanup>>
        /\ t \in cleanup /\ SetStatus(t, StatusWhenContained(t))
        BY <1>5 DEF WatchdogFail
  <2>2. StatusWhenContained(t) \in {"retained", "failed"}
        BY DEF StatusWhenContained
  <2>3. \A u \in Attempt : status'[u] = "accepted" => status[u] = "accepted"
        BY <1>1, <2>1, <2>2, StatusEffects DEF AttemptStatus
  <2> QED BY <2>1, <2>3, QuietHistory DEF Dirty
<1> QED BY <1>2, <1>3, <1>4, <1>5
\* When no thread is left in the repository, only HEAD and the record matter.
LEMMA EmptyHistory ==
    ASSUME \A u \in Attempt : pc'[u] \notin {"commit", "finish"}, undone' \subseteq Attempt,
           \A u \in Attempt : pc'[u] \in {"none", "work", "lock", "integrate"}
                               \/ (u \in undone' /\ revision'[u] = <<>>) =>
                u \notin Authors(head') /\ u \notin Authors(artifact'),
           \A u \in undone' : pc'[u] \in {"reconcile", "end"} /\ status'[u] # "accepted",
           \A u \in Attempt : status'[u] = "accepted" =>
                /\ u \in Authors(revision'[u])
                /\ "regressed" \notin slips' =>
                        IsPrefix(revision'[u], head') /\ IsPrefix(revision'[u], artifact'),
           slips' = {} => Dirty' \/ head' = artifact'
    PROVE  History'
<1>1. Authors(head)' = Authors(head') /\ Authors(artifact)' = Authors(artifact')
      /\ \A u \in Attempt : Authors(revision[u])' = Authors(revision'[u])
      BY DEF Authors
<1>2. Merged'
      BY DEF Merged
<1>3. Absent'
      BY <1>1 DEF Absent, NoTrace
<1>4. AcceptedBelow'
      BY <1>1 DEF AcceptedBelow, Below, IsPrefix
<1>5. Accounted'
      BY DEF Accounted
<1> QED BY <1>2, <1>3, <1>4, <1>5 DEF History

LEMMA IntegrateHistory == ASSUME IndInv, NEW t \in Attempt, IntegrateSucceeds(t) PROVE History'
<1>1. TypeOK /\ Control /\ Locked
      BY ControlOf DEF Control
<1>2. /\ pc[t] = "integrate" /\ flock = NoOne /\ IsPrefix(base[t], head)
      /\ pc' = [pc EXCEPT ![t] = "commit"]
      /\ head' = Append(head, [by |-> t, whole |-> TRUE])
      /\ previous' = [previous EXCEPT ![t] = head]
      /\ UNCHANGED <<artifact, status, base, revision, cleanup, undone, cancelled, slips>>
      BY DEF IntegrateSucceeds, Merge, GoTo
<1>3. /\ pc'[t] = "commit" /\ \A u \in Attempt : u # t => pc'[u] = pc[u]
      /\ previous'[t] = head
      BY <1>1, <1>2 DEF TypeOK
<1>4. \A u \in Attempt : pc[u] \notin {"commit", "finish"}
      BY <1>1, <1>2, Bounds DEF Locked
<1>5. \A u \in Attempt : pc'[u] \in {"commit", "finish"} => u = t
      BY <1>3, <1>4
<1>6. Merged'
      BY <1>2, <1>3, <1>5 DEF Merged, IsPrefix
<1>7. Authors(head') = Authors(head) \union {t}
      BY <1>1, <1>2, PickTyped, AuthorsAppend DEF TypeOK
<1>8. NoTrace(t) /\ t \notin undone
      BY <1>2 DEF IndInv, Absent
<1>9. \A v \in Attempt : v # t /\ NoTrace(v) => NoTrace(v)'
  <2>1. Authors(head)' = Authors(head') /\ Authors(artifact)' = Authors(artifact)
        /\ Authors(previous[t])' = Authors(head)
        BY <1>2, <1>3 DEF Authors
  <2> QED BY <1>5, <1>7, <2>1 DEF NoTrace
<1>10. Absent'
  <2>1. \A v \in Attempt : pc'[v] \in {"none", "work", "lock", "integrate"} => NoTrace(v)'
        BY <1>3, <1>9 DEF IndInv, Absent
  <2>2. \A v \in undone' : /\ pc'[v] \in {"reconcile", "end"} /\ status'[v] # "accepted"
                           /\ revision'[v] = <<>> => NoTrace(v)'
        BY <1>1, <1>2, <1>3, <1>8, <1>9 DEF IndInv, Absent, TypeOK
  <2>3. t \notin Authors(artifact)' /\ t \notin Authors(previous[t])'
    <3>1. Authors(artifact)' = Authors(artifact) /\ Authors(previous[t])' = Authors(head)
          BY <1>2, <1>3 DEF Authors
    <3> QED BY <1>8, <3>1 DEF NoTrace
  <2> QED BY <1>5, <2>1, <2>2, <2>3 DEF Absent
<1>11. AcceptedBelow'
  <2>1. ASSUME NEW v \in Attempt, status'[v] = "accepted"
        PROVE  v \in Authors(revision[v])'
    <3>1. Authors(revision[v])' = Authors(revision[v])
          BY <1>2 DEF Authors
    <3> QED BY <1>2, <2>1, <3>1 DEF IndInv, AcceptedBelow
  <2>2. ASSUME NEW v \in Attempt, status'[v] = "accepted", "regressed" \notin slips'
        PROVE  Below(v)'
    <3>1. IsPrefix(revision[v], head) /\ IsPrefix(revision[v], artifact)
          BY <1>2, <2>2 DEF IndInv, AcceptedBelow, Below
    <3>2. IsPrefix(revision[v], head')
          BY <1>1, <1>2, <3>1, PickTyped, PrefixAppend DEF TypeOK
    <3> QED BY <1>2, <1>3, <1>5, <3>1, <3>2 DEF Below, IsPrefix
  <2> QED BY <2>1, <2>2 DEF AcceptedBelow
<1>12. Accounted'
  <2>1. slips' = {} => Dirty \/ head = artifact
        BY <1>2, <1>4 DEF IndInv, Accounted
  <2>2. Dirty => Dirty'
        BY <1>2, <1>3 DEF Dirty, Running
  <2> QED BY <1>2, <1>3, <2>1, <2>2 DEF Accounted
<1> QED BY <1>6, <1>10, <1>11, <1>12 DEF History

LEMMA IntegrateFailsHistory == ASSUME IndInv, NEW t \in Attempt, IntegrateFails(t) PROVE History'
<1>1. TypeOK /\ Control /\ Locked
      BY ControlOf DEF Control
<1>2. /\ pc[t] = "integrate" /\ flock = NoOne /\ head' \in HeadAfterFailure(t) /\ EndThread(t)
      /\ slips' = slips \union {x \in {"stray"} : head' # head}
      /\ status' = status \/ SetStatus(t, "failed")
      /\ UNCHANGED <<artifact, base, previous, revision, cleanup, undone, cancelled>>
      BY DEF IntegrateFails
<1>3. /\ pc'[t] = "end" /\ \A u \in Attempt : u # t => pc'[u] = pc[u]
      BY <1>1, <1>2, EndEffects
<1>4. /\ status'[t] \in {status[t], "failed"} /\ \A u \in Attempt : u # t => status'[u] = status[u]
      BY <1>1, <1>2, StatusEffects DEF AttemptStatus
<1>5. \A u \in Attempt : pc'[u] \notin {"commit", "finish"}
      BY <1>1, <1>2, <1>3, Bounds DEF Locked
<1>6. CASE head' = head
  <2>1. slips' = slips
        BY <1>2, <1>6
  <2> QED BY <1>2, <1>4, <1>6, <2>1, EndingHistory
<1>7. CASE head' # head
  <2>1. "stray" \in slips' /\ ("regressed" \in slips' <=> "regressed" \in slips)
        BY <1>2, <1>7
  <2>2. PICK w \in BOOLEAN : head' = Append(head, [by |-> t, whole |-> w])
        BY <1>1, <1>2, <1>7, FailureTyped
  <2>3. Authors(head') = Authors(head) \union {t}
        BY <1>1, <2>2, PickTyped, AuthorsAppend DEF TypeOK
  <2>4. \A u \in Attempt : pc'[u] \in {"none", "work", "lock", "integrate"}
                               \/ (u \in undone' /\ revision'[u] = <<>>) =>
                u # t /\ NoTrace(u)
        BY <1>2, <1>3 DEF IndInv, Absent
  <2>5. \A u \in Attempt : pc'[u] \in {"none", "work", "lock", "integrate"}
                               \/ (u \in undone' /\ revision'[u] = <<>>) =>
                u \notin Authors(head') /\ u \notin Authors(artifact')
        BY <1>2, <2>3, <2>4 DEF NoTrace
  <2>6. undone' \subseteq Attempt
      /\ \A u \in undone' : pc'[u] \in {"reconcile", "end"} /\ status'[u] # "accepted"
        BY <1>1, <1>2, <1>3, <1>4 DEF IndInv, Absent, TypeOK
  <2>7. ASSUME NEW u \in Attempt, status'[u] = "accepted"
        PROVE  /\ u \in Authors(revision'[u])
               /\ "regressed" \notin slips' =>
                        IsPrefix(revision'[u], head') /\ IsPrefix(revision'[u], artifact')
    <3>1. status[u] = "accepted"
          BY <1>4, <2>7
    <3>2. u \in Authors(revision[u])
          BY <3>1 DEF IndInv, AcceptedBelow
    <3>3. ASSUME "regressed" \notin slips PROVE IsPrefix(revision[u], head') /\ IsPrefix(revision[u], artifact)
      <4>1. IsPrefix(revision[u], head) /\ IsPrefix(revision[u], artifact)
            BY <3>1, <3>3 DEF IndInv, AcceptedBelow, Below
      <4> QED BY <1>1, <2>2, <4>1, PickTyped, PrefixAppend DEF TypeOK
    <3> QED BY <1>2, <2>1, <3>2, <3>3
  <2>8. slips' # {}
        BY <2>1
  <2> QED BY <1>5, <2>5, <2>6, <2>7, <2>8, EmptyHistory
<1> QED BY <1>6, <1>7
\* The outcome of an Integration is committed: the record follows HEAD, or HEAD goes
\* back because the Attempt is no longer wanted, and then somebody cleans up.
LEMMA CommitHistory == ASSUME IndInv, NEW t \in Attempt, CommitIntegration(t) PROVE History'
<1>1. TypeOK /\ Control /\ Locked
      BY ControlOf DEF Control
<1>2. /\ pc[t] = "commit"
      /\ UNCHANGED <<status, base, previous, cleanup, cancelled, slips>>
      BY DEF CommitIntegration
<1>3. \A u \in Attempt : pc[u] \in {"commit", "finish"} => u = t
      BY <1>1, <1>2, OneHolder
<1>4. /\ t \notin undone /\ t \notin Authors(previous[t]) /\ t \notin Authors(artifact)
      BY <1>2 DEF IndInv, Absent
<1>5. CASE /\ artifact' = head /\ revision' = [revision EXCEPT ![t] = head]
           /\ GoTo(t, "finish") /\ UNCHANGED <<head, undone>>
  <2>1. /\ pc'[t] = "finish" /\ revision'[t] = head
        /\ \A u \in Attempt : u # t => pc'[u] = pc[u] /\ revision'[u] = revision[u]
        BY <1>1, <1>5 DEF GoTo, TypeOK
  <2>2. Merged'
    <3>1. head = Append(previous[t], [by |-> t, whole |-> TRUE]) /\ IsPrefix(base[t], previous[t])
          BY <1>2 DEF IndInv, Merged
    <3> QED BY <1>2, <1>3, <1>5, <2>1, <3>1 DEF Merged, IsPrefix
  <2>3. \A v \in Attempt : NoTrace(v) => NoTrace(v)'
    <3>1. /\ Authors(head)' = Authors(head) /\ Authors(artifact)' = Authors(head)
          /\ \A u \in Attempt : Authors(previous[u])' = Authors(previous[u])
          BY <1>2, <1>5 DEF Authors
    <3> QED BY <1>2, <1>3, <2>1, <3>1 DEF NoTrace
  <2>4. Absent'
    <3>1. \A v \in Attempt : pc'[v] \in {"none", "work", "lock", "integrate"} => NoTrace(v)'
          BY <2>1, <2>3 DEF IndInv, Absent
    <3>2. \A v \in undone' : /\ pc'[v] \in {"reconcile", "end"} /\ status'[v] # "accepted"
                             /\ revision'[v] = <<>> => NoTrace(v)'
          BY <1>1, <1>2, <1>4, <1>5, <2>1, <2>3 DEF IndInv, Absent, TypeOK
    <3>3. t \notin Authors(previous[t])'
          BY <1>2, <1>4 DEF Authors
    <3> QED BY <1>3, <2>1, <3>1, <3>2, <3>3 DEF Absent
  <2>5. AcceptedBelow'
    <3>1. \A v \in Attempt : status[v] = "accepted" => v # t
          BY <1>1, <1>2 DEF Locked
    <3>2. ASSUME NEW v \in Attempt, status[v] = "accepted"
          PROVE  v \in Authors(revision[v])' /\ ("regressed" \notin slips => Below(v)')
      <4>1. revision'[v] = revision[v]
            BY <2>1, <3>1, <3>2
      <4>2. v \in Authors(revision[v]) /\ ("regressed" \notin slips => Below(v))
            BY <3>2 DEF IndInv, AcceptedBelow
      <4>3. Authors(revision[v])' = Authors(revision[v])
            BY <4>1 DEF Authors
      <4>4. Below(v) => Below(v)'
            BY <1>2, <1>3, <1>5, <2>1, <4>1 DEF Below, IsPrefix
      <4> QED BY <4>2, <4>3, <4>4
    <3> QED BY <1>2, <3>2 DEF AcceptedBelow
  <2>6. Accounted'
        BY <1>5 DEF Accounted
  <2> QED BY <2>2, <2>4, <2>5, <2>6 DEF History
<1>6. CASE ~IsCurrent(t) /\ Rollback(t) /\ EndThread(t) /\ UNCHANGED <<artifact, revision>>
  <2>1. /\ head' = previous[t] /\ undone' = undone \union {t}
        BY <1>6 DEF Rollback
  <2>2. /\ pc'[t] = "end" /\ \A u \in Attempt : u # t => pc'[u] = pc[u]
        BY <1>1, <1>6, EndEffects
  <2>3. \A u \in Attempt : pc'[u] \notin {"commit", "finish"}
        BY <1>3, <2>2
  <2>4. \A u \in Attempt : pc'[u] \in {"none", "work", "lock", "integrate"}
                               \/ (u \in undone' /\ revision'[u] = <<>>) =>
                u \notin Authors(head') /\ u \notin Authors(artifact')
    <3>1. \A u \in Attempt : pc'[u] \in {"none", "work", "lock", "integrate"}
                               \/ (u \in undone' /\ revision'[u] = <<>>) =>
                u = t \/ NoTrace(u)
          BY <1>6, <2>1, <2>2 DEF IndInv, Absent
    <3> QED BY <1>2, <1>4, <1>6, <2>1, <3>1 DEF NoTrace
  <2>5. undone' \subseteq Attempt
      /\ \A u \in undone' : pc'[u] \in {"reconcile", "end"} /\ status'[u] # "accepted"
        BY <1>1, <1>2, <2>1, <2>2 DEF IndInv, Absent, TypeOK, Locked
  <2>6. \A u \in Attempt : status'[u] = "accepted" =>
                /\ u \in Authors(revision'[u])
                /\ "regressed" \notin slips' =>
                        IsPrefix(revision'[u], head') /\ IsPrefix(revision'[u], artifact')
        BY <1>2, <1>6, <2>1 DEF IndInv, AcceptedBelow, Below
  <2>7. Dirty'
        BY <1>2, <1>6 DEF IndInv, Fenced, IsCurrent, Dirty
  <2> QED BY <2>3, <2>4, <2>5, <2>6, <2>7, EmptyHistory
<1> QED BY <1>5, <1>6 DEF CommitIntegration

LEMMA AcceptHistory == ASSUME IndInv, NEW t \in Attempt, AcceptPlannedResult(t) PROVE History'
<1>1. TypeOK /\ Control
      BY ControlOf DEF Control
<1>2. /\ pc[t] = "finish" /\ artifact' = revision[t] /\ SetStatus(t, "accepted") /\ EndThread(t)
      /\ UNCHANGED <<head, base, previous, revision, cleanup, undone, cancelled, slips>>
      BY DEF AcceptPlannedResult
<1>3. /\ head = Append(previous[t], [by |-> t, whole |-> TRUE]) /\ artifact = head /\ revision[t] = head
      BY <1>2 DEF IndInv, Merged
<1>4. /\ pc'[t] = "end" /\ \A u \in Attempt : u # t => pc'[u] = pc[u]
      BY <1>1, <1>2, EndEffects
<1>5. /\ status'[t] = "accepted" /\ \A u \in Attempt : u # t => status'[u] = status[u]
      BY <1>1, <1>2, StatusEffects DEF AttemptStatus
<1>6. \A u \in Attempt : pc'[u] \notin {"commit", "finish"}
      BY <1>1, <1>2, <1>4, OneHolder
<1>7. \A u \in Attempt : pc'[u] \in {"none", "work", "lock", "integrate"}
                               \/ (u \in undone' /\ revision'[u] = <<>>) =>
                u \notin Authors(head') /\ u \notin Authors(artifact')
      BY <1>2, <1>3, <1>4 DEF IndInv, Absent, NoTrace
<1>8. undone' \subseteq Attempt
      /\ \A u \in undone' : pc'[u] \in {"reconcile", "end"} /\ status'[u] # "accepted"
      BY <1>1, <1>2, <1>4, <1>5 DEF IndInv, Absent, TypeOK
<1>9. t \in Authors(head)
      BY <1>1, <1>3, PickTyped, AuthorsAppend DEF TypeOK
<1>10. IsPrefix(head, head)
      BY <1>1, PrefixReflexive DEF TypeOK
<1>11. \A u \in Attempt : status'[u] = "accepted" =>
                /\ u \in Authors(revision'[u])
                /\ "regressed" \notin slips' =>
                        IsPrefix(revision'[u], head') /\ IsPrefix(revision'[u], artifact')
      BY <1>2, <1>3, <1>5, <1>9, <1>10 DEF IndInv, AcceptedBelow, Below
<1>12. head' = artifact'
      BY <1>2, <1>3
<1> QED BY <1>6, <1>7, <1>8, <1>11, <1>12, EmptyHistory

LEMMA AssembledHistory == ASSUME IndInv, NEW t \in Attempt, AssembledStateFails(t) PROVE History'
<1>1. TypeOK /\ Control
      BY ControlOf DEF Control
<1>2. /\ pc[t] = "finish" /\ artifact' = base[t] /\ head' = previous[t] /\ undone' = undone \union {t}
      /\ slips' = slips \union {x \in {"regressed"} : base[t] # previous[t]}
      /\ revision' = [revision EXCEPT ![t] = <<>>]
      /\ pc' = [pc EXCEPT ![t] = "reconcile"] /\ status' = status /\ status[t] = "running"
      BY DEF AssembledStateFails, Rollback, GoTo, IsCurrent
<1>3. /\ IsPrefix(base[t], previous[t]) /\ t \notin Authors(previous[t])
      BY <1>2 DEF IndInv, Merged, Absent
<1>4. Authors(base[t]) \subseteq Authors(previous[t])
      BY <1>1, <1>3, PrefixAuthors DEF TypeOK
<1>5. /\ pc'[t] = "reconcile" /\ \A u \in Attempt : u # t => pc'[u] = pc[u]
      BY <1>1, <1>2 DEF TypeOK
<1>6. \A u \in Attempt : u # t => revision'[u] = revision[u]
      BY <1>1, <1>2 DEF TypeOK
<1>7. \A u \in Attempt : pc'[u] \notin {"commit", "finish"}
      BY <1>1, <1>2, <1>5, OneHolder
<1>8. \A u \in Attempt : pc'[u] \in {"none", "work", "lock", "integrate"}
                               \/ (u \in undone' /\ revision'[u] = <<>>) =>
                u \notin Authors(head') /\ u \notin Authors(artifact')
  <2>1. \A u \in Attempt : pc'[u] \in {"none", "work", "lock", "integrate"}
                               \/ (u \in undone' /\ revision'[u] = <<>>) =>
                u = t \/ NoTrace(u)
        BY <1>2, <1>5 DEF IndInv, Absent
  <2> QED BY <1>2, <1>3, <1>4, <2>1 DEF NoTrace
<1>9. undone' \subseteq Attempt
      /\ \A u \in undone' : pc'[u] \in {"reconcile", "end"} /\ status'[u] # "accepted"
      BY <1>1, <1>2, <1>5 DEF IndInv, Absent, TypeOK
<1>10. "regressed" \notin slips' \/ slips' = {} => base[t] = previous[t] /\ "regressed" \notin slips
      BY <1>2
<1>11. \A u \in Attempt : status'[u] = "accepted" =>
                /\ u \in Authors(revision'[u])
                /\ "regressed" \notin slips' =>
                        IsPrefix(revision'[u], head') /\ IsPrefix(revision'[u], artifact')
  <2>1. \A u \in Attempt : status'[u] = "accepted" =>
                status[u] = "accepted" /\ revision'[u] = revision[u]
        BY <1>1, <1>2, <1>6 DEF TypeOK
  <2> QED BY <1>2, <1>10, <2>1 DEF IndInv, AcceptedBelow, Below
<1>12. slips' = {} => head' = artifact'
      BY <1>2, <1>10
<1> QED BY <1>7, <1>8, <1>9, <1>11, <1>12, EmptyHistory

\* HEAD goes back and the record does not: the Attempt stays running without a
\* thread, and whoever contains it resets HEAD to the record.
LEMMA UncommittedHistory == ASSUME IndInv, NEW t \in Attempt, RollbackUncommitted(t) PROVE History'
<1>1. TypeOK /\ Control
      BY ControlOf DEF Control
<1>2. /\ pc[t] = "finish" /\ status[t] = "running" /\ EndThread(t)
      /\ head' = previous[t] /\ undone' = undone \union {t}
      /\ UNCHANGED <<artifact, status, revision, cleanup, cancelled, slips>>
      BY DEF RollbackUncommitted, Rollback, IsCurrent
<1>3. /\ pc'[t] = "end" /\ \A u \in Attempt : u # t => pc'[u] = pc[u]
      BY <1>1, <1>2, EndEffects
<1>4. \A u \in Attempt : pc'[u] \notin {"commit", "finish"}
      BY <1>1, <1>2, <1>3, OneHolder
<1>5. revision[t] # <<>>
  <2>1. revision[t] = Append(previous[t], [by |-> t, whole |-> TRUE])
        BY <1>2 DEF IndInv, Merged
  <2> QED BY <1>1, <2>1 DEF TypeOK
<1>6. \A u \in Attempt : pc'[u] \in {"none", "work", "lock", "integrate"}
                          \/ (u \in undone' /\ revision'[u] = <<>>) =>
                u \notin Authors(head') /\ u \notin Authors(artifact')
  <2>1. \A u \in Attempt : pc'[u] \in {"none", "work", "lock", "integrate"}
                            \/ (u \in undone' /\ revision'[u] = <<>>) => NoTrace(u)
        BY <1>2, <1>3, <1>5 DEF IndInv, Absent
  <2> QED BY <1>2, <2>1 DEF NoTrace
<1>7. undone' \subseteq Attempt
      /\ \A u \in undone' : pc'[u] \in {"reconcile", "end"} /\ status'[u] # "accepted"
      BY <1>1, <1>2, <1>3 DEF IndInv, Absent, TypeOK
<1>8. \A u \in Attempt : status'[u] = "accepted" =>
                /\ u \in Authors(revision'[u])
                /\ "regressed" \notin slips' =>
                        IsPrefix(revision'[u], head') /\ IsPrefix(revision'[u], artifact')
      BY <1>2 DEF IndInv, AcceptedBelow, Below
<1>9. Dirty'
      BY <1>2, <1>3 DEF Dirty, Running
<1> QED BY <1>4, <1>6, <1>7, <1>8, <1>9, EmptyHistory

\* HEAD is reset to the record.
LEMMA ResetHistory ==
    ASSUME IndInv, Restart \/ \E t \in Attempt : RestoreRepository(t)
    PROVE  History'
<1>1. TypeOK /\ Control
      BY ControlOf DEF Control
<1>2. /\ UNCHANGED <<artifact, pc, previous, revision, undone, slips, cancelled>>
      /\ head' = head \/ head' = artifact
      /\ \A u \in Attempt : pc[u] \notin {"commit", "finish"}
      /\ \A u \in Attempt : status'[u] = "accepted" => status[u] = "accepted"
      /\ slips = {} => cancelled \/ head' = artifact
  <2>1. CASE Restart
    <3>1. slips = {} => Dirty \/ head = artifact
          BY <1>1, <2>1, RestartEffects DEF IndInv, Accounted
    <3>2. Dirty => cancelled \/ cleanup # {} \/ Running # {}
          BY DEF Dirty
    <3> QED BY <1>1, <2>1, <3>1, <3>2, RestartEffects
  <2>2. ASSUME NEW t \in Attempt, RestoreRepository(t)
        PROVE  /\ UNCHANGED <<artifact, pc, previous, revision, undone, slips, cancelled, status>>
               /\ head' = artifact
               /\ \A u \in Attempt : pc[u] \notin {"commit", "finish"}
        BY <1>1, <2>2, FreeMeansIdle DEF RestoreRepository
  <2> QED BY <2>1, <2>2
<1>3. \A u \in Attempt : pc'[u] \notin {"commit", "finish"}
      BY <1>2
<1>4. \A u \in Attempt : pc'[u] \in {"none", "work", "lock", "integrate"}
                               \/ (u \in undone' /\ revision'[u] = <<>>) =>
                u \notin Authors(head') /\ u \notin Authors(artifact')
      BY <1>2 DEF IndInv, Absent, NoTrace
<1>5. undone' \subseteq Attempt
      /\ \A u \in undone' : pc'[u] \in {"reconcile", "end"} /\ status'[u] # "accepted"
      BY <1>1, <1>2 DEF IndInv, Absent, TypeOK
<1>6. \A u \in Attempt : status'[u] = "accepted" =>
                /\ u \in Authors(revision'[u])
                /\ "regressed" \notin slips' =>
                        IsPrefix(revision'[u], head') /\ IsPrefix(revision'[u], artifact')
      BY <1>2 DEF IndInv, AcceptedBelow, Below
<1>7. slips' = {} => Dirty' \/ head' = artifact'
      BY <1>2 DEF Dirty
<1> QED BY <1>3, <1>4, <1>5, <1>6, <1>7, EmptyHistory
-----------------------------------------------------------------------------
(* The invariant, and what follows from it.                                *)

LEMMA InitIndInv == ASSUME Init PROVE IndInv
<1>1. <<>> \in Seq(Pick)
      OBVIOUS
<1>2. TypeOK
  <2>1. head \in Seq(Pick) /\ artifact \in Seq(Pick)
        BY <1>1 DEF Init
  <2>2. /\ base \in [Attempt -> Seq(Pick)]
        /\ previous \in [Attempt -> Seq(Pick)]
        /\ revision \in [Attempt -> Seq(Pick)]
        BY <1>1 DEF Init
  <2>3. /\ status \in [Attempt -> AttemptStatus]
        /\ pc \in [Attempt -> ThreadStage]
        BY DEF Init, AttemptStatus, ThreadStage
  <2>4. /\ mutex \in {NoOne} \union Attempt /\ flock \in {NoOne} \union Attempt
        /\ cleanup \subseteq Attempt /\ undone \subseteq Attempt
        /\ slips \subseteq {"stray", "regressed"}
        BY DEF Init
  <2>5. up \in BOOLEAN /\ cancelled \in BOOLEAN
        BY Zenon DEF Init
  <2>6. faults \in 0..MaxFaults
        BY Bounds DEF Init
  <2> QED BY <2>1, <2>2, <2>3, <2>4, <2>5, <2>6 DEF TypeOK
<1>3. InOrder
  <2>1. Begun = {} /\ 1..0 = {} /\ 0 \in 0..AttemptBound
        BY Bounds DEF Init, Begun
  <2> QED BY <2>1 DEF InOrder, Init
<1>4. Locked /\ Fenced /\ Merged
      BY Bounds DEF Init, Locked, Fenced, Merged
<1>5. Absent
      BY NoAuthors DEF Init, Absent, NoTrace
<1>6. AcceptedBelow /\ Accounted
      BY DEF Init, AcceptedBelow, Accounted
<1> QED BY <1>2, <1>3, <1>4, <1>5, <1>6 DEF IndInv

LEMMA NextKeepsIndInv == ASSUME IndInv, [Next]_vars PROVE IndInv'
<1>1. Control
      BY ControlOf
<1>2. CASE Dispatch
      BY <1>1, <1>2, DispatchControl, DispatchHistory DEF IndInv, Control, History
<1>3. ASSUME NEW t \in Attempt, ThreadStep(t) \/ ThreadError(t) \/ RollbackUncommitted(t)
      PROVE  IndInv'
  <2>1. Control'
        BY <1>1, <1>3, WorkEndsControl, LockControl, IntegrateControl, IntegrateFailsControl,
           CommitControl, FinishControl, AssembledControl, UncommittedControl, FaultControl
        DEF ThreadStep
  <2>2. History'
        BY <1>3, QuietThreadHistory, IntegrateHistory, IntegrateFailsHistory, CommitHistory,
           AcceptHistory, AssembledHistory, UncommittedHistory DEF ThreadStep
  <2> QED BY <2>1, <2>2 DEF IndInv, Control, History
<1>4. ASSUME NEW t \in Attempt, WatchdogFence(t) \/ WatchdogFail(t) \/ RestoreRepository(t)
      PROVE  IndInv'
  <2>1. Control'
        BY <1>1, <1>4, FaultControl, RestoreControl
  <2>2. History'
        BY <1>4, QuietFaultHistory, ResetHistory
  <2> QED BY <2>1, <2>2 DEF IndInv, Control, History
<1>5. CASE CancelCommission \/ Crash \/ Restart
  <2>1. Control'
        BY <1>1, <1>5, CancelControl, CrashControl, RestartControl
  <2>2. History'
        BY <1>5, QuietFaultHistory, ResetHistory
  <2> QED BY <2>1, <2>2 DEF IndInv, Control, History
<1>6. CASE UNCHANGED vars
  <2> USE <1>6 DEF vars
  <2>1. Control'
    <3>1. TypeOK' /\ Locked' /\ Fenced'
          BY <1>1 DEF Control, TypeOK, Locked, Fenced
    <3> QED BY <1>1, <3>1, OrderKept DEF Control
  <2>2. Dirty => Dirty'
        BY DEF Dirty, Running
  <2>3. History'
        BY <2>2, QuietHistory
  <2> QED BY <2>1, <2>3 DEF IndInv, Control, History
<1> QED BY <1>2, <1>3, <1>4, <1>5, <1>6 DEF Next

\* The invariant holds in every reachable state.
LEMMA IndInvHolds == Spec => []IndInv
<1>1. Init => IndInv
      BY InitIndInv
<1>2. IndInv /\ [Next]_vars => IndInv'
      BY NextKeepsIndInv
<1> QED BY <1>1, <1>2, PTL DEF Spec

\* Every variable always holds a value of its kind: HEAD and the record are histories
\* of picks, and the locks are held by threads of Attempts.
THEOREM TypesCorrect == Spec => []TypeOK
<1>1. IndInv => TypeOK
      BY DEF IndInv
<1> QED BY <1>1, IndInvHolds, PTL

\* Repository and record agree whenever nothing is under way, after any rollbacks,
\* containments, thread errors and crashes, unless an integrate failed halfway or
\* overlapping work regressed (integrate, rollback_integration, cleanup_stranded_attempt).
THEOREM HeadCorrect == Spec => []HeadIsRecorded
<1>1. ASSUME IndInv, Settled, slips = {} PROVE head = artifact
  <2>1. ~Dirty
        BY <1>1 DEF Dirty, Settled, Running
  <2>2. \A t \in Attempt : pc[t] # "commit"
        BY <1>1 DEF Settled
  <2> QED BY <1>1, <2>1, <2>2 DEF IndInv, Accounted
<1>2. IndInv => HeadIsRecorded
      BY <1>1 DEF HeadIsRecorded
<1> QED BY <1>2, IndInvHolds, PTL

\* Nothing but a regression of overlapping work loses accepted work
\* (record_integrated_result, accept_planned_result, restore_integration_repository).
THEOREM WorkKeptCorrect == Spec => []OnlyRegressionLosesWork
<1>1. ASSUME IndInv PROVE OnlyRegressionLosesWork
  <2>1. ASSUME "regressed" \notin slips, NEW t \in Attempt, status[t] = "accepted"
        PROVE  t \in Authors(artifact)
    <3>1. t \in Authors(revision[t]) /\ IsPrefix(revision[t], artifact)
          BY <1>1, <2>1 DEF IndInv, AcceptedBelow, Below
    <3> QED BY <1>1, <3>1, PrefixAuthors DEF IndInv, TypeOK
  <2> QED BY <2>1 DEF OnlyRegressionLosesWork, AcceptedWorkIsKept
<1> QED BY <1>1, IndInvHolds, PTL

\* What was rolled back is never accepted and, once the store has recorded the
\* rollback, never comes back, neither into the repository nor into the record, even
\* when other Workers started from it (rollback_integration, the ancestry check of
\* integrate); failures between the git command and the commit included.
THEOREM RollbackCorrect == Spec => []RolledBackIsGone
<1>1. ASSUME IndInv PROVE RolledBackIsGone
  <2>1. \A t \in undone : /\ status[t] # "accepted"
                          /\ revision[t] = <<>> =>
                                t \notin Authors(head) /\ t \notin Authors(artifact)
        BY <1>1 DEF IndInv, Absent, NoTrace
  <2> QED BY <2>1 DEF RolledBackIsGone
<1> QED BY <1>1, IndInvHolds, PTL

\* Accepted revisions extend each other: no later acceptance drops an earlier one,
\* unless the record was set back (record_integrated_result).
THEOREM AcceptedOrderCorrect == Spec => []AcceptedExtendsAccepted
<1>1. ASSUME IndInv PROVE AcceptedExtendsAccepted
  <2>1. ASSUME "regressed" \notin slips, NEW t \in Attempt, NEW u \in Attempt,
               status[t] = "accepted", status[u] = "accepted",
               Len(revision[t]) <= Len(revision[u])
        PROVE  IsPrefix(revision[t], revision[u])
    <3>1. IsPrefix(revision[t], artifact) /\ IsPrefix(revision[u], artifact)
          BY <1>1, <2>1 DEF IndInv, AcceptedBelow, Below
    <3>2. /\ revision[t] \in Seq(Pick) /\ revision[u] \in Seq(Pick) /\ artifact \in Seq(Pick)
          BY <1>1 DEF IndInv, TypeOK
    <3> QED BY <2>1, <3>1, <3>2, PrefixComparable
  <2> QED BY <2>1 DEF AcceptedExtendsAccepted
<1> QED BY <1>1, IndInvHolds, PTL
=============================================================================
