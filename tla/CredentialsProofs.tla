-------------------------- MODULE CredentialsProofs --------------------------
(***************************************************************************)
(* Proofs about Credentials, for every set of Commissions, grants,         *)
(* operations and Keychain entries, and every number of secrets and faults.*)
(*                                                                         *)
(* The inductive invariant follows an operation along its thread: which    *)
(* rows name which others (NamesAgree), which thread may hold a mutex      *)
(* (MutexHolder), and what each step of the thread may assume about the    *)
(* process, the sandbox and the Keychain entry of its operation (Stage).   *)
(***************************************************************************)
EXTENDS Credentials, TLAPS

\* A stored grant names a Commission and an entry, an operation a stored grant, and
\* a grant that was withdrawn can no longer be used.
NamesAgree ==
    /\ \A g \in Grant : IF gStatus[g] = "none" THEN grant[g].commission = Nobody
                        ELSE grant[g].commission \in Commission /\ grant[g].ref \in Ref
    /\ \A o \in Op : IF oStatus[o] = "none" THEN oGrant[o] = Nobody
                     ELSE oGrant[o] \in Grant /\ gStatus[oGrant[o]] # "none"
    /\ \A g \in withdrawn : gStatus[g] \notin {"none", "active"}

\* Only the thread of an operation that is under way holds the mutex of its
\* Commission, and only one that reconciles does so for an uncertain operation.
MutexHolder ==
    \A c \in Commission : exec[c] # Idle =>
        /\ phase = "up" /\ exec[c].op \in Op /\ exec[c].step # "idle"
        /\ oGrant[exec[c].op] \in Grant /\ CommissionOf(exec[c].op) = c
        /\ oStatus[exec[c].op] = (IF exec[c].step = "observe" THEN "uncertain" ELSE "started")
        /\ exec[c].step # "observe" => oGrant[exec[c].op] \notin withdrawn

\* A secret is older than the next one stored under its name.
SecretsAge ==
    /\ \A r \in Ref : keychain[r] <= stored[r]
    /\ \A o \in Op : oGrant[o] \in Grant => seen[o] <= stored[RefOf(o)]

\* The step of the thread that works on o, if one does.
Where(o) == IF exec[CommissionOf(o)].op = o THEN exec[CommissionOf(o)].step ELSE "idle"

\* Nothing was started for o.
Untouched(o) ==
    process[o] = "none" /\ sandbox[o] = "none" /\ o \notin applied /\ pStatus[o] = "none"

\* No secret that o could have read is in the Keychain.
EntryGone(o) == keychain[RefOf(o)] = 0 \/ keychain[RefOf(o)] > seen[o]

\* What an outcome says about the effect and about what is left of it.
OutcomeHolds(o, e) ==
    /\ e.outcome # "none"
    /\ e.outcome = "failed" => o \notin applied /\ ~Holds(o)
    /\ e.outcome = "confirmed" => o \in applied

\* What holds of o while its thread is at a step.
Stage(o) ==
    LET e == exec[CommissionOf(o)] IN
    /\ Where(o) \in {"recheck", "read", "spawn", "egress"} => Untouched(o)
    /\ Where(o) = "egress" => OneShot(o)
    /\ Where(o) \in {"spawn", "register", "write", "wait"} => ~OneShot(o)
    /\ Where(o) \in {"register", "write"} => process[o] \in {"waiting", "gone"} /\ o \notin applied
    /\ Where(o) \in {"write", "wait"} => pStatus[o] = "active"
    /\ Where(o) \in {"create", "deliver"} =>
            OneShot(o) /\ sandbox[o] # "holding" /\ o \notin applied
    /\ Where(o) \in {"finish", "delete"} => OneShot(o)
    /\ Where(o) \in {"delete", "revoke", "record"} => OutcomeHolds(o, e)
    /\ Where(o) \in {"revoke", "record"} /\ (e.contained \/ e.outcome = "confirmed") => ~Holds(o)
    /\ Where(o) = "record" /\ e.outcome # "uncertain" => EntryGone(o)
    /\ Where(o) = "observe" => ~Holds(o) /\ EntryGone(o)

\* What the rows say of o, whatever its thread does.
Rows(o) ==
    /\ oStatus[o] \in {"none", "approval_required", "authorized", "revoked"} => Untouched(o)
    /\ IF OneShot(o) THEN process[o] = "none" ELSE sandbox[o] = "none"
    /\ process[o] \in {"holding", "orphaned"} => pStatus[o] = "active"
    /\ oStatus[o] \notin {"confirmed", "failed", "uncertain"} => pStatus[o] # "contained" /\ ~claim[o]
    /\ claim[o] \/ pStatus[o] = "contained" => ~Holds(o)
    /\ oStatus[o] \in {"confirmed", "failed"} => ~Holds(o) /\ EntryGone(o)
    /\ oStatus[o] = "failed" => o \notin applied
    /\ oStatus[o] = "confirmed" => o \in applied
    /\ phase = "down" /\ oStatus[o] = "started" /\ recovery[o] = "ok" => ~Holds(o)

OpInv == \A o \in Op : oGrant[o] \in Grant => Stage(o) /\ Rows(o)

\* An operation that nobody has proposed has no trace.
Unproposed ==
    \A o \in Op : oGrant[o] = Nobody =>
        process[o] = "none" /\ sandbox[o] = "none" /\ o \notin applied /\ pStatus[o] = "none"
        /\ ~claim[o] /\ seen[o] = 0

IndInv == TypeOK /\ NamesAgree /\ MutexHolder /\ SecretsAge /\ Unproposed /\ OpInv

-----------------------------------------------------------------------------
(* An operation nobody works on.                                           *)

\* No row, process or sandbox of o changes.
SameOp(o) ==
    /\ oGrant'[o] = oGrant[o] /\ grant'[oGrant[o]] = grant[oGrant[o]]
    /\ oStatus'[o] = oStatus[o] /\ pStatus'[o] = pStatus[o] /\ claim'[o] = claim[o]
    /\ process'[o] = process[o] /\ sandbox'[o] = sandbox[o] /\ seen'[o] = seen[o]
    /\ o \in applied' <=> o \in applied

\* A thread that works on o goes on doing so, and no other one starts to.
SameThread(o) ==
    \/ exec'[CommissionOf(o)] = exec[CommissionOf(o)]
    \/ exec[CommissionOf(o)].op # o /\ exec'[CommissionOf(o)].op # o

\* Entries disappear, and new ones hold new secrets.
KeysMove ==
    \A r \in Ref : keychain'[r] \in {0, keychain[r], stored[r] + 1}

\* A clean-up after a crash that is reported as done was done.
SameRecovery(o) ==
    phase' = "down" /\ oStatus'[o] = "started" /\ recovery'[o] = "ok"
        => phase = "down" /\ oStatus[o] = "started" /\ recovery[o] = "ok"

\* No secret that o could have read comes back.
LEMMA EntryStaysGone ==
    ASSUME TypeOK, NamesAgree, SecretsAge, KeysMove, NEW o \in Op, oGrant[o] \in Grant,
           SameOp(o), EntryGone(o)
    PROVE  EntryGone(o)'
<1>1. RefOf(o) \in Ref /\ RefOf(o)' = RefOf(o)
    BY CredentialsAssumption DEF NamesAgree, RefOf, SameOp
<1>2. keychain[RefOf(o)] \in Nat /\ stored[RefOf(o)] \in Nat /\ seen[o] \in Nat
    BY <1>1 DEF TypeOK
<1>3. seen[o] <= stored[RefOf(o)]
    BY DEF SecretsAge
<1>4. keychain'[RefOf(o)] \in {0, keychain[RefOf(o)], stored[RefOf(o)] + 1}
    BY <1>1 DEF KeysMove
<1> QED
    BY <1>1, <1>2, <1>3, <1>4 DEF EntryGone, SameOp

LEMMA Unmoved ==
    ASSUME TypeOK, NamesAgree, SecretsAge, KeysMove, NEW o \in Op, oGrant[o] \in Grant,
           SameOp(o), SameThread(o), SameRecovery(o), Stage(o), Rows(o)
    PROVE  Stage(o)' /\ Rows(o)'
<1>1. CommissionOf(o)' = CommissionOf(o) /\ OneShot(o)' = OneShot(o)
    BY DEF SameOp, CommissionOf, OneShot
<1>2. Holds(o)' = Holds(o)
    BY DEF SameOp, Holds
<1>3. Untouched(o)' = Untouched(o)
    BY DEF SameOp, Untouched
<1>4. EntryGone(o) => EntryGone(o)'
    BY EntryStaysGone
<1>5. Where(o)' = Where(o)
    BY <1>1 DEF Where, SameThread
<1>6. Where(o) # "idle" => exec'[CommissionOf(o)] = exec[CommissionOf(o)]
    BY DEF Where, SameThread
<1>7. Rows(o)'
    BY <1>1, <1>2, <1>3, <1>4 DEF Rows, SameOp, SameRecovery
<1>8. Stage(o)'
    BY <1>1, <1>2, <1>3, <1>4, <1>5, <1>6 DEF Stage, SameOp, OutcomeHolds
<1> QED
    BY <1>7, <1>8

\* An operation that has a grant belongs to a Commission and an entry.
LEMMA GrantOf ==
    ASSUME NamesAgree, NEW o \in Op, oGrant[o] \in Grant
    PROVE  /\ oStatus[o] # "none" /\ gStatus[oGrant[o]] # "none"
           /\ CommissionOf(o) \in Commission /\ RefOf(o) \in Ref
BY CredentialsAssumption DEF NamesAgree, CommissionOf, RefOf

\* The rows that no thread changes are as they were, and so is the state of every
\* operation but o.
OnlyAffects(o) ==
    /\ UNCHANGED <<grantVars, oGrant, stored, phase>>
    /\ process' \in [Op -> Process] /\ sandbox' \in [Op -> {"none", "open", "holding"}]
    /\ pStatus' \in [Op -> {"none", "active", "contained"}]
    /\ seen' \in [Op -> 0..MaxSecrets] /\ keychain' \in [Ref -> 0..MaxSecrets]
    /\ seen'[o] \in {seen[o], keychain[RefOf(o)]}
    /\ \A r \in Ref : keychain'[r] \in {0, keychain[r]}
    /\ \A p \in Op \ {o} : /\ process'[p] = process[p] /\ sandbox'[p] = sandbox[p]
                           /\ pStatus'[p] = pStatus[p] /\ seen'[p] = seen[p]
                           /\ recovery'[p] = recovery[p] /\ (p \in applied' <=> p \in applied)

\* The thread of o goes on, as e.
GoesOn(o, e) ==
    /\ OnlyAffects(o)
    /\ e \in Exec /\ e.op = o /\ e.step \notin {"idle", "observe"}
    /\ Becomes(o, e)
    /\ UNCHANGED <<cStatus, current, oStatus, exposureGrant, claim, applied, recovery, faults>>

\* A thread at some step holds the mutex of the operation's Commission.
LEMMA ThreadHolds ==
    ASSUME TypeOK, NamesAgree, MutexHolder, NEW o \in Op, NEW s, At(o, s)
    PROVE  /\ oGrant[o] \in Grant /\ CommissionOf(o) \in Commission
           /\ exec[CommissionOf(o)].op = o /\ Where(o) = s /\ s # "idle" /\ phase = "up"
           /\ oStatus[o] = (IF s = "observe" THEN "uncertain" ELSE "started")
           /\ s # "observe" => oGrant[o] \notin withdrawn
<1>1. oGrant[o] \in Grant
    BY DEF At, TypeOK
<1>2. CommissionOf(o) \in Commission
    BY <1>1, GrantOf
<1>3. exec[CommissionOf(o)].op = o /\ exec[CommissionOf(o)].step = s /\ phase = "up"
    BY DEF At
<1>4. exec[CommissionOf(o)] # Idle
    BY <1>3, CredentialsAssumption DEF Idle
<1> QED
    BY <1>1, <1>2, <1>3, <1>4 DEF MutexHolder, Where

\* What a step of o's thread leaves of the rest of the invariant.
LEMMA OthersKept ==
    ASSUME IndInv, NEW o \in Op, oGrant[o] \in Grant, OnlyAffects(o),
           \A p \in Op \ {o} : oStatus'[p] = oStatus[p] /\ claim'[p] = claim[p] /\ SameThread(p)
    PROVE  /\ SecretsAge'
           /\ \A p \in Op \ {o} : oGrant'[p] \in Grant => Stage(p)' /\ Rows(p)'
<1> USE DEF IndInv
<1>1. RefOf(o) \in Ref
    BY GrantOf
<1>2. KeysMove
    BY DEF OnlyAffects, KeysMove
<1>3. SecretsAge'
  <2>1. \A r \in Ref : keychain'[r] <= stored'[r]
    BY DEF OnlyAffects, SecretsAge, TypeOK
  <2>2. ASSUME NEW p \in Op, oGrant'[p] \in Grant
        PROVE  seen'[p] <= stored'[RefOf(p)']
    <3>1. RefOf(p)' = RefOf(p) /\ oGrant[p] \in Grant
        BY <2>2 DEF OnlyAffects, grantVars, RefOf
    <3>2. seen[p] <= stored[RefOf(p)]
        BY <3>1 DEF SecretsAge
    <3>3. CASE p # o
        BY <3>1, <3>2, <3>3 DEF OnlyAffects
    <3>4. CASE p = o
        BY <3>1, <3>2, <3>4, <1>1 DEF OnlyAffects, SecretsAge
    <3> QED
        BY <3>3, <3>4
  <2> QED
    BY <2>1, <2>2 DEF SecretsAge
<1>4. ASSUME NEW p \in Op \ {o}, oGrant'[p] \in Grant
      PROVE  Stage(p)' /\ Rows(p)'
  <2>1. oGrant[p] \in Grant /\ SameOp(p) /\ SameRecovery(p)
    BY <1>4 DEF OnlyAffects, grantVars, SameOp, SameRecovery
  <2>2. Stage(p) /\ Rows(p)
    BY <2>1 DEF OpInv
  <2> QED
    BY <1>2, <2>1, <2>2, Unmoved
<1> QED
    BY <1>3, <1>4

\* A step of a thread that goes on keeps the invariant, if it keeps what it says
\* of the thread's own operation.
LEMMA ThreadGoesOn ==
    ASSUME IndInv, NEW o \in Op, NEW s, At(o, s), s # "observe", NEW e, GoesOn(o, e),
           Stage(o)', Rows(o)'
    PROVE  IndInv'
<1> USE DEF IndInv
<1> DEFINE c == CommissionOf(o)
<1>1. /\ oGrant[o] \in Grant /\ c \in Commission /\ exec[c].op = o /\ phase = "up"
      /\ oStatus[o] = "started" /\ oGrant[o] \notin withdrawn
    BY ThreadHolds
<1>2. exec' = [exec EXCEPT ![c] = e]
    BY DEF GoesOn, Becomes
<1>3. exec' \in [Commission -> Exec]
    BY <1>1, <1>2 DEF GoesOn, TypeOK
<1>4. TypeOK'
    BY <1>3 DEF TypeOK, GoesOn, OnlyAffects, grantVars
<1>5. NamesAgree'
    BY DEF NamesAgree, GoesOn, OnlyAffects, grantVars
<1>6. MutexHolder'
  <2> SUFFICES ASSUME NEW d \in Commission, exec'[d] # Idle
               PROVE  /\ phase' = "up" /\ exec'[d].op \in Op /\ exec'[d].step # "idle"
                      /\ oGrant'[exec'[d].op] \in Grant
                      /\ grant'[oGrant'[exec'[d].op]].commission = d
                      /\ oStatus'[exec'[d].op] = (IF exec'[d].step = "observe" THEN "uncertain"
                                                  ELSE "started")
                      /\ exec'[d].step # "observe" => oGrant'[exec'[d].op] \notin withdrawn'
    BY DEF MutexHolder, CommissionOf
  <2>1. CASE d = c
    <3>1. exec'[d] = e
        BY <2>1, <1>2, <1>1 DEF TypeOK
    <3> QED
        BY <2>1, <3>1, <1>1 DEF GoesOn, OnlyAffects, grantVars, CommissionOf
  <2>2. CASE d # c
    <3>1. exec'[d] = exec[d]
        BY <2>2, <1>2 DEF TypeOK
    <3> QED
        BY <3>1 DEF MutexHolder, GoesOn, OnlyAffects, grantVars, CommissionOf
  <2> QED
    BY <2>1, <2>2
<1>7. \A p \in Op \ {o} : SameThread(p)
  <2> SUFFICES ASSUME NEW p \in Op \ {o} PROVE SameThread(p)
    OBVIOUS
  <2>1. CASE CommissionOf(p) = c
    <3>1. exec'[c] = e
        BY <1>1, <1>2 DEF TypeOK
    <3> QED
        BY <2>1, <3>1, <1>1 DEF SameThread, GoesOn
  <2>2. CASE CommissionOf(p) # c
        BY <2>2, <1>2 DEF SameThread, TypeOK
  <2> QED
    BY <2>1, <2>2
<1>8. \A p \in Op \ {o} : oStatus'[p] = oStatus[p] /\ claim'[p] = claim[p] /\ SameThread(p)
    BY <1>7 DEF GoesOn
<1>9. OnlyAffects(o)
    BY DEF GoesOn
<1>10. SecretsAge' /\ \A p \in Op \ {o} : oGrant'[p] \in Grant => Stage(p)' /\ Rows(p)'
    BY <1>1, <1>8, <1>9, OthersKept
<1>11. OpInv'
    BY <1>10 DEF OpInv
<1>12. Unproposed'
    BY <1>1, CredentialsAssumption DEF Unproposed, GoesOn, OnlyAffects
<1> QED
    BY <1>4, <1>5, <1>6, <1>10, <1>11, <1>12

-----------------------------------------------------------------------------
(* The thread of an operation, one lemma per step.                         *)

\* Updating the step of a thread.
LEMMA StepOf ==
    ASSUME NEW e \in Exec, NEW s
    PROVE  [e EXCEPT !.step = s]
                = [op |-> e.op, outcome |-> e.outcome, contained |-> e.contained, step |-> s]
BY DEF Exec

\* What o's own part of the invariant is about, before and after a step.
LEMMA Own ==
    ASSUME IndInv, NEW o \in Op, NEW s, At(o, s), s # "observe", NEW e, GoesOn(o, e)
    PROVE  /\ Where(o) = s /\ exec[CommissionOf(o)].op = o
           /\ Where(o)' = e.step /\ (exec[CommissionOf(o)])' = e
           /\ OneShot(o)' = OneShot(o) /\ RefOf(o)' = RefOf(o)
           /\ oStatus[o] = "started" /\ oStatus'[o] = "started" /\ phase' = "up"
           /\ ~claim'[o] /\ pStatus[o] # "contained"
           /\ (o \in applied') = (o \in applied)
           /\ Stage(o) /\ Rows(o)
<1> USE DEF IndInv
<1>1. /\ oGrant[o] \in Grant /\ CommissionOf(o) \in Commission /\ Where(o) = s
      /\ exec[CommissionOf(o)].op = o /\ phase = "up" /\ oStatus[o] = "started"
    BY ThreadHolds
<1>2. CommissionOf(o)' = CommissionOf(o) /\ OneShot(o)' = OneShot(o) /\ RefOf(o)' = RefOf(o)
    BY DEF GoesOn, OnlyAffects, grantVars, CommissionOf, OneShot, RefOf
<1>3. exec'[CommissionOf(o)] = e
    BY <1>1 DEF GoesOn, Becomes, TypeOK
<1>4. Where(o)' = e.step
    BY <1>2, <1>3 DEF Where, GoesOn
<1>5. Stage(o) /\ Rows(o)
    BY <1>1 DEF OpInv
<1> QED
    BY <1>1, <1>2, <1>3, <1>4, <1>5 DEF GoesOn, OnlyAffects, Rows

\* The next step of a thread, or its end with an outcome.
NextStep(o, s) == [op |-> o, outcome |-> exec[CommissionOf(o)].outcome,
                   contained |-> exec[CommissionOf(o)].contained, step |-> s]
End(o, s, outcome, contained) ==
    [op |-> o, step |-> s, outcome |-> outcome, contained |-> contained]

ThreadSteps == {"recheck", "read", "spawn", "register", "write", "wait", "egress", "create",
                "deliver", "finish", "delete", "revoke", "record"}

\* What no step of a thread changes before the outcome is recorded.
Unrecorded == UNCHANGED <<cStatus, current, oStatus, exposureGrant, claim, applied, recovery, faults>>

LEMMA Advances ==
    ASSUME IndInv, NEW o \in Op, NEW s, At(o, s), OnlyAffects(o), Unrecorded,
           NEW t \in ThreadSteps, Step(o, t)
    PROVE  \E e : GoesOn(o, e) /\ e.step = t
<1>1. CommissionOf(o) \in Commission /\ exec[CommissionOf(o)].op = o
    BY ThreadHolds DEF IndInv
<1>2. exec[CommissionOf(o)] \in Exec
    BY <1>1 DEF TypeOK, IndInv
<1>3. [exec[CommissionOf(o)] EXCEPT !.step = t] = NextStep(o, t)
    BY <1>1, <1>2, StepOf DEF NextStep
<1>4. Becomes(o, NextStep(o, t))
    BY <1>3, Zenon DEF Step
<1>5. NextStep(o, t) \in Exec /\ NextStep(o, t).op = o /\ NextStep(o, t).step = t
    BY <1>2 DEF NextStep, Exec, ThreadSteps
<1>6. GoesOn(o, NextStep(o, t)) /\ NextStep(o, t).step = t
    BY <1>4, <1>5 DEF GoesOn, ThreadSteps, Unrecorded
<1> QED
    BY <1>6

\* The thread has an outcome, and knows whether it is contained.
Ended(o, t, x, b) == \E e : GoesOn(o, e) /\ e.step = t /\ e.outcome = x /\ e.contained = b

LEMMA Concludes ==
    ASSUME NEW o \in Op, OnlyAffects(o), Unrecorded,
           NEW t \in ThreadSteps, NEW x \in Outcomes, NEW b \in BOOLEAN, EndsAt(o, t, x, b)
    PROVE  Ended(o, t, x, b)
<1> DEFINE e == End(o, t, x, b)
<1>1. e \in Exec /\ e.op = o /\ e.step = t
    BY DEF End, Exec, ThreadSteps
<1>2. Becomes(o, e)
    BY DEF EndsAt, End
<1>3. e.outcome = x /\ e.contained = b
    BY DEF End
<1>4. GoesOn(o, e)
    BY <1>1, <1>2 DEF GoesOn, ThreadSteps, Unrecorded
<1> QED
    BY <1>1, <1>3, <1>4 DEF Ended

\* The thread has an outcome and nothing that contains its effect.
EndedOpen(o, t, x) == \E e : GoesOn(o, e) /\ e.step = t /\ e.outcome = x /\ ~e.contained

LEMMA Uncontained ==
    ASSUME NEW o \in Op, OnlyAffects(o), Unrecorded,
           NEW t \in ThreadSteps, NEW x \in Outcomes, EndsAt(o, t, x, FALSE)
    PROVE  EndedOpen(o, t, x)
<1> DEFINE e == End(o, t, x, FALSE)
<1>1. e \in Exec /\ e.op = o /\ e.step = t
    BY DEF End, Exec, ThreadSteps
<1>2. Becomes(o, e)
    BY DEF EndsAt, End
<1>3. e.outcome = x /\ ~e.contained
    BY DEF End
<1>4. GoesOn(o, e)
    BY <1>1, <1>2 DEF GoesOn, ThreadSteps, Unrecorded
<1> QED
    BY <1>1, <1>3, <1>4 DEF EndedOpen

LEMMA Failing ==
    ASSUME NEW o \in Op, OnlyAffects(o), Unrecorded, Fails(o)
    PROVE  EndedOpen(o, "revoke", "failed")
BY Uncontained DEF Fails, ThreadSteps, Outcomes

LEMMA RecheckKeeps == ASSUME IndInv, NEW o \in Op, Recheck(o) PROVE IndInv'
<1>1. At(o, "recheck")
    BY DEF Recheck
<1>2. OnlyAffects(o) /\ Unrecorded /\ UNCHANGED <<process, sandbox, pStatus>>
    BY DEF Recheck, RunFrame, OnlyAffects, Unrecorded, opVars, hostVars, TypeOK, IndInv
<1>3. CASE Step(o, "read")
  <2>1. PICK e : GoesOn(o, e) /\ e.step = "read"
    BY <1>1, <1>2, <1>3, Advances DEF ThreadSteps
  <2>2. Stage(o)' /\ Rows(o)'
    BY <1>1, <1>2, <2>1, Own DEF Stage, Rows, Untouched, Holds
  <2> QED
    BY <1>1, <2>1, <2>2, ThreadGoesOn
<1>4. CASE Fails(o)
  <2>1. PICK e : GoesOn(o, e) /\ e.step = "revoke" /\ e.outcome = "failed" /\ ~e.contained
    BY <1>2, <1>4, Failing DEF EndedOpen
  <2>2. Stage(o)' /\ Rows(o)'
    BY <1>1, <1>2, <2>1, Own DEF Stage, Rows, Untouched, Holds, OutcomeHolds
  <2> QED
    BY <1>1, <2>1, <2>2, ThreadGoesOn
<1> QED
    BY <1>3, <1>4 DEF Recheck

LEMMA ReadSecretKeeps == ASSUME IndInv, NEW o \in Op, ReadSecret(o) PROVE IndInv'
<1>1. At(o, "read") /\ RefOf(o) \in Ref
    BY ThreadHolds, GrantOf DEF ReadSecret, IndInv
<1>2. OnlyAffects(o) /\ Unrecorded /\ UNCHANGED <<process, sandbox, pStatus>>
    BY <1>1 DEF ReadSecret, RunFrame, OnlyAffects, Unrecorded, opVars, hostVars, TypeOK, IndInv
<1>3. ASSUME NEW t \in {"egress", "spawn"}, Step(o, t), t = "egress" <=> OneShot(o)
      PROVE  IndInv'
  <2>1. PICK e : GoesOn(o, e) /\ e.step = t
    BY <1>1, <1>2, <1>3, Advances DEF ThreadSteps
  <2>2. Stage(o)' /\ Rows(o)'
    BY <1>1, <1>2, <1>3, <2>1, Own DEF Stage, Rows, Untouched, Holds
  <2> QED
    BY <1>1, <2>1, <2>2, ThreadGoesOn
<1>4. CASE Fails(o)
  <2>1. PICK e : GoesOn(o, e) /\ e.step = "revoke" /\ e.outcome = "failed" /\ ~e.contained
    BY <1>2, <1>4, Failing DEF EndedOpen
  <2>2. Stage(o)' /\ Rows(o)'
    BY <1>1, <1>2, <2>1, Own DEF Stage, Rows, Untouched, Holds, OutcomeHolds
  <2> QED
    BY <1>1, <2>1, <2>2, ThreadGoesOn
<1>5. CASE Step(o, IF OneShot(o) THEN "egress" ELSE "spawn")
    BY <1>3, <1>5
<1> QED
    BY <1>4, <1>5 DEF ReadSecret

LEMMA SpawnKeeps == ASSUME IndInv, NEW o \in Op, Spawn(o) PROVE IndInv'
<1>1. At(o, "spawn")
    BY DEF Spawn
<1>2. /\ OnlyAffects(o) /\ Unrecorded /\ UNCHANGED <<sandbox, pStatus>>
      /\ process'[o] \in {process[o], "waiting"}
  <2>1. process' = process \/ process' = [process EXCEPT ![o] = "waiting"]
    BY DEF Spawn, SetProcess
  <2> QED
    BY <2>1 DEF Spawn, Process, RunFrame, OnlyAffects, Unrecorded, opVars, grantVars, TypeOK, IndInv
<1>3. CASE Step(o, "register") /\ SetProcess(o, "waiting")
  <2>1. PICK e : GoesOn(o, e) /\ e.step = "register"
    BY <1>1, <1>2, <1>3, Advances DEF ThreadSteps
  <2>2. process'[o] = "waiting"
    BY <1>3 DEF SetProcess, TypeOK, IndInv
  <2>3. Stage(o)' /\ Rows(o)'
    BY <1>1, <1>2, <2>1, <2>2, Own DEF Stage, Rows, Untouched, Holds
  <2> QED
    BY <1>1, <2>1, <2>3, ThreadGoesOn
<1>4. ASSUME NEW x \in {"failed", "uncertain"}, EndsAt(o, "revoke", x, FALSE), UNCHANGED process
      PROVE  IndInv'
  <2>1. PICK e : GoesOn(o, e) /\ e.step = "revoke" /\ e.outcome = x /\ ~e.contained
    <3>1. OnlyAffects(o) /\ Unrecorded /\ "revoke" \in ThreadSteps /\ x \in Outcomes
        BY <1>2 DEF ThreadSteps, Outcomes
    <3>2. EndedOpen(o, "revoke", x)
        BY <3>1, <1>4, Uncontained
    <3> QED
        BY <3>2 DEF EndedOpen
  <2>2. Stage(o)' /\ Rows(o)'
    BY <1>1, <1>2, <1>4, <2>1, Own DEF Stage, Rows, Untouched, Holds, OutcomeHolds
  <2> QED
    BY <1>1, <2>1, <2>2, ThreadGoesOn
<1> QED
    BY <1>3, <1>4 DEF Spawn, Fails

LEMMA RegisterKeeps == ASSUME IndInv, NEW o \in Op, Register(o) PROVE IndInv'
<1>1. At(o, "register")
    BY DEF Register, RegisterProcess
<1>2. /\ OnlyAffects(o) /\ Unrecorded /\ UNCHANGED sandbox
      /\ process'[o] \in {process[o], "gone"} /\ pStatus'[o] \in {pStatus[o], "active"}
  <2>1. process' = process \/ process' = [process EXCEPT ![o] = "gone"]
    BY DEF Register, RegisterProcess, KillGroup, SetProcess
  <2>2. pStatus' = pStatus \/ pStatus' = [pStatus EXCEPT ![o] = "active"]
    BY DEF Register, RegisterProcess
  <2> QED
    BY <2>1, <2>2 DEF Register, Process, OnlyAffects, Unrecorded, grantVars, keyVars, TypeOK, IndInv
<1>3. CASE Step(o, "write") /\ pStatus' = [pStatus EXCEPT ![o] = "active"] /\ UNCHANGED process
  <2>1. PICK e : GoesOn(o, e) /\ e.step = "write"
    BY <1>1, <1>2, <1>3, Advances DEF ThreadSteps
  <2>2. pStatus'[o] = "active"
    BY <1>3 DEF TypeOK, IndInv
  <2>3. Stage(o)' /\ Rows(o)'
    BY <1>1, <1>2, <1>3, <2>1, <2>2, Own DEF Stage, Rows, Untouched, Holds
  <2> QED
    BY <1>1, <2>1, <2>3, ThreadGoesOn
<1>4. CASE EndsAt(o, "revoke", "uncertain", FALSE)
  <2>1. PICK e : GoesOn(o, e) /\ e.step = "revoke" /\ e.outcome = "uncertain" /\ ~e.contained
    <3>1. OnlyAffects(o) /\ Unrecorded /\ "revoke" \in ThreadSteps /\ "uncertain" \in Outcomes
        BY <1>2 DEF ThreadSteps, Outcomes
    <3>2. EndedOpen(o, "revoke", "uncertain")
        BY <3>1, <1>4, Uncontained
    <3> QED
        BY <3>2 DEF EndedOpen
  <2>2. Stage(o)' /\ Rows(o)'
    BY <1>1, <1>2, <2>1, Own DEF Stage, Rows, Untouched, Holds, OutcomeHolds
  <2> QED
    BY <1>1, <2>1, <2>2, ThreadGoesOn
<1> QED
    BY <1>3, <1>4 DEF Register, RegisterProcess

LEMMA WriteSecretKeeps == ASSUME IndInv, NEW o \in Op, WriteSecret(o) PROVE IndInv'
<1>1. At(o, "write") /\ Step(o, "wait")
    BY DEF WriteSecret
<1>2. /\ OnlyAffects(o) /\ Unrecorded /\ UNCHANGED <<sandbox, pStatus>>
      /\ process'[o] \in {process[o], "holding"}
    BY DEF WriteSecret, SetProcess, Process, RunFrame, OnlyAffects, Unrecorded, opVars, TypeOK,
           IndInv
<1>3. PICK e : GoesOn(o, e) /\ e.step = "wait"
    BY <1>1, <1>2, Advances DEF ThreadSteps
<1>4. Stage(o)' /\ Rows(o)'
    BY <1>1, <1>2, <1>3, Own DEF Stage, Rows, Untouched, Holds
<1> QED
    BY <1>1, <1>3, <1>4, ThreadGoesOn

LEMMA AwaitProcessKeeps == ASSUME IndInv, NEW o \in Op, AwaitProcess(o) PROVE IndInv'
<1>1. At(o, "wait")
    BY DEF AwaitProcess
<1>2. /\ OnlyAffects(o) /\ Unrecorded /\ UNCHANGED <<sandbox, pStatus>>
      /\ process'[o] \in {process[o], "gone"}
  <2>1. process' = process \/ process' = [process EXCEPT ![o] = "gone"]
    BY DEF AwaitProcess, SetProcess, KillGroup
  <2> QED
    BY <2>1 DEF AwaitProcess, Process, RunFrame, OnlyAffects, Unrecorded, opVars, grantVars, TypeOK,
                IndInv
<1>3. ASSUME NEW x \in ResponseOutcomes(o), SetProcess(o, "gone"), EndsAt(o, "revoke", x, TRUE)
      PROVE  IndInv'
  <2>1. /\ OnlyAffects(o) /\ Unrecorded /\ "revoke" \in ThreadSteps /\ x \in Outcomes
        /\ TRUE \in BOOLEAN
    BY <1>2 DEF ThreadSteps, Outcomes, ResponseOutcomes
  <2>2. Ended(o, "revoke", x, TRUE)
    BY <1>3, <2>1, Concludes, Zenon
  <2>3. PICK e : GoesOn(o, e) /\ e.step = "revoke" /\ e.outcome = x
    BY <2>2 DEF Ended
  <2>4. process'[o] = "gone" /\ x # "none" /\ x # "failed" /\ (x = "confirmed" => o \in applied)
    BY <1>3 DEF SetProcess, TypeOK, IndInv, ResponseOutcomes
  <2>5. Stage(o)' /\ Rows(o)'
    BY <1>1, <1>2, <2>3, <2>4, Own DEF Stage, Rows, Untouched, Holds, OutcomeHolds
  <2> QED
    BY <1>1, <2>3, <2>5, ThreadGoesOn
<1>4. CASE EndsAt(o, "revoke", "uncertain", FALSE)
  <2>1. OnlyAffects(o) /\ Unrecorded /\ "revoke" \in ThreadSteps /\ "uncertain" \in Outcomes
    BY <1>2 DEF ThreadSteps, Outcomes
  <2>2. EndedOpen(o, "revoke", "uncertain")
    BY <1>4, <2>1, Uncontained
  <2>3. PICK e : GoesOn(o, e) /\ e.step = "revoke" /\ e.outcome = "uncertain" /\ ~e.contained
    BY <2>2 DEF EndedOpen
  <2>4. Stage(o)' /\ Rows(o)'
    BY <1>1, <1>2, <2>3, Own DEF Stage, Rows, Untouched, Holds, OutcomeHolds
  <2> QED
    BY <1>1, <2>3, <2>4, ThreadGoesOn
<1> QED
    BY <1>3, <1>4 DEF AwaitProcess

\* An effect sandbox that was not given the secret is open or deleted again.
LEMMA SandboxMoves ==
    ASSUME IndInv, NEW o \in Op, NEW s, At(o, s),
           RunFrame, UNCHANGED <<seen, process, applied>>,
           \/ UNCHANGED sandbox
           \/ \E b \in {"none", "open", "holding"} : SetSandbox(o, b)
    PROVE  OnlyAffects(o) /\ Unrecorded /\ UNCHANGED <<process, pStatus>>
BY SMTT(30) DEF SetSandbox, RunFrame, OnlyAffects, Unrecorded, opVars, TypeOK, IndInv

\* Both ways to prepare a sandbox end in the same two ways.
LEMMA PrepareKeeps ==
    ASSUME IndInv, NEW o \in Op, NEW s \in {"egress", "create"}, At(o, s),
           RunFrame, UNCHANGED <<seen, process, applied>>,
           NEW t \in {"create", "deliver"},
           \/ /\ UNCHANGED sandbox \/ SetSandbox(o, "open")
              /\ Step(o, t)
           \/ (\E b \in DeletedOrNot : SetSandbox(o, b)) /\ Fails(o)
    PROVE  IndInv'
<1>1. OnlyAffects(o) /\ Unrecorded /\ UNCHANGED <<process, pStatus>>
    BY SandboxMoves DEF DeletedOrNot
<1>2. sandbox'[o] \in {sandbox[o], "none", "open"}
    BY DEF SetSandbox, DeletedOrNot, TypeOK, IndInv
<1>3. CASE Step(o, t)
  <2>1. PICK e : GoesOn(o, e) /\ e.step = t
    BY <1>1, <1>3, Advances DEF ThreadSteps
  <2>2. Stage(o)' /\ Rows(o)'
    BY <1>1, <1>2, <2>1, Own DEF Stage, Rows, Untouched, Holds
  <2> QED
    BY <2>1, <2>2, ThreadGoesOn
<1>4. CASE Fails(o)
  <2>1. PICK e : GoesOn(o, e) /\ e.step = "revoke" /\ e.outcome = "failed" /\ ~e.contained
    BY <1>1, <1>4, Failing DEF EndedOpen
  <2>2. Stage(o)' /\ Rows(o)'
    BY <1>1, <1>2, <2>1, Own DEF Stage, Rows, Untouched, Holds, OutcomeHolds
  <2> QED
    BY <2>1, <2>2, ThreadGoesOn
<1> QED
    BY <1>3, <1>4

LEMMA DeliverKeeps == ASSUME IndInv, NEW o \in Op, Deliver(o) PROVE IndInv'
<1>1. At(o, "deliver")
    BY DEF Deliver
<1>2. OnlyAffects(o) /\ Unrecorded /\ UNCHANGED <<process, pStatus>>
    BY <1>1, SandboxMoves DEF Deliver, SetSandbox
<1>3. CASE Step(o, "finish")
  <2>1. PICK e : GoesOn(o, e) /\ e.step = "finish"
    BY <1>1, <1>2, <1>3, Advances DEF ThreadSteps
  <2>2. Stage(o)' /\ Rows(o)'
    BY <1>1, <1>2, <2>1, Own DEF Stage, Rows, Untouched, Holds
  <2> QED
    BY <1>1, <2>1, <2>2, ThreadGoesOn
<1>4. ASSUME NEW x \in {"failed", "uncertain"}, EndsAt(o, "delete", x, FALSE),
             x = "failed" => UNCHANGED sandbox
      PROVE  IndInv'
  <2>1. OnlyAffects(o) /\ Unrecorded /\ "delete" \in ThreadSteps /\ x \in Outcomes
    BY <1>2 DEF ThreadSteps, Outcomes
  <2>2. EndedOpen(o, "delete", x)
    BY <1>4, <2>1, Uncontained
  <2>3. PICK e : GoesOn(o, e) /\ e.step = "delete" /\ e.outcome = x /\ ~e.contained
    BY <2>2 DEF EndedOpen
  <2>4. Stage(o)' /\ Rows(o)'
    BY <1>1, <1>2, <1>4, <2>3, Own DEF Stage, Rows, Untouched, Holds, OutcomeHolds
  <2> QED
    BY <1>1, <2>3, <2>4, ThreadGoesOn
<1> QED
    BY <1>3, <1>4 DEF Deliver, DeliveryOutcome

LEMMA FinishExecKeeps == ASSUME IndInv, NEW o \in Op, FinishExec(o) PROVE IndInv'
<1>1. At(o, "finish")
    BY DEF FinishExec
<1>2. OnlyAffects(o) /\ Unrecorded /\ UNCHANGED <<process, sandbox, pStatus>>
    BY <1>1, SandboxMoves DEF FinishExec, hostVars
<1>3. PICK x \in ResponseOutcomes(o) : EndsAt(o, "delete", x, FALSE)
    BY DEF FinishExec
<1>4. OnlyAffects(o) /\ Unrecorded /\ "delete" \in ThreadSteps /\ x \in Outcomes
    BY <1>2 DEF ThreadSteps, Outcomes, ResponseOutcomes
<1>5. EndedOpen(o, "delete", x)
    BY <1>3, <1>4, Uncontained
<1>6. PICK e : GoesOn(o, e) /\ e.step = "delete" /\ e.outcome = x /\ ~e.contained
    BY <1>5 DEF EndedOpen
<1>7. x # "none" /\ x # "failed" /\ (x = "confirmed" => o \in applied)
    BY DEF ResponseOutcomes
<1>8. Stage(o)' /\ Rows(o)'
    BY <1>1, <1>2, <1>6, <1>7, Own DEF Stage, Rows, Untouched, Holds, OutcomeHolds
<1> QED
    BY <1>1, <1>6, <1>8, ThreadGoesOn

LEMMA CleanSandboxKeeps == ASSUME IndInv, NEW o \in Op, CleanSandbox(o) PROVE IndInv'
<1> DEFINE x == exec[CommissionOf(o)].outcome
<1>1. At(o, "delete")
    BY DEF CleanSandbox
<1>2. OnlyAffects(o) /\ Unrecorded /\ UNCHANGED <<process, pStatus>>
    BY <1>1, SandboxMoves DEF CleanSandbox, DeleteSandbox, SetSandbox
<1>3. x \in Outcomes
    BY <1>1, ThreadHolds DEF IndInv, TypeOK, Exec
<1>4. CASE DeleteSandbox(o, TRUE) /\ EndsAt(o, "revoke", x, x # "failed")
  <2>1. OnlyAffects(o) /\ Unrecorded /\ "revoke" \in ThreadSteps /\ (x # "failed") \in BOOLEAN
    BY <1>2 DEF ThreadSteps
  <2>2. Ended(o, "revoke", x, x # "failed")
    BY <1>3, <1>4, <2>1, Concludes, Zenon
  <2>3. PICK e : GoesOn(o, e) /\ e.step = "revoke" /\ e.outcome = x
    BY <2>2 DEF Ended
  <2>4. sandbox'[o] = "none"
    BY <1>4 DEF DeleteSandbox, SetSandbox, TypeOK, IndInv
  <2>5. x # "none"
    BY <1>1, Own, <2>3 DEF Stage, OutcomeHolds
  <2>6. Stage(o)' /\ Rows(o)'
    BY <1>1, <1>2, <2>3, <2>4, <2>5, Own DEF Stage, Rows, Untouched, Holds, OutcomeHolds
  <2> QED
    BY <1>1, <2>3, <2>6, ThreadGoesOn
<1>5. CASE EndsAt(o, "revoke", "uncertain", FALSE)
  <2>1. OnlyAffects(o) /\ Unrecorded /\ "revoke" \in ThreadSteps /\ "uncertain" \in Outcomes
    BY <1>2 DEF ThreadSteps, Outcomes
  <2>2. EndedOpen(o, "revoke", "uncertain")
    BY <1>5, <2>1, Uncontained
  <2>3. PICK e : GoesOn(o, e) /\ e.step = "revoke" /\ e.outcome = "uncertain" /\ ~e.contained
    BY <2>2 DEF EndedOpen
  <2>4. Stage(o)' /\ Rows(o)'
    BY <1>1, <1>2, <2>3, Own DEF Stage, Rows, Untouched, Holds, OutcomeHolds
  <2> QED
    BY <1>1, <2>3, <2>4, ThreadGoesOn
<1> QED
    BY <1>4, <1>5 DEF CleanSandbox

LEMMA RevokeCredentialKeeps == ASSUME IndInv, NEW o \in Op, RevokeCredential(o) PROVE IndInv'
<1> DEFINE old == exec[CommissionOf(o)]
<1>1. At(o, "revoke") /\ oGrant[o] \in Grant
    BY ThreadHolds DEF RevokeCredential, IndInv
<1>2. PICK verified \in BOOLEAN :
        /\ RevokeAndVerify(RefOf(o), verified)
        /\ EndsAt(o, "record", OutcomeAfterRevocation(old.outcome, verified), old.contained)
    BY DEF RevokeCredential
<1>3. RefOf(o) \in Ref
    BY <1>1, GrantOf DEF IndInv
<1>4. OnlyAffects(o) /\ Unrecorded /\ UNCHANGED <<process, sandbox, pStatus, seen>>
  <2>1. keychain' \in [Ref -> 0..MaxSecrets] /\ \A r \in Ref : keychain'[r] \in {0, keychain[r]}
    BY <1>2, <1>3, CredentialsAssumption DEF RevokeAndVerify, TypeOK, IndInv
  <2> QED
    BY <2>1 DEF RevokeCredential, OnlyAffects, Unrecorded, opVars, grantVars, hostVars, TypeOK, IndInv
<1>5. old.outcome \in Outcomes /\ old.contained \in BOOLEAN
    BY <1>1, ThreadHolds DEF IndInv, TypeOK, Exec
<1> DEFINE x == OutcomeAfterRevocation(old.outcome, verified)
<1>6. x \in Outcomes /\ x \in {old.outcome, "uncertain"} /\ (x # "uncertain" => verified)
    BY <1>5 DEF OutcomeAfterRevocation, Outcomes
<1>7. OnlyAffects(o) /\ Unrecorded /\ "record" \in ThreadSteps
    BY <1>4 DEF ThreadSteps
<1>8. EndsAt(o, "record", x, old.contained)
    BY <1>2
<1> HIDE DEF x
<1>9. Ended(o, "record", x, old.contained)
    BY <1>5, <1>6, <1>7, <1>8, Concludes, Zenon
<1>10. PICK e : GoesOn(o, e) /\ e.step = "record" /\ e.outcome = x /\ e.contained = old.contained
    BY <1>9 DEF Ended
<1>11. x # "uncertain" => (EntryGone(o))'
  <2>1. x # "uncertain" => keychain'[RefOf(o)] = 0
    BY <1>2, <1>6 DEF RevokeAndVerify
  <2> QED
    BY <1>1, <1>10, <2>1, Own DEF EntryGone
<1>12. Stage(o)' /\ Rows(o)'
    BY <1>1, <1>4, <1>6, <1>10, <1>11, Own DEF Stage, Rows, Untouched, Holds, OutcomeHolds
<1> QED
    BY <1>1, <1>10, <1>12, ThreadGoesOn

-----------------------------------------------------------------------------
(* A thread that ends or starts, and what happens around the daemon.       *)

\* The rows of one operation change, and the mutex of its Commission may change
\* hands between it and nobody.
LEMMA OneOperation ==
    ASSUME IndInv, NEW o \in Op, oGrant[o] \in Grant, OnlyAffects(o),
           NEW e \in Exec, e = Idle \/ e.op = o, exec[CommissionOf(o)].op \in {o, Nobody},
           Becomes(o, e),
           cStatus' \in [Commission -> {"active", "paused", "cancelled"}],
           UNCHANGED <<current, exposureGrant>>,
           oStatus' \in [Op -> OperationStatus], claim' \in [Op -> BOOLEAN],
           applied' \subseteq Op, recovery' \in [Op -> {"todo", "ok", "failed"}],
           faults' \in 0..MaxFaults,
           \A p \in Op \ {o} : oStatus'[p] = oStatus[p] /\ claim'[p] = claim[p],
           oStatus'[o] # "none",
           e # Idle => /\ phase = "up" /\ e.step = "observe" /\ oStatus'[o] = "uncertain",
           Stage(o)', Rows(o)'
    PROVE  IndInv'
<1> USE DEF IndInv
<1> DEFINE c == CommissionOf(o)
<1>1. c \in Commission
    BY GrantOf
<1>2. exec' = [exec EXCEPT ![c] = e]
    BY DEF Becomes
<1>3. exec' \in [Commission -> Exec]
    BY <1>1, <1>2 DEF TypeOK
<1>4. TypeOK'
    BY <1>3 DEF TypeOK, OnlyAffects, grantVars
<1>5. NamesAgree'
  <2>1. UNCHANGED <<grantVars, oGrant>>
    BY DEF OnlyAffects
  <2>2. \A p \in Op : oStatus'[p] = "none" => oStatus[p] = "none"
    OBVIOUS
  <2>3. \A p \in Op : oStatus[p] = "none" => oStatus'[p] = "none"
    BY GrantOf
  <2> QED
    BY <2>1, <2>2, <2>3 DEF NamesAgree, grantVars
<1>6. MutexHolder'
  <2> SUFFICES ASSUME NEW d \in Commission, exec'[d] # Idle
               PROVE  /\ phase' = "up" /\ exec'[d].op \in Op /\ exec'[d].step # "idle"
                      /\ oGrant'[exec'[d].op] \in Grant
                      /\ grant'[oGrant'[exec'[d].op]].commission = d
                      /\ oStatus'[exec'[d].op] = (IF exec'[d].step = "observe" THEN "uncertain"
                                                  ELSE "started")
                      /\ exec'[d].step # "observe" => oGrant'[exec'[d].op] \notin withdrawn'
    BY DEF MutexHolder, CommissionOf
  <2>1. CASE d = c
    <3>1. exec'[d] = e
        BY <2>1, <1>2, <1>1 DEF TypeOK
    <3> QED
        BY <2>1, <3>1, <1>1 DEF OnlyAffects, grantVars, CommissionOf
  <2>2. CASE d # c
    <3>1. exec'[d] = exec[d] /\ exec[d].op # o
        BY <2>2, <1>2 DEF TypeOK, MutexHolder
    <3> QED
        BY <3>1 DEF MutexHolder, OnlyAffects, grantVars, CommissionOf
  <2> QED
    BY <2>1, <2>2
<1>7. \A p \in Op \ {o} : SameThread(p)
  <2> SUFFICES ASSUME NEW p \in Op \ {o} PROVE SameThread(p)
    OBVIOUS
  <2>1. CASE CommissionOf(p) = c
    <3>1. exec'[c] = e /\ e.op # p /\ exec[c].op # p
        BY <1>1, <1>2, CredentialsAssumption DEF TypeOK, Idle
    <3> QED
        BY <2>1, <3>1 DEF SameThread
  <2>2. CASE CommissionOf(p) # c
        BY <2>2, <1>2 DEF SameThread, TypeOK
  <2> QED
    BY <2>1, <2>2
<1>8. SecretsAge' /\ \A p \in Op \ {o} : oGrant'[p] \in Grant => Stage(p)' /\ Rows(p)'
    BY <1>7, OthersKept
<1>9. OpInv'
    BY <1>8 DEF OpInv
<1>10. Unproposed'
    BY CredentialsAssumption DEF Unproposed, OnlyAffects
<1> QED
    BY <1>4, <1>5, <1>6, <1>8, <1>9, <1>10

LEMMA IdleIsExec == Idle \in Exec /\ Idle.op = Nobody /\ Idle.step = "idle"
BY DEF Idle, Exec, Outcomes

\* A thread that is done lets go of its operation.
LEMMA ThreadDone ==
    ASSUME IndInv, NEW o \in Op, NEW s, At(o, s), Becomes(o, Idle), UNCHANGED grantVars,
           UNCHANGED oGrant
    PROVE  Where(o)' = "idle" /\ Stage(o)'
<1>1. CommissionOf(o) \in Commission
    BY ThreadHolds DEF IndInv
<1>2. CommissionOf(o)' = CommissionOf(o)
    BY DEF CommissionOf, grantVars
<1>3. exec'[CommissionOf(o)] = Idle
    BY <1>1 DEF Becomes, TypeOK, IndInv
<1>4. Where(o)' = "idle"
    BY <1>2, <1>3, IdleIsExec, CredentialsAssumption DEF Where
<1> QED
    BY <1>4 DEF Stage

LEMMA RecordOutcomeKeeps == ASSUME IndInv, NEW o \in Op, RecordOutcome(o) PROVE IndInv'
<1> USE DEF IndInv
<1> DEFINE e == exec[CommissionOf(o)]
<1>1. /\ At(o, "record") /\ oGrant[o] \in Grant /\ CommissionOf(o) \in Commission /\ e.op = o
      /\ Where(o) = "record" /\ phase = "up" /\ oStatus[o] = "started"
    BY ThreadHolds DEF RecordOutcome
<1>2. e \in Exec /\ e.outcome \in Outcomes /\ e.contained \in BOOLEAN
    BY <1>1 DEF TypeOK, Exec
<1>3. Stage(o) /\ Rows(o)
    BY <1>1 DEF OpInv
<1>4. e.outcome # "none"
    BY <1>1, <1>3 DEF Stage, OutcomeHolds
<1>5. oStatus' = [oStatus EXCEPT ![o] = e.outcome] /\ claim' = [claim EXCEPT ![o] = e.contained]
    BY DEF RecordOutcome, SetOperation
<1>6. /\ pStatus' \in [Op -> {"none", "active", "contained"}]
      /\ \A p \in Op \ {o} : pStatus'[p] = pStatus[p]
      /\ pStatus'[o] \in {pStatus[o], "contained"}
      /\ pStatus'[o] = "contained" => e.contained \/ pStatus[o] = "contained"
      /\ pStatus[o] # "active" => pStatus'[o] = pStatus[o]
      /\ e.contained \/ pStatus'[o] = pStatus[o]
    BY DEF RecordOutcome, TypeOK
<1>7. cStatus' \in [Commission -> {"active", "paused", "cancelled"}]
    BY <1>1 DEF RecordOutcome, PauseActive, TypeOK
<1>8. OnlyAffects(o)
    BY <1>6 DEF RecordOutcome, OnlyAffects, keyVars, hostVars, TypeOK
<1>9. oStatus' \in [Op -> OperationStatus] /\ oStatus'[o] = e.outcome
    BY <1>2, <1>4, <1>5 DEF TypeOK, OperationStatus, Outcomes
<1>10. claim' \in [Op -> BOOLEAN] /\ claim'[o] = e.contained
    BY <1>2, <1>5 DEF TypeOK
<1>11. \A p \in Op \ {o} : oStatus'[p] = oStatus[p] /\ claim'[p] = claim[p]
    BY <1>5 DEF TypeOK
<1>12. Stage(o)'
    BY <1>1, ThreadDone DEF RecordOutcome
<1>13. Rows(o)'
  <2>1. /\ OneShot(o)' = OneShot(o) /\ RefOf(o)' = RefOf(o)
        /\ UNCHANGED <<process, sandbox, applied, keychain, seen, phase>>
    BY DEF RecordOutcome, OneShot, RefOf, grantVars, hostVars, keyVars
  <2>2. (Holds(o)' <=> Holds(o)) /\ (EntryGone(o)' <=> EntryGone(o))
    BY <2>1 DEF Holds, EntryGone
  <2>3. /\ e.outcome = "failed" => o \notin applied /\ ~Holds(o)
        /\ e.outcome = "confirmed" => o \in applied /\ ~Holds(o)
        /\ e.contained => ~Holds(o)
        /\ e.outcome # "uncertain" => EntryGone(o)
    BY <1>1, <1>3 DEF Stage, OutcomeHolds
  <2>4. e.outcome \in {"confirmed", "failed", "uncertain"}
    BY <1>2, <1>4 DEF Outcomes
  <2>5. process[o] \in {"holding", "orphaned"} => ~e.contained /\ pStatus[o] = "active"
    BY <1>3, <2>3 DEF Rows, Holds
  <2> QED
    BY <1>1, <1>3, <1>6, <1>9, <1>10, <2>1, <2>2, <2>3, <2>4, <2>5 DEF Rows, Untouched
<1>14. e.outcome # "none" /\ Becomes(o, Idle) /\ UNCHANGED <<current, exposureGrant>>
    BY <1>4 DEF RecordOutcome
<1>15. applied' \subseteq Op /\ recovery' \in [Op -> {"todo", "ok", "failed"}] /\ faults' \in 0..MaxFaults
    BY DEF RecordOutcome, TypeOK, hostVars
<1> QED
    BY <1>1, <1>7, <1>8, <1>9, <1>10, <1>11, <1>12, <1>13, <1>14, <1>15, IdleIsExec, OneOperation

LEMMA RecordFailsKeeps == ASSUME IndInv, NEW o \in Op, RecordFails(o) PROVE IndInv'
<1> USE DEF IndInv
<1>1. /\ At(o, "record") /\ oGrant[o] \in Grant /\ CommissionOf(o) \in Commission
      /\ exec[CommissionOf(o)].op = o /\ phase = "up" /\ oStatus[o] = "started"
    BY ThreadHolds DEF RecordFails
<1>2. OnlyAffects(o)
    BY DEF RecordFails, OnlyAffects, opVars, keyVars, hostVars, TypeOK
<1>3. Stage(o)'
    BY <1>1, ThreadDone DEF RecordFails, opVars
<1>4. Rows(o)'
  <2>1. Rows(o)
    BY <1>1 DEF OpInv
  <2> QED
    BY <1>1, <2>1 DEF RecordFails, Rows, Untouched, Holds, EntryGone, OneShot, RefOf, opVars,
                      grantVars, keyVars, hostVars
<1>5. faults' \in 0..MaxFaults
    BY CredentialsAssumption DEF RecordFails, TypeOK
<1>6. /\ Becomes(o, Idle) /\ UNCHANGED <<cStatus, current, exposureGrant, oStatus, claim, applied,
                                        recovery>>
    BY DEF RecordFails, opVars, hostVars
<1> QED
    BY <1>1, <1>2, <1>3, <1>4, <1>5, <1>6, IdleIsExec, OneOperation DEF TypeOK

LEMMA ReconcileKeeps == ASSUME IndInv, NEW o \in Op, ReconcileOperation(o) PROVE IndInv'
<1> USE DEF IndInv
<1>1. /\ At(o, "observe") /\ oGrant[o] \in Grant /\ CommissionOf(o) \in Commission
      /\ exec[CommissionOf(o)].op = o /\ Where(o) = "observe" /\ phase = "up"
      /\ oStatus[o] = "uncertain"
    BY ThreadHolds DEF ReconcileOperation
<1>2. Stage(o) /\ Rows(o)
    BY <1>1 DEF OpInv
<1>3. ~Holds(o) /\ EntryGone(o)
    BY <1>1, <1>2 DEF Stage
<1>4. /\ pStatus' \in [Op -> {"none", "active", "contained"}]
      /\ \A p \in Op \ {o} : pStatus'[p] = pStatus[p]
      /\ pStatus'[o] \in {pStatus[o], "contained"}
    BY DEF ReconcileOperation, TypeOK
<1>5. /\ oStatus' \in [Op -> OperationStatus]
      /\ \A p \in Op \ {o} : oStatus'[p] = oStatus[p]
      /\ oStatus'[o] \in {"uncertain", Observed(o)}
    BY <1>1 DEF ReconcileOperation, SetOperation, Observed, OperationStatus, TypeOK
<1>6. claim' \in [Op -> BOOLEAN] /\ \A p \in Op \ {o} : claim'[p] = claim[p]
    BY DEF ReconcileOperation, TypeOK
<1>7. OnlyAffects(o)
    BY <1>4 DEF ReconcileOperation, OnlyAffects, keyVars, hostVars, TypeOK
<1>8. Stage(o)'
    BY <1>1, ThreadDone DEF ReconcileOperation
<1>9. Rows(o)'
  <2>1. /\ OneShot(o)' = OneShot(o) /\ RefOf(o)' = RefOf(o)
        /\ UNCHANGED <<process, sandbox, applied, keychain, seen, phase>>
    BY DEF ReconcileOperation, OneShot, RefOf, grantVars, hostVars, keyVars
  <2>2. (Holds(o)' <=> Holds(o)) /\ (EntryGone(o)' <=> EntryGone(o))
    BY <2>1 DEF Holds, EntryGone
  <2>3. process[o] \notin {"holding", "orphaned"}
    BY <1>3 DEF Holds
  <2> QED
    BY <1>1, <1>2, <1>3, <1>5, <2>1, <2>2, <2>3 DEF Rows, Observed
<1>10. /\ Becomes(o, Idle) /\ UNCHANGED <<cStatus, current, exposureGrant, applied, recovery, faults>>
    BY DEF ReconcileOperation, hostVars
<1>11. oStatus'[o] # "none"
    BY <1>5 DEF Observed
<1> QED
    BY <1>1, <1>5, <1>6, <1>7, <1>8, <1>9, <1>10, <1>11, IdleIsExec, OneOperation DEF TypeOK

\* What cleaning up an operation does, by a starting daemon or before an observation.
LEMMA CleanUp ==
    ASSUME IndInv, NEW o \in Op, oGrant[o] \in Grant, NEW ok \in BOOLEAN, RecoverEffect(o, ok),
           UNCHANGED seen
    PROVE  /\ process' \in [Op -> Process] /\ sandbox' \in [Op -> {"none", "open", "holding"}]
           /\ \A p \in Op \ {o} : process'[p] = process[p] /\ sandbox'[p] = sandbox[p]
           /\ keychain' \in [Ref -> 0..MaxSecrets]
           /\ \A r \in Ref : keychain'[r] \in {0, keychain[r]}
           /\ ok => keychain'[RefOf(o)] = 0
           /\ IF OneShot(o)
              THEN /\ process'[o] = process[o] /\ sandbox'[o] \in {sandbox[o], "none", "open"}
                   /\ ok => sandbox'[o] = "none"
              ELSE /\ sandbox'[o] = sandbox[o] /\ process'[o] \in {process[o], "gone"}
                   /\ ok /\ pStatus[o] = "active" => process'[o] = "gone"
<1> USE DEF IndInv
<1>1. PICK contained \in BOOLEAN, verified \in BOOLEAN :
        /\ ok = (contained /\ verified)
        /\ RevokeAndVerify(RefOf(o), verified)
        /\ IF OneShot(o) THEN DeleteSandbox(o, contained) /\ UNCHANGED process
                         ELSE ContainProcess(o, contained) /\ UNCHANGED sandbox
    BY DEF RecoverEffect
<1>2. RefOf(o) \in Ref
    BY GrantOf
<1>3. /\ keychain' \in [Ref -> 0..MaxSecrets]
      /\ \A r \in Ref : keychain'[r] \in {0, keychain[r]}
      /\ verified => keychain'[RefOf(o)] = 0
    BY <1>1, <1>2, CredentialsAssumption DEF RevokeAndVerify, TypeOK
<1>4. CASE OneShot(o)
  <2>1. /\ process' = process
        /\ IF contained THEN sandbox' = [sandbox EXCEPT ![o] = "none"]
                        ELSE sandbox' \in {sandbox, [sandbox EXCEPT ![o] = "open"]}
    BY <1>1, <1>4 DEF DeleteSandbox, SetSandbox
  <2> QED
    BY <1>1, <1>3, <1>4, <2>1 DEF TypeOK
<1>5. CASE ~OneShot(o)
  <2>1. /\ sandbox' = sandbox
        /\ process' = process \/ process' = [process EXCEPT ![o] = "gone"]
        /\ contained /\ pStatus[o] = "active" =>
                process'[o] = "gone" \/ process' = [process EXCEPT ![o] = "gone"]
    BY <1>1, <1>5 DEF ContainProcess, ContainmentIsSafe, SetProcess
  <2> QED
    BY <1>1, <1>3, <1>5, <2>1 DEF TypeOK, Process
<1> QED
    BY <1>4, <1>5

\* A process, a sandbox, an entry or an effect changes, and no thread moves.
LEMMA HostMoves ==
    ASSUME IndInv, NEW o \in Op, OnlyAffects(o),
           UNCHANGED <<cStatus, current, oStatus, exposureGrant, claim, exec, faults>>,
           applied' \subseteq Op, recovery' \in [Op -> {"todo", "ok", "failed"}],
           oGrant[o] \in Grant, Stage(o)', Rows(o)'
    PROVE  IndInv'
<1> USE DEF IndInv
<1>1. TypeOK'
    BY DEF TypeOK, OnlyAffects, grantVars
<1>2. NamesAgree'
    BY DEF NamesAgree, OnlyAffects, grantVars
<1>3. MutexHolder'
    BY DEF MutexHolder, CommissionOf, OnlyAffects, grantVars
<1>4. \A p \in Op \ {o} : SameThread(p)
    BY DEF SameThread
<1>5. SecretsAge' /\ \A p \in Op \ {o} : oGrant'[p] \in Grant => Stage(p)' /\ Rows(p)'
    BY <1>4, OthersKept
<1>6. OpInv'
    BY <1>5 DEF OpInv
<1>7. Unproposed'
    BY CredentialsAssumption DEF Unproposed, OnlyAffects
<1> QED
    BY <1>1, <1>2, <1>3, <1>5, <1>6, <1>7

\* An operation nobody works on, while process and sandbox only lose what they hold.
LEMMA Weakened ==
    ASSUME IndInv, NEW o \in Op, oGrant[o] \in Grant,
           oStatus[o] \in {"started", "uncertain"}, Where(o) = "idle",
           UNCHANGED <<oStatus, oGrant, pStatus, claim, grant, exec, applied, seen>>,
           IF OneShot(o)
           THEN process'[o] = process[o] /\ sandbox'[o] \in {sandbox[o], "none", "open"}
           ELSE sandbox'[o] = sandbox[o] /\ process'[o] \in {process[o], "gone"},
           phase' = "down" /\ recovery'[o] = "ok" => ~Holds(o)'
    PROVE  Stage(o)' /\ Rows(o)'
<1>1. CommissionOf(o)' = CommissionOf(o) /\ OneShot(o)' = OneShot(o)
    BY DEF CommissionOf, OneShot
<1>2. Where(o)' = "idle"
    BY <1>1 DEF Where
<1>3. Rows(o)
    BY DEF IndInv, OpInv
<1>4. Holds(o)' => Holds(o)
    BY <1>3 DEF Holds
<1>5. Rows(o)'
    BY <1>1, <1>3, <1>4 DEF Rows
<1> QED
    BY <1>2, <1>5 DEF Stage

LEMMA CleanStrandedKeeps == ASSUME IndInv, NEW o \in Op, CleanStranded(o) PROVE IndInv'
<1> USE DEF IndInv
<1>1. phase = "down" /\ oStatus[o] = "started" /\ oGrant[o] \in Grant
    BY DEF CleanStranded, NamesAgree
<1>2. PICK ok \in BOOLEAN :
        /\ RecoverEffect(o, ok)
        /\ recovery' = [recovery EXCEPT ![o] = IF ok THEN "ok" ELSE "failed"]
    BY DEF CleanStranded
<1>3. Where(o) = "idle"
  <2>1. CommissionOf(o) \in Commission
    BY <1>1, GrantOf
  <2>2. exec[CommissionOf(o)] = Idle
    BY <1>1, <2>1 DEF MutexHolder
  <2> QED
    BY <2>2, IdleIsExec DEF Where
<1>4. /\ UNCHANGED <<cStatus, current, grantVars, opVars, exec, stored, seen, applied, phase, faults>>
    BY DEF CleanStranded
<1>5. UNCHANGED <<grant, oStatus, oGrant, exposureGrant, pStatus, claim>>
    BY <1>4 DEF grantVars, opVars
<1>6. /\ process' \in [Op -> Process] /\ sandbox' \in [Op -> {"none", "open", "holding"}]
      /\ \A p \in Op \ {o} : process'[p] = process[p] /\ sandbox'[p] = sandbox[p]
      /\ keychain' \in [Ref -> 0..MaxSecrets]
      /\ \A r \in Ref : keychain'[r] \in {0, keychain[r]}
      /\ IF OneShot(o)
         THEN /\ process'[o] = process[o] /\ sandbox'[o] \in {sandbox[o], "none", "open"}
              /\ ok => sandbox'[o] = "none"
         ELSE /\ sandbox'[o] = sandbox[o] /\ process'[o] \in {process[o], "gone"}
              /\ ok /\ pStatus[o] = "active" => process'[o] = "gone"
    BY <1>1, <1>2, <1>4, CleanUp
<1>7. /\ recovery' \in [Op -> {"todo", "ok", "failed"}]
      /\ \A p \in Op \ {o} : recovery'[p] = recovery[p]
      /\ recovery'[o] = "ok" => ok
    BY <1>2 DEF TypeOK
<1>8. OnlyAffects(o)
    BY <1>4, <1>5, <1>6, <1>7 DEF OnlyAffects, TypeOK
<1>9. Rows(o)
    BY <1>1 DEF OpInv
<1>10. ok => ~Holds(o)'
    BY <1>6, <1>9 DEF Holds, Rows
<1>11. phase' = "down" /\ recovery'[o] = "ok" => ~Holds(o)'
    BY <1>7, <1>10
<1>12. Stage(o)' /\ Rows(o)'
    BY <1>1, <1>3, <1>4, <1>5, <1>6, <1>11, Weakened
<1> QED
    BY <1>1, <1>4, <1>5, <1>7, <1>8, <1>12, HostMoves DEF TypeOK

LEMMA CleanBeforeObservingKeeps ==
    ASSUME IndInv, NEW o \in Op, CleanBeforeObserving(o) PROVE IndInv'
<1> USE DEF IndInv
<1>1. /\ phase = "up" /\ oStatus[o] = "uncertain" /\ oGrant[o] \in Grant
      /\ exec[CommissionOf(o)] = Idle
    BY DEF CleanBeforeObserving, NamesAgree, MutexIsFree
<1>2. PICK ok \in BOOLEAN :
        /\ RecoverEffect(o, ok)
        /\ IF ok THEN Begins(o, "observe") ELSE UNCHANGED exec
    BY DEF CleanBeforeObserving
<1>3. Where(o) = "idle" /\ CommissionOf(o) \in Commission
    BY <1>1, IdleIsExec, GrantOf DEF Where
<1>4. UNCHANGED <<cStatus, current, grantVars, opVars, recovery, stored, seen, applied, phase, faults>>
    BY DEF CleanBeforeObserving
<1>5. UNCHANGED <<grant, oStatus, oGrant, exposureGrant, pStatus, claim>>
    BY <1>4 DEF grantVars, opVars
<1>6. /\ process' \in [Op -> Process] /\ sandbox' \in [Op -> {"none", "open", "holding"}]
      /\ \A p \in Op \ {o} : process'[p] = process[p] /\ sandbox'[p] = sandbox[p]
      /\ keychain' \in [Ref -> 0..MaxSecrets]
      /\ \A r \in Ref : keychain'[r] \in {0, keychain[r]}
      /\ ok => keychain'[RefOf(o)] = 0
      /\ IF OneShot(o)
         THEN /\ process'[o] = process[o] /\ sandbox'[o] \in {sandbox[o], "none", "open"}
              /\ ok => sandbox'[o] = "none"
         ELSE /\ sandbox'[o] = sandbox[o] /\ process'[o] \in {process[o], "gone"}
              /\ ok /\ pStatus[o] = "active" => process'[o] = "gone"
    BY <1>1, <1>2, <1>4, CleanUp
<1>7. OnlyAffects(o)
    BY <1>4, <1>5, <1>6 DEF OnlyAffects, TypeOK
<1>8. Rows(o)
    BY <1>1 DEF OpInv
<1>9. CASE ~ok
  <2>1. UNCHANGED exec
    BY <1>2, <1>9
  <2>2. phase' # "down"
    BY <1>1, <1>4
  <2>3. Stage(o)' /\ Rows(o)'
    BY <1>1, <1>3, <1>4, <1>5, <1>6, <2>1, <2>2, Weakened
  <2> QED
    BY <1>1, <1>4, <1>5, <1>7, <2>1, <2>3, HostMoves DEF TypeOK
<1>10. CASE ok
  <2> DEFINE e == [op |-> o, step |-> "observe", outcome |-> "none", contained |-> FALSE]
  <2>1. Becomes(o, e)
    BY <1>2, <1>10 DEF Begins
  <2>2. e \in Exec /\ e.op = o /\ e.step = "observe"
    BY DEF Exec, Outcomes
  <2> HIDE DEF e
  <2>3. ~Holds(o)'
    BY <1>6, <1>8, <1>10 DEF Holds, Rows
  <2>4. /\ CommissionOf(o)' = CommissionOf(o) /\ OneShot(o)' = OneShot(o) /\ RefOf(o)' = RefOf(o)
    BY <1>5 DEF CommissionOf, OneShot, RefOf
  <2>5. EntryGone(o)'
    BY <1>6, <1>10, <2>4 DEF EntryGone
  <2>6. Where(o)' = "observe"
    BY <1>3, <2>1, <2>2, <2>4 DEF Where, Becomes, TypeOK
  <2>7. Stage(o)'
    BY <2>3, <2>5, <2>6 DEF Stage
  <2>8. Rows(o)'
    BY <1>1, <1>4, <1>5, <1>6, <1>8, <2>3, <2>4, <2>5 DEF Rows, Holds
  <2>9. exec[CommissionOf(o)].op \in {o, Nobody}
    BY <1>1, IdleIsExec
  <2> QED
    BY <1>1, <1>4, <1>5, <1>7, <2>1, <2>2, <2>7, <2>8, <2>9, OneOperation DEF TypeOK
<1> QED
    BY <1>9, <1>10

\* A process or sandbox exists for a proposed operation only.
LEMMA Proposed ==
    ASSUME IndInv, NEW o \in Op,
           process[o] # "none" \/ sandbox[o] # "none"
    PROVE  oGrant[o] \in Grant /\ CommissionOf(o) \in Commission /\ Stage(o) /\ Rows(o)
<1>1. oGrant[o] \in Grant
    BY DEF IndInv, Unproposed, TypeOK
<1> QED
    BY <1>1, GrantOf DEF IndInv, OpInv

\* The thread that works on o is where it was.
LEMMA ThreadStays ==
    ASSUME NEW o, UNCHANGED <<grant, oGrant, exec>>
    PROVE  /\ Where(o)' = Where(o) /\ CommissionOf(o)' = CommissionOf(o)
           /\ (exec[CommissionOf(o)])' = exec[CommissionOf(o)]
           /\ OneShot(o)' = OneShot(o) /\ RefOf(o)' = RefOf(o)
BY DEF Where, CommissionOf, OneShot, RefOf

LEMMA EffectHappensKeeps == ASSUME IndInv, NEW o \in Op, EffectHappens(o) PROVE IndInv'
<1> USE DEF IndInv
<1>1. Holds(o) /\ applied' = applied \union {o}
    BY DEF EffectHappens
<1>2. oGrant[o] \in Grant /\ Stage(o) /\ Rows(o)
    BY <1>1, Proposed DEF Holds
<1>3. UNCHANGED <<cStatus, current, grantVars, opVars, keyVars, exec, recovery, process, sandbox,
                  phase, faults>>
    BY DEF EffectHappens, World
<1>4. UNCHANGED <<grant, oStatus, oGrant, exposureGrant, pStatus, claim, keychain, stored, seen>>
    BY <1>3 DEF grantVars, opVars, keyVars
<1>5. OnlyAffects(o)
    BY <1>1, <1>3, <1>4 DEF OnlyAffects, TypeOK
<1>6. (Holds(o)' <=> Holds(o)) /\ (EntryGone(o)' <=> EntryGone(o))
    BY <1>3, <1>4, ThreadStays DEF Holds, EntryGone
<1>7. ~Untouched(o)
    BY <1>1 DEF Holds, Untouched
<1>8. Stage(o)'
  <2>1. Where(o) \notin {"recheck", "read", "spawn", "egress"}
    BY <1>2, <1>7 DEF Stage
  <2>2. Where(o) \notin {"register", "write", "create", "deliver"}
    BY <1>1, <1>2 DEF Stage, Holds, Rows
  <2> QED
    BY <1>1, <1>2, <1>3, <1>4, <1>6, <2>1, <2>2, ThreadStays DEF Stage, OutcomeHolds
<1>9. Rows(o)'
    BY <1>1, <1>2, <1>3, <1>4, <1>6, <1>7, ThreadStays DEF Rows
<1>10. applied' \subseteq Op
    BY <1>1 DEF TypeOK
<1> QED
    BY <1>2, <1>3, <1>4, <1>5, <1>8, <1>9, <1>10, HostMoves DEF TypeOK

LEMMA ProcessChangesKeeps == ASSUME IndInv, NEW o \in Op, ProcessChanges(o) PROVE IndInv'
<1> USE DEF IndInv
<1>1. process[o] # "none"
    BY DEF ProcessChanges
<1>2. oGrant[o] \in Grant /\ CommissionOf(o) \in Commission /\ Stage(o) /\ Rows(o)
    BY <1>1, Proposed
<1>3. UNCHANGED <<cStatus, current, grantVars, opVars, keyVars, exec, recovery, applied, sandbox,
                  phase, faults>>
    BY DEF ProcessChanges, World
<1>4. UNCHANGED <<grant, oStatus, oGrant, exposureGrant, pStatus, claim, keychain, stored, seen>>
    BY <1>3 DEF grantVars, opVars, keyVars
<1>5. PICK x \in {"gone", "orphaned", "reused"} :
        /\ process' = [process EXCEPT ![o] = x]
        /\ x = "orphaned" => process[o] = "holding"
        /\ x = "reused" => process[o] = "gone" /\ ~Unreaped(o)
    BY DEF ProcessChanges, SetProcess
<1>6. process' \in [Op -> Process] /\ process'[o] = x /\ \A p \in Op \ {o} : process'[p] = process[p]
    BY <1>5 DEF TypeOK, Process
<1>7. OnlyAffects(o)
    BY <1>3, <1>4, <1>6 DEF OnlyAffects, TypeOK
<1>8. (Holds(o)' => Holds(o)) /\ (EntryGone(o)' <=> EntryGone(o))
    BY <1>3, <1>4, <1>5, <1>6, ThreadStays DEF Holds, EntryGone
<1>9. ~Untouched(o)
    BY <1>1 DEF Untouched
<1>10. Where(o) \in {"register", "write"} => x = "gone"
    BY <1>2, <1>5 DEF Stage, Unreaped, Where
<1>11. Stage(o)'
    BY <1>2, <1>3, <1>4, <1>6, <1>8, <1>9, <1>10, ThreadStays DEF Stage, OutcomeHolds
<1>12. Rows(o)'
    BY <1>1, <1>2, <1>3, <1>4, <1>5, <1>6, <1>8, <1>9, ThreadStays DEF Rows
<1> QED
    BY <1>2, <1>3, <1>4, <1>7, <1>11, <1>12, HostMoves DEF TypeOK

LEMMA SandboxStopsKeeps == ASSUME IndInv, NEW o \in Op, SandboxStops(o) PROVE IndInv'
<1> USE DEF IndInv
<1>1. sandbox[o] = "holding" /\ sandbox' = [sandbox EXCEPT ![o] = "open"]
    BY DEF SandboxStops, SetSandbox
<1>2. oGrant[o] \in Grant /\ CommissionOf(o) \in Commission /\ Stage(o) /\ Rows(o)
    BY <1>1, Proposed
<1>3. UNCHANGED <<cStatus, current, grantVars, opVars, keyVars, exec, recovery, applied, process,
                  phase, faults>>
    BY DEF SandboxStops, World
<1>4. UNCHANGED <<grant, oStatus, oGrant, exposureGrant, pStatus, claim, keychain, stored, seen>>
    BY <1>3 DEF grantVars, opVars, keyVars
<1>5. /\ sandbox' \in [Op -> {"none", "open", "holding"}] /\ sandbox'[o] = "open"
      /\ \A p \in Op \ {o} : sandbox'[p] = sandbox[p]
    BY <1>1 DEF TypeOK
<1>6. OnlyAffects(o)
    BY <1>3, <1>4, <1>5 DEF OnlyAffects, TypeOK
<1>7. Holds(o) /\ (EntryGone(o)' <=> EntryGone(o))
    BY <1>1, <1>3, <1>4, ThreadStays DEF Holds, EntryGone
<1>8. ~Untouched(o)
    BY <1>1 DEF Untouched
<1>9. Stage(o)'
    BY <1>1, <1>2, <1>3, <1>4, <1>5, <1>7, <1>8, ThreadStays DEF Stage, OutcomeHolds
<1>10. Rows(o)'
    BY <1>1, <1>2, <1>3, <1>4, <1>5, <1>7, <1>8, ThreadStays DEF Rows
<1> QED
    BY <1>2, <1>3, <1>4, <1>6, <1>9, <1>10, HostMoves DEF TypeOK

-----------------------------------------------------------------------------
(* Requests, a crash and the restart after it.                             *)

\* Operations nobody touches keep what the invariant says of them.
LEMMA AllUnmoved ==
    ASSUME IndInv, KeysMove, NEW S \in SUBSET Op,
           \A o \in S : /\ oGrant'[o] = oGrant[o]
                        /\ oGrant[o] \in Grant => SameOp(o) /\ SameThread(o) /\ SameRecovery(o)
    PROVE  \A o \in S : oGrant'[o] \in Grant => Stage(o)' /\ Rows(o)'
<1> SUFFICES ASSUME NEW o \in S, oGrant'[o] \in Grant PROVE Stage(o)' /\ Rows(o)'
    OBVIOUS
<1>1. o \in Op /\ oGrant[o] \in Grant /\ SameOp(o) /\ SameThread(o) /\ SameRecovery(o)
    OBVIOUS
<1>2. Stage(o) /\ Rows(o)
    BY <1>1 DEF IndInv, OpInv
<1> QED
    BY <1>1, <1>2, Unmoved DEF IndInv

LEMMA StoreSecretKeeps == ASSUME IndInv, NEW r \in Ref, StoreSecret(r) PROVE IndInv'
<1> USE DEF IndInv
<1>1. UNCHANGED <<cStatus, current, grantVars, opVars, hostVars, seen, exec, recovery, phase, faults>>
    BY DEF StoreSecret, World
<1>2. UNCHANGED <<grant, gStatus, withdrawn, oStatus, oGrant, exposureGrant, pStatus, claim, process,
                  sandbox, applied>>
    BY <1>1 DEF grantVars, opVars, hostVars
<1>3. /\ stored[r] < MaxSecrets /\ stored' = [stored EXCEPT ![r] = stored[r] + 1]
      /\ keychain' = [keychain EXCEPT ![r] = stored[r] + 1]
    BY DEF StoreSecret
<1>4. KeysMove
    BY <1>3 DEF KeysMove, TypeOK
<1>5. TypeOK'
  <2>1. stored[r] \in Nat /\ stored[r] + 1 \in 0..MaxSecrets
    BY <1>3, CredentialsAssumption DEF TypeOK
  <2>2. stored' \in [Ref -> 0..MaxSecrets] /\ keychain' \in [Ref -> 0..MaxSecrets]
    BY <1>3, <2>1 DEF TypeOK
  <2> QED
    BY <1>1, <1>2, <2>2 DEF TypeOK
<1>6. NamesAgree' /\ Unproposed'
    BY <1>1, <1>2 DEF NamesAgree, Unproposed
<1>7. MutexHolder'
    BY <1>1, <1>2 DEF MutexHolder, CommissionOf
<1>8. SecretsAge'
  <2>1. \A q \in Ref : stored[q] \in Nat /\ keychain[q] \in Nat /\ stored'[q] \in {stored[q], stored[q] + 1}
    BY <1>3 DEF TypeOK
  <2>2. \A q \in Ref : keychain'[q] <= stored'[q]
    BY <1>3, <2>1 DEF SecretsAge, TypeOK
  <2>3. ASSUME NEW o \in Op, oGrant[o] \in Grant PROVE seen[o] <= stored'[RefOf(o)]
    <3>1. RefOf(o) \in Ref /\ seen[o] <= stored[RefOf(o)] /\ seen[o] \in Nat
        BY <2>3, GrantOf DEF SecretsAge, TypeOK
    <3> QED
        BY <2>1, <3>1
  <2> QED
    BY <1>1, <1>2, <2>2, <2>3 DEF SecretsAge, RefOf
<1>9. \A o \in Op : oGrant'[o] = oGrant[o] /\ SameOp(o) /\ SameThread(o) /\ SameRecovery(o)
    BY <1>1, <1>2 DEF SameOp, SameThread, SameRecovery
<1>10. OpInv'
    BY <1>4, <1>9, AllUnmoved DEF OpInv
<1> QED
    BY <1>5, <1>6, <1>7, <1>8, <1>10

\* Requests that leave entries, processes and sandboxes alone.
LEMMA KeysStay ==
    ASSUME SecretsAge, UNCHANGED keyVars,
           \A o \in Op : oGrant'[o] \in Grant => oGrant[o] \in Grant /\ RefOf(o)' = RefOf(o)
    PROVE  SecretsAge' /\ KeysMove
<1>1. UNCHANGED <<keychain, stored, seen>>
    BY DEF keyVars
<1>2. KeysMove
    BY <1>1 DEF KeysMove
<1>3. ASSUME NEW o \in Op, oGrant'[o] \in Grant PROVE seen'[o] <= stored'[RefOf(o)']
    BY <1>1, <1>3 DEF SecretsAge
<1> QED
    BY <1>1, <1>2, <1>3 DEF SecretsAge

LEMMA GrantCredentialKeeps ==
    ASSUME IndInv, NEW g \in Grant, NEW c \in Commission, NEW r \in Ref, NEW x \in Exposure,
           GrantCredential(g, c, r, x)
    PROVE  IndInv'
<1> USE DEF IndInv
<1>1. /\ gStatus[g] = "none" /\ gStatus' = [gStatus EXCEPT ![g] = "active"]
      /\ grant' = [grant EXCEPT ![g] = [commission |-> c, ref |-> r, exposure |-> x]]
      /\ UNCHANGED <<cStatus, current, withdrawn, opVars, exec, recovery, keyVars, hostVars, phase,
                     faults>>
    BY DEF GrantCredential
<1>2. UNCHANGED <<oStatus, oGrant, exposureGrant, pStatus, claim, keychain, stored, seen, process,
                  sandbox, applied>>
    BY <1>1 DEF opVars, keyVars, hostVars
<1>3. \A o \in Op : oGrant[o] # g
    BY <1>1, CredentialsAssumption DEF NamesAgree
<1>4. \A o \in Op : oGrant[o] \in Grant => grant'[oGrant[o]] = grant[oGrant[o]]
    BY <1>1, <1>3 DEF TypeOK
<1>5. TypeOK'
  <2>1. gStatus' \in [Grant -> {"none", "active", "consumed", "revoked"}]
    BY <1>1 DEF TypeOK
  <2>2. grant' \in [Grant -> [commission : Commission \union {Nobody}, ref : Ref \union {Nobody},
                              exposure : Exposure]]
    BY <1>1 DEF TypeOK
  <2> QED
    BY <1>1, <1>2, <2>1, <2>2 DEF TypeOK
<1>6. NamesAgree'
  <2>1. \A h \in Grant : IF gStatus'[h] = "none" THEN grant'[h].commission = Nobody
                         ELSE grant'[h].commission \in Commission /\ grant'[h].ref \in Ref
    BY <1>1 DEF NamesAgree, TypeOK
  <2>2. \A h \in Grant : gStatus[h] # "none" => gStatus'[h] = gStatus[h]
    BY <1>1 DEF TypeOK
  <2>3. \A h \in withdrawn : gStatus'[h] = gStatus[h]
    BY <1>1 DEF NamesAgree, TypeOK
  <2> QED
    BY <1>1, <1>2, <2>1, <2>2, <2>3 DEF NamesAgree
<1>7. MutexHolder'
    BY <1>1, <1>2, <1>4 DEF MutexHolder, CommissionOf
<1>8. SecretsAge' /\ KeysMove
    BY <1>1, <1>2, <1>4, KeysStay DEF RefOf
<1>9. Unproposed'
    BY <1>2 DEF Unproposed
<1>10. \A o \in Op : /\ oGrant'[o] = oGrant[o]
                     /\ oGrant[o] \in Grant => SameOp(o) /\ SameThread(o) /\ SameRecovery(o)
    BY <1>1, <1>2, <1>4 DEF SameOp, SameThread, SameRecovery
<1>11. OpInv'
    BY <1>8, <1>10, AllUnmoved DEF OpInv
<1> QED
    BY <1>5, <1>6, <1>7, <1>8, <1>9, <1>11

LEMMA ResumeKeeps == ASSUME IndInv, NEW c \in Commission, ResumeCommission(c) PROVE IndInv'
<1> USE DEF IndInv
<1>1. /\ cStatus' = [cStatus EXCEPT ![c] = "active"]
      /\ UNCHANGED <<current, grantVars, oStatus, exposureGrant, pStatus, claim, oGrant, exec, recovery,
                     keyVars, hostVars, phase, faults>>
    BY DEF ResumeCommission, ControlFrame
<1>2. UNCHANGED <<grant, gStatus, withdrawn, keychain, stored, seen, process, sandbox, applied>>
    BY <1>1 DEF grantVars, keyVars, hostVars
<1>3. TypeOK'
    BY <1>1, <1>2 DEF TypeOK
<1>4. NamesAgree' /\ Unproposed'
    BY <1>1, <1>2 DEF NamesAgree, Unproposed
<1>5. MutexHolder'
    BY <1>1, <1>2 DEF MutexHolder, CommissionOf
<1>6. SecretsAge' /\ KeysMove
    BY <1>1, <1>2, KeysStay DEF RefOf
<1>7. \A o \in Op : oGrant'[o] = oGrant[o] /\ SameOp(o) /\ SameThread(o) /\ SameRecovery(o)
    BY <1>1, <1>2 DEF SameOp, SameThread, SameRecovery
<1>8. OpInv'
    BY <1>6, <1>7, AllUnmoved DEF OpInv
<1> QED
    BY <1>3, <1>4, <1>5, <1>6, <1>8

\* Nobody works on an operation that is neither started nor uncertain, or whose
\* Commission's mutex is free.
LEMMA NobodyWorks ==
    ASSUME IndInv, NEW o \in Op, oGrant[o] \in Grant,
           oStatus[o] \notin {"started", "uncertain"} \/ exec[CommissionOf(o)] = Idle
    PROVE  Where(o) = "idle" /\ exec[CommissionOf(o)].op # o
<1>1. CommissionOf(o) \in Commission
    BY GrantOf DEF IndInv
<1> QED
    BY <1>1, IdleIsExec, CredentialsAssumption DEF IndInv, MutexHolder, Where

\* Only the status of o changes, of an operation that was not started, or of a
\* started one that becomes uncertain.
LEMMA Restated ==
    ASSUME IndInv, NEW o \in Op, oGrant[o] \in Grant, Where(o) = "idle",
           UNCHANGED <<oGrant, grant, process, sandbox, applied, seen, keychain, phase, recovery>>,
           exec'[CommissionOf(o)].op # o, phase = "up",
           \/ oStatus[o] \in {"approval_required", "authorized"}
              /\ oStatus'[o] \in {"authorized", "revoked"} /\ UNCHANGED <<pStatus, claim>>
           \/ oStatus[o] = "started" /\ oStatus'[o] = "uncertain" /\ UNCHANGED <<pStatus, claim>>
    PROVE  Stage(o)' /\ Rows(o)'
<1>1. CommissionOf(o)' = CommissionOf(o) /\ OneShot(o)' = OneShot(o) /\ RefOf(o)' = RefOf(o)
    BY DEF CommissionOf, OneShot, RefOf
<1>2. Where(o)' = "idle"
    BY <1>1 DEF Where
<1>3. Rows(o)
    BY DEF IndInv, OpInv
<1>4. (Holds(o)' <=> Holds(o)) /\ (EntryGone(o)' <=> EntryGone(o))
    BY <1>1 DEF Holds, EntryGone
<1>5. Rows(o)'
    BY <1>1, <1>3, <1>4 DEF Rows, Untouched
<1> QED
    BY <1>2, <1>5 DEF Stage

LEMMA ProposeKeeps ==
    ASSUME IndInv, NEW o \in Op, NEW g \in Grant, ProposeOperation(o, g) PROVE IndInv'
<1> USE DEF IndInv
<1>1. /\ phase = "up" /\ oStatus[o] = "none" /\ gStatus[g] = "active"
      /\ oStatus' = [oStatus EXCEPT ![o] = "approval_required"]
      /\ oGrant' = [oGrant EXCEPT ![o] = g]
      /\ UNCHANGED <<cStatus, current, grantVars, exposureGrant, pStatus, claim, exec, recovery, keyVars,
                     hostVars, phase, faults>>
    BY DEF ProposeOperation, SetOperation, GrantIsUsable
<1>2. UNCHANGED <<grant, gStatus, withdrawn, keychain, stored, seen, process, sandbox, applied>>
    BY <1>1 DEF grantVars, keyVars, hostVars
<1>3. oGrant[o] = Nobody /\ oGrant'[o] = g /\ \A p \in Op \ {o} : oGrant'[p] = oGrant[p]
    BY <1>1 DEF NamesAgree, TypeOK
<1>4. oStatus'[o] = "approval_required" /\ \A p \in Op \ {o} : oStatus'[p] = oStatus[p]
    BY <1>1 DEF TypeOK
<1>5. TypeOK'
  <2>1. oStatus' \in [Op -> OperationStatus] /\ oGrant' \in [Op -> Grant \union {Nobody}]
    BY <1>1 DEF TypeOK, OperationStatus
  <2> QED
    BY <1>1, <1>2, <2>1 DEF TypeOK
<1>6. NamesAgree'
    BY <1>1, <1>2, <1>3, <1>4 DEF NamesAgree
<1>7. \A c \in Commission : exec[c] # Idle => exec[c].op # o
    BY <1>3, CredentialsAssumption DEF MutexHolder
<1>8. MutexHolder'
    BY <1>1, <1>2, <1>3, <1>4, <1>7 DEF MutexHolder, CommissionOf
<1>9. Unproposed'
    BY <1>1, <1>2, <1>3, CredentialsAssumption DEF Unproposed
<1>10. KeysMove
    BY <1>2 DEF KeysMove
<1>11. SecretsAge'
  <2>1. grant[g].ref \in Ref /\ seen[o] = 0
    BY <1>1, <1>3 DEF NamesAgree, Unproposed
  <2>2. stored[grant[g].ref] \in Nat
    BY <2>1 DEF TypeOK
  <2>3. \A p \in Op \ {o} : oGrant[p] \in Grant => seen[p] <= stored[grant[oGrant[p]].ref]
    BY DEF SecretsAge, RefOf
  <2>4. \A p \in Op : oGrant'[p] \in Grant => seen'[p] <= stored'[grant'[oGrant'[p]].ref]
    BY <1>2, <1>3, <2>1, <2>2, <2>3
  <2> QED
    BY <1>2, <2>4 DEF SecretsAge, RefOf
<1>12. /\ \A p \in Op \ {o} : oGrant'[p] = oGrant[p] /\ SameOp(p) /\ SameThread(p) /\ SameRecovery(p)
    BY <1>1, <1>2, <1>3, <1>4 DEF SameOp, SameThread, SameRecovery, CommissionOf
<1>13. \A p \in Op \ {o} : oGrant'[p] \in Grant => Stage(p)' /\ Rows(p)'
    BY <1>10, <1>12, AllUnmoved
<1>14. Untouched(o)' /\ ~claim'[o]
    BY <1>1, <1>2, <1>3 DEF Unproposed, Untouched
<1>15. Rows(o)'
    BY <1>4, <1>14 DEF Rows, Untouched, Holds
<1>16. Stage(o)'
  <2>1. CommissionOf(o)' \in Commission
    BY <1>1, <1>2, <1>3 DEF NamesAgree, CommissionOf
  <2>2. Where(o)' = "idle"
    BY <1>1, <1>7, <2>1, IdleIsExec, CredentialsAssumption DEF Where
  <2> QED
    BY <2>2 DEF Stage
<1>17. OpInv'
    BY <1>13, <1>15, <1>16 DEF OpInv
<1> QED
    BY <1>5, <1>6, <1>8, <1>9, <1>11, <1>17

LEMMA ApproveKeeps == ASSUME IndInv, NEW o \in Op, ApproveOperation(o) PROVE IndInv'
<1> USE DEF IndInv
<1>1. /\ phase = "up" /\ oStatus[o] = "approval_required"
      /\ oStatus' = [oStatus EXCEPT ![o] = "authorized"]
      /\ UNCHANGED <<cStatus, current, grantVars, oGrant, pStatus, claim, exec, recovery, keyVars,
                     hostVars, phase, faults>>
    BY DEF ApproveOperation, SetOperation
<1>2. UNCHANGED <<grant, gStatus, withdrawn, keychain, stored, seen, process, sandbox, applied>>
    BY <1>1 DEF grantVars, keyVars, hostVars
<1>3. oGrant[o] \in Grant /\ oStatus'[o] = "authorized" /\ \A p \in Op \ {o} : oStatus'[p] = oStatus[p]
    BY <1>1 DEF NamesAgree, TypeOK
<1>4. TypeOK'
  <2>1. oStatus' \in [Op -> OperationStatus]
    BY <1>1 DEF TypeOK, OperationStatus
  <2>2. exposureGrant' \in [Op -> {"none", "authorized", "consumed", "revoked"}]
    BY DEF ApproveOperation, TypeOK
  <2> QED
    BY <1>1, <1>2, <2>1, <2>2 DEF TypeOK
<1>5. NamesAgree' /\ Unproposed'
    BY <1>1, <1>2, <1>3 DEF NamesAgree, Unproposed
<1>6. Where(o) = "idle" /\ exec[CommissionOf(o)].op # o
    BY <1>1, <1>3, NobodyWorks
<1>7. MutexHolder'
    BY <1>1, <1>2, <1>3 DEF MutexHolder, CommissionOf
<1>8. SecretsAge' /\ KeysMove
    BY <1>1, <1>2, KeysStay DEF RefOf
<1>9. \A p \in Op \ {o} : oGrant'[p] = oGrant[p] /\ SameOp(p) /\ SameThread(p) /\ SameRecovery(p)
    BY <1>1, <1>2, <1>3 DEF SameOp, SameThread, SameRecovery
<1>10. \A p \in Op \ {o} : oGrant'[p] \in Grant => Stage(p)' /\ Rows(p)'
    BY <1>8, <1>9, AllUnmoved
<1>11. Stage(o)' /\ Rows(o)'
    BY <1>1, <1>2, <1>3, <1>6, Restated
<1>12. OpInv'
    BY <1>10, <1>11 DEF OpInv
<1> QED
    BY <1>4, <1>5, <1>7, <1>8, <1>12

LEMMA StartKeeps == ASSUME IndInv, NEW o \in Op, StartOperation(o) PROVE IndInv'
<1> USE DEF IndInv
<1> DEFINE c == CommissionOf(o)
           e == [op |-> o, step |-> "recheck", outcome |-> "none", contained |-> FALSE]
<1>1. /\ phase = "up" /\ oStatus[o] = "authorized" /\ exec[c] = Idle /\ gStatus[oGrant[o]] = "active"
      /\ oStatus' = [oStatus EXCEPT ![o] = "started"]
      /\ gStatus' = [gStatus EXCEPT ![oGrant[o]] = "consumed"]
      /\ seen' = [seen EXCEPT ![o] = keychain[RefOf(o)]]
      /\ UNCHANGED <<cStatus, current, grant, withdrawn, oGrant, pStatus, claim, recovery, keychain,
                     stored, hostVars, phase, faults>>
    BY DEF StartOperation, SetOperation, GrantIsUsable, MutexIsFree
<1>2. UNCHANGED <<process, sandbox, applied>>
    BY <1>1 DEF hostVars
<1>3. exec' = [exec EXCEPT ![c] = e]
    BY DEF StartOperation, Begins, Becomes
<1>4. e \in Exec /\ e.op = o /\ e.step = "recheck" /\ e # Idle
    BY IdleIsExec DEF Exec, Outcomes
<1> HIDE DEF e
<1>5. oGrant[o] \in Grant /\ c \in Commission /\ RefOf(o) \in Ref
    BY <1>1, GrantOf DEF NamesAgree
<1>6. oStatus'[o] = "started" /\ \A p \in Op \ {o} : oStatus'[p] = oStatus[p]
    BY <1>1 DEF TypeOK
<1>7. /\ gStatus'[oGrant[o]] = "consumed"
      /\ \A g \in Grant \ {oGrant[o]} : gStatus'[g] = gStatus[g]
    BY <1>1, <1>5 DEF TypeOK
<1>8. seen'[o] = keychain[RefOf(o)] /\ \A p \in Op \ {o} : seen'[p] = seen[p]
    BY <1>1 DEF TypeOK
<1>9. exec'[c] = e /\ \A d \in Commission \ {c} : exec'[d] = exec[d]
    BY <1>3, <1>5 DEF TypeOK
<1>10. TypeOK'
  <2>1. oStatus' \in [Op -> OperationStatus]
    BY <1>1 DEF TypeOK, OperationStatus
  <2>2. exposureGrant' \in [Op -> {"none", "authorized", "consumed", "revoked"}]
    BY DEF StartOperation, TypeOK
  <2>3. gStatus' \in [Grant -> {"none", "active", "consumed", "revoked"}]
    BY <1>1 DEF TypeOK
  <2>4. seen' \in [Op -> 0..MaxSecrets] /\ exec' \in [Commission -> Exec]
    BY <1>1, <1>3, <1>4, <1>5 DEF TypeOK
  <2> QED
    BY <1>1, <1>2, <2>1, <2>2, <2>3, <2>4 DEF TypeOK
<1>11. NamesAgree' /\ Unproposed'
  <2>1. NamesAgree'
    BY <1>1, <1>5, <1>6, <1>7 DEF NamesAgree, TypeOK
  <2>2. Unproposed'
    BY <1>1, <1>2, <1>5, <1>8, CredentialsAssumption DEF Unproposed
  <2> QED
    BY <2>1, <2>2
<1>12. MutexHolder'
  <2> SUFFICES ASSUME NEW d \in Commission, exec'[d] # Idle
               PROVE  /\ phase' = "up" /\ exec'[d].op \in Op /\ exec'[d].step # "idle"
                      /\ oGrant'[exec'[d].op] \in Grant
                      /\ grant'[oGrant'[exec'[d].op]].commission = d
                      /\ oStatus'[exec'[d].op] = (IF exec'[d].step = "observe" THEN "uncertain"
                                                  ELSE "started")
                      /\ exec'[d].step # "observe" => oGrant'[exec'[d].op] \notin withdrawn'
    BY DEF MutexHolder, CommissionOf
  <2>1. CASE d = c
    <3>1. oGrant[o] \notin withdrawn
        BY <1>1 DEF NamesAgree
    <3> QED
        BY <1>1, <1>4, <1>5, <1>6, <1>9, <2>1, <3>1 DEF CommissionOf
  <2>2. CASE d # c
    <3>1. exec'[d] = exec[d] /\ exec[d].op # o
        BY <1>9, <2>2 DEF MutexHolder
    <3> QED
        BY <1>1, <1>6, <3>1 DEF MutexHolder, CommissionOf
  <2> QED
    BY <2>1, <2>2
<1>13. KeysMove
    BY <1>1 DEF KeysMove
<1>14. SecretsAge'
  <2>1. \A p \in Op : RefOf(p)' = RefOf(p)
    BY <1>1 DEF RefOf
  <2>2. keychain[RefOf(o)] <= stored[RefOf(o)]
    BY <1>5 DEF SecretsAge
  <2> QED
    BY <1>1, <1>8, <2>1, <2>2 DEF SecretsAge
<1>15. \A p \in Op \ {o} : /\ oGrant'[p] = oGrant[p]
                           /\ oGrant[p] \in Grant => SameOp(p) /\ SameThread(p) /\ SameRecovery(p)
  <2> SUFFICES ASSUME NEW p \in Op \ {o}, oGrant[p] \in Grant
               PROVE  SameOp(p) /\ SameThread(p) /\ SameRecovery(p)
    BY <1>1
  <2>1. CommissionOf(p) \in Commission
    BY GrantOf
  <2>2. SameThread(p)
    BY <1>1, <1>4, <1>9, <2>1, IdleIsExec, CredentialsAssumption DEF SameThread
  <2> QED
    BY <1>1, <1>2, <1>6, <1>8, <2>2 DEF SameOp, SameRecovery
<1>16. \A p \in Op \ {o} : oGrant'[p] \in Grant => Stage(p)' /\ Rows(p)'
    BY <1>13, <1>15, AllUnmoved
<1>17. Rows(o) /\ Untouched(o)
    BY <1>1, <1>5 DEF OpInv, Rows
<1>18. Untouched(o)' /\ ~claim'[o]
    BY <1>1, <1>2, <1>17 DEF Untouched, Rows
<1>19. Stage(o)' /\ Rows(o)'
  <2>1. CommissionOf(o)' = c
    BY <1>1 DEF CommissionOf
  <2>2. Where(o)' = "recheck"
    BY <1>4, <1>9, <2>1 DEF Where
  <2>3. Stage(o)'
    BY <1>18, <2>2 DEF Stage
  <2> QED
    BY <1>6, <1>18, <2>3 DEF Rows, Untouched, Holds
<1>20. OpInv'
    BY <1>16, <1>19 DEF OpInv
<1> QED
    BY <1>10, <1>11, <1>12, <1>14, <1>20

\* A cancellation or an amendment, which waits for the mutex: what was not started
\* is revoked, and a cancellation makes what is still started uncertain.
LEMMA WithdrawalKeeps ==
    ASSUME IndInv, NEW c \in Commission, phase = "up", exec[c] = Idle,
           WithdrawGrants(c), ControlFrame, UNCHANGED <<pStatus, claim>>,
           cStatus' \in [Commission -> {"active", "paused", "cancelled"}],
           current' \in [Commission -> BOOLEAN],
           \/ oStatus' = [o \in Op |-> IF Withdrawn(c, o) THEN "revoked"
                                       ELSE IF o \in Started /\ CommissionOf(o) = c THEN "uncertain"
                                       ELSE oStatus[o]]
           \/ oStatus' = [o \in Op |-> IF Withdrawn(c, o) THEN "revoked" ELSE oStatus[o]]
    PROVE  IndInv'
<1> USE DEF IndInv
<1> DEFINE mine == {g \in Grant : grant[g].commission = c}
<1>1. /\ gStatus' = [g \in Grant |-> IF g \in mine /\ gStatus[g] = "active" THEN "revoked"
                                     ELSE gStatus[g]]
      /\ withdrawn' = withdrawn \union mine
      /\ UNCHANGED grant
    BY DEF WithdrawGrants
<1>2. UNCHANGED <<oGrant, exec, recovery, keychain, stored, seen, process, sandbox, applied, phase,
                  faults>>
    BY DEF ControlFrame, keyVars, hostVars
<1>3. \A o \in Op :
        \/ oStatus'[o] = oStatus[o]
        \/ /\ oGrant[o] # Nobody /\ CommissionOf(o) = c
           /\ oStatus[o] \in {"approval_required", "authorized"} /\ oStatus'[o] = "revoked"
        \/ CommissionOf(o) = c /\ oStatus[o] = "started" /\ oStatus'[o] = "uncertain"
    BY DEF Withdrawn, Started
<1>4. TypeOK'
  <2>1. oStatus' \in [Op -> OperationStatus]
    BY <1>3 DEF TypeOK, OperationStatus
  <2>2. exposureGrant' \in [Op -> {"none", "authorized", "consumed", "revoked"}]
    BY DEF WithdrawGrants, TypeOK
  <2>3. gStatus' \in [Grant -> {"none", "active", "consumed", "revoked"}]
    BY <1>1 DEF TypeOK
  <2> QED
    BY <1>1, <1>2, <2>1, <2>2, <2>3 DEF TypeOK
<1>5. \A g \in Grant : /\ gStatus'[g] = "none" <=> gStatus[g] = "none"
                       /\ gStatus'[g] = "active" => gStatus[g] = "active" /\ g \notin mine
    BY <1>1
<1>6. \A o \in Op : oStatus'[o] = "none" <=> oStatus[o] = "none"
    BY <1>3
<1>7. NamesAgree'
  <2>1. \A g \in mine : gStatus[g] # "none"
    BY CredentialsAssumption DEF NamesAgree
  <2>2. \A g \in withdrawn' : gStatus'[g] \notin {"none", "active"}
    BY <1>1, <1>5, <2>1 DEF NamesAgree, TypeOK
  <2> QED
    BY <1>1, <1>2, <1>5, <1>6, <2>2 DEF NamesAgree
<1>8. Unproposed'
    BY <1>2 DEF Unproposed
<1>9. MutexHolder'
  <2> SUFFICES ASSUME NEW d \in Commission, exec'[d] # Idle
               PROVE  /\ phase' = "up" /\ exec'[d].op \in Op /\ exec'[d].step # "idle"
                      /\ oGrant'[exec'[d].op] \in Grant
                      /\ grant'[oGrant'[exec'[d].op]].commission = d
                      /\ oStatus'[exec'[d].op] = (IF exec'[d].step = "observe" THEN "uncertain"
                                                  ELSE "started")
                      /\ exec'[d].step # "observe" => oGrant'[exec'[d].op] \notin withdrawn'
    BY DEF MutexHolder, CommissionOf
  <2>1. d # c /\ exec'[d] = exec[d]
    BY <1>2
  <2> DEFINE o == exec[d].op
  <2>2. /\ o \in Op /\ exec[d].step # "idle" /\ oGrant[o] \in Grant /\ CommissionOf(o) = d
        /\ oStatus[o] = (IF exec[d].step = "observe" THEN "uncertain" ELSE "started")
        /\ exec[d].step # "observe" => oGrant[o] \notin withdrawn
    BY <2>1 DEF MutexHolder
  <2>3. oGrant[o] \notin mine
    BY <2>1, <2>2 DEF CommissionOf
  <2>4. oStatus'[o] = oStatus[o]
    BY <1>3, <2>1, <2>2
  <2> QED
    BY <1>1, <1>2, <2>1, <2>2, <2>3, <2>4 DEF CommissionOf
<1>10. SecretsAge' /\ KeysMove
    BY <1>1, <1>2, KeysStay DEF RefOf, keyVars
<1>11. ASSUME NEW o \in Op, oGrant'[o] \in Grant PROVE Stage(o)' /\ Rows(o)'
  <2>1. oGrant[o] \in Grant
    BY <1>2, <1>11
  <2>2. CASE oStatus'[o] = oStatus[o]
    <3>1. SameOp(o) /\ SameThread(o) /\ SameRecovery(o)
        BY <1>1, <1>2, <2>2 DEF SameOp, SameThread, SameRecovery
    <3>2. Stage(o) /\ Rows(o)
        BY <2>1 DEF OpInv
    <3> QED
        BY <1>10, <2>1, <3>1, <3>2, Unmoved
  <2>3. CASE oStatus'[o] # oStatus[o]
    <3>1. CommissionOf(o) = c
        BY <1>3, <2>3
    <3>2. Where(o) = "idle" /\ exec[c].op # o
        BY <2>1, <3>1, NobodyWorks
    <3> QED
        BY <1>1, <1>2, <1>3, <2>1, <2>3, <3>1, <3>2, Restated
  <2> QED
    BY <2>2, <2>3
<1>12. OpInv'
    BY <1>11 DEF OpInv
<1> QED
    BY <1>4, <1>7, <1>8, <1>9, <1>10, <1>12

LEMMA CancelKeeps == ASSUME IndInv, NEW c \in Commission, CancelCommission(c) PROVE IndInv'
<1>1. /\ phase = "up" /\ exec[c] = Idle /\ WithdrawGrants(c) /\ ControlFrame
      /\ UNCHANGED <<pStatus, claim>>
    BY DEF CancelCommission, MutexIsFree
<1>2. /\ cStatus' \in [Commission -> {"active", "paused", "cancelled"}]
      /\ current' \in [Commission -> BOOLEAN]
    BY DEF CancelCommission, IndInv, TypeOK
<1> QED
    BY <1>1, <1>2, WithdrawalKeeps DEF CancelCommission

LEMMA AmendKeeps == ASSUME IndInv, NEW c \in Commission, AcceptCommissionAmendment(c) PROVE IndInv'
<1>1. /\ phase = "up" /\ exec[c] = Idle /\ WithdrawGrants(c) /\ ControlFrame
      /\ UNCHANGED <<pStatus, claim>>
    BY DEF AcceptCommissionAmendment, MutexIsFree
<1>2. /\ cStatus' \in [Commission -> {"active", "paused", "cancelled"}]
      /\ current' \in [Commission -> BOOLEAN]
    BY DEF AcceptCommissionAmendment, IndInv, TypeOK
<1> QED
    BY <1>1, <1>2, WithdrawalKeeps DEF AcceptCommissionAmendment

LEMMA CrashKeeps == ASSUME IndInv, Crash PROVE IndInv'
<1> USE DEF IndInv
<1>1. /\ faults < MaxFaults /\ faults' = faults + 1 /\ phase' = "down"
      /\ exec' = [c \in Commission |-> Idle] /\ recovery' = [o \in Op |-> "todo"]
      /\ UNCHANGED <<cStatus, current, grantVars, opVars, keyVars, hostVars>>
    BY DEF Crash
<1>2. UNCHANGED <<grant, gStatus, withdrawn, oStatus, oGrant, exposureGrant, pStatus, claim, keychain,
                  stored, seen, process, sandbox, applied>>
    BY <1>1 DEF grantVars, opVars, keyVars, hostVars
<1>3. TypeOK'
    BY <1>1, <1>2, IdleIsExec, CredentialsAssumption DEF TypeOK
<1>4. NamesAgree' /\ Unproposed'
    BY <1>2 DEF NamesAgree, Unproposed
<1>5. MutexHolder'
    BY <1>1 DEF MutexHolder
<1>6. SecretsAge'
    BY <1>1, <1>2, KeysStay DEF RefOf
<1>7. ASSUME NEW o \in Op, oGrant'[o] \in Grant PROVE Stage(o)' /\ Rows(o)'
  <2>1. oGrant[o] \in Grant /\ Rows(o)
    BY <1>2, <1>7 DEF OpInv
  <2>2. CommissionOf(o)' \in Commission
    BY <1>2, <2>1, GrantOf DEF CommissionOf
  <2>3. Where(o)' = "idle"
    BY <1>1, <2>2, IdleIsExec, CredentialsAssumption DEF Where
  <2>4. Rows(o)'
    BY <1>1, <1>2, <2>1 DEF Rows, Untouched, Holds, EntryGone, OneShot, RefOf
  <2> QED
    BY <2>3, <2>4 DEF Stage
<1>8. OpInv'
    BY <1>7 DEF OpInv
<1> QED
    BY <1>3, <1>4, <1>5, <1>6, <1>8

LEMMA RecoverKeeps == ASSUME IndInv, RecoverStrandedOperations PROVE IndInv'
<1> USE DEF IndInv
<1>1. /\ phase = "down" /\ phase' = "up"
      /\ \A o \in Op : IF oStatus[o] = "started"
                       THEN /\ oStatus'[o] = "uncertain" /\ claim'[o] = (recovery[o] = "ok")
                            /\ pStatus'[o] = IF recovery[o] = "ok" /\ pStatus[o] = "active"
                                             THEN "contained" ELSE pStatus[o]
                       ELSE oStatus'[o] = oStatus[o] /\ claim'[o] = claim[o] /\ pStatus'[o] = pStatus[o]
      /\ UNCHANGED <<grantVars, oGrant, exposureGrant, exec, keyVars, hostVars, faults>>
    BY DEF RecoverStrandedOperations, Started
<1>2. UNCHANGED <<grant, gStatus, withdrawn, keychain, stored, seen, process, sandbox, applied>>
    BY <1>1 DEF grantVars, keyVars, hostVars
<1>3. TypeOK'
  <2>1. oStatus' \in [Op -> OperationStatus] /\ claim' \in [Op -> BOOLEAN]
    BY DEF RecoverStrandedOperations, OperationStatus, TypeOK
  <2>2. pStatus' \in [Op -> {"none", "active", "contained"}]
    BY DEF RecoverStrandedOperations, TypeOK
  <2>3. /\ cStatus' \in [Commission -> {"active", "paused", "cancelled"}]
        /\ current' \in [Commission -> BOOLEAN] /\ recovery' \in [Op -> {"todo", "ok", "failed"}]
    BY DEF RecoverStrandedOperations, PauseActive, TypeOK
  <2> QED
    BY <1>1, <1>2, <2>1, <2>2, <2>3 DEF TypeOK
<1>4. NamesAgree'
    BY <1>1, <1>2 DEF NamesAgree
<1>5. Unproposed'
    BY <1>1, <1>2, CredentialsAssumption DEF Unproposed, NamesAgree
<1>6. MutexHolder'
    BY <1>1 DEF MutexHolder
<1>7. SecretsAge' /\ KeysMove
    BY <1>1, <1>2, KeysStay DEF RefOf
<1>8. ASSUME NEW o \in Op, oGrant'[o] \in Grant PROVE Stage(o)' /\ Rows(o)'
  <2>1. oGrant[o] \in Grant /\ Rows(o) /\ CommissionOf(o) \in Commission
    BY <1>1, <1>8, GrantOf DEF OpInv
  <2>2. exec[CommissionOf(o)] = Idle
    BY <1>1, <2>1 DEF MutexHolder
  <2>3. CommissionOf(o)' = CommissionOf(o) /\ OneShot(o)' = OneShot(o) /\ RefOf(o)' = RefOf(o)
    BY <1>1, <1>2 DEF CommissionOf, OneShot, RefOf
  <2>4. Where(o)' = "idle"
    BY <1>1, <2>2, <2>3, IdleIsExec, CredentialsAssumption DEF Where
  <2>5. (Holds(o)' <=> Holds(o)) /\ (EntryGone(o)' <=> EntryGone(o)) /\ (Untouched(o) => pStatus[o] = "none")
    BY <1>2, <2>3 DEF Holds, EntryGone, Untouched
  <2>6. Rows(o)'
    <3>1. CASE oStatus[o] = "started"
      <4>1. recovery[o] = "ok" => ~Holds(o)
        BY <1>1, <2>1, <3>1 DEF Rows
      <4>2. process[o] \in {"holding", "orphaned"} => Holds(o)
        BY DEF Holds
      <4> QED
        BY <1>1, <1>2, <2>1, <2>3, <2>5, <3>1, <4>1, <4>2 DEF Rows
    <3>2. CASE oStatus[o] # "started"
        BY <1>1, <1>2, <2>1, <2>3, <2>5, <3>2 DEF Rows, Untouched
    <3> QED
        BY <3>1, <3>2
  <2> QED
    BY <2>4, <2>6 DEF Stage
<1>9. OpInv'
    BY <1>8 DEF OpInv
<1> QED
    BY <1>3, <1>4, <1>5, <1>6, <1>7, <1>9

-----------------------------------------------------------------------------
(* The theorems.                                                           *)

LEMMA InitInv == Init => IndInv
<1> SUFFICES ASSUME Init PROVE IndInv
    OBVIOUS
<1>1. TypeOK
    BY IdleIsExec, CredentialsAssumption DEF Init, TypeOK, NoGrant, Exposure, OperationStatus, Process
<1>2. NamesAgree /\ Unproposed
    BY CredentialsAssumption DEF Init, NamesAgree, Unproposed, NoGrant
<1>3. MutexHolder
    BY DEF Init, MutexHolder
<1>4. SecretsAge /\ OpInv
    BY CredentialsAssumption DEF Init, SecretsAge, OpInv
<1> QED
    BY <1>1, <1>2, <1>3, <1>4 DEF IndInv

LEMMA RunKeeps == ASSUME IndInv, NEW o \in Op, Run(o) PROVE IndInv'
<1>1. ASSUME OpenEgress(o) PROVE IndInv'
    BY <1>1, PrepareKeeps DEF OpenEgress
<1>2. ASSUME CreateSandbox(o) PROVE IndInv'
    BY <1>2, PrepareKeeps DEF CreateSandbox
<1> QED
    BY <1>1, <1>2, RecheckKeeps, ReadSecretKeeps, SpawnKeeps, RegisterKeeps, WriteSecretKeeps,
       AwaitProcessKeeps, DeliverKeeps, FinishExecKeeps, CleanSandboxKeeps, RevokeCredentialKeeps,
       RecordOutcomeKeeps DEF Run

LEMMA IndStep == IndInv /\ [Next]_vars => IndInv'
<1> SUFFICES ASSUME IndInv, [Next]_vars PROVE IndInv'
    OBVIOUS
<1>1. CASE Request
    BY <1>1, GrantCredentialKeeps, ProposeKeeps, ApproveKeeps, StartKeeps, CleanBeforeObservingKeeps,
       ReconcileKeeps, CancelKeeps, AmendKeeps, ResumeKeeps DEF Request
<1>2. CASE \E o \in Op : Run(o)
    BY <1>2, RunKeeps
<1>3. CASE Restart
    BY <1>3, CleanStrandedKeeps, RecoverKeeps DEF Restart
<1>4. CASE Environment
    BY <1>4, StoreSecretKeeps, EffectHappensKeeps, ProcessChangesKeeps, SandboxStopsKeeps,
       RecordFailsKeeps, CrashKeeps DEF Environment
<1>5. CASE UNCHANGED vars
  <2>1. UNCHANGED <<cStatus, current, grant, gStatus, withdrawn, oStatus, oGrant, exposureGrant, pStatus,
                    claim, exec, recovery, keychain, stored, seen, process, sandbox, applied, phase,
                    faults>>
    BY <1>5 DEF vars, grantVars, opVars, keyVars, hostVars
  <2>2. TypeOK' /\ NamesAgree' /\ SecretsAge' /\ Unproposed'
    BY <2>1 DEF IndInv, TypeOK, NamesAgree, SecretsAge, RefOf, Unproposed
  <2>3. MutexHolder'
    BY <2>1 DEF IndInv, MutexHolder, CommissionOf
  <2>4. KeysMove /\ \A o \in Op : oGrant'[o] = oGrant[o] /\ SameOp(o) /\ SameThread(o) /\ SameRecovery(o)
    BY <2>1 DEF KeysMove, SameOp, SameThread, SameRecovery
  <2>5. OpInv'
    BY <2>4, AllUnmoved DEF OpInv
  <2> QED
    BY <2>2, <2>3, <2>5 DEF IndInv
<1> QED
    BY <1>1, <1>2, <1>3, <1>4, <1>5 DEF Next

LEMMA Invariance == Spec => []IndInv
BY InitInv, IndStep, PTL DEF Spec

\* An operation reported confirmed or failed has left neither a process nor a
\* sandbox with the secret, and no secret it could have read is in the Keychain.
THEOREM SettledCorrect == Spec => []SettledLeavesNothing
<1>1. IndInv => SettledLeavesNothing
  <2> SUFFICES ASSUME IndInv, NEW o \in Op, Settled(o)
               PROVE  ~Holds(o) /\ (keychain[RefOf(o)] = 0 \/ keychain[RefOf(o)] > seen[o])
    BY DEF SettledLeavesNothing
  <2>1. Rows(o)
    BY DEF IndInv, NamesAgree, OpInv, Settled
  <2> QED
    BY <2>1 DEF Rows, EntryGone, Settled
<1> QED
    BY <1>1, Invariance, PTL

\* A failed operation never has its effect, and a confirmed one had it.
THEOREM OutcomeCorrect == Spec => []OutcomeIsTrue
<1>1. IndInv => OutcomeIsTrue
  <2> SUFFICES ASSUME IndInv, NEW o \in Op
               PROVE  /\ oStatus[o] = "failed" => o \notin applied
                      /\ oStatus[o] = "confirmed" => o \in applied
    BY DEF OutcomeIsTrue
  <2>1. oStatus[o] # "none" => Rows(o)
    BY DEF IndInv, NamesAgree, OpInv
  <2> QED
    BY <2>1 DEF Rows
<1> QED
    BY <1>1, Invariance, PTL

\* Whatever holds a secret belongs to an operation the store knows as started or
\* uncertain, and no record claims that it is contained.
THEOREM HolderCorrect == Spec => []HolderIsKnown
<1>1. IndInv => HolderIsKnown
  <2> SUFFICES ASSUME IndInv, NEW o \in Op, Holds(o)
               PROVE  /\ oStatus[o] \in {"started", "uncertain"} /\ ~claim[o]
                      /\ process[o] \in {"holding", "orphaned"} => pStatus[o] = "active"
                      /\ pStatus[o] # "contained"
    BY DEF HolderIsKnown
  <2>1. Rows(o) /\ oGrant[o] \in Grant
    BY Proposed DEF Holds
  <2>2. ~Untouched(o)
    BY DEF Holds, Untouched
  <2>3. oStatus[o] \in OperationStatus /\ oStatus[o] # "none"
    BY <2>1, GrantOf DEF IndInv, TypeOK
  <2> QED
    BY <2>1, <2>2, <2>3 DEF Rows, OperationStatus
<1> QED
    BY <1>1, Invariance, PTL

\* Only two steps hand over a secret.
LEMMA OnlyTwoStepsDeliver ==
    ASSUME IndInv, Next, NEW o \in Op, ~Holds(o), Holds(o)'
    PROVE  At(o, "write") \/ At(o, "deliver")
<1> USE DEF IndInv
<1>1. ~UNCHANGED <<process, sandbox>>
    BY DEF Holds
<1>2. ~UNCHANGED hostVars
    BY <1>1 DEF hostVars
<1>3. ASSUME NEW p \in Op, Run(p) PROVE At(o, "write") \/ At(o, "deliver")
  <2>1. ~Recheck(p) /\ ~ReadSecret(p) /\ ~FinishExec(p) /\ ~RevokeCredential(p) /\ ~RecordOutcome(p)
    BY <1>2 DEF Recheck, ReadSecret, FinishExec, RevokeCredential, RecordOutcome
  <2>2. CASE Spawn(p) \/ Register(p) \/ AwaitProcess(p)
    <3>1. sandbox' = sandbox /\ process'[o] \in {process[o], "waiting", "gone"}
        BY <2>2 DEF Spawn, Register, RegisterProcess, AwaitProcess, KillGroup, SetProcess, TypeOK
    <3> QED
        BY <3>1 DEF Holds
  <2>3. CASE WriteSecret(p)
    <3>1. sandbox' = sandbox /\ (p # o => process'[o] = process[o])
        BY <2>3 DEF WriteSecret, SetProcess, TypeOK
    <3> QED
        BY <2>3, <3>1 DEF Holds, WriteSecret
  <2>4. CASE OpenEgress(p) \/ CreateSandbox(p) \/ CleanSandbox(p)
    <3>1. process' = process /\ sandbox'[o] \in {sandbox[o], "none", "open"}
        BY <2>4, ZenonT(40)
        DEF OpenEgress, CreateSandbox, CleanSandbox, DeleteSandbox, DeletedOrNot, SetSandbox,
                    TypeOK
    <3> QED
        BY <3>1 DEF Holds
  <2>5. CASE Deliver(p)
    <3>1. process' = process /\ (p # o => sandbox'[o] = sandbox[o])
        BY <2>5, ZenonT(40) DEF Deliver, SetSandbox, TypeOK
    <3> QED
        BY <2>5, <3>1 DEF Holds, Deliver
  <2> QED
    BY <1>3, <2>1, <2>2, <2>3, <2>4, <2>5 DEF Run
<1>4. ASSUME NEW p \in Op, CleanStranded(p) \/ CleanBeforeObserving(p) PROVE FALSE
  <2>1. PICK ok \in BOOLEAN : RecoverEffect(p, ok)
    BY <1>4 DEF CleanStranded, CleanBeforeObserving
  <2>2. UNCHANGED seen /\ oGrant[p] \in Grant
    BY <1>4 DEF CleanStranded, CleanBeforeObserving, NamesAgree
  <2>3. process'[o] \in {process[o], "gone"} /\ sandbox'[o] \in {sandbox[o], "none", "open"}
    <3>1. CASE p = o
        BY <2>1, <2>2, <3>1, CleanUp
    <3>2. CASE p # o
        BY <2>1, <2>2, <3>2, CleanUp
    <3> QED
        BY <3>1, <3>2
  <2> QED
    BY <2>3 DEF Holds
<1>5. ASSUME NEW p \in Op, EffectHappens(p) \/ ProcessChanges(p) \/ SandboxStops(p) \/ RecordFails(p)
      PROVE  FALSE
  <2>1. /\ sandbox'[o] \in {sandbox[o], "open"}
        /\ process'[o] \in {process[o], "gone", "reused"} \/ process[o] = "holding"
    BY <1>5 DEF EffectHappens, ProcessChanges, SandboxStops, RecordFails, SetProcess, SetSandbox,
                hostVars, TypeOK
  <2> QED
    BY <2>1 DEF Holds
<1>6. ~Crash /\ ~RecoverStrandedOperations /\ \A r \in Ref : ~StoreSecret(r)
    BY <1>2 DEF Crash, RecoverStrandedOperations, StoreSecret
<1>7. \A c \in Commission : /\ ~CancelCommission(c) /\ ~AcceptCommissionAmendment(c)
                            /\ ~ResumeCommission(c)
    BY <1>2 DEF CancelCommission, AcceptCommissionAmendment, ResumeCommission, ControlFrame
<1>8. \A p \in Op : ~ApproveOperation(p) /\ ~StartOperation(p) /\ ~ReconcileOperation(p)
    BY <1>2 DEF ApproveOperation, StartOperation, ReconcileOperation
<1>9. \A g \in Grant : /\ \A p \in Op : ~ProposeOperation(p, g)
                       /\ \A c \in Commission, r \in Ref, x \in Exposure : ~GrantCredential(g, c, r, x)
    BY <1>2 DEF ProposeOperation, GrantCredential
<1> QED
    BY <1>3, <1>4, <1>5, <1>6, <1>7, <1>8, <1>9 DEF Next, Request, Restart, Environment

\* Once a Commission was cancelled or its mandate changed, no secret granted before
\* leaves the Keychain for a process or a sandbox any more.
THEOREM WithdrawalCorrect == Spec => NoSecretAfterWithdrawal
<1>1. ASSUME IndInv, [Next]_vars
      PROVE  [\A o \in Op : (Holds(o)' /\ ~Holds(o)) => oGrant[o] \notin withdrawn]_vars
  <2>1. CASE Next
    <3>1. ASSUME NEW o \in Op, Holds(o)', ~Holds(o) PROVE oGrant[o] \notin withdrawn
      <4>1. At(o, "write") \/ At(o, "deliver")
        BY <1>1, <2>1, <3>1, OnlyTwoStepsDeliver
      <4> QED
        BY <1>1, <4>1, ThreadHolds DEF IndInv
    <3> QED
        BY <3>1
  <2>2. CASE UNCHANGED vars
    BY <2>2
  <2> QED
    BY <1>1, <2>1, <2>2
<1> QED
    BY <1>1, Invariance, PTL DEF Spec, NoSecretAfterWithdrawal
=============================================================================
