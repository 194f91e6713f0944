----------------------------- MODULE Credentials -----------------------------
(***************************************************************************)
(* External effects that need a secret: the Principal grants the use of a  *)
(* Keychain entry to one Attempt, an approved operation consumes the grant,*)
(* the secret goes to a curl process (brokered) or into a fresh sandbox    *)
(* (one-shot), and afterwards the process or sandbox and the entry must be *)
(* gone, whatever failed and wherever the daemon crashed.                  *)
(*                                                                         *)
(* An operation runs under the Integration mutex of its Commission only:   *)
(* operations of two Commissions interleave and may share a Keychain entry.*)
(* Keychain, processes and sandboxes are not part of any transaction and   *)
(* survive a crash of the daemon.                                          *)
(*                                                                         *)
(* Abstracted: a deadline, an expiry, a hash or parameter check, a Keychain*)
(* or Docker command may fail whenever the code asks; a sandbox stands for *)
(* container, relay and networks; a destination applies a request when it  *)
(* is sent and refuses one without the secret; the gate of an operation    *)
(* follows its status (module Operations has gates and file effects), and  *)
(* the Principal's own pause and the end of an Attempt, which only refuse  *)
(* requests that may be refused anyway, are left to module Attempts.       *)
(***************************************************************************)
EXTENDS Naturals, FiniteSets

CONSTANTS
    Commission, Grant, Op,
    Ref,            \* credential references: names of Keychain entries
    MaxSecrets,     \* bound: secrets ever stored under one reference
    MaxFaults       \* bound: crashes and failing writes of an outcome

Nobody == "nobody"

ASSUME CredentialsAssumption ==
    /\ IsFiniteSet(Grant) /\ IsFiniteSet(Op)
    /\ Nobody \notin Commission \union Grant \union Op \union Ref
    /\ MaxSecrets \in Nat \ {0} /\ MaxFaults \in Nat

Exposure == {"brokered_only", "one_shot"}
NoGrant == [commission |-> Nobody, ref |-> Nobody, exposure |-> "brokered_only"]

VARIABLES
    cStatus,        \* commissions
    current,        \* does an Attempt hold a lease of the current revision?
    grant,          \* credential_grants: what each one names
    gStatus,        \* and its status
    withdrawn,      \* history: grants older than a cancellation or amendment
    oStatus, oGrant,  \* operation_requests
    exposureGrant,  \* credential_exposure_grants, one per operation
    pStatus,        \* credential_process_id and _status of an operation
    claim,          \* does the stored receipt claim that all is contained?
    exec,           \* per Commission: the thread that holds its mutex
    recovery,       \* a starting daemon: what cleaning up each operation gave
    keychain,       \* the secret stored under a reference, 0 when absent
    stored,         \* history: secrets ever stored under a reference
    seen,           \* history: the newest secret an operation may have read
    process,        \* the curl process of an operation
    sandbox,        \* the Effect Sandbox of an operation
    applied,        \* history: operations whose effect happened
    phase, faults

grantVars == <<grant, gStatus, withdrawn>>
opVars    == <<oStatus, oGrant, exposureGrant, pStatus, claim>>
keyVars   == <<keychain, stored, seen>>
hostVars  == <<process, sandbox, applied>>
vars == <<cStatus, current, grantVars, opVars, exec, recovery, keyVars, hostVars, phase, faults>>

OperationStatus == {"none", "approval_required", "authorized", "started", "confirmed", "failed",
                    "uncertain", "revoked"}
Process == {"none", "waiting", "holding", "orphaned", "gone", "reused"}
Outcomes == {"none", "confirmed", "failed", "uncertain"}
Idle == [op |-> Nobody, step |-> "idle", outcome |-> "none", contained |-> FALSE]

CommissionOf(o) == grant[oGrant[o]].commission
RefOf(o)        == grant[oGrant[o]].ref
OneShot(o)      == grant[oGrant[o]].exposure = "one_shot"

\* A process group or sandbox that was given the secret and can still use it.
Holds(o) == process[o] \in {"holding", "orphaned"} \/ sandbox[o] = "holding"

(***************************************************************************)
(* Grant, propose, approve.                                                *)
(***************************************************************************)

\* ensure_current_credential_grant_context, ensure_current_operation_context
ContextIsCurrent(c) == cStatus[c] = "active" /\ current[c]

\* supports_grant and supports_exposure ask the Keychain before the transaction;
\* the entry may be gone when the grant is stored.
Supported(r) == keychain[r] # 0

\* grant_credential
GrantCredential(g, c, r, x) ==
    /\ phase = "up" /\ gStatus[g] = "none"
    /\ Supported(r)
    /\ ContextIsCurrent(c)
    /\ gStatus' = [gStatus EXCEPT ![g] = "active"]
    /\ grant' = [grant EXCEPT ![g] = [commission |-> c, ref |-> r, exposure |-> x]]
    /\ UNCHANGED <<cStatus, current, withdrawn, opVars, exec, recovery, keyVars, hostVars,
                   phase, faults>>

\* load_current_credential_grant, validate_credential_operation_grant
GrantIsUsable(g) == gStatus[g] = "active"

SetOperation(o, s) == oStatus' = [oStatus EXCEPT ![o] = s]

\* propose_operation: every credentialed effect waits for approval.
ProposeOperation(o, g) ==
    /\ phase = "up" /\ oStatus[o] = "none"
    /\ GrantIsUsable(g) /\ ContextIsCurrent(grant[g].commission)
    /\ SetOperation(o, "approval_required")
    /\ oGrant' = [oGrant EXCEPT ![o] = g]
    /\ UNCHANGED <<cStatus, current, grantVars, exposureGrant, pStatus, claim, exec, recovery,
                   keyVars, hostVars, phase, faults>>

\* approve_operation: a one-shot operation also gets its exposure grant.
ApproveOperation(o) ==
    /\ phase = "up" /\ oStatus[o] = "approval_required"
    /\ ContextIsCurrent(CommissionOf(o)) /\ GrantIsUsable(oGrant[o])
    /\ SetOperation(o, "authorized")
    /\ exposureGrant' = [exposureGrant EXCEPT ![o] = IF OneShot(o) THEN "authorized" ELSE @]
    /\ UNCHANGED <<cStatus, current, grantVars, oGrant, pStatus, claim, exec, recovery, keyVars,
                   hostVars, phase, faults>>

(***************************************************************************)
(* execute_operation, up to the secret.                                    *)
(***************************************************************************)

\* Mutant: requests do not wait for the Commission's Integration mutex.
MutexIgnored(c) == TRUE

MutexIsFree(c) == exec[c] = Idle

At(o, step) == /\ phase = "up" /\ oGrant[o] # Nobody
               /\ exec[CommissionOf(o)].op = o
               /\ exec[CommissionOf(o)].step = step

\* The thread of o starts, goes on, or has an outcome and turns to what it must undo.
Becomes(o, e) == exec' = [exec EXCEPT ![CommissionOf(o)] = e]
Begins(o, step) ==
    Becomes(o, [op |-> o, step |-> step, outcome |-> "none", contained |-> FALSE])
Step(o, step) == Becomes(o, [exec[CommissionOf(o)] EXCEPT !.step = step])
EndsAt(o, step, outcome, contained) ==
    Becomes(o, [op |-> o, step |-> step, outcome |-> outcome, contained |-> contained])
Fails(o) == EndsAt(o, "revoke", "failed", FALSE)

RunFrame == UNCHANGED <<cStatus, current, grantVars, opVars, recovery, keychain, stored, phase,
                        faults>>

\* First transaction: gate, grant and exposure grant are consumed, the operation
\* is durably started.
StartOperation(o) ==
    /\ phase = "up" /\ oStatus[o] = "authorized"
    /\ MutexIsFree(CommissionOf(o))
    /\ ContextIsCurrent(CommissionOf(o)) /\ GrantIsUsable(oGrant[o])
    /\ OneShot(o) => exposureGrant[o] = "authorized"
    /\ SetOperation(o, "started")
    /\ gStatus' = [gStatus EXCEPT ![oGrant[o]] = "consumed"]
    /\ exposureGrant' = [exposureGrant EXCEPT ![o] = IF OneShot(o) THEN "consumed" ELSE @]
    /\ Begins(o, "recheck")
    /\ seen' = [seen EXCEPT ![o] = keychain[RefOf(o)]]
    /\ UNCHANGED <<cStatus, current, grant, withdrawn, oGrant, pStatus, claim, recovery,
                   keychain, stored, hostVars, phase, faults>>

\* Second transaction: context, expiry and ceilings once more.
Recheck(o) ==
    /\ At(o, "recheck")
    /\ \/ /\ ContextIsCurrent(CommissionOf(o))
          /\ Step(o, "read")
       \/ Fails(o)
    /\ RunFrame /\ UNCHANGED <<seen, hostVars>>

Readable(r) == keychain[r] # 0

\* revalidate_broker, deadline, ensure_binding, read_secret: all before anything runs.
ReadSecret(o) ==
    /\ At(o, "read")
    /\ \/ /\ Readable(RefOf(o))
          /\ seen' = [seen EXCEPT ![o] = keychain[RefOf(o)]]
          /\ Step(o, IF OneShot(o) THEN "egress" ELSE "spawn")
       \/ Fails(o) /\ UNCHANGED seen
    /\ RunFrame /\ UNCHANGED hostVars

(***************************************************************************)
(* execute_brokered: run_curl in a process group of its own.               *)
(***************************************************************************)

SetProcess(o, p) == process' = [process EXCEPT ![o] = p]

\* From the spawn on every error leaves the outcome uncertain.
Spawn(o) ==
    /\ At(o, "spawn")
    /\ \/ SetProcess(o, "waiting") /\ Step(o, "register")
       \/ UNCHANGED process /\ EndsAt(o, "revoke", "uncertain", FALSE)
       \/ UNCHANGED process /\ Fails(o)
    /\ RunFrame /\ UNCHANGED <<seen, sandbox, applied>>

\* terminate_process_group may find the group alive after SIGKILL.
KillGroup(o) == SetProcess(o, "gone") \/ UNCHANGED process

\* process_started: the identity is durable before a byte of the secret is written.
RegisterProcess(o) ==
    /\ At(o, "register")
    /\ \/ /\ pStatus' = [pStatus EXCEPT ![o] = "active"]
          /\ UNCHANGED process
          /\ Step(o, "write")
       \/ /\ pStatus' \in {pStatus, [pStatus EXCEPT ![o] = "active"]}
          /\ KillGroup(o)
          /\ EndsAt(o, "revoke", "uncertain", FALSE)

Register(o) ==
    /\ RegisterProcess(o)
    /\ UNCHANGED <<cStatus, current, grantVars, oStatus, oGrant, exposureGrant, claim, recovery,
                   keyVars, sandbox, applied, phase, faults>>

\* The writer thread, unless the deadline has passed or the process is gone.
WriteSecret(o) ==
    /\ At(o, "write")
    /\ \/ process[o] = "waiting" /\ SetProcess(o, "holding")
       \/ UNCHANGED process
    /\ Step(o, "wait")
    /\ RunFrame /\ UNCHANGED <<seen, sandbox, applied>>

\* A bounded 2xx answer without a leak confirms; any other answer leaves doubt.
ResponseOutcomes(o) == IF o \in applied THEN {"confirmed", "uncertain"} ELSE {"uncertain"}

\* The leader has exited and its group is terminated, or the deadline ends the wait.
AwaitProcess(o) ==
    /\ At(o, "wait")
    /\ \/ /\ process[o] \in {"orphaned", "gone"}
          /\ SetProcess(o, "gone")
          /\ \E outcome \in ResponseOutcomes(o) : EndsAt(o, "revoke", outcome, TRUE)
       \/ KillGroup(o) /\ EndsAt(o, "revoke", "uncertain", FALSE)
    /\ RunFrame /\ UNCHANGED <<seen, sandbox, applied>>

(***************************************************************************)
(* execute_one_shot: run_effect_sandbox.                                   *)
(***************************************************************************)

SetSandbox(o, s) == sandbox' = [sandbox EXCEPT ![o] = s]
DeletedOrNot == {"none", "open"}

\* open_effect_egress: what was created is deleted again, if that works.
OpenEgress(o) ==
    /\ At(o, "egress")
    /\ \/ SetSandbox(o, "open") /\ Step(o, "create")
       \/ (\E s \in DeletedOrNot : SetSandbox(o, s)) /\ Fails(o)
    /\ RunFrame /\ UNCHANGED <<seen, process, applied>>

\* A failure may leave networks and container behind, without the secret: several
\* returns do not even try to delete them.
CreateSandbox(o) ==
    /\ At(o, "create")
    /\ \/ UNCHANGED sandbox /\ Step(o, "deliver")
       \/ (\E s \in DeletedOrNot : SetSandbox(o, s)) /\ Fails(o)
    /\ RunFrame /\ UNCHANGED <<seen, process, applied>>

\* Mutant: a failing docker exec counts as "never delivered".
FailedDelivery == "failed"

DeliveryOutcome == "uncertain"

\* Upload, preflight and version may fail; then docker exec hands over the secret
\* and may itself fail at any point.
Deliver(o) ==
    /\ At(o, "deliver")
    /\ \/ EndsAt(o, "delete", "failed", FALSE) /\ UNCHANGED sandbox
       \/ SetSandbox(o, "holding") /\ Step(o, "finish")
       \/ /\ sandbox' \in {sandbox, [sandbox EXCEPT ![o] = "holding"]}
          /\ EndsAt(o, "delete", DeliveryOutcome, FALSE)
    /\ RunFrame /\ UNCHANGED <<seen, process, applied>>

\* Status, leak scan and containment attestation decide.
FinishExec(o) ==
    /\ At(o, "finish")
    /\ \E outcome \in ResponseOutcomes(o) : EndsAt(o, "delete", outcome, FALSE)
    /\ RunFrame /\ UNCHANGED <<seen, hostVars>>

\* delete_sandbox: container, relay, networks in this order; the first failure stops it.
DeleteSandbox(o, ok) ==
    IF ok THEN SetSandbox(o, "none")
          ELSE sandbox' \in {sandbox, [sandbox EXCEPT ![o] = "open"]}

CleanSandbox(o) ==
    /\ At(o, "delete")
    /\ LET outcome == exec[CommissionOf(o)].outcome IN
       \/ /\ DeleteSandbox(o, TRUE)
          /\ EndsAt(o, "revoke", outcome, outcome # "failed")
       \/ /\ DeleteSandbox(o, FALSE)
          /\ EndsAt(o, "revoke", "uncertain", FALSE)
    /\ RunFrame /\ UNCHANGED <<seen, process, applied>>

(***************************************************************************)
(* Revocation and the last transaction.                                    *)
(***************************************************************************)

\* revoke_and_verify: only an entry seen to be absent is revoked.
RevokeAndVerify(r, verified) ==
    /\ keychain' \in {keychain, [keychain EXCEPT ![r] = 0]}
    /\ verified => keychain'[r] = 0

\* Mutant: the outcome stands, whether the entry is gone or not.
OutcomeStands(outcome, verified) == outcome

OutcomeAfterRevocation(outcome, verified) == IF verified THEN outcome ELSE "uncertain"

RevokeCredential(o) ==
    /\ At(o, "revoke")
    /\ \E verified \in BOOLEAN :
        /\ RevokeAndVerify(RefOf(o), verified)
        /\ LET e == exec[CommissionOf(o)]
           IN  EndsAt(o, "record", OutcomeAfterRevocation(e.outcome, verified), e.contained)
    /\ UNCHANGED <<cStatus, current, grantVars, opVars, recovery, stored, seen, hostVars, phase,
                   faults>>

PauseActive(c) == IF cStatus[c] = "active" THEN "paused" ELSE cStatus[c]

RecordOutcome(o) ==
    /\ At(o, "record")
    /\ LET e == exec[CommissionOf(o)] IN
       /\ SetOperation(o, e.outcome)
       /\ claim' = [claim EXCEPT ![o] = e.contained]
       /\ pStatus' = [pStatus EXCEPT ![o] = IF @ = "active" /\ e.contained THEN "contained" ELSE @]
       /\ cStatus' = [cStatus EXCEPT ![CommissionOf(o)] =
                        IF e.outcome = "uncertain" THEN PauseActive(CommissionOf(o)) ELSE @]
    /\ Becomes(o, Idle)
    /\ UNCHANGED <<current, grantVars, oGrant, exposureGrant, recovery, keyVars, hostVars, phase,
                   faults>>

\* The last transaction fails: the operation stays started.
RecordFails(o) ==
    /\ At(o, "record") /\ faults < MaxFaults
    /\ faults' = faults + 1
    /\ Becomes(o, Idle)
    /\ UNCHANGED <<cStatus, current, grantVars, opVars, recovery, keyVars, hostVars, phase>>

(***************************************************************************)
(* Crash, recovery and reconciliation.                                     *)
(***************************************************************************)

Crash ==
    /\ faults < MaxFaults
    /\ faults' = faults + 1
    /\ phase' = "down"
    /\ exec' = [c \in Commission |-> Idle]
    /\ recovery' = [o \in Op |-> "todo"]
    /\ UNCHANGED <<cStatus, current, grantVars, opVars, keyVars, hostVars>>

\* Mutant: a recorded leader that is gone counts as contained.
LeaderIsAllThatMatters(o) ==
    \/ pStatus[o] # "active"
    \/ process[o] \in {"waiting", "holding", "gone", "orphaned"}

\* contain_broker_process gives up on a reused PID and on a group without its leader.
ContainmentIsSafe(o) ==
    \/ pStatus[o] # "active"
    \/ process[o] \in {"waiting", "holding", "gone"}

ContainProcess(o, ok) ==
    IF ok THEN /\ ContainmentIsSafe(o)
               /\ IF pStatus[o] = "active" /\ process[o] \in {"waiting", "holding"}
                  THEN SetProcess(o, "gone") ELSE UNCHANGED process
          ELSE UNCHANGED process

\* recover_stranded_effect: both parts are tried, both must succeed.
RecoverEffect(o, ok) ==
    \E contained, verified \in BOOLEAN :
        /\ ok = (contained /\ verified)
        /\ RevokeAndVerify(RefOf(o), verified)
        /\ IF OneShot(o) THEN DeleteSandbox(o, contained) /\ UNCHANGED process
                         ELSE ContainProcess(o, contained) /\ UNCHANGED sandbox

\* recover_stranded_operations, outside the transaction: one operation after the other.
CleanStranded(o) ==
    /\ phase = "down" /\ oStatus[o] = "started" /\ recovery[o] = "todo"
    /\ \E ok \in BOOLEAN :
        /\ RecoverEffect(o, ok)
        /\ recovery' = [recovery EXCEPT ![o] = IF ok THEN "ok" ELSE "failed"]
    /\ UNCHANGED <<cStatus, current, grantVars, opVars, exec, stored, seen, applied, phase, faults>>

Started == {o \in Op : oStatus[o] = "started"}

\* One transaction for all of them; the running Attempts are interrupted after it.
RecoverStrandedOperations ==
    /\ phase = "down" /\ \A o \in Started : recovery[o] # "todo"
    /\ oStatus' = [o \in Op |-> IF o \in Started THEN "uncertain" ELSE oStatus[o]]
    /\ claim' = [o \in Op |-> IF o \in Started THEN recovery[o] = "ok" ELSE claim[o]]
    /\ pStatus' = [o \in Op |-> IF o \in Started /\ recovery[o] = "ok" /\ pStatus[o] = "active"
                                THEN "contained" ELSE pStatus[o]]
    /\ cStatus' = [c \in Commission |-> IF \E o \in Started : CommissionOf(o) = c
                                        THEN PauseActive(c) ELSE cStatus[c]]
    /\ current' = [c \in Commission |-> FALSE]
    /\ recovery' = [o \in Op |-> "todo"]
    /\ phase' = "up"
    /\ UNCHANGED <<grantVars, oGrant, exposureGrant, exec, keyVars, hostVars, faults>>

\* reconcile_operation cleans up first, under the mutex; a failure ends the request.
CleanBeforeObserving(o) ==
    /\ phase = "up" /\ oStatus[o] = "uncertain" /\ MutexIsFree(CommissionOf(o))
    /\ \E ok \in BOOLEAN :
        /\ RecoverEffect(o, ok)
        /\ IF ok THEN Begins(o, "observe") ELSE UNCHANGED exec
    /\ UNCHANGED <<cStatus, current, grantVars, opVars, recovery, stored, seen, applied, phase,
                   faults>>

\* observe_read_only: the destination shows whether the effect happened.
Observed(o) == IF o \in applied THEN "confirmed" ELSE "failed"

\* A statement of the Principal that the destination does not bear out is refused.
ReconcileOperation(o) ==
    /\ At(o, "observe")
    /\ \/ /\ SetOperation(o, Observed(o))
          /\ pStatus' = [pStatus EXCEPT ![o] = IF @ = "active" THEN "contained" ELSE @]
          /\ claim' = [claim EXCEPT ![o] = FALSE]
       \/ UNCHANGED <<oStatus, pStatus, claim>>
    /\ Becomes(o, Idle)
    /\ UNCHANGED <<cStatus, current, grantVars, oGrant, exposureGrant, recovery, keyVars, hostVars,
                   phase, faults>>

(***************************************************************************)
(* The Principal's controls and the world around the daemon.               *)
(***************************************************************************)

ControlFrame == UNCHANGED <<oGrant, exec, recovery, keyVars, hostVars, phase, faults>>

\* Active grants, authorized exposures and open operations of a Commission end.
WithdrawGrants(c) ==
    LET mine == {g \in Grant : grant[g].commission = c} IN
    /\ gStatus' = [g \in Grant |-> IF g \in mine /\ gStatus[g] = "active" THEN "revoked"
                                   ELSE gStatus[g]]
    /\ exposureGrant' = [o \in Op |-> IF oGrant[o] \in mine /\ exposureGrant[o] = "authorized"
                                      THEN "revoked" ELSE exposureGrant[o]]
    /\ withdrawn' = withdrawn \union mine
    /\ UNCHANGED grant

Withdrawn(c, o) == oGrant[o] # Nobody /\ CommissionOf(o) = c
                   /\ oStatus[o] \in {"approval_required", "authorized"}

\* cancel_commission waits for the mutex; what is still started becomes uncertain.
CancelCommission(c) ==
    /\ phase = "up" /\ cStatus[c] \in {"active", "paused"} /\ MutexIsFree(c)
    /\ cStatus' = [cStatus EXCEPT ![c] = "cancelled"]
    /\ current' = [current EXCEPT ![c] = FALSE]
    /\ WithdrawGrants(c)
    /\ oStatus' = [o \in Op |-> IF Withdrawn(c, o) THEN "revoked"
                                ELSE IF o \in Started /\ CommissionOf(o) = c THEN "uncertain"
                                ELSE oStatus[o]]
    /\ UNCHANGED <<pStatus, claim>>
    /\ ControlFrame

\* accept_commission_amendment: an Attempt's lease is carried over or ended.
AcceptCommissionAmendment(c) ==
    /\ phase = "up" /\ cStatus[c] \in {"active", "paused"} /\ MutexIsFree(c)
    /\ WithdrawGrants(c)
    /\ oStatus' = [o \in Op |-> IF Withdrawn(c, o) THEN "revoked" ELSE oStatus[o]]
    /\ current' \in {current, [current EXCEPT ![c] = FALSE]}
    /\ UNCHANGED <<cStatus, pStatus, claim>>
    /\ ControlFrame

\* resume_commission: no effect of the Commission may be uncertain.
ResumeCommission(c) ==
    /\ phase = "up" /\ cStatus[c] = "paused"
    /\ \A o \in Op : oStatus[o] = "uncertain" => CommissionOf(o) # c
    /\ cStatus' = [cStatus EXCEPT ![c] = "active"]
    /\ UNCHANGED <<current, grantVars, oStatus, exposureGrant, pStatus, claim>>
    /\ ControlFrame

World == UNCHANGED <<cStatus, current, opVars, exec, recovery, phase, faults>>

\* Only an absent entry can be added.
StoreSecret(r) ==
    /\ keychain[r] = 0 /\ stored[r] < MaxSecrets
    /\ stored' = [stored EXCEPT ![r] = @ + 1]
    /\ keychain' = [keychain EXCEPT ![r] = stored[r] + 1]
    /\ World /\ UNCHANGED <<grantVars, seen, hostVars>>

\* The effect needs the secret; nothing else can cause it.
EffectHappens(o) ==
    /\ Holds(o) /\ o \notin applied
    /\ applied' = applied \union {o}
    /\ World /\ UNCHANGED <<grantVars, keyVars, process, sandbox>>

Unreaped(o) == \E c \in Commission : exec[c].op = o /\ exec[c].step \in {"register", "write", "wait"}

\* curl exits, perhaps before its descendants; a recorded PID that was reaped may be
\* reused.
ProcessChanges(o) ==
    /\ \/ process[o] \in {"waiting", "holding", "orphaned"} /\ SetProcess(o, "gone")
       \/ process[o] = "holding" /\ SetProcess(o, "orphaned")
       \/ process[o] = "gone" /\ pStatus[o] = "active" /\ ~Unreaped(o) /\ SetProcess(o, "reused")
       \/ process[o] = "reused" /\ SetProcess(o, "gone")
    /\ World /\ UNCHANGED <<grantVars, keyVars, sandbox, applied>>

\* The container's own time limit.
SandboxStops(o) ==
    /\ sandbox[o] = "holding"
    /\ SetSandbox(o, "open")
    /\ World /\ UNCHANGED <<grantVars, keyVars, process, applied>>

Init ==
    /\ cStatus = [c \in Commission |-> "active"] /\ current = [c \in Commission |-> TRUE]
    /\ grant = [g \in Grant |-> NoGrant] /\ gStatus = [g \in Grant |-> "none"]
    /\ withdrawn = {}
    /\ oStatus = [o \in Op |-> "none"] /\ oGrant = [o \in Op |-> Nobody]
    /\ exposureGrant = [o \in Op |-> "none"] /\ pStatus = [o \in Op |-> "none"]
    /\ claim = [o \in Op |-> FALSE]
    /\ exec = [c \in Commission |-> Idle] /\ recovery = [o \in Op |-> "todo"]
    /\ keychain = [r \in Ref |-> 1] /\ stored = [r \in Ref |-> 1] /\ seen = [o \in Op |-> 0]
    /\ process = [o \in Op |-> "none"] /\ sandbox = [o \in Op |-> "none"] /\ applied = {}
    /\ phase = "up" /\ faults = 0

Request ==
    \/ \E g \in Grant, c \in Commission, r \in Ref, x \in Exposure : GrantCredential(g, c, r, x)
    \/ \E o \in Op, g \in Grant : ProposeOperation(o, g)
    \/ \E o \in Op : ApproveOperation(o) \/ StartOperation(o) \/ CleanBeforeObserving(o)
                     \/ ReconcileOperation(o)
    \/ \E c \in Commission : CancelCommission(c) \/ AcceptCommissionAmendment(c)
                             \/ ResumeCommission(c)

Run(o) ==
    \/ Recheck(o) \/ ReadSecret(o)
    \/ Spawn(o) \/ Register(o) \/ WriteSecret(o) \/ AwaitProcess(o)
    \/ OpenEgress(o) \/ CreateSandbox(o) \/ Deliver(o) \/ FinishExec(o) \/ CleanSandbox(o)
    \/ RevokeCredential(o) \/ RecordOutcome(o)

Environment ==
    \/ \E r \in Ref : StoreSecret(r)
    \/ \E o \in Op : EffectHappens(o) \/ ProcessChanges(o) \/ SandboxStops(o) \/ RecordFails(o)
    \/ Crash

Restart == (\E o \in Op : CleanStranded(o)) \/ RecoverStrandedOperations

Next == Request \/ (\E o \in Op : Run(o)) \/ Restart \/ Environment

Spec == Init /\ [][Next]_vars

(***************************************************************************)
(* Properties.                                                             *)
(***************************************************************************)

Exec == [op : Op \union {Nobody}, outcome : Outcomes, contained : BOOLEAN,
         step : {"idle", "recheck", "read", "spawn", "register", "write", "wait", "egress", "create",
                 "deliver", "finish", "delete", "revoke", "record", "observe"}]

\* Every variable has the type the rows, processes and containers it stands for have.
TypeOK ==
    /\ cStatus \in [Commission -> {"active", "paused", "cancelled"}]
    /\ current \in [Commission -> BOOLEAN]
    /\ grant \in [Grant -> [commission : Commission \union {Nobody}, ref : Ref \union {Nobody},
                            exposure : Exposure]]
    /\ gStatus \in [Grant -> {"none", "active", "consumed", "revoked"}]
    /\ withdrawn \subseteq Grant
    /\ oStatus \in [Op -> OperationStatus] /\ oGrant \in [Op -> Grant \union {Nobody}]
    /\ exposureGrant \in [Op -> {"none", "authorized", "consumed", "revoked"}]
    /\ pStatus \in [Op -> {"none", "active", "contained"}] /\ claim \in [Op -> BOOLEAN]
    /\ exec \in [Commission -> Exec] /\ recovery \in [Op -> {"todo", "ok", "failed"}]
    /\ keychain \in [Ref -> 0..MaxSecrets] /\ stored \in [Ref -> 0..MaxSecrets]
    /\ seen \in [Op -> 0..MaxSecrets]
    /\ process \in [Op -> Process] /\ sandbox \in [Op -> {"none", "open", "holding"}]
    /\ applied \subseteq Op /\ phase \in {"up", "down"} /\ faults \in 0..MaxFaults

Settled(o) == oStatus[o] \in {"confirmed", "failed"}

\* An operation reported confirmed or failed, by its own run or by reconciliation,
\* has left neither a process nor a sandbox with the secret, and every secret it
\* could have read is gone from the Keychain (execute_operation, reconcile_operation).
SettledLeavesNothing ==
    \A o \in Op : Settled(o) =>
        ~Holds(o) /\ (keychain[RefOf(o)] = 0 \/ keychain[RefOf(o)] > seen[o])

\* "failed" means that the effect did not happen and never will, "confirmed" that
\* it did, whatever crashed and whoever settled the operation.
OutcomeIsTrue ==
    \A o \in Op : /\ oStatus[o] = "failed" => o \notin applied
                  /\ oStatus[o] = "confirmed" => o \in applied

\* What holds the secret is always known to the store, and no record denies it: the
\* operation is started or uncertain, a process's identity is on disk, so recovery
\* after a crash at any point can find it, and neither a receipt nor the process row
\* claims containment, also after PID reuse, a leader that died first or a failed
\* deletion (run_bounded_command_after_spawn, contain_broker_process).
HolderIsKnown ==
    \A o \in Op : Holds(o) =>
        /\ oStatus[o] \in {"started", "uncertain"} /\ ~claim[o]
        /\ process[o] \in {"holding", "orphaned"} => pStatus[o] = "active"
        /\ pStatus[o] # "contained"

\* Once the Principal has cancelled the Commission or changed its mandate, no secret
\* granted before leaves the Keychain for a process or a sandbox any more.
NoSecretAfterWithdrawal ==
    [][\A o \in Op : (Holds(o)' /\ ~Holds(o)) => oGrant[o] \notin withdrawn]_vars
=============================================================================
