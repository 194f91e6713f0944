------------------------------ MODULE Requests ------------------------------
(***************************************************************************)
(* Requests to the Control Plane about one Commission: sent by Attachments *)
(* over a local socket, queued, served by threads that run at the same     *)
(* time, answered or not, and sent again.                                  *)
(*                                                                         *)
(* A mutating request carries an idempotency key.  Most are one SQLite     *)
(* transaction that also stores the answer; steering and interrupting a    *)
(* Worker take two, with the delivery to the Worker between them and a     *)
(* worker_commands row to bridge them.                                     *)
(*                                                                         *)
(* Abstracted: message texts, token values, the native session, the        *)
(* content of answers (the control revision they report), and amendments   *)
(* and clocks: at any time a request may expect another revision or bring  *)
(* an expired launch token, and be refused.  A deferred transaction either *)
(* sees and changes one state or fails with SQLITE_BUSY: it is one step    *)
(* here.  A request is composed from what its sender sees when it is first *)
(* sent, served in any order, and a success is read when it is committed   *)
(* or not at all.                                                          *)
(***************************************************************************)
EXTENDS Integers, FiniteSets

CONSTANTS
    Attachment,      \* the Attachments of the Commission, joined or still to join
    Creator,         \* the one that created the Proposal
    Key,             \* idempotency keys
    Downgrades,      \* the sets of capabilities an Attachment may cut itself down to
    QueueCapacity,   \* REQUEST_QUEUE_CAPACITY
    Threads,         \* REQUEST_WORKERS
    MaxJobs,         \* bound: connections ever made
    MaxFaults        \* bound: crashes, failing transactions and lost connections

Nobody == "nobody"

ASSUME RequestsAssumption ==
    /\ Creator \in Attachment /\ Nobody \notin Attachment
    /\ Downgrades \subseteq SUBSET {"steer", "interrupt", "take_control"}
    /\ QueueCapacity \in Nat /\ Threads \in Nat
    /\ MaxJobs \in Nat /\ MaxFaults \in Nat

Controls   == {"steer", "interrupt"}
Capability == Controls \union {"take_control"}
Command    == Capability \union {"connect", "downgrade"}
Job        == 1..MaxJobs

NoRequest == [from |-> Creator, key |-> Nobody]
NoAnswer == -1

VARIABLES
    status, control,        \* commissions.status, control_revision
    active, joined, caps,   \* commission_attachments and attachments.capabilities_json
    session,                \* history: who has received its session token
    prior,                  \* idempotency_keys: the request and its answer
    command, cmdOf,         \* worker_commands.status, and its request
    running,                \* workers.status = 'running'
    input, interrupted,     \* WorkerControl: adapter_input, interrupted
    clarifications,         \* WorkerControl: how often each command is listed
    written,                \* history: how often it was written to the adapter
    delivered,              \* WorkerControl.delivered_commands
    recorded,               \* history: transactions that recorded the key's effect
    job,                    \* the connections: request, step and answer
    received,               \* history: the successes the senders have read
    faults

commissionVars == <<status, control>>
attachmentVars == <<active, joined, caps>>
outboxVars     == <<command, cmdOf>>
workerVars     == <<running, input, interrupted, clarifications, written, delivered>>
clientVars     == <<session, received>>

vars == <<commissionVars, attachmentVars, session, prior, outboxVars, workerVars, recorded,
          job, received, faults>>

Init ==
    /\ status = "active" /\ control = 0
    /\ active = Creator /\ joined \in {{Creator}, Attachment} /\ session = joined
    /\ caps = [a \in Attachment |-> Capability]
    /\ prior = [k \in Key |-> [req |-> NoRequest, answer |-> NoAnswer]]
    /\ command = [k \in Key |-> "none"] /\ cmdOf = [k \in Key |-> NoRequest]
    /\ running = TRUE /\ input = "waiting" /\ interrupted = FALSE
    /\ clarifications = [k \in Key |-> 0] /\ written = [k \in Key |-> 0]
    /\ delivered = {} /\ recorded = [k \in Key |-> 0]
    /\ job = [j \in Job |-> [req |-> NoRequest, step |-> "none", ok |-> FALSE]]
    /\ received = {} /\ faults = 0

(***************************************************************************)
(* Connections.                                                            *)
(***************************************************************************)

At(j, step) == job[j].step = step
Queued == {j \in Job : At(j, "queued")}
Served == {j \in Job : job[j].step \in {"deliver", "record"}}

\* ok, whether the delivery worked, is only kept from the delivery to its record.
Moved(j, step) == [req |-> job[j].req, step |-> step, ok |-> FALSE]
Goes(j, step) == job' = [job EXCEPT ![j] = Moved(j, step)]

\* A thread is free to serve the connection: Store::open and read_request worked.
Serves(j) == At(j, "queued") /\ Cardinality(Served) < Threads

\* The next connection to be made.
IsNext(j) == At(j, "none") /\ \A i \in Job : i < j => ~At(i, "none")

\* The listener: try_send, and a refusal when the queue is full.
Connect(j, r) ==
    /\ job' = [job EXCEPT ![j] =
                 [req |-> r, ok |-> FALSE,
                  step |-> IF Cardinality(Queued) < QueueCapacity THEN "queued" ELSE "done"]]
    /\ UNCHANGED <<commissionVars, attachmentVars, clientVars, prior, outboxVars, workerVars,
                   recorded, faults>>

\* A new request, from an Attachment with a session or one about to connect.
\* holder is history: the Active Attachment its sender saw.
Send(j) ==
    /\ IsNext(j)
    /\ \E a \in Attachment, k \in Key, c \in Command, keep \in Downgrades \union {Capability} :
           /\ IF c = "connect" THEN a \notin session ELSE a \in session
           /\ c = "downgrade" <=> keep # Capability
           /\ Connect(j, [from |-> a, key |-> k, cmd |-> c, keep |-> keep, control |-> control,
                          holder |-> active])

\* The same request again, whether or not the first was answered.
Resend(j) == IsNext(j) /\ \E i \in Job : i < j /\ Connect(j, job[i].req)

\* serve_connection reports a failure: nobody learns anything from it.
Fails(j) == Goes(j, "done") /\ UNCHANGED <<clientVars, faults>>

\* serve_connection writes the answer to a success, which may not arrive.  A
\* connected Attachment learns its session token from it.
Succeeds(j, answer) ==
    /\ Goes(j, "done")
    /\ LET r == job[j].req IN
       \/ /\ received' = received \union {[req |-> r, answer |-> answer]}
          /\ session' = IF r.cmd = "connect" THEN session \union {r.from} ELSE session
          /\ UNCHANGED faults
       \/ faults < MaxFaults /\ faults' = faults + 1 /\ UNCHANGED clientVars

(***************************************************************************)
(* Idempotency.                                                            *)
(***************************************************************************)

Stored(k) == prior[k].req # NoRequest

\* Mutant: the key alone decides.
SameKey(r) == Stored(r.key)

\* prior_result: the stored answer belongs to this very request.
IsRepeat(r) == prior[r.key].req = r

\* save_idempotent_result, in the transaction of the mutation; a second row for
\* the key makes the transaction fail.
Saves(r, answer) ==
    /\ ~Stored(r.key)
    /\ prior' = [prior EXCEPT ![r.key] = [req |-> r, answer |-> answer]]
    /\ recorded' = [recorded EXCEPT ![r.key] = @ + 1]

\* What every mutation but connect does first: the stored answer, or a conflict.
AnswersFromPrior(j) ==
    LET r == job[j].req
    IN  /\ Serves(j) /\ r.cmd # "connect" /\ Stored(r.key)
        /\ IF IsRepeat(r) THEN Succeeds(j, prior[r.key].answer) ELSE Fails(j)
        /\ UNCHANGED <<commissionVars, attachmentVars, prior, outboxVars, workerVars, recorded>>

(***************************************************************************)
(* Mutations of one transaction.                                           *)
(***************************************************************************)

\* ensure_commission_attachment
May(r, capability) == r.from \in joined /\ capability \in caps[r.from]

\* Mutant: the control revision is not compared.
AnyControl(r) == May(r, "take_control")

\* take_control also compares the control revision.
MayTakeControl(r) == May(r, "take_control") /\ r.control = control

TakeControl(j) ==
    LET r == job[j].req
    IN  /\ Serves(j) /\ r.cmd = "take_control" /\ ~Stored(r.key)
        /\ MayTakeControl(r)
        /\ active' = r.from /\ control' = control + 1
        /\ Saves(r, control')
        /\ Succeeds(j, control')
        /\ UNCHANGED <<status, joined, caps, outboxVars, workerVars>>

\* negotiate has only capabilities that are kept; none is ever added.
MayDowngrade(r) == r.from \in joined /\ r.keep \subseteq caps[r.from]

UpdateAttachmentCapabilities(j) ==
    LET r == job[j].req
    IN  /\ Serves(j) /\ r.cmd = "downgrade" /\ ~Stored(r.key)
        /\ MayDowngrade(r)
        /\ caps' = [caps EXCEPT ![r.from] = r.keep]
        /\ Saves(r, control)
        /\ Succeeds(j, control)
        /\ UNCHANGED <<commissionVars, active, joined, outboxVars, workerVars>>

\* A launch token is good once, and for no repeated request.
MayConnect(r) == r.from \notin joined /\ ~Stored(r.key)

ConnectAttachment(j) ==
    LET r == job[j].req
    IN  /\ Serves(j) /\ r.cmd = "connect"
        /\ MayConnect(r)
        /\ joined' = joined \union {r.from}
        /\ Saves(r, control)
        /\ Succeeds(j, control)
        /\ UNCHANGED <<commissionVars, active, caps, outboxVars, workerVars>>

(***************************************************************************)
(* control_worker: steer and interrupt.                                    *)
(***************************************************************************)

\* The command is new, or this very request left it pending.
IsFirstOrPending(r) ==
    command[r.key] = "none" \/ (command[r.key] = "pending" /\ cmdOf[r.key] = r)

MayControl(r) ==
    /\ active = r.from /\ May(r, r.cmd)
    /\ IsFirstOrPending(r)
    /\ status = "active" /\ running

\* The first transaction puts the command in the outbox.
PostCommand(j) ==
    LET r == job[j].req
    IN  /\ Serves(j) /\ r.cmd \in Controls /\ ~Stored(r.key)
        /\ MayControl(r)
        /\ command' = [command EXCEPT ![r.key] = "pending"]
        /\ cmdOf' = [cmdOf EXCEPT ![r.key] = r]
        /\ Goes(j, "deliver")
        /\ UNCHANGED <<commissionVars, attachmentVars, clientVars, prior, workerVars, recorded,
                       faults>>

\* The request is not permitted, or expects another revision: nothing changes.
Refuse(j) ==
    /\ Serves(j) /\ (job[j].req.cmd = "connect" \/ ~Stored(job[j].req.key))
    /\ Fails(j)
    /\ UNCHANGED <<commissionVars, attachmentVars, prior, outboxVars, workerVars, recorded>>

\* Mutant: the Worker's control does not remember commands.
NeverDelivered(k) == FALSE

\* delivered_commands, under the lock that is held to the end of the delivery.
AlreadyDelivered(k) == k \in delivered

\* The Worker can still be told something.
Listening == input \in {"waiting", "attached"} /\ ~interrupted

\* A clarification is kept for an adapter that is still to come, and written at
\* once to one that is there.
Tell(r) ==
    IF r.cmd = "steer"
    THEN /\ clarifications' = [clarifications EXCEPT ![r.key] = @ + 1]
         /\ written' = IF input = "attached" THEN [written EXCEPT ![r.key] = @ + 1] ELSE written
         /\ UNCHANGED interrupted
    ELSE interrupted' = TRUE /\ UNCHANGED <<clarifications, written>>

\* steer keeps the clarification before it writes: it stays behind when the adapter
\* does not take the message.  One that has detached is refused before that.
Undelivered(r) ==
    /\ \/ UNCHANGED clarifications
       \/ /\ r.cmd = "steer" /\ input = "attached" /\ ~interrupted
          /\ clarifications' = [clarifications EXCEPT ![r.key] = @ + 1]
    /\ UNCHANGED <<interrupted, written, delivered>>

\* steer and interrupt of the Worker runtime.  An attached adapter may have
\* detached, or not take the message; nobody attaches a second one.
Deliver(j) ==
    LET r == job[j].req
        Ends(ok) == job' = [job EXCEPT ![j] = [req |-> r, step |-> "record", ok |-> ok]]
    IN  /\ At(j, "deliver")
        /\ \/ /\ input # "gone" /\ AlreadyDelivered(r.key)
              /\ Ends(TRUE)
              /\ UNCHANGED <<interrupted, clarifications, written, delivered>>
           \/ /\ ~AlreadyDelivered(r.key) /\ Listening
              /\ Tell(r)
              /\ delivered' = delivered \union {r.key}
              /\ Ends(TRUE)
           \/ /\ IF input = "attached" THEN ~AlreadyDelivered(r.key)
                 ELSE input = "gone" \/ (interrupted /\ ~AlreadyDelivered(r.key))
              /\ Ends(FALSE)
              /\ Undelivered(r)
        /\ UNCHANGED <<commissionVars, attachmentVars, clientVars, prior, outboxVars, running,
                       input, recorded, faults>>

\* UPDATE worker_commands ... WHERE status = 'pending'
Settles(k, s) == command' = [command EXCEPT ![k] = IF @ = "pending" THEN s ELSE @]

\* The second transaction reports the delivery.  When the same request has been
\* recorded by another thread in the meantime, or the database fails, nothing is.
RecordDelivery(j) ==
    LET r == job[j].req
    IN  /\ At(j, "record")
        /\ \/ /\ ~job[j].ok
              /\ Settles(r.key, "failed")
              /\ Fails(j)
              /\ UNCHANGED <<prior, recorded>>
           \/ /\ job[j].ok
              /\ Settles(r.key, "delivered")
              /\ Saves(r, control)
              /\ Succeeds(j, control)
           \/ /\ job[j].ok /\ Stored(r.key)
              /\ Fails(j)
              /\ UNCHANGED <<prior, recorded, command>>
        /\ UNCHANGED <<commissionVars, attachmentVars, cmdOf, workerVars>>

\* Before or during either transaction the database fails, or it is busy with a
\* deferred transaction: the request is dropped or told so, and nothing changes.
DatabaseFails(j) ==
    /\ Serves(j) \/ At(j, "record")
    /\ faults < MaxFaults /\ faults' = faults + 1
    /\ Goes(j, "done")
    /\ UNCHANGED <<commissionVars, attachmentVars, clientVars, prior, outboxVars, workerVars,
                   recorded>>

(***************************************************************************)
(* The Worker, the Principal and the process.                              *)
(***************************************************************************)

WorkerFrame == UNCHANGED <<attachmentVars, clientVars, prior, cmdOf, recorded, control>>

\* attach_adapter_input writes what was said before the adapter came up.
AttachAdapterInput ==
    /\ input = "waiting" /\ running
    /\ input' = "attached"
    /\ written' = [k \in Key |-> written[k] + clarifications[k]]
    /\ WorkerFrame
    /\ UNCHANGED <<status, command, running, interrupted, clarifications, delivered, job, faults>>

\* The Attempt ends in the database first, then its thread drops the control.
WorkerEnds ==
    /\ running /\ running' = FALSE
    /\ WorkerFrame
    /\ UNCHANGED <<status, command, input, interrupted, clarifications, written, delivered, job,
                   faults>>

EndAttempt ==
    /\ ~running /\ input # "gone"
    /\ input' = "gone"
    /\ interrupted' = FALSE /\ clarifications' = [k \in Key |-> 0] /\ delivered' = {}
    /\ WorkerFrame
    /\ UNCHANGED <<status, command, running, written, job, faults>>

FailPending == command' = [k \in Key |-> IF command[k] = "pending" THEN "failed" ELSE command[k]]

\* cancel_attempt interrupts the running Attempt, its error is dropped: an
\* attached adapter may have detached, or not take the message.
CancelAttempt ==
    \/ running /\ Listening /\ interrupted' = TRUE
    \/ ~(running /\ input = "waiting" /\ ~interrupted) /\ UNCHANGED interrupted

\* cancel_commission, for what this module keeps of it.
CancelCommission ==
    /\ status = "active" /\ status' = "cancelled"
    /\ running' = FALSE
    /\ CancelAttempt
    /\ FailPending
    /\ WorkerFrame
    /\ UNCHANGED <<input, clarifications, written, delivered, job, faults>>

\* The interruption comes before the commit and is not taken back when the
\* transaction fails: the Worker is stopped, the Commission is still active.
CancelFails ==
    /\ status = "active"
    /\ faults < MaxFaults /\ faults' = faults + 1
    /\ CancelAttempt
    /\ WorkerFrame
    /\ UNCHANGED <<status, command, running, input, clarifications, written, delivered, job>>

\* The Control Plane stops and starts: every connection is lost, the Worker is
\* gone and recover_stranded_attempts fails its Attempt and its pending commands.
Restart ==
    /\ faults < MaxFaults /\ faults' = faults + 1
    /\ job' = [j \in Job |-> IF At(j, "none") THEN job[j] ELSE Moved(j, "done")]
    /\ running' = FALSE /\ input' = "gone"
    /\ interrupted' = FALSE /\ clarifications' = [k \in Key |-> 0] /\ delivered' = {}
    /\ IF running THEN FailPending ELSE UNCHANGED command
    /\ WorkerFrame
    /\ UNCHANGED <<status, written>>

Next ==
    \/ \E j \in Job : \/ Send(j) \/ Resend(j) \/ AnswersFromPrior(j) \/ Refuse(j)
                      \/ TakeControl(j) \/ UpdateAttachmentCapabilities(j)
                      \/ ConnectAttachment(j) \/ PostCommand(j) \/ Deliver(j)
                      \/ RecordDelivery(j) \/ DatabaseFails(j)
    \/ AttachAdapterInput \/ WorkerEnds \/ EndAttempt
    \/ CancelCommission \/ CancelFails \/ Restart

Spec == Init /\ [][Next]_vars

(***************************************************************************)
(* Properties.                                                             *)
(***************************************************************************)

\* A key is applied at most once: however often a request is sent, by however many
\* threads it is served at a time and wherever a crash cuts it, one transaction
\* records it and the Worker hears it once (prior_result, delivered_commands).
AppliedOnce == \A k \in Key : recorded[k] <= 1 /\ written[k] <= 1

\* Whoever is told that a request succeeded is told what the store says of that
\* very request: repeats get the first answer, and no other request under the
\* same key is taken for it.
AnswersAgree ==
    \A x \in received : /\ prior[x.req.key].req = x.req
                        /\ prior[x.req.key].answer = x.answer
                        /\ recorded[x.req.key] = 1

\* Control passes only from the Attachment that the new one saw in control: a
\* takeover delayed in the queue never displaces a controller nobody told it of.
NoBlindTakeover ==
    [][active' # active =>
         \E j \in Job : /\ job[j].step = "queued" /\ job'[j].step = "done"
                        /\ job[j].req.from = active' /\ job[j].req.holder = active]_vars

=============================================================================
