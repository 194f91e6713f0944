--------------------------- MODULE RequestsProofs ---------------------------
(***************************************************************************)
(* Proofs about Requests, for every set of Attachments and keys, and every *)
(* number of connections, threads, repeats and faults.                     *)
(*                                                                         *)
(* The inductive invariant says what a stored key means (KeyIsStoredOnce), *)
(* what the Worker's control remembers (ControlRemembers), and what a      *)
(* request that was composed earlier still tells about the Attachment in   *)
(* control (RevisionTellsHolder).                                          *)
(***************************************************************************)
EXTENDS Requests, TLAPS

\* What a request says.
Request == [from : Attachment, key : Key, cmd : Command, keep : SUBSET Capability,
            control : Nat, holder : Attachment]

Steps == {"none", "queued", "deliver", "record", "done"}

\* A connection.
JobRecord == [req : Request \union {NoRequest}, step : Steps, ok : BOOLEAN]

RequestTypes ==
    /\ status \in {"active", "cancelled"} /\ control \in Nat
    /\ active \in Attachment /\ joined \subseteq Attachment
    /\ session \subseteq Attachment
    /\ prior \in [Key -> [req : Request \union {NoRequest}, answer : Int]]
    /\ running \in BOOLEAN /\ interrupted \in BOOLEAN
    /\ input \in {"waiting", "attached", "gone"}
    /\ clarifications \in [Key -> Nat] /\ written \in [Key -> Nat]
    /\ delivered \subseteq Key /\ recorded \in [Key -> Nat]
    /\ job \in [Job -> JobRecord]
    /\ \A j \in Job : job[j].step # "none" => job[j].req \in Request
    /\ received \subseteq [req : Request, answer : Int]

\* A key has one row, written by the transaction that records its effect.
KeyIsStoredOnce ==
    \A k \in Key : recorded[k] = IF Stored(k) THEN 1 ELSE 0

\* While it exists, the Worker's control knows every command it was told: one it
\* does not know was neither kept for the adapter nor written to it.
ControlRemembers ==
    /\ \A k \in Key : written[k] <= 1
    /\ input # "gone" => \A k \in Key \ delivered : written[k] = 0
    /\ input = "waiting" => \A k \in Key : /\ clarifications[k] <= 1 /\ written[k] = 0
                                           /\ k \notin delivered => clarifications[k] = 0

\* The control revision tells which Attachment was in control.
RevisionTellsHolder ==
    \A j \in Job :
        job[j].step # "none" =>
            /\ job[j].req.control <= control
            /\ job[j].req.control = control => job[j].req.holder = active

IndInv ==
    /\ RequestTypes /\ KeyIsStoredOnce /\ ControlRemembers /\ AnswersAgree
    /\ RevisionTellsHolder

\* The entry of a key that is not stored is no request.
LEMMA NoRequestIsNone == NoRequest \notin Request
<1>1. ASSUME NEW r \in Request PROVE "cmd" \in DOMAIN r
    BY DEF Request
<1>2. "cmd" \notin DOMAIN NoRequest
    BY DEF NoRequest
<1> QED
    BY <1>1, <1>2

\* The initial state satisfies the invariant.
LEMMA InitInv == Init => IndInv
<1> SUFFICES ASSUME Init PROVE IndInv
    OBVIOUS
<1>1. NoAnswer \in Int
    BY DEF NoAnswer
<1>2. RequestTypes
    BY <1>1, RequestsAssumption DEF Init, RequestTypes, JobRecord, Steps
<1> QED
    BY <1>2 DEF Init, IndInv, KeyIsStoredOnce, Stored, ControlRemembers, AnswersAgree,
                RevisionTellsHolder

\* What Goes leaves in the connections.
LEMMA JobMoves ==
    ASSUME RequestTypes, NEW j \in Job, NEW s \in Steps, Goes(j, s)
    PROVE  /\ job' \in [Job -> JobRecord]
           /\ \A i \in Job : job'[i].req = job[i].req
           /\ job'[j].step = s
           /\ \A i \in Job : i # j => job'[i].step = job[i].step
<1>1. job' = [job EXCEPT ![j] = [req |-> job[j].req, step |-> s, ok |-> FALSE]]
    BY DEF Goes, Moved
<1> QED
    BY <1>1 DEF RequestTypes, JobRecord

\* Nobody's request changes, and no connection is made.
JobsKept ==
    /\ job' \in [Job -> JobRecord]
    /\ \A i \in Job : /\ job'[i].req = job[i].req
                      /\ job'[i].step # "none" => job[i].step # "none"

LEMMA GoesKeepsJobs ==
    ASSUME RequestTypes, NEW j \in Job, job[j].step # "none",
           NEW s \in Steps, Goes(j, s)
    PROVE  JobsKept
BY JobMoves DEF JobsKept

\* An earlier request still tells who was in control, as long as every change
\* of control raises the revision.
LEMMA HolderKept ==
    ASSUME RequestTypes, RevisionTellsHolder, JobsKept,
           \/ UNCHANGED <<active, control>>
           \/ control' = control + 1
    PROVE  /\ RevisionTellsHolder'
           /\ \A j \in Job : job'[j].step # "none" => job'[j].req \in Request
<1>1. \A j \in Job : job'[j].step # "none" => job'[j].req \in Request
    BY DEF RequestTypes, JobsKept
<1>2. \A j \in Job : job[j].step # "none" => job[j].req.control \in Nat
    BY DEF RequestTypes, Request
<1> QED
    BY <1>1, <1>2 DEF RequestTypes, JobsKept, RevisionTellsHolder

\* A sender is told the answer, or nothing.
LEMMA Told ==
    ASSUME RequestTypes, NEW j \in Job, job[j].step # "none", NEW a \in Int, Succeeds(j, a)
    PROVE  /\ JobsKept
           /\ session' \subseteq Attachment
           /\ \/ received' = received
              \/ received' = received \union {[req |-> job[j].req, answer |-> a]}
<1>1. job[j].req \in Request
    BY DEF RequestTypes
<1>2. job[j].req.from \in Attachment
    BY <1>1 DEF Request
<1>3. JobsKept
    BY GoesKeepsJobs DEF Succeeds, Steps
<1> QED
    BY <1>2, <1>3 DEF Succeeds, RequestTypes, clientVars

\* Answering from what is stored, or not at all, keeps keys and answers in step.
LEMMA NothingSaved ==
    ASSUME RequestTypes, KeyIsStoredOnce, AnswersAgree, UNCHANGED <<prior, recorded>>,
           \/ received' = received
           \/ \E r \in Request : /\ Stored(r.key) /\ prior[r.key].req = r
                                 /\ received' = received \union
                                        {[req |-> r, answer |-> prior[r.key].answer]}
    PROVE  /\ KeyIsStoredOnce' /\ AnswersAgree'
           /\ received' \subseteq [req : Request, answer : Int]
<1>1. KeyIsStoredOnce'
    BY DEF KeyIsStoredOnce, Stored
<1>2. CASE received' = received
    BY <1>1, <1>2 DEF AnswersAgree, RequestTypes
<1>3. ASSUME NEW r \in Request, Stored(r.key), prior[r.key].req = r,
             received' = received \union {[req |-> r, answer |-> prior[r.key].answer]}
      PROVE  AnswersAgree' /\ received' \subseteq [req : Request, answer : Int]
    <2>1. r.key \in Key
        BY DEF Request
    <2>2. recorded[r.key] = 1 /\ prior[r.key].answer \in Int
        BY <1>3, <2>1 DEF KeyIsStoredOnce, RequestTypes
    <2> QED
        BY <1>3, <2>1, <2>2 DEF AnswersAgree, RequestTypes
<1> QED
    BY <1>1, <1>2, <1>3

\* The transaction that stores an answer keeps keys and answers in step.
LEMMA AnswerSaved ==
    ASSUME RequestTypes, KeyIsStoredOnce, AnswersAgree, NEW r \in Request, NEW a \in Int,
           Saves(r, a),
           \/ received' = received
           \/ received' = received \union {[req |-> r, answer |-> a]}
    PROVE  /\ KeyIsStoredOnce' /\ AnswersAgree'
           /\ prior' \in [Key -> [req : Request \union {NoRequest}, answer : Int]]
           /\ recorded' \in [Key -> Nat]
           /\ received' \subseteq [req : Request, answer : Int]
<1>1. r.key \in Key /\ r # NoRequest
    BY NoRequestIsNone DEF Request
<1>2. /\ prior' \in [Key -> [req : Request \union {NoRequest}, answer : Int]]
      /\ recorded' \in [Key -> Nat]
      /\ received' \subseteq [req : Request, answer : Int]
    BY <1>1 DEF Saves, RequestTypes
<1>3. recorded[r.key] = 0
    BY <1>1 DEF Saves, KeyIsStoredOnce
<1>4. /\ prior'[r.key] = [req |-> r, answer |-> a] /\ recorded'[r.key] = 1
      /\ \A k \in Key : k # r.key => prior'[k] = prior[k] /\ recorded'[k] = recorded[k]
    BY <1>1, <1>3 DEF Saves, RequestTypes
<1>5. KeyIsStoredOnce'
    BY <1>1, <1>4 DEF KeyIsStoredOnce, Stored
<1>6. \A x \in received : x.req \in Request /\ x.req.key \in Key
    BY DEF RequestTypes, Request
<1>7. \A x \in received : prior[x.req.key].req # NoRequest
    BY <1>6, NoRequestIsNone DEF AnswersAgree
<1>8. \A x \in received : x.req.key # r.key
    BY <1>7 DEF Saves, Stored
<1>9. AnswersAgree'
    BY <1>4, <1>6, <1>8 DEF AnswersAgree
<1> QED
    BY <1>2, <1>5, <1>9

\* A new connection brings a request that tells who is in control.
LEMMA ConnectKeeps ==
    ASSUME IndInv, NEW j \in Job, NEW r \in Request, Connect(j, r),
           r.control <= control, r.control = control => r.holder = active
    PROVE  IndInv'
<1>1. \E step \in {"queued", "done"} :
        job' = [job EXCEPT ![j] = [req |-> r, ok |-> FALSE, step |-> step]]
    BY DEF Connect
<1>2. PICK step \in {"queued", "done"} :
        job' = [job EXCEPT ![j] = [req |-> r, ok |-> FALSE, step |-> step]]
    BY <1>1
<1>3. job' \in [Job -> JobRecord]
    BY <1>2 DEF IndInv, RequestTypes, JobRecord, Steps
<1>4. job'[j].req = r /\ \A i \in Job : i # j => job'[i] = job[i]
    BY <1>2 DEF IndInv, RequestTypes
<1>5. RequestTypes'
    BY <1>3, <1>4 DEF IndInv, RequestTypes, Connect, commissionVars, attachmentVars, clientVars,
                      workerVars
<1>6. RevisionTellsHolder'
    BY <1>4 DEF IndInv, RevisionTellsHolder, Connect, commissionVars, attachmentVars
<1>7. KeyIsStoredOnce' /\ ControlRemembers' /\ AnswersAgree'
    BY DEF IndInv, KeyIsStoredOnce, Stored, ControlRemembers, AnswersAgree, Connect, workerVars,
           clientVars
<1> QED
    BY <1>5, <1>6, <1>7 DEF IndInv

\* A step that does not reach the Worker's control keeps what it remembers.
LEMMA ControlKept ==
    ASSUME ControlRemembers, UNCHANGED workerVars
    PROVE  ControlRemembers'
BY DEF ControlRemembers, workerVars

\* The types of what concerns the Worker.
WorkerTypes ==
    /\ status \in {"active", "cancelled"}
    /\ running \in BOOLEAN /\ interrupted \in BOOLEAN
    /\ input \in {"waiting", "attached", "gone"}
    /\ clarifications \in [Key -> Nat] /\ written \in [Key -> Nat]
    /\ delivered \subseteq Key

\* A step that saves and answers nothing only has to keep what concerns the Worker.
LEMMA QuietKeeps ==
    ASSUME IndInv, JobsKept, WorkerTypes', ControlRemembers',
           UNCHANGED <<control, active, joined, prior, recorded, session, received>>
    PROVE  IndInv'
<1>1. RevisionTellsHolder' /\ \A i \in Job : job'[i].step # "none" => job'[i].req \in Request
    BY HolderKept DEF IndInv
<1>2. RequestTypes'
    BY <1>1 DEF IndInv, RequestTypes, WorkerTypes, JobsKept
<1>3. KeyIsStoredOnce' /\ AnswersAgree'
    BY DEF IndInv, KeyIsStoredOnce, Stored, AnswersAgree
<1> QED
    BY <1>1, <1>2, <1>3 DEF IndInv

\* Every step keeps the invariant.
LEMMA IndStep == IndInv /\ [Next]_vars => IndInv'
<1> SUFFICES ASSUME IndInv, [Next]_vars PROVE IndInv'
    OBVIOUS
<1>inv. /\ RequestTypes /\ KeyIsStoredOnce /\ ControlRemembers /\ AnswersAgree
        /\ RevisionTellsHolder
    BY DEF IndInv
<1>known. ASSUME NEW j \in Job, job[j].step # "none" PROVE job[j].req \in Request
    BY <1>known, <1>inv DEF RequestTypes
<1>fields. ASSUME NEW r \in Request
           PROVE  r.from \in Attachment /\ r.key \in Key /\ r.keep \subseteq Capability
    BY DEF Request
<1>1. ASSUME NEW j \in Job, Send(j) PROVE IndInv'
    <2>1. PICK a \in Attachment, k \in Key, c \in Command,
               keep \in Downgrades \union {Capability} :
               Connect(j, [from |-> a, key |-> k, cmd |-> c, keep |-> keep,
                           control |-> control, holder |-> active])
        BY <1>1 DEF Send
    <2>2. [from |-> a, key |-> k, cmd |-> c, keep |-> keep, control |-> control,
           holder |-> active] \in Request
        BY <1>inv, RequestsAssumption DEF Request, RequestTypes, Capability, Controls
    <2> QED
        BY <2>1, <2>2, <1>inv, ConnectKeeps DEF RequestTypes
<1>2. ASSUME NEW j \in Job, Resend(j) PROVE IndInv'
    <2>1. PICK i \in Job : i < j /\ Connect(j, job[i].req)
        BY <1>2 DEF Resend
    <2>2. job[i].step # "none"
        BY <1>2, <2>1 DEF Resend, IsNext, At
    <2>3. /\ job[i].req \in Request /\ job[i].req.control <= control
          /\ job[i].req.control = control => job[i].req.holder = active
        BY <2>2, <1>known, <1>inv DEF RevisionTellsHolder
    <2> QED
        BY <2>1, <2>3, ConnectKeeps
<1>served. ASSUME NEW j \in Job, job[j].step # "none", Fails(j)
           PROVE  /\ JobsKept
                  /\ UNCHANGED <<session, received>>
    BY <1>served, <1>inv, GoesKeepsJobs DEF Fails, Steps, clientVars
<1>3. ASSUME NEW j \in Job, AnswersFromPrior(j) PROVE IndInv'
    <2> DEFINE r == job[j].req
    <2>1. job[j].step # "none" /\ r \in Request /\ r.key \in Key
        BY <1>3, <1>known, <1>fields DEF AnswersFromPrior, Serves, At
    <2>2. prior[r.key].answer \in Int
        BY <2>1, <1>inv DEF RequestTypes
    <2>3. /\ JobsKept /\ session' \subseteq Attachment
          /\ \/ received' = received
             \/ /\ Stored(r.key) /\ prior[r.key].req = r
                /\ received' = received \union {[req |-> r, answer |-> prior[r.key].answer]}
        <3>1. CASE IsRepeat(r)
            <4>1. Succeeds(j, prior[r.key].answer) /\ Stored(r.key)
                BY <1>3, <3>1 DEF AnswersFromPrior
            <4> QED
                BY <4>1, <3>1, <2>1, <2>2, <1>inv, Told DEF IsRepeat
        <3>2. CASE ~IsRepeat(r)
            BY <1>3, <3>2, <2>1, <1>inv, <1>served DEF AnswersFromPrior, RequestTypes
        <3> QED
            BY <3>1, <3>2
    <2>4. UNCHANGED <<commissionVars, attachmentVars, prior, workerVars, recorded>>
        BY <1>3 DEF AnswersFromPrior
    <2>5. /\ KeyIsStoredOnce' /\ AnswersAgree'
          /\ received' \subseteq [req : Request, answer : Int]
        BY <2>1, <2>3, <2>4, <1>inv, NothingSaved
    <2>6. RevisionTellsHolder' /\ \A i \in Job : job'[i].step # "none" => job'[i].req \in Request
        BY <2>3, <2>4, <1>inv, HolderKept DEF commissionVars, attachmentVars
    <2>7. RequestTypes'
        BY <2>3, <2>4, <2>5, <2>6, <1>inv
        DEF RequestTypes, JobsKept, commissionVars, attachmentVars, workerVars
    <2> QED
        BY <2>4, <2>5, <2>6, <2>7, <1>inv, ControlKept DEF IndInv
<1>4. ASSUME NEW j \in Job, TakeControl(j) PROVE IndInv'
    <2> DEFINE r == job[j].req
    <2>1. job[j].step # "none" /\ r \in Request /\ r.from \in Attachment
        BY <1>4, <1>known, <1>fields DEF TakeControl, Serves, At
    <2>2. control' = control + 1 /\ control' \in Nat /\ control' \in Int
        BY <1>4, <1>inv DEF TakeControl, RequestTypes
    <2>3. /\ JobsKept /\ session' \subseteq Attachment
          /\ \/ received' = received
             \/ received' = received \union {[req |-> r, answer |-> control']}
        BY <1>4, <2>1, <2>2, <1>inv, Told DEF TakeControl
    <2>4. /\ KeyIsStoredOnce' /\ AnswersAgree'
          /\ prior' \in [Key -> [req : Request \union {NoRequest}, answer : Int]]
          /\ recorded' \in [Key -> Nat]
          /\ received' \subseteq [req : Request, answer : Int]
        BY <1>4, <2>1, <2>2, <2>3, <1>inv, AnswerSaved DEF TakeControl
    <2>5. RevisionTellsHolder' /\ \A i \in Job : job'[i].step # "none" => job'[i].req \in Request
        BY <2>2, <2>3, <1>inv, HolderKept
    <2>6. active' \in Attachment /\ UNCHANGED <<status, joined, workerVars>>
        BY <1>4, <2>1 DEF TakeControl
    <2>7. RequestTypes'
        BY <2>2, <2>3, <2>4, <2>5, <2>6, <1>inv DEF RequestTypes, JobsKept, workerVars
    <2> QED
        BY <2>4, <2>5, <2>6, <2>7, <1>inv, ControlKept DEF IndInv
<1>5. ASSUME NEW j \in Job, UpdateAttachmentCapabilities(j) \/ ConnectAttachment(j) PROVE IndInv'
    <2> DEFINE r == job[j].req
    <2>1. job[j].step # "none" /\ r \in Request /\ r.from \in Attachment
        BY <1>5, <1>known, <1>fields DEF UpdateAttachmentCapabilities, ConnectAttachment, Serves, At
    <2>2. control \in Int /\ Saves(r, control) /\ Succeeds(j, control)
        BY <1>5, <1>inv DEF UpdateAttachmentCapabilities, ConnectAttachment, RequestTypes
    <2>3. /\ JobsKept /\ session' \subseteq Attachment
          /\ \/ received' = received
             \/ received' = received \union {[req |-> r, answer |-> control]}
        BY <2>1, <2>2, <1>inv, Told
    <2>4. /\ KeyIsStoredOnce' /\ AnswersAgree'
          /\ prior' \in [Key -> [req : Request \union {NoRequest}, answer : Int]]
          /\ recorded' \in [Key -> Nat]
          /\ received' \subseteq [req : Request, answer : Int]
        BY <2>1, <2>2, <2>3, <1>inv, AnswerSaved
    <2>5. UNCHANGED <<commissionVars, active, workerVars>> /\ joined' \subseteq Attachment
        BY <1>5, <2>1, <1>inv DEF UpdateAttachmentCapabilities, ConnectAttachment, RequestTypes
    <2>6. RevisionTellsHolder' /\ \A i \in Job : job'[i].step # "none" => job'[i].req \in Request
        BY <2>3, <2>5, <1>inv, HolderKept DEF commissionVars
    <2>7. RequestTypes'
        BY <2>3, <2>4, <2>5, <2>6, <1>inv DEF RequestTypes, JobsKept, commissionVars, workerVars
    <2> QED
        BY <2>4, <2>5, <2>6, <2>7, <1>inv, ControlKept DEF IndInv
<1>types. WorkerTypes
    BY <1>inv DEF RequestTypes, WorkerTypes
<1>still. ASSUME UNCHANGED job PROVE JobsKept
    BY <1>still, <1>inv DEF JobsKept, RequestTypes
<1>6. ASSUME NEW j \in Job, PostCommand(j) \/ Refuse(j) \/ DatabaseFails(j) PROVE IndInv'
    <2>1. /\ job[j].step # "none" /\ \E s \in Steps : Goes(j, s)
          /\ UNCHANGED <<commissionVars, attachmentVars, clientVars, prior, workerVars, recorded>>
        BY <1>6 DEF PostCommand, Refuse, DatabaseFails, Fails, Serves, At, Steps
    <2>2. JobsKept
        BY <2>1, <1>inv, GoesKeepsJobs
    <2>3. WorkerTypes' /\ ControlRemembers'
        BY <2>1, <1>types, <1>inv, ControlKept DEF WorkerTypes, workerVars, commissionVars
    <2> QED
        BY <2>1, <2>2, <2>3, QuietKeeps DEF commissionVars, attachmentVars, clientVars
<1>7. ASSUME NEW j \in Job, Deliver(j) PROVE IndInv'
    <2> DEFINE r == job[j].req
    <2>1. job[j].step # "none" /\ r \in Request /\ r.key \in Key
        BY <1>7, <1>known, <1>fields DEF Deliver, At
    <2>2. PICK ok \in BOOLEAN : job' = [job EXCEPT ![j] = [req |-> r, step |-> "record", ok |-> ok]]
        BY <1>7 DEF Deliver
    <2>3. JobsKept
        BY <2>1, <2>2, <1>inv DEF JobsKept, RequestTypes, JobRecord, Steps
    <2>4. UNCHANGED <<commissionVars, attachmentVars, clientVars, prior, running, input, recorded>>
        BY <1>7 DEF Deliver
    <2>5. CASE UNCHANGED <<interrupted, clarifications, written, delivered>>
        <3>1. WorkerTypes' /\ ControlRemembers'
            BY <2>4, <2>5, <1>types, <1>inv, ControlKept DEF WorkerTypes, workerVars, commissionVars
        <3> QED
            BY <2>3, <2>4, <3>1, QuietKeeps DEF commissionVars, attachmentVars, clientVars
    <2>6. CASE ~AlreadyDelivered(r.key) /\ Listening /\ Tell(r)
                 /\ delivered' = delivered \union {r.key}
        <3>1. written[r.key] = 0 /\ (input = "waiting" => clarifications[r.key] = 0)
            BY <2>1, <2>6, <1>inv DEF AlreadyDelivered, Listening, ControlRemembers
        <3>2. \/ /\ clarifications' = [clarifications EXCEPT ![r.key] = @ + 1]
                 /\ \/ input # "waiting" /\ written' = [written EXCEPT ![r.key] = 1]
                    \/ written' = written
                 /\ interrupted' = interrupted
              \/ interrupted' = TRUE /\ UNCHANGED <<clarifications, written>>
            BY <2>1, <2>6, <3>1, <1>types DEF Tell, WorkerTypes
        <3>3. WorkerTypes'
            <4>1. interrupted' \in BOOLEAN
                BY <3>2, <1>types, Zenon DEF WorkerTypes
            <4>2. clarifications' \in [Key -> Nat] /\ written' \in [Key -> Nat]
                BY <2>1, <3>2, <1>types DEF WorkerTypes
            <4> QED
                BY <2>1, <2>4, <2>6, <4>1, <4>2, <1>types DEF WorkerTypes, commissionVars
        <3>4. ControlRemembers'
            <4>1. \A k \in Key \ {r.key} : /\ clarifications'[k] = clarifications[k]
                                           /\ written'[k] = written[k]
                                           /\ k \in delivered' <=> k \in delivered
                BY <2>1, <2>6, <3>2, <1>types DEF WorkerTypes
            <4>2. /\ written'[r.key] <= 1 /\ r.key \in delivered'
                  /\ input = "waiting" => clarifications'[r.key] <= 1 /\ written'[r.key] = 0
                BY <2>1, <2>6, <3>1, <3>2, <1>types DEF WorkerTypes
            <4> QED
                BY <2>4, <4>1, <4>2, <1>inv DEF ControlRemembers
        <3> QED
            BY <2>3, <2>4, <3>3, <3>4, QuietKeeps DEF commissionVars, attachmentVars, clientVars
    <2>7. CASE /\ input = "attached" /\ clarifications' = [clarifications EXCEPT ![r.key] = @ + 1]
               /\ UNCHANGED <<interrupted, written, delivered>>
        <3>1. clarifications' \in [Key -> Nat]
            BY <2>1, <2>7, <1>types DEF WorkerTypes
        <3>2. WorkerTypes' /\ ControlRemembers'
            BY <2>4, <2>7, <3>1, <1>types, <1>inv
            DEF WorkerTypes, ControlRemembers, commissionVars
        <3> QED
            BY <2>3, <2>4, <3>2, QuietKeeps DEF commissionVars, attachmentVars, clientVars
    <2> QED
        BY <1>7, <2>5, <2>6, <2>7 DEF Deliver, Undelivered
<1>8. ASSUME NEW j \in Job, RecordDelivery(j) PROVE IndInv'
    <2> DEFINE r == job[j].req
    <2>1. job[j].step # "none" /\ r \in Request /\ r.key \in Key
        BY <1>8, <1>known, <1>fields DEF RecordDelivery, At
    <2>2. UNCHANGED <<commissionVars, attachmentVars, workerVars>>
        BY <1>8 DEF RecordDelivery
    <2>3. WorkerTypes' /\ ControlRemembers'
        BY <2>2, <1>types, <1>inv, ControlKept DEF WorkerTypes, workerVars, commissionVars
    <2>4. CASE Fails(j) /\ UNCHANGED <<prior, recorded>>
        <3>1. JobsKept /\ UNCHANGED <<session, received>>
            BY <2>1, <2>4, <1>served
        <3> QED
            BY <2>2, <2>3, <2>4, <3>1, QuietKeeps DEF commissionVars, attachmentVars
    <2>5. CASE Saves(r, control) /\ Succeeds(j, control)
        <3>1. control \in Int
            BY <1>inv DEF RequestTypes
        <3>2. /\ JobsKept /\ session' \subseteq Attachment
              /\ \/ received' = received
                 \/ received' = received \union {[req |-> r, answer |-> control]}
            BY <2>1, <2>5, <3>1, <1>inv, Told
        <3>3. /\ KeyIsStoredOnce' /\ AnswersAgree'
              /\ prior' \in [Key -> [req : Request \union {NoRequest}, answer : Int]]
              /\ recorded' \in [Key -> Nat]
              /\ received' \subseteq [req : Request, answer : Int]
            BY <2>1, <2>5, <3>1, <3>2, <1>inv, AnswerSaved
        <3>4. /\ RevisionTellsHolder'
              /\ \A i \in Job : job'[i].step # "none" => job'[i].req \in Request
            BY <3>2, <2>2, <1>inv, HolderKept DEF commissionVars, attachmentVars
        <3>5. RequestTypes'
            BY <2>2, <3>2, <3>3, <3>4, <1>inv
            DEF RequestTypes, JobsKept, commissionVars, attachmentVars, workerVars
        <3> QED
            BY <2>3, <3>3, <3>4, <3>5 DEF IndInv
    <2> QED
        BY <1>8, <2>4, <2>5 DEF RecordDelivery
<1>9. ASSUME AttachAdapterInput PROVE IndInv'
    <2>1. UNCHANGED <<control, active, joined, prior, recorded, session, received, job, status,
                      running, interrupted, clarifications, delivered>>
        BY <1>9 DEF AttachAdapterInput, WorkerFrame, attachmentVars, clientVars
    <2>2. \A k \in Key : written[k] = 0
        BY <1>9, <1>inv DEF AttachAdapterInput, ControlRemembers
    <2>3. input' = "attached" /\ written' = clarifications
        BY <1>9, <2>2, <1>types DEF AttachAdapterInput, WorkerTypes
    <2>4. WorkerTypes' /\ ControlRemembers'
        BY <1>9, <2>1, <2>3, <1>types, <1>inv DEF AttachAdapterInput, WorkerTypes, ControlRemembers
    <2> QED
        BY <2>1, <2>4, <1>still, QuietKeeps
<1>10. ASSUME WorkerEnds \/ EndAttempt \/ CancelCommission \/ CancelFails PROVE IndInv'
    <2>1. UNCHANGED <<control, active, joined, prior, recorded, session, received, job>>
        BY <1>10 DEF WorkerEnds, EndAttempt, CancelCommission, CancelFails, WorkerFrame,
                     attachmentVars, clientVars
    <2>2. running' \in BOOLEAN /\ interrupted' \in BOOLEAN
        BY <1>10, <1>types, Zenon
        DEF WorkerEnds, EndAttempt, CancelCommission, CancelFails, CancelAttempt, WorkerTypes
    <2>3. /\ status' \in {"active", "cancelled"} /\ input' \in {input, "gone"}
          /\ \/ UNCHANGED <<clarifications, delivered, input>>
             \/ /\ clarifications' = [k \in Key |-> 0] /\ delivered' = {} /\ input' = "gone"
          /\ UNCHANGED written
        BY <1>10, <1>types DEF WorkerEnds, EndAttempt, CancelCommission, CancelFails, WorkerTypes
    <2>4. WorkerTypes' /\ ControlRemembers'
        BY <2>2, <2>3, <1>types, <1>inv DEF WorkerTypes, ControlRemembers
    <2> QED
        BY <2>1, <2>4, <1>still, QuietKeeps
<1>11. ASSUME Restart PROVE IndInv'
    <2>1. UNCHANGED <<control, active, joined, prior, recorded, session, received>>
        BY <1>11 DEF Restart, WorkerFrame, attachmentVars, clientVars
    <2>2. job' = [i \in Job |-> IF At(i, "none") THEN job[i]
                               ELSE [req |-> job[i].req, step |-> "done", ok |-> FALSE]]
        BY <1>11 DEF Restart, Moved
    <2>3. JobsKept
        BY <2>2, <1>inv DEF JobsKept, RequestTypes, JobRecord, Steps, At
    <2>4. /\ running' = FALSE /\ interrupted' = FALSE /\ UNCHANGED <<status, written>>
          /\ input' = "gone" /\ clarifications' = [k \in Key |-> 0] /\ delivered' = {}
        BY <1>11 DEF Restart
    <2>5. ControlRemembers'
        BY <2>4, <1>types, <1>inv DEF WorkerTypes, ControlRemembers
    <2>6. running' \in BOOLEAN /\ interrupted' \in BOOLEAN
        BY <2>4, <1>types, Zenon DEF WorkerTypes
    <2>7. WorkerTypes'
        BY <2>4, <2>6, <1>types DEF WorkerTypes
    <2> QED
        BY <2>1, <2>3, <2>5, <2>7, QuietKeeps
<1>12. CASE UNCHANGED vars
    BY <1>12, <1>inv, <1>types, <1>still, ControlKept, QuietKeeps
    DEF vars, commissionVars, attachmentVars, workerVars, WorkerTypes
<1> QED
    BY <1>1, <1>2, <1>3, <1>4, <1>5, <1>6, <1>7, <1>8, <1>9, <1>10, <1>11, <1>12 DEF Next

\* The invariant holds in every reachable state.
LEMMA Invariance == Spec => []IndInv
<1> QED
    BY InitInv, IndStep, PTL DEF Spec

\* A key is recorded by one transaction and heard by the Worker once, however
\* many threads serve the request and wherever a crash cuts it: prior_result and
\* delivered_commands are enough.
THEOREM AppliedOnceCorrect == Spec => []AppliedOnce
<1>1. IndInv => AppliedOnce
    BY DEF IndInv, KeyIsStoredOnce, ControlRemembers, AppliedOnce
<1> QED
    BY Invariance, <1>1, PTL

\* Whoever is told of a success is told what the store says of that request.
THEOREM AnswersCorrect == Spec => []AnswersAgree
<1>1. IndInv => AnswersAgree
    BY DEF IndInv
<1> QED
    BY Invariance, <1>1, PTL

\* Comparing the control revision in take_control keeps a delayed takeover from
\* displacing a controller its sender did not know of.
THEOREM TakeoverCorrect == Spec => NoBlindTakeover
<1> DEFINE Seen == active' # active =>
                     \E j \in Job : /\ job[j].step = "queued" /\ job'[j].step = "done"
                                    /\ job[j].req.from = active' /\ job[j].req.holder = active
<1>1. IndInv /\ [Next]_vars => [Seen]_vars
    <2> SUFFICES ASSUME IndInv, Next PROVE Seen
        OBVIOUS
    <2>1. ASSUME NEW j \in Job, TakeControl(j) PROVE Seen
        <3>1. job[j].step = "queued" /\ active' = job[j].req.from
            BY <2>1 DEF TakeControl, Serves, At
        <3>2. job[j].req.holder = active
            BY <2>1, <3>1 DEF TakeControl, MayTakeControl, IndInv, RevisionTellsHolder
        <3>3. job'[j].step = "done"
            BY <2>1, <3>1, JobMoves DEF TakeControl, Succeeds, IndInv, Steps
        <3> QED
            BY <3>1, <3>2, <3>3
    <2>2. CASE UNCHANGED active
        BY <2>2
    <2>3. ASSUME NEW j \in Job,
                 \/ Send(j) \/ Resend(j) \/ AnswersFromPrior(j) \/ Refuse(j)
                 \/ UpdateAttachmentCapabilities(j) \/ ConnectAttachment(j) \/ PostCommand(j)
                 \/ Deliver(j) \/ RecordDelivery(j) \/ DatabaseFails(j)
          PROVE  UNCHANGED active
        BY <2>3 DEF Send, Resend, Connect, AnswersFromPrior, Refuse, UpdateAttachmentCapabilities,
                    ConnectAttachment, PostCommand, Deliver, RecordDelivery, DatabaseFails,
                    attachmentVars
    <2>4. ASSUME \/ AttachAdapterInput \/ WorkerEnds \/ EndAttempt
                 \/ CancelCommission \/ CancelFails \/ Restart
          PROVE  UNCHANGED active
        BY <2>4 DEF AttachAdapterInput, WorkerEnds, EndAttempt, CancelCommission, CancelFails,
                    Restart, WorkerFrame, attachmentVars
    <2> QED
        BY <2>1, <2>2, <2>3, <2>4 DEF Next
<1> QED
    BY Invariance, <1>1, PTL DEF Spec, NoBlindTakeover

=============================================================================
