--------------------------- MODULE AttemptLedger ---------------------------
(***************************************************************************)
(* What the Attempt life cycle promises, without how: each Attempt is      *)
(* started once, for one Assignment that has no other running Attempt and  *)
(* no accepted Result; it ends once, and stays as it ended; its Result is  *)
(* accepted only in the step that ends it well, and for good.              *)
(***************************************************************************)
EXTENDS Integers

CONSTANTS Attempt, Assignment, Nobody

VARIABLES
    status,    \* of each Attempt: "none", "running" or one of Over
    owner,     \* the Assignment it was started for
    accepted   \* the Attempts whose Result was accepted

vars == <<status, owner, accepted>>

Over == {"succeeded", "failed", "timed_out", "interrupted", "cancelled"}

Init ==
    /\ status = [t \in Attempt |-> "none"]
    /\ owner = [t \in Attempt |-> Nobody]
    /\ accepted = {}

Start(t, a) ==
    /\ status[t] = "none"
    /\ \A u \in Attempt : owner[u] = a => status[u] # "running" /\ u \notin accepted
    /\ status' = [status EXCEPT ![t] = "running"]
    /\ owner' = [owner EXCEPT ![t] = a]
    /\ UNCHANGED accepted

\* Several Attempts may end at once: a cancellation, an amendment, a restart.
End(ts) ==
    /\ \A t \in ts : status[t] = "running"
    /\ \E over \in [ts -> Over] :
            status' = [t \in Attempt |-> IF t \in ts THEN over[t] ELSE status[t]]
    /\ UNCHANGED <<owner, accepted>>

Accept(t) ==
    /\ status[t] = "running"
    /\ status' = [status EXCEPT ![t] = "succeeded"]
    /\ accepted' = accepted \union {t}
    /\ UNCHANGED owner

Next ==
    \/ \E t \in Attempt, a \in Assignment : Start(t, a)
    \/ \E ts \in SUBSET Attempt : End(ts)
    \/ \E t \in Attempt : Accept(t)

Spec == Init /\ [][Next]_vars

=============================================================================
