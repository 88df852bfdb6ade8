------------------------------ MODULE FaultyRedis ------------------------------
(***************************************************************************)
(* The backend on a Redis that does what SessionBackend assumes it never   *)
(* does: it restarts from its last snapshot (docker-compose.yml: the redis *)
(* image with its default configuration), and it executes a SET after the  *)
(* SET's sender has given up.                                              *)
(*                                                                         *)
(* The code has no version in the state and no token in the write, so the  *)
(* guarantees fall away for the requests such a fault hits, and for those  *)
(* that read a session one of these can still write.  This module says     *)
(* that they fall away for nobody else.                                    *)
(***************************************************************************)
EXTENDS SessionBackend

CONSTANT MaxRestarts   \* bound: how often Redis restarts

ASSUME MaxRestartsAssumption == MaxRestarts \in Nat

VARIABLES
    restarts,   \* how often Redis has restarted
    disturbed   \* requests that cannot rely on what they read

faultyVars == <<vars, restarts, disturbed>>

FaultyInit ==
    /\ Init
    /\ restarts = 0
    /\ disturbed = {}

-------------------------------------------------------------------------------
\* r is about to go on with a state that a disturbed request can still write.
ReadsBesideWriter(r) ==
    /\ pc[r] = "reading" /\ pc'[r] = "calling"
    /\ \E d \in disturbed : session[d] = session[r] /\ CanWrite(d)

\* A step of the backend or its environment as before.
Ordinary ==
    /\ Next
    /\ disturbed' = disturbed \union {r \in Requests : ReadsBesideWriter(r)}
    /\ UNCHANGED restarts

\* What a snapshot may hold under the state key of a session in state d: nothing,
\* d, or an earlier turn of it.
Earlier(d) ==
    {None, d} \union
    IF d = None THEN {}
    ELSE {[phase |-> "clarification_needed", asked |-> SubSeq(d.asked, 1, n)] :
             n \in 1..Len(d.asked)}

\* ... and under its lock key: nothing, or the token of a request that may have
\* held the lock at some time.
Holders(s) == {None} \union {r \in Requests : session[r] = s /\ pc[r] # "locking"}

\* Redis starts again from a snapshot: commands under way are lost, states and
\* locks are those of some earlier time, a lock with what is left of its life.
Restart ==
    /\ restarts < MaxRestarts
    /\ restarts' = restarts + 1
    /\ store' \in {f \in [Sessions -> UNION {Earlier(store[s]) : s \in Sessions}] :
                     \A s \in Sessions : f[s] \in Earlier(store[s])}
    /\ lockOwner' \in {f \in [Sessions -> Requests \union {None}] :
                         \A s \in Sessions : f[s] \in Holders(s)}
    /\ lockTTL' \in {f \in [Sessions -> 0..LockTTL] :
                       \A s \in Sessions : (f[s] = 0) = (lockOwner'[s] = None)}
    /\ wire' = [r \in Requests |-> 0]
    /\ disturbed' = disturbed \union {r \in Requests : Working(r)}
    /\ UNCHANGED <<pc, handler, deadline, status, expired>>

\* Mutant: the handler returns without a response.
SaveAbandonedSilently(r) ==
    /\ pc[r] = "saving" /\ wire[r] > 0
    /\ Goto(r, "unlocking")
    /\ disturbed' = disturbed \union {r}
    /\ UNCHANGED <<status, handler, deadline, wire, redis, restarts>>

\* Save gives up on a SET that Redis has yet to execute.
SaveAbandoned(r) ==
    /\ pc[r] = "saving" /\ wire[r] > 0
    /\ Respond(r, 500)
    /\ disturbed' = disturbed \union {r}
    /\ UNCHANGED <<handler, deadline, wire, redis, restarts>>

FaultyNext ==
    \/ Ordinary
    \/ Restart
    \/ \E r \in Requests : SaveAbandoned(r)

FaultySpec ==
    /\ FaultyInit /\ [][FaultyNext]_faultyVars
    /\ WF_faultyVars(Tick /\ Ordinary)
    /\ \A r \in Requests : WF_faultyVars(HandlerStep(r) /\ Ordinary)

-------------------------------------------------------------------------------
\* Types; a handler that gave up on a SET has answered, too (handlers.go: the
\* error of Save).
FaultyTypeOK ==
    /\ TypeOK
    /\ restarts \in 0..MaxRestarts
    /\ disturbed \subseteq Requests

\* Also when Redis has lost locks, brought old ones back or executed a command
\* late, a request that started to work after the fault holds its session's lock
\* as long as it can write (store.go: Unlock compares tokens, so that a request
\* of the time before the restart cannot release the new one's lock).
UndisturbedHoldTheirLock ==
    \A r \in Requests \ disturbed : CanWrite(r) => lockOwner[session[r]] = r

\* What a request has read stays current, unless the request was at work during a
\* restart, or read the session while a request that was so, or one whose SET was
\* given up, could still write it.
UndisturbedReadsAreCurrent ==
    \A r \in Requests \ disturbed :
        CanWrite(r) /\ pc[r] # "reading" =>
            store[session[r]] \in {read[r], result[r], None}

\* A SET under way takes the stored session one turn further, unless its request
\* is disturbed: no such request undoes a turn that somebody else has made of a
\* state that Redis lost or brought back (handlers.go: Save after the call).
UndisturbedWritesAreTurns ==
    \A r \in Requests \ disturbed :
        wire[r] > 0 /\ store[session[r]] # None =>
            result[r] \in Successors(store[session[r]]) \union {store[session[r]]}
===============================================================================
