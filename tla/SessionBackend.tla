---------------------------- MODULE SessionBackend ----------------------------
(***************************************************************************)
(* The backend: POST /generate of internal/handler/handlers.go on the      *)
(* session store of internal/session/store.go, with Redis and the clients  *)
(* as its environment.                                                     *)
(*                                                                         *)
(* A request is handled once, by a goroutine of its own; r stands for the  *)
(* request, its goroutine and the lock token it draws.  Time is counted    *)
(* down: every clock loses one unit per Tick.                              *)
(*                                                                         *)
(* Redis either executes a command before its sender learns that it        *)
(* failed, or never; in between it is at most RedisWindow on its way.      *)
(***************************************************************************)
EXTENDS DialogueTurns, Integers

CONSTANTS
    Requests,        \* HTTP requests
    Sessions,        \* session ids
    LockTTL,         \* SESSION_LOCK_TTL
    RequestTimeout,  \* LLM_REQUEST_TIMEOUT
    RedisWindow,     \* how long a command sent to Redis may be under way
    None

\* What LoadConfig leaves between the two durations (BackendConfig).
ASSUME TimingAssumption ==
    /\ LockTTL \in Nat /\ RequestTimeout \in Nat \ {0} /\ RedisWindow \in Nat \ {0}
    /\ RequestTimeout + RedisWindow <= LockTTL

Statuses == {200, 400, 404, 409, 422, 500, 502}

ASSUME NoneAssumption ==
    None \notin Requests \union Sessions \union Dialogues \union Statuses

VARIABLES
    pc,         \* pc[r]: where the handler of r is
    session,    \* session[r]: the session r is about
    kind,       \* kind[r]: "prompt" or "answer"
    deadline,   \* deadline[r]: what is left of rpcCtx, 0 once it is cancelled
    read,       \* read[r]: what Get returned
    result,     \* result[r]: the session in the LLM service's response
    status,     \* status[r]: the HTTP status of the response
    wire,       \* wire[r]: time left for the SET of r to be executed, 0: none
    lockOwner,  \* lockOwner[s]: the token under the lock key of s
    lockTTL,    \* lockTTL[s]: what is left of that key's time to live
    store,      \* store[s]: the state under the state key of s
    expired     \* sessions whose state has expired at some time

handler == <<session, kind, read, result>>
redis == <<lockOwner, lockTTL, store, expired>>
vars == <<pc, session, kind, deadline, read, result, status, wire,
          lockOwner, lockTTL, store, expired>>

-------------------------------------------------------------------------------
Steps == {"idle", "locking", "reading", "calling", "saving", "unlocking",
          "closed", "dead"}

\* Statuses of responses that carry a result.
Acknowledgements == {200, 422}

\* Handlers at work.
Active(r) == pc[r] \notin {"idle", "closed", "dead"}

Init ==
    /\ pc = [r \in Requests |-> "idle"]
    /\ session = [r \in Requests |-> None]
    /\ kind = [r \in Requests |-> None]
    /\ deadline = [r \in Requests |-> 0]
    /\ read = [r \in Requests |-> None]
    /\ result = [r \in Requests |-> None]
    /\ status = [r \in Requests |-> None]
    /\ wire = [r \in Requests |-> 0]
    /\ lockOwner = [s \in Sessions |-> None]
    /\ lockTTL = [s \in Sessions |-> 0]
    /\ store = [s \in Sessions |-> None]
    /\ expired = {}

-------------------------------------------------------------------------------
\* The handler of r goes on at step p.
Goto(r, p) == pc' = [pc EXCEPT ![r] = p]

\* The handler of r returns with a response before it holds the lock: only
\* cancel is deferred.
Close(r, code) ==
    /\ Goto(r, "closed")
    /\ status' = [status EXCEPT ![r] = code]
    /\ deadline' = [deadline EXCEPT ![r] = 0]

\* ... or while it holds the lock: the deferred Unlock is still to run.
Respond(r, code) ==
    /\ Goto(r, "unlocking")
    /\ status' = [status EXCEPT ![r] = code]

-------------------------------------------------------------------------------
(***************************************************************************)
(* The handler.                                                            *)
(***************************************************************************)

\* A request that is not well-formed, or the random source that session ids and
\* lock tokens are drawn from fails.
BadRequest(r) ==
    /\ pc[r] = "idle"
    /\ \E code \in {400, 500} : Close(r, code)
    /\ UNCHANGED <<handler, wire, redis>>

\* A well-formed request for session s; rpcCtx starts to run.
Receive(r, s, k) ==
    /\ pc[r] = "idle"
    /\ Goto(r, "locking")
    /\ session' = [session EXCEPT ![r] = s]
    /\ kind' = [kind EXCEPT ![r] = k]
    /\ deadline' = [deadline EXCEPT ![r] = RequestTimeout]
    /\ UNCHANGED <<read, result, status, wire, redis>>

\* Mutant: the lock key is set without a time to live.
TakeLockForever(r, s) ==
    /\ lockOwner' = [lockOwner EXCEPT ![s] = r]
    /\ UNCHANGED <<lockTTL, store, expired>>

\* Redis: r's token is under the lock key of s, for LockTTL.
TakeLock(r, s) ==
    /\ lockOwner' = [lockOwner EXCEPT ![s] = r]
    /\ lockTTL' = [lockTTL EXCEPT ![s] = LockTTL]
    /\ UNCHANGED <<store, expired>>

\* Mutant: SET instead of SET NX.
LockedAnyway(r) ==
    /\ pc[r] = "locking"
    /\ TakeLock(r, session[r])
    /\ Goto(r, "reading")
    /\ UNCHANGED <<handler, deadline, status, wire>>

\* Lock: SETNX set the key.
Locked(r) ==
    /\ pc[r] = "locking"
    /\ lockOwner[session[r]] = None
    /\ TakeLock(r, session[r])
    /\ Goto(r, "reading")
    /\ UNCHANGED <<handler, deadline, status, wire>>

\* Lock: SETNX set the key and its reply is lost; the driver's retry finds the
\* key there, or fails as well.  No Unlock is deferred.
LockReplyLost(r) ==
    /\ pc[r] = "locking"
    /\ lockOwner[session[r]] = None
    /\ TakeLock(r, session[r])
    /\ \E code \in {409, 500} : Close(r, code)
    /\ UNCHANGED <<handler, wire>>

\* Lock: SETNX found the key.
Busy(r) ==
    /\ pc[r] = "locking"
    /\ lockOwner[session[r]] # None
    /\ Close(r, 409)
    /\ UNCHANGED <<handler, wire, redis>>

\* No lock token could be drawn, or Lock's command was not executed.
LockFails(r) ==
    /\ pc[r] = "locking"
    /\ Close(r, 500)
    /\ UNCHANGED <<handler, wire, redis>>

\* GetPhase of what Get found.
PhaseOf(found) == IF found = None THEN "none" ELSE found.phase

\* Get, and the conditions on what it returns.
ReadState(r) ==
    LET phase == PhaseOf(store[session[r]])
    IN  /\ pc[r] = "reading"
        /\ read' = [read EXCEPT ![r] = store[session[r]]]
        /\ \/ kind[r] = "answer" /\ phase = "none" /\ Respond(r, 404)
           \/ kind[r] = "prompt" /\ phase = "clarification_needed" /\ Respond(r, 409)
           \/ /\ kind[r] = "answer" => phase # "none"
              /\ kind[r] = "prompt" => phase # "clarification_needed"
              /\ Goto(r, "calling")
              /\ UNCHANGED status
        /\ UNCHANGED <<session, kind, result, deadline, wire, redis>>

ReadFails(r) ==
    /\ pc[r] = "reading"
    /\ Respond(r, 500)
    /\ UNCHANGED <<handler, deadline, wire, redis>>

\* Mutant: a prompt always starts a new session.
SentIgnoresState(r) == IF kind[r] = "prompt" THEN NewDialogue ELSE read[r]

\* The session the LLM service is called with.
Sent(r) == IF read[r] = None THEN NewDialogue ELSE read[r]

\* The LLM service refuses an answer to a session that does not wait for one,
\* and a prompt to one that does.
Refused(r) == (kind[r] = "answer") # (Sent(r).phase = "clarification_needed")

\* Mutant: a response without a session is not looked for.
LLMRepliesUnchecked(r) ==
    /\ pc[r] = "calling" /\ ~Refused(r)
    /\ \E d \in Successors(Sent(r)) \union {None} : result' = [result EXCEPT ![r] = d]
    /\ Goto(r, "saving")
    /\ UNCHANGED <<session, kind, read, deadline, status, wire, redis>>

\* StartOrContinue or AnswerClarification returns a session.
LLMReplies(r) ==
    /\ pc[r] = "calling" /\ ~Refused(r)
    /\ \E d \in Successors(Sent(r)) : result' = [result EXCEPT ![r] = d]
    /\ Goto(r, "saving")
    /\ UNCHANGED <<session, kind, read, deadline, status, wire, redis>>

\* ... FAILED_PRECONDITION.
LLMRefuses(r) ==
    /\ pc[r] = "calling" /\ Refused(r)
    /\ Respond(r, 409)
    /\ UNCHANGED <<handler, deadline, wire, redis>>

\* ... some other error, or a response without a session.
CallFails(r) ==
    /\ pc[r] = "calling"
    /\ Respond(r, 502)
    /\ UNCHANGED <<handler, deadline, wire, redis>>

\* Mutant: the call is made under a context that never ends.
CallNeverTimesOut(r) == FALSE

\* ... or nothing until rpcCtx ends.
CallTimesOut(r) ==
    /\ pc[r] = "calling" /\ deadline[r] = 0
    /\ Respond(r, 502)
    /\ UNCHANGED <<handler, deadline, wire, redis>>

\* Mutant: the SET is sent under a context of its own.
SendSaveAnyway(r) ==
    /\ pc[r] = "saving" /\ wire[r] = 0
    /\ wire' = [wire EXCEPT ![r] = RedisWindow]
    /\ UNCHANGED <<pc, handler, deadline, status, redis>>

\* Save: the driver sends a SET, the first or a retry, as long as rpcCtx lives.
SendSave(r) ==
    /\ pc[r] = "saving" /\ wire[r] = 0
    /\ deadline[r] > 0
    /\ wire' = [wire EXCEPT ![r] = RedisWindow]
    /\ UNCHANGED <<pc, handler, deadline, status, redis>>

\* Mutant: the error of Save is dropped.
SaveErrorIgnored(r) ==
    /\ pc[r] = "saving" /\ wire[r] = 0
    /\ Respond(r, 200)
    /\ UNCHANGED <<handler, deadline, wire, redis>>

\* Save fails: nothing could be sent, or no reply came.
SaveFails(r) ==
    /\ pc[r] = "saving" /\ wire[r] = 0
    /\ Respond(r, 500)
    /\ UNCHANGED <<handler, deadline, wire, redis>>

\* The response that carries the result.  An error whose text is empty is sent
\* with the status of a success.
Answer(r) ==
    \/ result[r].phase = "error" /\ Respond(r, 422)
    \/ Respond(r, 200)

\* Redis executes the SET of r; its handler may learn of it, or the reply is
\* lost, or the handler is dead by then.
Saved(r) ==
    /\ wire[r] > 0
    /\ store' = [store EXCEPT ![session[r]] = result[r]]
    /\ wire' = [wire EXCEPT ![r] = 0]
    /\ \/ pc[r] = "saving" /\ Answer(r)
       \/ UNCHANGED <<pc, status>>
    /\ UNCHANGED <<handler, deadline, lockOwner, lockTTL, expired>>

\* Redis: the lock key of s is gone.
DropLock(s) ==
    /\ lockOwner' = [lockOwner EXCEPT ![s] = None]
    /\ lockTTL' = [lockTTL EXCEPT ![s] = 0]

\* Mutant: DEL without the comparison of the token.
UnlockAnyway(r) ==
    /\ pc[r] = "unlocking"
    /\ DropLock(session[r])
    /\ Close(r, status[r])
    /\ UNCHANGED <<handler, wire, store, expired>>

\* The deferred Unlock: the script deletes the key if it holds r's token.
Unlock(r) ==
    /\ pc[r] = "unlocking"
    /\ IF lockOwner[session[r]] = r
       THEN DropLock(session[r]) ELSE UNCHANGED <<lockOwner, lockTTL>>
    /\ Close(r, status[r])
    /\ UNCHANGED <<handler, wire, store, expired>>

\* ... which may fail: its error is dropped.
UnlockFails(r) ==
    /\ pc[r] = "unlocking"
    /\ Close(r, status[r])
    /\ UNCHANGED <<handler, wire, redis>>

-------------------------------------------------------------------------------
(***************************************************************************)
(* The environment.                                                        *)
(***************************************************************************)

\* The client goes away: its request's context is cancelled, and rpcCtx.
Disconnect(r) ==
    /\ Active(r) /\ deadline[r] > 0
    /\ deadline' = [deadline EXCEPT ![r] = 0]
    /\ UNCHANGED <<pc, handler, status, wire, redis>>

\* The backend process dies and is started again: nothing of its handlers is
\* left but the commands they sent and the locks they hold.
Crash ==
    /\ \E r \in Requests : Active(r)
    /\ pc' = [r \in Requests |-> IF Active(r) THEN "dead" ELSE pc[r]]
    /\ deadline' = [r \in Requests |-> 0]
    /\ UNCHANGED <<handler, status, wire, redis>>

\* The state of s reaches the end of PIPELINE_STATE_TTL.
StateExpires(s) ==
    /\ store[s] # None
    /\ store' = [store EXCEPT ![s] = None]
    /\ expired' = expired \union {s}
    /\ UNCHANGED <<pc, handler, deadline, status, wire, lockOwner, lockTTL>>

Down(n) == IF n = 0 THEN 0 ELSE n - 1

\* A unit of time passes for every clock; a lock key at its end expires.
Tick ==
    /\ \/ \E r \in Requests : deadline[r] > 0 \/ wire[r] > 0
       \/ \E s \in Sessions : lockTTL[s] > 0
    /\ deadline' = [r \in Requests |-> Down(deadline[r])]
    /\ wire' = [r \in Requests |-> Down(wire[r])]
    /\ lockTTL' = [s \in Sessions |-> Down(lockTTL[s])]
    /\ lockOwner' = [s \in Sessions |-> IF lockTTL[s] = 1 THEN None ELSE lockOwner[s]]
    /\ UNCHANGED <<pc, handler, status, store, expired>>

-------------------------------------------------------------------------------
\* What the handler of r does of its own accord, or with Redis, once the
\* request is there; LLMReplies and CallFails are up to the LLM service.
HandlerStep(r) ==
    \/ Locked(r) \/ LockReplyLost(r) \/ Busy(r) \/ LockFails(r)
    \/ ReadState(r) \/ ReadFails(r)
    \/ LLMRefuses(r) \/ CallTimesOut(r)
    \/ SendSave(r) \/ SaveFails(r) \/ Saved(r)
    \/ Unlock(r) \/ UnlockFails(r)

Next ==
    \/ \E r \in Requests :
         \/ BadRequest(r)
         \/ \E s \in Sessions, k \in {"prompt", "answer"} : Receive(r, s, k)
         \/ HandlerStep(r)
         \/ LLMReplies(r) \/ CallFails(r)
         \/ Disconnect(r)
    \/ \E s \in Sessions : StateExpires(s)
    \/ Crash
    \/ Tick

\* Handlers are scheduled and time passes.  Nothing is assumed of the LLM
\* service and the clients.
Fairness == WF_vars(Tick) /\ \A r \in Requests : WF_vars(HandlerStep(r))

Spec == Init /\ [][Next]_vars /\ Fairness

-------------------------------------------------------------------------------
(***************************************************************************)
(* Properties.                                                             *)
(***************************************************************************)

\* Types, and what a handler has at hand at a step: a session when it saves, and
\* a response to send once it is over (handlers.go: the nil check of the LLM
\* service's response, a ctx.JSON before every return).
TypeOK ==
    /\ pc \in [Requests -> Steps]
    /\ session \in [Requests -> Sessions \union {None}]
    /\ kind \in [Requests -> {"prompt", "answer", None}]
    /\ deadline \in [Requests -> 0..RequestTimeout]
    /\ read \in [Requests -> Dialogues \union {None}]
    /\ result \in [Requests -> Dialogues \union {None}]
    /\ status \in [Requests -> Statuses \union {None}]
    /\ wire \in [Requests -> 0..RedisWindow]
    /\ lockOwner \in [Sessions -> Requests \union {None}]
    /\ lockTTL \in [Sessions -> 0..LockTTL]
    /\ store \in [Sessions -> Dialogues \union {None}]
    /\ expired \subseteq Sessions
    /\ \A r \in Requests :
         /\ pc[r] = "saving" \/ wire[r] > 0 => result[r] # None
         /\ pc[r] \in {"unlocking", "closed"} => status[r] # None

\* The handler of r has taken the lock and not begun to release it.
Working(r) == pc[r] \in {"reading", "calling", "saving"}

\* r can still write its session's state: it may yet send a SET, or one is on
\* its way.
CanWrite(r) == (Working(r) /\ deadline[r] > 0) \/ wire[r] > 0

\* A request that can still write a session's state holds the session's lock:
\* the lock outlives the request's context and the commands sent under it, also
\* when the process dies (handlers.go: rpcCtx, lockTTL, requestTimeout).
LockCoversWrites ==
    \A r \in Requests : CanWrite(r) => lockOwner[session[r]] = r

\* What a request read is still what is stored, until the request has written
\* or can do so no more: nobody's turn is overwritten with the result of a
\* stale read (handlers.go: Get before the call of the LLM service, Save after).
ReadIsCurrent ==
    \A r \in Requests :
        CanWrite(r) /\ pc[r] # "reading" =>
            store[session[r]] \in {read[r], result[r], None}

\* Session d is e, or what further turns have made of e.
ContinuationOf(d, e) ==
    /\ IsPrefix(e.asked, d.asked)
    /\ e.phase \in Terminal => d = e

\* A response that carries a result tells what became of the session for good:
\* as long as the session's state has not expired, it is stored and continues
\* every result that was ever handed out, so that no two clients hold results
\* that contradict each other (handlers.go: Save before the response).
AcknowledgedIsDurable ==
    \A r \in Requests :
        status[r] \in Acknowledgements /\ session[r] \notin expired =>
            /\ store[session[r]] # None
            /\ ContinuationOf(store[session[r]], result[r])

ReleasedByOwner ==
    \A s \in Sessions :
        lockOwner[s] # None /\ lockOwner'[s] # lockOwner[s] =>
            \/ lockTTL[s] = 1 /\ lockTTL'[s] = 0
            \/ pc[lockOwner[s]] = "unlocking" /\ pc'[lockOwner[s]] = "closed"

\* A lock is released by the request that took it or by running out, never by
\* another request (store.go: Unlock compares the token).
LocksAreReleasedByTheirOwner == [][ReleasedByOwner]_vars

StoreTakesTurns ==
    \A s \in Sessions :
        store[s] # None /\ store'[s] # None =>
            store'[s] \in Successors(store[s]) \union {store[s]}

\* Requests of any number and order, failures and crashes included, take a
\* stored session only through turns of Dialogue: no turn is undone, no
\* question is asked again and an ended session stays as it is.
SessionsFollowDialogue == [][StoreTakesTurns]_vars

\* No session stays locked by the same request for good, whether its reply was
\* lost, its release failed or the process died (SESSION_LOCK_TTL).
LocksEnd ==
    \A s \in Sessions, r \in Requests : lockOwner[s] = r ~> lockOwner[s] # r

\* Every request is answered, unless the process dies under it, even when the
\* LLM service never answers (rpcCtx).
RequestsEnd ==
    \A r \in Requests : pc[r] = "locking" ~> pc[r] \in {"closed", "dead"}
===============================================================================
