--------------------------------- MODULE Chat ---------------------------------
(***************************************************************************)
(* One chat page (frontend/app.py) together with the backend it posts to.  *)
(*                                                                         *)
(* The page is a script that Streamlit runs from top to bottom after every *)
(* event; what outlives a run is st.session_state.  An event during a run  *)
(* abandons that run at its next use of st and starts another one, so the  *)
(* answer to a POST that is under way is dropped.                          *)
(***************************************************************************)
EXTENDS SessionBackend

VARIABLES
    pendingSession,  \* pending_session_id
    shown,           \* the last question shown for pendingSession
    pendingRequest,  \* pending_request: session_id of its payload, inflight
    script,          \* where the script's run is; "stopped": at st.stop
    call,            \* the request the script has posted
    meant,           \* meant[r]: the question on the page when r was posted
    untold           \* sessions the page has lost sight of

page == <<pendingSession, shown, pendingRequest, script, call>>
history == <<meant, untold>>
chatVars == <<vars, page, history>>

Scripts == {"idle", "calling", "finishing", "stopped"}

PageInit ==
    /\ pendingSession = None
    /\ shown = None
    /\ pendingRequest = None
    /\ script = "idle"
    /\ call = None

ChatInit ==
    /\ Init
    /\ PageInit
    /\ meant = [r \in Requests |-> None]
    /\ untold = {}

-------------------------------------------------------------------------------
(***************************************************************************)
(* The page.                                                               *)
(***************************************************************************)

\* newSessionID: no request has been about s.
Fresh(s) == \A r \in Requests : session[r] # s

\* The user sends a message; build_payload takes it for an answer if a session
\* is pending.  Bounds: requests and session ids that have not been used.
Submit ==
    /\ script = "idle" /\ pendingRequest = None
    /\ \E r \in Requests : pc[r] = "idle"
    /\ pendingSession = None => \E s \in Sessions : Fresh(s)
    /\ pendingRequest' = [session |-> pendingSession, inflight |-> FALSE]
    /\ UNCHANGED <<vars, history, pendingSession, shown, script, call>>

\* A request that has not been posted.
Unsent == pendingRequest # None /\ ~pendingRequest.inflight

\* call_backend: POST /generate.
StartCall(r) ==
    /\ Unsent
    /\ \/ /\ pendingRequest.session = None
          /\ \E s \in Sessions : Fresh(s) /\ Receive(r, s, "prompt")
       \/ /\ pendingRequest.session # None
          /\ Receive(r, pendingRequest.session, "answer")
    /\ pendingRequest' = [pendingRequest EXCEPT !.inflight = TRUE]
    /\ script' = "calling"
    /\ call' = r
    /\ meant' = [meant EXCEPT ![r] = shown]
    /\ UNCHANGED <<pendingSession, shown, untold>>

\* ... which does not reach the backend.
SendFails ==
    /\ Unsent
    /\ pendingRequest' = None
    /\ UNCHANGED <<vars, history, pendingSession, shown, script, call>>

\* The run that posted r goes on.
Returns(r) ==
    /\ script = "calling" /\ call = r
    /\ script' = "finishing"
    /\ UNCHANGED <<pendingRequest, call, meant>>

\* The response of r carries no result of the session: none was computed, or it
\* is an error with an empty text.
SaysNothing(r) ==
    \/ status[r] \in {400, 409, 500, 502}
    \/ status[r] = 200 /\ result[r].phase = "error"

\* The page's state after a response: the session it takes for pending, and the
\* question it shows for it.
Pending(s, q) == pendingSession' = s /\ shown' = q

\* Mutant: every response without a question ends the session.
TakeInDropsFailures(r) ==
    IF status[r] = 200 /\ result[r].phase = "clarification_needed"
    THEN Pending(session[r], Last(result[r].asked))
    ELSE Pending(None, None)

\* What the page makes of the response.
TakeIn(r) ==
    \/ /\ status[r] = 200 /\ result[r].phase = "clarification_needed"
       /\ Pending(session[r], Last(result[r].asked))
    \/ /\ SaysNothing(r)
       /\ Pending(pendingSession, shown)
    \/ /\ status[r] \in {404, 422} \/ (status[r] = 200 /\ result[r].phase = "done")
       /\ Pending(None, None)

\* The response arrives.  A 500 does not tell whether the result was saved; an
\* empty error does not tell that the session has ended.
Received(r) ==
    /\ Returns(r)
    /\ status[r] # None
    /\ TakeIn(r)
    /\ untold' = IF status[r] = 500 \/ (status[r] = 200 /\ SaysNothing(r))
                 THEN untold \union {session[r]} ELSE untold
    /\ UNCHANGED vars

\* requests.post raises: a timeout, or the connection is gone.
CallRaises(r) ==
    /\ Returns(r)
    /\ untold' = untold \union {session[r]}
    /\ IF Active(r) /\ deadline[r] > 0 THEN Disconnect(r) ELSE UNCHANGED vars
    /\ UNCHANGED <<pendingSession, shown>>

\* Mutant: the end of the run leaves the request it has posted.
FinishKeepsRequest ==
    /\ script = "finishing"
    /\ script' = "idle"
    /\ UNCHANGED <<vars, history, pendingSession, shown, pendingRequest, call>>

\* The end of the run that posted a request.
Finish ==
    /\ script = "finishing"
    /\ pendingRequest' = None
    /\ script' = "idle"
    /\ UNCHANGED <<vars, history, pendingSession, shown, call>>

\* The session of a call whose response has not been taken in.
Unfinished == IF script = "calling" THEN {session[call]} ELSE {}

\* An event of the page while a run has something to do: the run is abandoned;
\* its successor finds the request in flight and stops.
Interrupt ==
    /\ script \in {"calling", "finishing"}
    /\ script' = "stopped"
    /\ untold' = untold \union Unfinished
    /\ UNCHANGED <<vars, meant, pendingSession, shown, pendingRequest, call>>

\* The user loads the page again, with a new session_state.
Reload ==
    /\ pendingSession' = None
    /\ shown' = None
    /\ pendingRequest' = None
    /\ script' = "idle"
    /\ call' = None
    /\ untold' = untold \union Unfinished \union ({pendingSession} \ {None})
    /\ UNCHANGED <<vars, meant>>

-------------------------------------------------------------------------------
PageStep(r) == StartCall(r) \/ Received(r) \/ CallRaises(r)

BackendStep ==
    /\ \/ \E r \in Requests : HandlerStep(r) \/ LLMReplies(r) \/ CallFails(r)
       \/ \E s \in Sessions : StateExpires(s)
       \/ Crash
       \/ Tick
    /\ UNCHANGED <<page, history>>

ChatNext ==
    \/ \E r \in Requests : PageStep(r)
    \/ Submit \/ SendFails \/ Finish \/ Interrupt \/ Reload
    \/ BackendStep

\* The page's run goes on when it can: it posts, takes the response in, learns
\* that the backend is gone, and ends.  The backend is fair as before.
ChatFairness ==
    /\ WF_chatVars(\E r \in Requests : StartCall(r))
    /\ WF_chatVars(\E r \in Requests : Received(r))
    /\ WF_chatVars(\E r \in Requests : pc[r] = "dead" /\ CallRaises(r))
    /\ WF_chatVars(Finish)
    /\ WF_chatVars(Tick /\ UNCHANGED <<page, history>>)
    /\ \A r \in Requests :
         WF_chatVars(HandlerStep(r) /\ UNCHANGED <<page, history>>)

ChatSpec == ChatInit /\ [][ChatNext]_chatVars /\ ChatFairness

-------------------------------------------------------------------------------
(***************************************************************************)
(* Properties.                                                             *)
(***************************************************************************)

\* Types; and a request in flight has a run that sees to it, or one that was
\* abandoned (app.py: pending_request is reset where the run ends).
ChatTypeOK ==
    /\ TypeOK
    /\ pendingSession \in Sessions \union {None}
    /\ shown \in Questions \union {None}
    /\ pendingRequest \in [session : Sessions \union {None}, inflight : BOOLEAN] \union {None}
    /\ script \in Scripts
    /\ call \in Requests \union {None}
    /\ meant \in [Requests -> Questions \union {None}]
    /\ untold \subseteq Sessions
    /\ script = "idle" /\ pendingRequest # None => ~pendingRequest.inflight

\* Session s waits for the answer to question q.
WaitsFor(s, q) ==
    /\ store[s] # None
    /\ store[s].phase = "clarification_needed"
    /\ Last(store[s].asked) = q

\* Between two calls, page and session agree: the session the page takes for
\* pending waits for the answer to the very question the page shows, and no other
\* session waits.  Exempt are sessions whose state has expired and those the page
\* has lost sight of: failed calls (409, 502) and restarts of the backend do not set
\* page and session apart (app.py: what becomes of pending_session_id).
PageKnowsItsSession ==
    script = "idle" =>
        \A s \in Sessions \ (expired \union untold) :
            IF pendingSession = s
            THEN WaitsFor(s, shown)
            ELSE \A q \in Questions : ~WaitsFor(s, q)

\* An answer is taken for the answer to the question its author was shown, unless
\* the page has lost sight of the session before (handlers.go: an answer names its
\* session and not its question).
AnswersReachTheirQuestion ==
    \A r \in Requests :
        kind[r] = "answer" /\ result[r] # None =>
            \/ Last(read[r].asked) = meant[r]
            \/ session[r] \in untold

-------------------------------------------------------------------------------
\* What the page says and does not keep: a user who sends a message while a request
\* is pending is told to wait for its answer (app.py), so a pending request comes to an
\* end, whatever the LLM service, Redis and the backend process do.
PendingRequestEnds == pendingRequest # None ~> pendingRequest = None
===============================================================================
