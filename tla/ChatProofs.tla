------------------------------ MODULE ChatProofs ------------------------------
(***************************************************************************)
(* Proofs about Chat, for any number of requests, sessions and questions.  *)
(* The page's steps are steps of the backend's clients or leave the        *)
(* backend alone, so everything SessionBackendProofs shows holds here.     *)
(***************************************************************************)
EXTENDS Chat, SessionBackendProofs

-------------------------------------------------------------------------------
(***************************************************************************)
(* More about the backend.                                                 *)
(***************************************************************************)

Ended == {"unlocking", "closed", "dead"}

\* A request that has not begun is about nothing.
Unbegun(r) ==
    pc[r] = "idle" => session[r] = None /\ kind[r] = None /\ read[r] = None

\* Once there is a status the request has done what it can do to its session.
Settled(r) ==
    /\ status[r] # None => pc[r] \in Ended /\ wire[r] = 0
    /\ status[r] \in Acknowledgements => result[r] # None
    /\ status[r] = 422 => result[r].phase = "error"

\* A result that waits for an answer asks a question, and the result of an answer
\* comes after a session that was read.
Computed(r) ==
    /\ result[r] # None /\ result[r].phase = "clarification_needed" =>
           result[r].asked # <<>>
    /\ kind[r] = "answer" /\ (pc[r] = "calling" \/ result[r] # None) => read[r] # None

RequestInv(r) == Unbegun(r) /\ Settled(r) /\ Computed(r)

BackendInv == Inv /\ \A r \in Requests : RequestInv(r)

LEMMA BackendInvInit == Init => BackendInv
BY InvInit, NoneAssumption
   DEF Init, BackendInv, RequestInv, Unbegun, Settled, Computed, Acknowledgements, Statuses

\* A turn that does not end a session asks a question.
LEMMA SuccessorsAsk ==
    ASSUME NEW d \in Dialogues, NEW e \in Successors(d),
           e.phase = "clarification_needed"
    PROVE  Len(e.asked) > 0 /\ Last(e.asked) \in Questions
<1>1. PICK q \in Unasked(d) : e = [phase |-> "clarification_needed", asked |-> Append(d.asked, q)]
  BY DEF Successors, Terminal
<1>2. d.asked \in Seq(Questions) /\ q \in Questions
  BY <1>1 DEF Dialogues, Unasked
<1>3. e.asked = Append(d.asked, q)
  BY <1>1
<1>. QED
  BY <1>2, <1>3 DEF Last

\* The service replies to r with d.
ReplyIs(r, d) ==
    /\ result' = [result EXCEPT ![r] = d]
    /\ d.phase = "clarification_needed" => d.asked # <<>>

LEMMA ReplyStep ==
    ASSUME TypeOK, NEW r \in Requests, LLMReplies(r)
    PROVE  \E d \in Dialogues : ReplyIs(r, d)
<1>1. PICK d \in Successors(Sent(r)) : result' = [result EXCEPT ![r] = d]
  BY DEF LLMReplies
<1>2. Sent(r) \in Dialogues
  BY SentType
<1>3. d \in Dialogues
  BY <1>2, SuccessorsType
<1>4. d.phase = "clarification_needed" => Len(d.asked) > 0
  BY <1>2, SuccessorsAsk
<1>5. d.asked = <<>> => Len(d.asked) = 0
  OBVIOUS
<1>6. d.phase = "clarification_needed" => d.asked # <<>>
  BY <1>4, <1>5
<1>. QED
  BY <1>1, <1>3, <1>6, Zenon DEF ReplyIs

LEMMA RequestInvStep ==
    ASSUME NEW o \in Requests, Inv, RequestInv(o), [Next]_vars
    PROVE  RequestInv(o)'
<1>0. TypeOK /\ HaveSessions /\ WireWaits(o) /\ ResultIsTurn(o)
  BY DEF Inv, TypeInv, LockInv, ReadInv
<1>. USE <1>0, NoneAssumption
     DEF TypeOK, HaveSessions, WireWaits, ResultIsTurn, RequestInv, Unbegun, Settled,
         Computed, Acknowledgements, Statuses, Ended
<1>1. ASSUME NEW r \in Requests, BadRequest(r)
      PROVE  RequestInv(o)'
  BY <1>1 DEF BadRequest, Close, Goto, handler, redis
<1>2. ASSUME NEW r \in Requests, NEW s \in Sessions,
               NEW k \in {"prompt", "answer"}, Receive(r, s, k)
      PROVE  RequestInv(o)'
  BY <1>2 DEF Receive, Goto, redis
<1>3. ASSUME NEW r \in Requests, Locked(r)
      PROVE  RequestInv(o)'
  BY <1>3 DEF Locked, TakeLock, Goto, handler
<1>4. ASSUME NEW r \in Requests, LockReplyLost(r)
      PROVE  RequestInv(o)'
  BY <1>4 DEF LockReplyLost, TakeLock, Close, Goto, handler
<1>5. ASSUME NEW r \in Requests, Busy(r)
      PROVE  RequestInv(o)'
  BY <1>5 DEF Busy, Close, Goto, handler, redis
<1>6. ASSUME NEW r \in Requests, LockFails(r)
      PROVE  RequestInv(o)'
  BY <1>6 DEF LockFails, Close, Goto, handler, redis
<1>7. ASSUME NEW r \in Requests, ReadState(r)
      PROVE  RequestInv(o)'
  BY <1>7 DEF ReadState, PhaseOf, Respond, Goto, redis
<1>8. ASSUME NEW r \in Requests, ReadFails(r)
      PROVE  RequestInv(o)'
  BY <1>8 DEF ReadFails, Respond, Goto, handler, redis
<1>9. ASSUME NEW r \in Requests, LLMRefuses(r)
      PROVE  RequestInv(o)'
  BY <1>9 DEF LLMRefuses, Respond, Goto, handler, redis
<1>10. ASSUME NEW r \in Requests, CallTimesOut(r)
      PROVE  RequestInv(o)'
  BY <1>10 DEF CallTimesOut, Respond, Goto, handler, redis
<1>11. ASSUME NEW r \in Requests, SendSave(r)
      PROVE  RequestInv(o)'
  BY <1>11 DEF SendSave, handler, redis
<1>12. ASSUME NEW r \in Requests, SaveFails(r)
      PROVE  RequestInv(o)'
  BY <1>12 DEF SaveFails, Respond, Goto, handler, redis
<1>13. ASSUME NEW r \in Requests, Saved(r)
      PROVE  RequestInv(o)'
  <2>1. CASE r # o
    BY <1>13, <2>1 DEF Saved, Answer, Respond, Goto, handler
  <2>2. CASE r = o
    <3>1. result[o] # None
      BY <1>13, <2>2, SentType, SuccessorsType DEF Saved
    <3>. QED
      BY <1>13, <2>2, <3>1 DEF Saved, Answer, Respond, Goto, handler
  <2>. QED
    BY <2>1, <2>2
<1>14. ASSUME NEW r \in Requests, Unlock(r)
      PROVE  RequestInv(o)'
  BY <1>14 DEF Unlock, DropLock, Close, Goto, handler
<1>15. ASSUME NEW r \in Requests, UnlockFails(r)
      PROVE  RequestInv(o)'
  BY <1>15 DEF UnlockFails, Close, Goto, handler, redis
<1>16. ASSUME NEW r \in Requests, LLMReplies(r)
      PROVE  RequestInv(o)'
  <2>1. PICK d \in Dialogues : ReplyIs(r, d)
    BY <1>16, ReplyStep
  <2>. QED
    BY <1>16, <2>1 DEF ReplyIs, LLMReplies, Goto, redis
<1>17. ASSUME NEW r \in Requests, CallFails(r)
      PROVE  RequestInv(o)'
  BY <1>17 DEF CallFails, Respond, Goto, handler, redis
<1>18. ASSUME NEW r \in Requests, Disconnect(r)
      PROVE  RequestInv(o)'
  BY <1>18 DEF Disconnect, handler, redis
<1>19. ASSUME NEW s \in Sessions, StateExpires(s)
      PROVE  RequestInv(o)'
  BY <1>19 DEF StateExpires, handler
<1>20. CASE Crash
  BY <1>20 DEF Crash, Active, handler, redis
<1>21. CASE Tick
  BY <1>21 DEF Tick, Down, handler
<1>22. CASE UNCHANGED vars
  BY <1>22 DEF vars
<1>. QED
  BY <1>1, <1>2, <1>3, <1>4, <1>5, <1>6, <1>7, <1>8, <1>9, <1>10, <1>11,
     <1>12, <1>13, <1>14, <1>15, <1>16, <1>17, <1>18, <1>19, <1>20, <1>21,
     <1>22 DEF Next, HandlerStep

-------------------------------------------------------------------------------
(***************************************************************************)
(* The page.                                                               *)
(***************************************************************************)

\* A request that waits to be posted is about the session the page takes for
\* pending.
PayloadInv == Unsent => script = "idle" /\ pendingRequest.session = pendingSession

\* The request the script has posted.
CallInv ==
    script = "calling" =>
        /\ call \in Requests
        /\ session[call] \in Sessions
        /\ kind[call] \in {"prompt", "answer"}
        /\ meant[call] = shown
        /\ pendingSession = IF kind[call] = "answer" THEN session[call] ELSE None

\* The script waits for the response of r.
Current(r) == script = "calling" /\ call = r

\* Nothing has become of a session that no request was about.
FreshInv ==
    \A s \in Sessions :
        Fresh(s) => store[s] = None /\ s \notin expired \union untold /\ pendingSession # s

\* All requests about a session the page has in sight are over, but for the one it
\* waits for.
OthersAreOver ==
    \A r \in Requests :
        session[r] \in Sessions \ untold /\ ~Current(r) =>
            pc[r] \in Ended /\ wire[r] = 0

\* The page knows what session s waits for.
Agree(s) ==
    IF pendingSession = s
    THEN WaitsFor(s, shown) \/ (store[s] = None /\ s \in expired)
    ELSE store[s] # None => store[s].phase # "clarification_needed"

\* The request the page waits for has written session s, and its response will
\* not deny it.
Written(s) ==
    /\ script = "calling" /\ session[call] = s
    /\ result[call] # None
    /\ status[call] \in Acknowledgements \union {None, 500}
    /\ store[s] = result[call] \/ (store[s] = None /\ s \in expired)

SightInv ==
    /\ \A s \in Sessions \ untold : Agree(s) \/ Written(s)
    /\ \A r \in Requests :
          Current(r) /\ session[r] \notin untold =>
              /\ status[r] \in Acknowledgements => Written(session[r])
              /\ status[r] = 404 => store[session[r]] = None

\* An answer's request has read the question its author was shown.
AnswerInv ==
    \A r \in Requests :
        kind[r] = "answer" /\ read[r] # None =>
            Last(read[r].asked) = meant[r] \/ session[r] \in untold

PageInv == ChatTypeOK /\ PayloadInv /\ CallInv /\ FreshInv /\ OthersAreOver
               /\ SightInv /\ AnswerInv

ChatInv == BackendInv /\ PageInv

LEMMA PageInvInit == ChatInit => PageInv
BY TypeInit, NoneAssumption
   DEF ChatInit, Init, PageInit, PageInv, ChatTypeOK, PayloadInv, CallInv, FreshInv,
       OthersAreOver, SightInv, AnswerInv, Unsent, Current, Agree, Written, Fresh,
       Scripts, TypeInv

-------------------------------------------------------------------------------
(***************************************************************************)
(* The steps.                                                              *)
(***************************************************************************)

\* What the page does to the backend, any client may do.
LEMMA ChatStepsAreBackendSteps ==
    ASSUME ChatTypeOK, [ChatNext]_chatVars
    PROVE  [Next]_vars
<1>1. ASSUME NEW r \in Requests, StartCall(r)
      PROVE  Next
  <2>1. CASE pendingRequest.session = None
    <3>1. PICK s \in Sessions : Receive(r, s, "prompt")
      BY <1>1, <2>1 DEF StartCall
    <3>. QED
      BY <3>1 DEF Next
  <2>2. CASE pendingRequest.session # None
    <3>1. pendingRequest.session \in Sessions
      BY <1>1, <2>2 DEF StartCall, Unsent, ChatTypeOK
    <3>2. Receive(r, pendingRequest.session, "answer")
      BY <1>1, <2>2 DEF StartCall
    <3>. QED
      BY <3>1, <3>2 DEF Next
  <2>. QED
    BY <2>1, <2>2
<1>2. ASSUME NEW r \in Requests, Received(r) \/ CallRaises(r)
      PROVE  [Next]_vars
  BY <1>2 DEF Received, CallRaises, Next
<1>3. CASE Submit \/ SendFails \/ Finish \/ Interrupt \/ Reload
  BY <1>3 DEF Submit, SendFails, Finish, Interrupt, Reload
<1>4. CASE BackendStep
  BY <1>4 DEF BackendStep, Next
<1>5. CASE UNCHANGED chatVars
  BY <1>5 DEF chatVars
<1>. QED
  BY <1>1, <1>2, <1>3, <1>4, <1>5 DEF ChatNext, PageStep

LEMMA BackendInvStep ==
    ASSUME ChatInv, [ChatNext]_chatVars
    PROVE  BackendInv'
<1>1. [Next]_vars
  BY ChatStepsAreBackendSteps DEF ChatInv, PageInv
<1>. QED
  BY <1>1, InvStep, RequestInvStep DEF ChatInv, BackendInv

\* What the backend does keeps page and session in step.
InStep == FreshInv /\ OthersAreOver /\ SightInv /\ AnswerInv

\* A request that is about to read a session in sight is the one the page waits for,
\* and the page knows what the session waits for.
LEMMA Readers ==
    ASSUME ChatInv, NEW r \in Requests, pc[r] = "reading"
    PROVE  /\ session[r] \in Sessions
           /\ PhaseOf(store[session[r]]) = "none" => store[session[r]] = None
           /\ session[r] \notin untold =>
                  Current(r) /\ Agree(session[r]) /\ result[r] = None
<1>1. TypeOK /\ session[r] \in Sessions /\ result[r] = None
  BY DEF ChatInv, BackendInv, Inv, TypeInv, HaveSessions, ReadInv, ResultIsTurn
<1>2. store[session[r]] \in Dialogues \union {None}
  BY <1>1 DEF TypeOK
<1>3. \A d \in Dialogues : d.phase # "none"
  BY DEF Dialogues, Phases, Terminal
<1>4. ASSUME session[r] \notin untold
      PROVE  Current(r) /\ Agree(session[r])
  <2>1. Current(r)
    BY <1>1, <1>4 DEF ChatInv, PageInv, OthersAreOver, Ended
  <2>2. ~ Written(session[r])
    BY <1>1, <2>1 DEF Written, Current
  <2>. QED
    BY <1>1, <1>4, <2>1, <2>2 DEF ChatInv, PageInv, SightInv
<1>. QED
  BY <1>1, <1>2, <1>3, <1>4 DEF PhaseOf

LEMMA InStepBackendStep ==
    ASSUME ChatInv, BackendStep
    PROVE  InStep'
<1>0. /\ TypeOK /\ HaveSessions /\ CallInv /\ InStep
      /\ untold \subseteq Sessions /\ UNCHANGED <<page, history>>
      /\ \A r \in Requests : WireWaits(r) /\ ResultIsTurn(r) /\ RequestInv(r)
  BY DEF ChatInv, BackendInv, Inv, TypeInv, LockInv, ReadInv, PageInv, ChatTypeOK,
         BackendStep, InStep
<1>. USE <1>0, NoneAssumption
     DEF TypeOK, HaveSessions, WireWaits, ResultIsTurn, RequestInv, Unbegun, Settled,
         Computed, Acknowledgements, Statuses, Ended, CallInv, InStep, FreshInv,
         OthersAreOver, SightInv, AnswerInv, Fresh, Current, Agree, Written, WaitsFor,
         page, history
<1>1. ASSUME NEW r \in Requests, Locked(r)
      PROVE  InStep'
  BY <1>1 DEF Locked, TakeLock, Goto, handler
<1>2. ASSUME NEW r \in Requests, LockReplyLost(r)
      PROVE  InStep'
  BY <1>2 DEF LockReplyLost, TakeLock, Close, Goto, handler
<1>3. ASSUME NEW r \in Requests, Busy(r)
      PROVE  InStep'
  BY <1>3 DEF Busy, Close, Goto, handler, redis
<1>4. ASSUME NEW r \in Requests, LockFails(r)
      PROVE  InStep'
  BY <1>4 DEF LockFails, Close, Goto, handler, redis
<1>5. ASSUME NEW r \in Requests, ReadState(r)
      PROVE  InStep'
  <2>1. /\ read' = [read EXCEPT ![r] = store[session[r]]]
        /\ UNCHANGED <<session, kind, result, wire, store, expired>>
    BY <1>5 DEF ReadState, redis
  <2>2. /\ pc[r] = "reading"
        /\ \A p \in Requests \ {r} : pc'[p] = pc[p] /\ status'[p] = status[p]
    BY <1>5 DEF ReadState, Respond, Goto
  <2>3. \/ /\ pc'[r] = "unlocking" /\ status'[r] = 404
           /\ kind[r] = "answer" /\ PhaseOf(store[session[r]]) = "none"
        \/ pc'[r] = "unlocking" /\ status'[r] = 409
        \/ /\ pc'[r] = "calling" /\ status'[r] = status[r]
           /\ kind[r] = "answer" => PhaseOf(store[session[r]]) # "none"
    BY <1>5 DEF ReadState, Respond, Goto
  <2>4. /\ session[r] \in Sessions
        /\ PhaseOf(store[session[r]]) = "none" => store[session[r]] = None
        /\ session[r] \notin untold =>
               Current(r) /\ Agree(session[r]) /\ result[r] = None
    BY <2>2, Readers
  <2>5. FreshInv'
    BY <2>1
  <2>6. OthersAreOver'
    <3>1. session[r] \notin untold => Current(r)
      BY <2>4
    <3>2. ASSUME NEW p \in Requests, session[p] \in Sessions \ untold, ~Current(p)
          PROVE  pc'[p] \in Ended /\ wire'[p] = 0
      <4>1. p # r
        BY <3>1, <3>2
      <4>2. pc[p] \in Ended /\ wire[p] = 0
        BY <3>2
      <4>. QED
        BY <2>1, <2>2, <4>1, <4>2
    <3>. QED
      BY <2>1, <3>2
  <2>7. SightInv'
    BY <2>1, <2>2, <2>3, <2>4
  <2>8. AnswerInv'
    BY <2>1, <2>2, <2>4
  <2>. QED
    BY <2>5, <2>6, <2>7, <2>8
<1>6. ASSUME NEW r \in Requests, ReadFails(r)
      PROVE  InStep'
  BY <1>6 DEF ReadFails, Respond, Goto, handler, redis
<1>7. ASSUME NEW r \in Requests, LLMRefuses(r)
      PROVE  InStep'
  BY <1>7 DEF LLMRefuses, Respond, Goto, handler, redis
<1>8. ASSUME NEW r \in Requests, CallTimesOut(r)
      PROVE  InStep'
  BY <1>8 DEF CallTimesOut, Respond, Goto, handler, redis
<1>9. ASSUME NEW r \in Requests, SendSave(r)
      PROVE  InStep'
  BY <1>9 DEF SendSave, handler, redis
<1>10. ASSUME NEW r \in Requests, SaveFails(r)
      PROVE  InStep'
  BY <1>10 DEF SaveFails, Respond, Goto, handler, redis
<1>11. ASSUME NEW r \in Requests, Saved(r)
      PROVE  InStep'
  <2>1. /\ store' = [store EXCEPT ![session[r]] = result[r]]
        /\ wire' = [wire EXCEPT ![r] = 0] /\ wire[r] > 0
        /\ UNCHANGED <<session, kind, read, result, expired>>
    BY <1>11 DEF Saved, handler
  <2>2. \A p \in Requests \ {r} : pc'[p] = pc[p] /\ status'[p] = status[p]
    BY <1>11 DEF Saved, Answer, Respond, Goto
  <2>3. \/ pc'[r] = pc[r] /\ status'[r] = status[r]
        \/ pc'[r] = "unlocking" /\ status'[r] \in {200, 422}
    BY <1>11 DEF Saved, Answer, Respond, Goto
  <2>4. session[r] \in Sessions /\ result[r] # None /\ status[r] = None
    BY <2>1, SentType, SuccessorsType
  <2>5. session[r] \notin untold => Current(r)
    BY <2>1, <2>4
  <2>6. FreshInv'
    BY <2>1, <2>4
  <2>7. OthersAreOver'
    BY <2>1, <2>2, <2>3, <2>5
  <2>8. SightInv'
    <3>1. ASSUME NEW s \in Sessions \ untold, s # session[r]
          PROVE  (Agree(s) \/ Written(s))'
      BY <2>1, <2>2, <2>4, <3>1
    <3>2. ASSUME session[r] \notin untold
          PROVE  Written(session[r])' /\ status'[r] # 404
      BY <2>1, <2>3, <2>4, <2>5, <3>2
    <3>3. ASSUME NEW p \in Requests, Current(p), session[p] \notin untold
          PROVE  /\ status'[p] \in Acknowledgements => Written(session[p])'
                 /\ status'[p] = 404 => store'[session[p]] = None
      <4>1. CASE p = r
        BY <3>2, <3>3, <4>1
      <4>2. CASE p # r
        BY <2>1, <2>2, <2>4, <2>5, <3>3, <4>2
      <4>. QED
        BY <4>1, <4>2
    <3>4. \A p \in Requests : session'[p] = session[p]
      BY <2>1
    <3>5. untold' = untold /\ script' = script /\ call' = call
      BY <1>0 DEF page, history
    <3>6. ASSUME NEW s \in Sessions, s \notin untold
          PROVE  (Agree(s) \/ Written(s))'
      <4>1. CASE s = session[r]
        <5>1. Written(session[r])' /\ session'[r] = s
          BY ONLY r \in Requests, <3>2, <3>4, <3>6, <4>1
        <5>. QED
          BY ONLY <5>1 DEF Written
      <4>2. CASE s # session[r]
        BY ONLY <3>1, <3>6, <4>2
      <4>. QED
        BY <4>1, <4>2
    <3>7. \A p \in Requests : Current(p)' => Current(p)
      BY ONLY <3>5 DEF Current
    <3>. QED
      BY ONLY <3>3, <3>4, <3>5, <3>6, <3>7 DEF SightInv
  <2>9. AnswerInv'
    BY <2>1
  <2>. QED
    BY <2>6, <2>7, <2>8, <2>9
<1>12. ASSUME NEW r \in Requests, Unlock(r)
      PROVE  InStep'
  BY <1>12 DEF Unlock, DropLock, Close, Goto, handler
<1>13. ASSUME NEW r \in Requests, UnlockFails(r)
      PROVE  InStep'
  BY <1>13 DEF UnlockFails, Close, Goto, handler, redis
<1>14. ASSUME NEW r \in Requests, LLMReplies(r)
      PROVE  InStep'
  BY <1>14 DEF LLMReplies, Goto, redis
<1>15. ASSUME NEW r \in Requests, CallFails(r)
      PROVE  InStep'
  BY <1>15 DEF CallFails, Respond, Goto, handler, redis
<1>16. ASSUME NEW s \in Sessions, StateExpires(s)
      PROVE  InStep'
  BY <1>16 DEF StateExpires, handler
<1>17. CASE Crash
  BY <1>17 DEF Crash, Active, handler, redis
<1>18. CASE Tick
  BY <1>18 DEF Tick, Down, handler
<1>. QED
  BY <1>1, <1>2, <1>3, <1>4, <1>5, <1>6, <1>7, <1>8, <1>9,
     <1>10, <1>11, <1>12, <1>13, <1>14, <1>15, <1>16, <1>17, <1>18
     DEF BackendStep, HandlerStep


\* What of the page's state the steps below may rely on.
LEMMA Facts ==
    ASSUME ChatInv
    PROVE  /\ TypeOK /\ HaveSessions
           /\ \A r \in Requests : WireWaits(r) /\ ResultIsTurn(r) /\ RequestInv(r)
           /\ ChatTypeOK /\ PayloadInv /\ CallInv /\ InStep
BY DEF ChatInv, BackendInv, Inv, TypeInv, LockInv, ReadInv, PageInv, InStep

LEMMA PageInvBackendStep ==
    ASSUME ChatInv, BackendInv', BackendStep
    PROVE  PageInv'
<1>1. TypeOK' /\ InStep'
  BY InStepBackendStep DEF BackendInv, Inv, TypeInv
<1>2. UNCHANGED <<page, history, session, kind>>
  BY DEF BackendStep, HandlerStep, Locked, LockReplyLost, Busy, LockFails, ReadState,
         ReadFails, LLMRefuses, CallTimesOut, SendSave, SaveFails, Saved, Unlock,
         UnlockFails, LLMReplies, CallFails, StateExpires, Crash, Tick, handler
<1>3. ChatTypeOK' /\ PayloadInv' /\ CallInv'
  BY Facts, <1>1, <1>2 DEF ChatTypeOK, PayloadInv, CallInv, Unsent, page, history
<1>. QED
  BY <1>1, <1>3 DEF PageInv, InStep

LEMMA PageInvStartCall ==
    ASSUME ChatInv, BackendInv', NEW r \in Requests, StartCall(r)
    PROVE  PageInv'
<1>1. PICK s \in Sessions, k \in {"prompt", "answer"} :
         /\ Receive(r, s, k)
         /\ pendingSession = IF k = "answer" THEN s ELSE None
         /\ k = "prompt" => Fresh(s)
  <2>1. pendingRequest.session = pendingSession /\ pendingSession \in Sessions \union {None}
    BY Facts DEF StartCall, PayloadInv, ChatTypeOK
  <2>. QED
    BY <2>1, NoneAssumption DEF StartCall
<1>2. /\ pc[r] = "idle" /\ session[r] = None /\ read[r] = None
      /\ session' = [session EXCEPT ![r] = s] /\ kind' = [kind EXCEPT ![r] = k]
      /\ pc' = [pc EXCEPT ![r] = "locking"]
      /\ UNCHANGED <<read, result, status, wire, store, expired>>
  BY <1>1, Facts DEF Receive, Goto, redis, RequestInv, Unbegun
<1>3. /\ script = "idle" /\ script' = "calling" /\ call' = r
      /\ pendingRequest' = [pendingRequest EXCEPT !.inflight = TRUE]
      /\ meant' = [meant EXCEPT ![r] = shown]
      /\ UNCHANGED <<pendingSession, shown, untold>>
  BY Facts DEF StartCall, PayloadInv
<1>4. TypeOK'
  BY DEF BackendInv, Inv, TypeInv
<1>5. ChatTypeOK'
  BY <1>3, <1>4, Facts DEF ChatTypeOK, Scripts, StartCall, Unsent
<1>6. PayloadInv'
  BY <1>3, Facts DEF PayloadInv, Unsent, ChatTypeOK, StartCall
<1>7. CallInv'
  BY <1>1, <1>2, <1>3, Facts DEF CallInv, TypeOK, ChatTypeOK
<1>8. FreshInv'
  BY <1>1, <1>2, <1>3, Facts, NoneAssumption DEF FreshInv, InStep, Fresh, TypeOK
<1>9. OthersAreOver'
  BY <1>1, <1>2, <1>3, Facts DEF OthersAreOver, InStep, Current, TypeOK
<1>10. SightInv'
  BY <1>1, <1>2, <1>3, Facts, NoneAssumption
     DEF SightInv, InStep, Current, TypeOK, Agree, Written, WaitsFor, RequestInv,
         Settled, Ended, Acknowledgements, Statuses
<1>11. AnswerInv'
  BY <1>1, <1>2, <1>3, Facts DEF AnswerInv, InStep, TypeOK, ChatTypeOK
<1>. QED
  BY <1>5, <1>6, <1>7, <1>8, <1>9, <1>10, <1>11 DEF PageInv

LEMMA PageInvReceived ==
    ASSUME ChatInv, BackendInv', NEW r \in Requests, Received(r)
    PROVE  PageInv'
<1>1. /\ script = "calling" /\ call = r /\ script' = "finishing"
      /\ status[r] # None
      /\ UNCHANGED <<vars, pendingRequest, call, meant>>
  BY DEF Received, Returns
<1>2. /\ session[r] \in Sessions
      /\ pendingSession \in {None, session[r]}
      /\ pc[r] \in Ended /\ wire[r] = 0
  BY <1>1, Facts DEF CallInv, RequestInv, Settled
<1>3. \/ /\ status[r] = 200 /\ result[r].phase = "clarification_needed"
         /\ Pending(session[r], Last(result[r].asked)) /\ untold' = untold
      \/ status[r] \in {400, 409, 502} /\ Pending(pendingSession, shown) /\ untold' = untold
      \/ Pending(pendingSession, shown) /\ untold' = untold \union {session[r]}
      \/ /\ status[r] \in {404, 422} \/ (status[r] = 200 /\ result[r].phase = "done")
         /\ Pending(None, None) /\ untold' = untold
  BY <1>1 DEF Received, TakeIn, SaysNothing
<1>4. TypeOK'
  BY DEF BackendInv, Inv, TypeInv
<1>5. untold \subseteq untold' /\ untold' \subseteq untold \union {session[r]}
  BY <1>3
<1>6. ChatTypeOK'
  <2>1. ASSUME status[r] = 200, result[r].phase = "clarification_needed"
        PROVE  Last(result[r].asked) \in Questions
    <3>1. result[r] \in Dialogues /\ result[r].asked # <<>>
      BY <1>1, <2>1, Facts DEF TypeOK, RequestInv, Settled, Computed, Acknowledgements
    <3>2. result[r].asked \in Seq(Questions)
      BY <3>1 DEF Dialogues
    <3>. QED
      BY <3>1, <3>2 DEF Last
  <2>2. shown' \in Questions \union {None} /\ pendingSession' \in Sessions \union {None}
    BY <1>2, <1>3, <2>1, Facts DEF Pending, ChatTypeOK
  <2>. QED
    BY <1>1, <1>2, <1>4, <1>5, <2>2, Facts DEF ChatTypeOK, Scripts
<1>7. PayloadInv' /\ CallInv'
  BY <1>1, Facts DEF PayloadInv, CallInv, Unsent
<1>8. FreshInv'
  BY <1>1, <1>2, <1>3, <1>5, Facts, NoneAssumption
     DEF FreshInv, InStep, Fresh, vars, Pending
<1>9. OthersAreOver'
  BY <1>1, <1>2, <1>5, Facts DEF OthersAreOver, InStep, Current, vars
<1>10. SightInv'
  <2>1. script' # "calling" /\ UNCHANGED <<store, expired>>
    BY <1>1 DEF vars
  <2>. SUFFICES ASSUME NEW s \in Sessions \ untold'
                PROVE  Agree(s)'
    BY <2>1 DEF SightInv, Current
  <2>2. Agree(s) \/ Written(s)
    BY <1>5, Facts DEF InStep, SightInv
  <2>3. CASE s # session[r]
    <3>1. Agree(s) /\ pendingSession # s
      BY <1>1, <1>2, <2>2, <2>3, NoneAssumption DEF Written
    <3>2. pendingSession' # s
      BY <1>2, <1>3, <2>3, NoneAssumption DEF Pending
    <3>. QED
      BY <2>1, <3>1, <3>2 DEF Agree
  <2>4. CASE s = session[r]
    <3>1. status[r] \in Acknowledgements => Written(s)
      BY <1>1, <1>5, <2>4, Facts DEF InStep, SightInv, Current
    <3>2. status[r] = 404 => store[s] = None
      BY <1>1, <1>5, <2>4, Facts DEF InStep, SightInv, Current
    <3>3. status[r] = 422 => result[r].phase = "error"
      BY <1>1, Facts DEF RequestInv, Settled
    <3>4. CASE /\ status[r] = 200 /\ result[r].phase = "clarification_needed"
               /\ Pending(session[r], Last(result[r].asked))
      BY <1>1, <2>1, <2>4, <3>1, <3>4, NoneAssumption
         DEF Written, Agree, WaitsFor, Pending, Acknowledgements
    <3>5. CASE status[r] \in {400, 409, 502} /\ Pending(pendingSession, shown)
      BY <1>1, <2>1, <2>2, <2>4, <3>5, NoneAssumption
         DEF Written, Agree, WaitsFor, Pending, Acknowledgements, Statuses
    <3>6. CASE /\ status[r] \in {404, 422} \/ (status[r] = 200 /\ result[r].phase = "done")
               /\ Pending(None, None)
      BY <1>1, <2>1, <2>4, <3>1, <3>2, <3>3, <3>6, NoneAssumption
         DEF Written, Agree, WaitsFor, Pending, Acknowledgements
    <3>. QED
      BY <1>3, <2>4, <3>4, <3>5, <3>6
  <2>. QED
    BY <2>3, <2>4
<1>11. AnswerInv'
  BY <1>1, <1>5, Facts DEF AnswerInv, InStep, vars
<1>. QED
  BY <1>6, <1>7, <1>8, <1>9, <1>10, <1>11 DEF PageInv

\* The page loses sight of its session.
LEMMA PageInvLoses ==
    ASSUME ChatInv, BackendInv',
           (\E r \in Requests : CallRaises(r)) \/ Interrupt \/ Reload
    PROVE  PageInv'
<1>1. /\ script' \in {"finishing", "stopped", "idle"}
      /\ script' = "idle" => pendingRequest' = None
      /\ pendingRequest' \in {pendingRequest, None}
      /\ script # "idle" \/ pendingRequest' = None
      /\ call' \in {call, None}
      /\ UNCHANGED <<session, kind, read, result, status, wire, store, expired, meant>>
      /\ \A r \in Requests : pc'[r] = pc[r]
  BY DEF CallRaises, Returns, Interrupt, Reload, vars, Disconnect, handler, redis
<1>2. /\ \/ UNCHANGED <<pendingSession, shown>>
         \/ /\ pendingSession' = None /\ shown' = None
            /\ pendingSession \in untold' \union {None}
      /\ untold \subseteq untold'
      /\ untold' \subseteq untold \union Unfinished \union ({pendingSession} \ {None})
      /\ script = "calling" => session[call] \in untold'
  BY DEF CallRaises, Returns, Interrupt, Reload, Unfinished
<1>3. script = "calling" => call \in Requests /\ session[call] \in Sessions
  BY Facts DEF CallInv
<1>4. TypeOK'
  BY DEF BackendInv, Inv, TypeInv
<1>5. ChatTypeOK'
  BY <1>1, <1>2, <1>3, <1>4, Facts DEF ChatTypeOK, Scripts, Unfinished
<1>6. PayloadInv' /\ CallInv'
  BY <1>1, Facts DEF PayloadInv, CallInv, Unsent
<1>7. FreshInv'
  BY <1>1, <1>2, <1>3, Facts, NoneAssumption DEF FreshInv, InStep, Fresh, Unfinished
<1>8. OthersAreOver'
  BY <1>1, <1>2, <1>3, Facts DEF OthersAreOver, InStep, Current
<1>9. SightInv'
  <2>. SUFFICES ASSUME NEW s \in Sessions \ untold'
                PROVE  Agree(s)'
    BY <1>1 DEF SightInv, Current
  <2>1. Agree(s)
    BY <1>2, Facts DEF InStep, SightInv, Written
  <2>. QED
    BY <1>1, <1>2, <2>1, NoneAssumption DEF Agree, WaitsFor
<1>10. AnswerInv'
  BY <1>1, <1>2, Facts DEF AnswerInv, InStep
<1>. QED
  BY <1>5, <1>6, <1>7, <1>8, <1>9, <1>10 DEF PageInv

LEMMA PageInvQuiet ==
    ASSUME ChatInv, BackendInv', Submit \/ SendFails \/ Finish \/ UNCHANGED chatVars
    PROVE  PageInv'
<1>1. UNCHANGED <<vars, history, pendingSession, shown, call>>
  BY DEF Submit, SendFails, Finish, chatVars, page
<1>2. /\ script' = script \/ (script = "finishing" /\ script' = "idle" /\ pendingRequest' = None)
      /\ \/ pendingRequest' = None
         \/ UNCHANGED <<pendingRequest, script>>
         \/ /\ script' = "idle"
            /\ pendingRequest' = [session |-> pendingSession, inflight |-> FALSE]
  BY DEF Submit, SendFails, Finish, chatVars, page
<1>3. ChatTypeOK'
  <2>1. TypeOK'
    BY DEF BackendInv, Inv, TypeInv
  <2>2. pendingRequest' \in [session : Sessions \union {None}, inflight : BOOLEAN]
                                \union {None}
    <3>1. /\ pendingSession \in Sessions \union {None}
          /\ pendingRequest \in [session : Sessions \union {None}, inflight : BOOLEAN]
                                 \union {None}
      BY Facts DEF ChatTypeOK
    <3>2. CASE pendingRequest' = [session |-> pendingSession, inflight |-> FALSE]
      BY <3>1, <3>2
    <3>3. CASE pendingRequest' \in {pendingRequest, None}
      BY <3>1, <3>3
    <3>. QED
      BY <1>2, <3>2, <3>3
  <2>. QED
    BY <1>1, <1>2, <2>1, <2>2, Facts DEF ChatTypeOK, Scripts, history
<1>4. PayloadInv' /\ CallInv'
  BY <1>1, <1>2, Facts DEF PayloadInv, CallInv, Unsent, vars, history
<1>5. InStep'
  BY <1>1, <1>2, Facts
     DEF InStep, FreshInv, OthersAreOver, SightInv, AnswerInv, Fresh, Current, Agree,
         Written, WaitsFor, vars, history
<1>. QED
  BY <1>3, <1>4, <1>5 DEF PageInv, InStep

THEOREM ChatInvariance == ChatSpec => []ChatInv
<1>1. ChatInit => ChatInv
  BY BackendInvInit, PageInvInit DEF ChatInv, ChatInit
<1>2. ASSUME ChatInv, [ChatNext]_chatVars
      PROVE  ChatInv'
  <2>1. BackendInv'
    BY <1>2, BackendInvStep
  <2>2. PageInv'
    BY <1>2, <2>1, PageInvBackendStep, PageInvStartCall, PageInvReceived, PageInvLoses,
       PageInvQuiet DEF ChatNext, PageStep
  <2>. QED
    BY <2>1, <2>2 DEF ChatInv
<1>. QED
  BY <1>1, <1>2, PTL DEF ChatSpec

\* ChatTypeOK is an invariant.
THEOREM ChatTypeCorrect == ChatSpec => []ChatTypeOK
<1>1. ChatInv => ChatTypeOK
  BY DEF ChatInv, PageInv
<1>. QED
  BY ChatInvariance, <1>1, PTL

\* Between two calls the page shows the question its session waits for, and no session
\* in its sight waits unseen, whatever calls fail and however often the backend
\* restarts (app.py: what becomes of pending_session_id).
THEOREM PageAndSessionAgree == ChatSpec => []PageKnowsItsSession
<1>1. ChatInv => PageKnowsItsSession
  <2>. SUFFICES ASSUME ChatInv, script = "idle", NEW s \in Sessions \ (expired \union untold)
                PROVE  IF pendingSession = s
                       THEN WaitsFor(s, shown)
                       ELSE \A q \in Questions : ~WaitsFor(s, q)
    BY DEF PageKnowsItsSession
  <2>1. Agree(s)
    BY Facts DEF InStep, SightInv, Written
  <2>. QED
    BY <2>1 DEF Agree, WaitsFor
<1>. QED
  BY ChatInvariance, <1>1, PTL

\* No answer is taken for the answer to another question than the one its author was
\* shown, as long as the page has its session in sight.
THEOREM AnswersMeetTheirQuestion == ChatSpec => []AnswersReachTheirQuestion
<1>1. ChatInv => AnswersReachTheirQuestion
  BY Facts DEF AnswersReachTheirQuestion, InStep, AnswerInv, RequestInv, Computed
<1>. QED
  BY ChatInvariance, <1>1, PTL

\* Behind the page the backend keeps its promises: every theorem about the backend's
\* steps holds, too.
THEOREM ChatKeepsSessions ==
    ChatSpec => [](LockCoversWrites /\ ReadIsCurrent) /\ SessionsFollowDialogue
<1>1. ChatInv => LockCoversWrites /\ ReadIsCurrent
  BY DEF ChatInv, BackendInv, Inv, LockInv, HoldsLock, ReadInv, ReadsCurrent,
         LockCoversWrites, ReadIsCurrent
<1>2. ChatInv /\ [ChatNext]_chatVars => [StoreTakesTurns]_vars
  BY ChatStepsAreBackendSteps, TurnStep DEF ChatInv, BackendInv, PageInv
<1>. QED
  BY ChatInvariance, <1>1, <1>2, PTL DEF ChatSpec, SessionsFollowDialogue
===============================================================================
