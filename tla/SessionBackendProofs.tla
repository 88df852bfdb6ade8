------------------------- MODULE SessionBackendProofs -------------------------
(***************************************************************************)
(* Proofs about SessionBackend, for any number of requests and sessions    *)
(* and any durations that satisfy TimingAssumption.                        *)
(***************************************************************************)
EXTENDS SessionBackend, TLAPS

-------------------------------------------------------------------------------
(***************************************************************************)
(* Types.                                                                  *)
(***************************************************************************)

\* A request that is at work, or whose SET is under way, has a session, and one
\* that has not begun has sent nothing.
HaveSessions ==
    \A r \in Requests :
        /\ pc[r] \notin {"idle", "closed"} \/ wire[r] > 0 => session[r] \in Sessions
        /\ pc[r] = "idle" => wire[r] = 0

TypeInv == TypeOK /\ HaveSessions

\* One turn of a session gives a session.
LEMMA SuccessorsType ==
    ASSUME NEW d \in Dialogues, NEW e \in Successors(d)
    PROVE  e \in Dialogues
<1>1. CASE d.phase \in Terminal
  BY <1>1 DEF Successors
<1>2. CASE d.phase \notin Terminal
  <2>1. d.asked \in Seq(Questions)
    BY DEF Dialogues
  <2>2. CASE \E q \in Unasked(d) :
                e = [phase |-> "clarification_needed", asked |-> Append(d.asked, q)]
    BY <2>1, <2>2 DEF Dialogues, Phases, Unasked
  <2>3. CASE \E p \in Terminal : e = [phase |-> p, asked |-> d.asked]
    BY <2>1, <2>3 DEF Dialogues, Phases
  <2>. QED
    BY <1>2, <2>2, <2>3 DEF Successors
<1>. QED
  BY <1>1, <1>2

\* The service is called with a session.
LEMMA SentType ==
    ASSUME TypeOK, NEW r \in Requests
    PROVE  Sent(r) \in Dialogues
<1>1. NewDialogue \in Dialogues
  BY DEF NewDialogue, Dialogues, Phases
<1>. QED
  BY <1>1 DEF TypeOK, Sent

LEMMA TypeInit == Init => TypeInv
BY TimingAssumption DEF Init, TypeInv, TypeOK, HaveSessions, Steps

LEMMA TypeStep == TypeInv /\ [Next]_vars => TypeInv'
<1>. SUFFICES ASSUME TypeInv, [Next]_vars PROVE TypeInv'
  OBVIOUS
<1>. USE TimingAssumption, NoneAssumption DEF TypeInv, TypeOK, HaveSessions, Steps, Statuses
<1>1. ASSUME NEW r \in Requests, BadRequest(r)
      PROVE  TypeInv'
  BY <1>1 DEF BadRequest, Close, Goto, handler, redis
<1>2. ASSUME NEW r \in Requests, NEW s \in Sessions,
               NEW k \in {"prompt", "answer"}, Receive(r, s, k)
      PROVE  TypeInv'
  BY <1>2 DEF Receive, Goto, redis
<1>3. ASSUME NEW r \in Requests, Locked(r)
      PROVE  TypeInv'
  BY <1>3 DEF Locked, TakeLock, Goto, handler
<1>4. ASSUME NEW r \in Requests, LockReplyLost(r)
      PROVE  TypeInv'
  BY <1>4 DEF LockReplyLost, TakeLock, Close, Goto, handler
<1>5. ASSUME NEW r \in Requests, Busy(r)
      PROVE  TypeInv'
  BY <1>5 DEF Busy, Close, Goto, handler, redis
<1>6. ASSUME NEW r \in Requests, LockFails(r)
      PROVE  TypeInv'
  BY <1>6 DEF LockFails, Close, Goto, handler, redis
<1>7. ASSUME NEW r \in Requests, ReadState(r)
      PROVE  TypeInv'
  BY <1>7 DEF ReadState, Respond, Goto, redis
<1>8. ASSUME NEW r \in Requests, ReadFails(r)
      PROVE  TypeInv'
  BY <1>8 DEF ReadFails, Respond, Goto, handler, redis
<1>9. ASSUME NEW r \in Requests, LLMRefuses(r)
      PROVE  TypeInv'
  BY <1>9 DEF LLMRefuses, Respond, Goto, handler, redis
<1>10. ASSUME NEW r \in Requests, CallTimesOut(r)
      PROVE  TypeInv'
  BY <1>10 DEF CallTimesOut, Respond, Goto, handler, redis
<1>11. ASSUME NEW r \in Requests, SendSave(r)
      PROVE  TypeInv'
  BY <1>11 DEF SendSave, handler, redis
<1>12. ASSUME NEW r \in Requests, SaveFails(r)
      PROVE  TypeInv'
  BY <1>12 DEF SaveFails, Respond, Goto, handler, redis
<1>13. ASSUME NEW r \in Requests, Saved(r)
      PROVE  TypeInv'
  BY <1>13 DEF Saved, Answer, Respond, Goto, handler
<1>14. ASSUME NEW r \in Requests, Unlock(r)
      PROVE  TypeInv'
  BY <1>14 DEF Unlock, DropLock, Close, Goto, handler
<1>15. ASSUME NEW r \in Requests, UnlockFails(r)
      PROVE  TypeInv'
  BY <1>15 DEF UnlockFails, Close, Goto, handler, redis
<1>16. ASSUME NEW r \in Requests, LLMReplies(r)
      PROVE  TypeInv'
  <3>1. PICK d \in Successors(Sent(r)) : result' = [result EXCEPT ![r] = d]
    BY ONLY <1>16 DEF LLMReplies
  <3>2. d \in Dialogues /\ d # None
    BY <3>1, SentType, SuccessorsType
  <3>3. result' \in [Requests -> Dialogues \union {None}] /\ result'[r] = d
        /\ \A p \in Requests \ {r} : result'[p] = result[p]
    BY <3>1, <3>2
  <3>4. pc[r] = "calling" /\ pc' = [pc EXCEPT ![r] = "saving"]
    BY <1>16 DEF LLMReplies, Goto
  <3>5. pc' \in [Requests -> Steps] /\ pc'[r] = "saving"
        /\ \A p \in Requests \ {r} : pc'[p] = pc[p]
    BY <3>4
  <3>6. UNCHANGED <<session, kind, read, deadline, status, wire, lockOwner, lockTTL,
                    store, expired>>
    BY <1>16 DEF LLMReplies, redis
  <3>7. \A p \in Requests :
           /\ pc'[p] = "saving" \/ wire'[p] > 0 => result'[p] # None
           /\ pc'[p] \in {"unlocking", "closed"} => status'[p] # None
    BY <3>2, <3>3, <3>5, <3>6
  <3>8. TypeOK'
    BY <3>3, <3>5, <3>6, <3>7
  <3>9. HaveSessions'
    BY <3>4, <3>5, <3>6
  <3>. QED
    BY <3>8, <3>9
<1>17. ASSUME NEW r \in Requests, CallFails(r)
      PROVE  TypeInv'
  BY <1>17 DEF CallFails, Respond, Goto, handler, redis
<1>18. ASSUME NEW r \in Requests, Disconnect(r)
      PROVE  TypeInv'
  BY <1>18 DEF Disconnect, handler, redis
<1>19. ASSUME NEW s \in Sessions, StateExpires(s)
      PROVE  TypeInv'
  BY <1>19 DEF StateExpires, handler
<1>20. ASSUME Crash
      PROVE  TypeInv'
  BY <1>20 DEF Crash, Active, handler, redis
<1>21. ASSUME Tick
      PROVE  TypeInv'
  BY <1>21 DEF Tick, Down, handler
<1>22. CASE UNCHANGED vars
  BY <1>22 DEF vars
<1>. QED
  BY <1>1, <1>2, <1>3, <1>4, <1>5, <1>6, <1>7, <1>8, <1>9, <1>10, <1>11,
     <1>12, <1>13, <1>14, <1>15, <1>16, <1>17, <1>18, <1>19, <1>20, <1>21,
     <1>22 DEF Next, HandlerStep

\* TypeOK is an invariant.
THEOREM TypeCorrect == Spec => []TypeOK
<1>1. TypeInv => TypeOK
  BY DEF TypeInv
<1>. QED
  BY TypeInit, TypeStep, <1>1, PTL DEF Spec

-------------------------------------------------------------------------------
(***************************************************************************)
(* The lock.  It outlives what is left of a context by the window of a     *)
(* command, and a command under way by more than its window: this is what  *)
(* TimingAssumption is for, and why the two never run out together.        *)
(***************************************************************************)

\* A SET is only under way while its handler waits for it or has died.
WireWaits(r) == wire[r] > 0 => pc[r] \in {"saving", "dead"}

HoldsLock(r) == CanWrite(r) => lockOwner[session[r]] = r

ClocksFit(r) ==
    /\ Working(r) /\ deadline[r] > 0 =>
           lockTTL[session[r]] >= deadline[r] + RedisWindow
    /\ wire[r] > 0 => lockTTL[session[r]] > wire[r]

\* Whatever the other requests do, o keeps its lock: this is an invariant of each
\* request by itself.
LockInv(r) == WireWaits(r) /\ HoldsLock(r) /\ ClocksFit(r)

LEMMA LockInit == Init => \A o \in Requests : LockInv(o)
BY DEF Init, LockInv, WireWaits, HoldsLock, ClocksFit, CanWrite, Working

LEMMA LockStep ==
    ASSUME NEW o \in Requests, TypeInv, LockInv(o), [Next]_vars
    PROVE  LockInv(o)'
<1>. USE TimingAssumption, NoneAssumption
     DEF TypeInv, TypeOK, HaveSessions, LockInv, WireWaits, HoldsLock, ClocksFit,
         CanWrite, Working
<1>1. ASSUME NEW r \in Requests, BadRequest(r)
      PROVE  LockInv(o)'
  BY <1>1 DEF BadRequest, Close, Goto, handler, redis
<1>2. ASSUME NEW r \in Requests, NEW s \in Sessions,
               NEW k \in {"prompt", "answer"}, Receive(r, s, k)
      PROVE  LockInv(o)'
  BY <1>2 DEF Receive, Goto, redis
<1>3. ASSUME NEW r \in Requests, Locked(r)
      PROVE  LockInv(o)'
  BY <1>3 DEF Locked, TakeLock, Goto, handler
<1>4. ASSUME NEW r \in Requests, LockReplyLost(r)
      PROVE  LockInv(o)'
  BY <1>4 DEF LockReplyLost, TakeLock, Close, Goto, handler
<1>5. ASSUME NEW r \in Requests, Busy(r)
      PROVE  LockInv(o)'
  BY <1>5 DEF Busy, Close, Goto, handler, redis
<1>6. ASSUME NEW r \in Requests, LockFails(r)
      PROVE  LockInv(o)'
  BY <1>6 DEF LockFails, Close, Goto, handler, redis
<1>7. ASSUME NEW r \in Requests, ReadState(r)
      PROVE  LockInv(o)'
  BY <1>7 DEF ReadState, Respond, Goto, redis
<1>8. ASSUME NEW r \in Requests, ReadFails(r)
      PROVE  LockInv(o)'
  BY <1>8 DEF ReadFails, Respond, Goto, handler, redis
<1>9. ASSUME NEW r \in Requests, LLMRefuses(r)
      PROVE  LockInv(o)'
  BY <1>9 DEF LLMRefuses, Respond, Goto, handler, redis
<1>10. ASSUME NEW r \in Requests, CallTimesOut(r)
      PROVE  LockInv(o)'
  BY <1>10 DEF CallTimesOut, Respond, Goto, handler, redis
<1>11. ASSUME NEW r \in Requests, SendSave(r)
      PROVE  LockInv(o)'
  BY <1>11 DEF SendSave, handler, redis
<1>12. ASSUME NEW r \in Requests, SaveFails(r)
      PROVE  LockInv(o)'
  BY <1>12 DEF SaveFails, Respond, Goto, handler, redis
<1>13. ASSUME NEW r \in Requests, Saved(r)
      PROVE  LockInv(o)'
  BY <1>13 DEF Saved, Answer, Respond, Goto, handler
<1>14. ASSUME NEW r \in Requests, Unlock(r)
      PROVE  LockInv(o)'
  BY <1>14 DEF Unlock, DropLock, Close, Goto, handler
<1>15. ASSUME NEW r \in Requests, UnlockFails(r)
      PROVE  LockInv(o)'
  BY <1>15 DEF UnlockFails, Close, Goto, handler, redis
<1>16. ASSUME NEW r \in Requests, LLMReplies(r)
      PROVE  LockInv(o)'
  BY <1>16 DEF LLMReplies, Goto, redis
<1>17. ASSUME NEW r \in Requests, CallFails(r)
      PROVE  LockInv(o)'
  BY <1>17 DEF CallFails, Respond, Goto, handler, redis
<1>18. ASSUME NEW r \in Requests, Disconnect(r)
      PROVE  LockInv(o)'
  BY <1>18 DEF Disconnect, handler, redis
<1>19. ASSUME NEW s \in Sessions, StateExpires(s)
      PROVE  LockInv(o)'
  BY <1>19 DEF StateExpires, handler
<1>20. ASSUME Crash
      PROVE  LockInv(o)'
  BY <1>20 DEF Crash, Active, handler, redis
<1>21. ASSUME Tick
      PROVE  LockInv(o)'
  BY <1>21 DEF Tick, Down, handler
<1>22. CASE UNCHANGED vars
  BY <1>22 DEF vars
<1>. QED
  BY <1>1, <1>2, <1>3, <1>4, <1>5, <1>6, <1>7, <1>8, <1>9, <1>10, <1>11,
     <1>12, <1>13, <1>14, <1>15, <1>16, <1>17, <1>18, <1>19, <1>20, <1>21,
     <1>22 DEF Next, HandlerStep

-------------------------------------------------------------------------------
(***************************************************************************)
(* The state.  Between its Get and its Save a request is alone with the    *)
(* session, so what it writes is one turn after what is stored.            *)
(***************************************************************************)

\* Nobody else can write the session while r works with what it has read.
Alone(r) ==
    CanWrite(r) /\ pc[r] # "reading" =>
        \A p \in Requests \ {r} : session[p] = session[r] => ~CanWrite(p)

ReadsCurrent(r) ==
    CanWrite(r) /\ pc[r] # "reading" =>
        store[session[r]] \in {read[r], result[r], None}

\* A result is there once the LLM service has replied, and is one turn after
\* the session the service was called with.
ResultIsTurn(r) ==
    /\ pc[r] \in {"idle", "locking", "reading", "calling"} => result[r] = None
    /\ pc[r] = "saving" \/ wire[r] > 0 => result[r] \in Successors(Sent(r))

ReadInv(r) == ReadsCurrent(r) /\ ResultIsTurn(r)

\* Requests that hold their locks are alone: a session has one lock.
LEMMA HoldersAreAlone ==
    ASSUME \A p \in Requests : HoldsLock(p), NEW r \in Requests
    PROVE  Alone(r)
BY DEF HoldsLock, Alone

LEMMA ReadInit == Init => \A o \in Requests : ReadInv(o)
BY DEF Init, ReadInv, ReadsCurrent, ResultIsTurn, CanWrite, Working

LEMMA ReadStep ==
    ASSUME NEW o \in Requests, TypeInv, LockInv(o), Alone(o), ReadInv(o), [Next]_vars
    PROVE  ReadInv(o)'
<1>. USE TimingAssumption, NoneAssumption
     DEF TypeInv, TypeOK, HaveSessions, LockInv, WireWaits, Alone, CanWrite, Working,
         ReadInv, ReadsCurrent, ResultIsTurn, Sent
<1>1. ASSUME NEW r \in Requests, BadRequest(r)
      PROVE  ReadInv(o)'
  BY <1>1 DEF BadRequest, Close, Goto, handler, redis
<1>2. ASSUME NEW r \in Requests, NEW s \in Sessions,
               NEW k \in {"prompt", "answer"}, Receive(r, s, k)
      PROVE  ReadInv(o)'
  BY <1>2 DEF Receive, Goto, redis
<1>3. ASSUME NEW r \in Requests, Locked(r)
      PROVE  ReadInv(o)'
  BY <1>3 DEF Locked, TakeLock, Goto, handler
<1>4. ASSUME NEW r \in Requests, LockReplyLost(r)
      PROVE  ReadInv(o)'
  BY <1>4 DEF LockReplyLost, TakeLock, Close, Goto, handler
<1>5. ASSUME NEW r \in Requests, Busy(r)
      PROVE  ReadInv(o)'
  BY <1>5 DEF Busy, Close, Goto, handler, redis
<1>6. ASSUME NEW r \in Requests, LockFails(r)
      PROVE  ReadInv(o)'
  BY <1>6 DEF LockFails, Close, Goto, handler, redis
<1>7. ASSUME NEW r \in Requests, ReadState(r)
      PROVE  ReadInv(o)'
  BY <1>7 DEF ReadState, Respond, Goto, redis
<1>8. ASSUME NEW r \in Requests, ReadFails(r)
      PROVE  ReadInv(o)'
  BY <1>8 DEF ReadFails, Respond, Goto, handler, redis
<1>9. ASSUME NEW r \in Requests, LLMRefuses(r)
      PROVE  ReadInv(o)'
  BY <1>9 DEF LLMRefuses, Respond, Goto, handler, redis
<1>10. ASSUME NEW r \in Requests, CallTimesOut(r)
      PROVE  ReadInv(o)'
  BY <1>10 DEF CallTimesOut, Respond, Goto, handler, redis
<1>11. ASSUME NEW r \in Requests, SendSave(r)
      PROVE  ReadInv(o)'
  BY <1>11 DEF SendSave, handler, redis
<1>12. ASSUME NEW r \in Requests, SaveFails(r)
      PROVE  ReadInv(o)'
  BY <1>12 DEF SaveFails, Respond, Goto, handler, redis
<1>13. ASSUME NEW r \in Requests, Saved(r)
      PROVE  ReadInv(o)'
  BY <1>13 DEF Saved, Answer, Respond, Goto, handler
<1>14. ASSUME NEW r \in Requests, Unlock(r)
      PROVE  ReadInv(o)'
  BY <1>14 DEF Unlock, DropLock, Close, Goto, handler
<1>15. ASSUME NEW r \in Requests, UnlockFails(r)
      PROVE  ReadInv(o)'
  BY <1>15 DEF UnlockFails, Close, Goto, handler, redis
<1>16. ASSUME NEW r \in Requests, LLMReplies(r)
      PROVE  ReadInv(o)'
  BY <1>16 DEF LLMReplies, Goto, redis
<1>17. ASSUME NEW r \in Requests, CallFails(r)
      PROVE  ReadInv(o)'
  BY <1>17 DEF CallFails, Respond, Goto, handler, redis
<1>18. ASSUME NEW r \in Requests, Disconnect(r)
      PROVE  ReadInv(o)'
  BY <1>18 DEF Disconnect, handler, redis
<1>19. ASSUME NEW s \in Sessions, StateExpires(s)
      PROVE  ReadInv(o)'
  BY <1>19 DEF StateExpires, handler
<1>20. ASSUME Crash
      PROVE  ReadInv(o)'
  BY <1>20 DEF Crash, Active, handler, redis
<1>21. ASSUME Tick
      PROVE  ReadInv(o)'
  BY <1>21 DEF Tick, Down, handler
<1>22. CASE UNCHANGED vars
  BY <1>22 DEF vars
<1>. QED
  BY <1>1, <1>2, <1>3, <1>4, <1>5, <1>6, <1>7, <1>8, <1>9, <1>10, <1>11,
     <1>12, <1>13, <1>14, <1>15, <1>16, <1>17, <1>18, <1>19, <1>20, <1>21,
     <1>22 DEF Next, HandlerStep

\* The invariant of the backend.
Inv == TypeInv /\ \A r \in Requests : LockInv(r) /\ ReadInv(r)

LEMMA InvInit == Init => Inv
BY TypeInit, LockInit, ReadInit DEF Inv

LEMMA InvStep == Inv /\ [Next]_vars => Inv'
<1>. SUFFICES ASSUME Inv, [Next]_vars PROVE Inv'
  OBVIOUS
<1>1. TypeInv'
  BY TypeStep DEF Inv
<1>2. ASSUME NEW r \in Requests
      PROVE  LockInv(r)' /\ ReadInv(r)'
  <2>1. LockInv(r)'
    BY LockStep DEF Inv
  <2>2. Alone(r)
    BY HoldersAreAlone DEF Inv, LockInv
  <2>3. ReadInv(r)'
    BY <2>2, ReadStep DEF Inv
  <2>. QED
    BY <2>1, <2>3
<1>. QED
  BY <1>1, <1>2 DEF Inv

THEOREM Invariance == Spec => []Inv
BY InvInit, InvStep, PTL DEF Spec

\* The lock covers every write: LockCoversWrites is an invariant.
THEOREM LockIsHeldWhileWriting == Spec => []LockCoversWrites
<1>1. Inv => LockCoversWrites
  BY DEF Inv, LockInv, HoldsLock, LockCoversWrites
<1>. QED
  BY Invariance, <1>1, PTL

\* A request that can write has read what is stored: ReadIsCurrent is an
\* invariant.
THEOREM NoStaleRead == Spec => []ReadIsCurrent
<1>1. Inv => ReadIsCurrent
  BY DEF Inv, ReadInv, ReadsCurrent, ReadIsCurrent
<1>. QED
  BY Invariance, <1>1, PTL

LEMMA TurnStep ==
    Inv /\ [Next]_vars => [StoreTakesTurns]_vars
<1>. SUFFICES ASSUME Inv, [Next]_vars PROVE [StoreTakesTurns]_vars
  OBVIOUS
<1>. USE DEF StoreTakesTurns
<1>1. ASSUME NEW r \in Requests, BadRequest(r)
      PROVE  [StoreTakesTurns]_vars
  BY <1>1 DEF BadRequest, Close, Goto, handler, redis
<1>2. ASSUME NEW r \in Requests, NEW s \in Sessions,
               NEW k \in {"prompt", "answer"}, Receive(r, s, k)
      PROVE  [StoreTakesTurns]_vars
  BY <1>2 DEF Receive, Goto, redis
<1>3. ASSUME NEW r \in Requests, Locked(r)
      PROVE  [StoreTakesTurns]_vars
  BY <1>3 DEF Locked, TakeLock, Goto, handler
<1>4. ASSUME NEW r \in Requests, LockReplyLost(r)
      PROVE  [StoreTakesTurns]_vars
  BY <1>4 DEF LockReplyLost, TakeLock, Close, Goto, handler
<1>5. ASSUME NEW r \in Requests, Busy(r)
      PROVE  [StoreTakesTurns]_vars
  BY <1>5 DEF Busy, Close, Goto, handler, redis
<1>6. ASSUME NEW r \in Requests, LockFails(r)
      PROVE  [StoreTakesTurns]_vars
  BY <1>6 DEF LockFails, Close, Goto, handler, redis
<1>7. ASSUME NEW r \in Requests, ReadState(r)
      PROVE  [StoreTakesTurns]_vars
  BY <1>7 DEF ReadState, Respond, Goto, redis
<1>8. ASSUME NEW r \in Requests, ReadFails(r)
      PROVE  [StoreTakesTurns]_vars
  BY <1>8 DEF ReadFails, Respond, Goto, handler, redis
<1>9. ASSUME NEW r \in Requests, LLMRefuses(r)
      PROVE  [StoreTakesTurns]_vars
  BY <1>9 DEF LLMRefuses, Respond, Goto, handler, redis
<1>10. ASSUME NEW r \in Requests, CallTimesOut(r)
      PROVE  [StoreTakesTurns]_vars
  BY <1>10 DEF CallTimesOut, Respond, Goto, handler, redis
<1>11. ASSUME NEW r \in Requests, SendSave(r)
      PROVE  [StoreTakesTurns]_vars
  BY <1>11 DEF SendSave, handler, redis
<1>12. ASSUME NEW r \in Requests, SaveFails(r)
      PROVE  [StoreTakesTurns]_vars
  BY <1>12 DEF SaveFails, Respond, Goto, handler, redis
<1>13. ASSUME NEW r \in Requests, Saved(r)
      PROVE  [StoreTakesTurns]_vars
  <2>1. CanWrite(r)
    BY <1>13 DEF Saved, CanWrite
  <2>2. store[session[r]] \in {read[r], result[r], None}
    BY <1>13, <2>1 DEF Inv, LockInv, WireWaits, ReadInv, ReadsCurrent, Saved
  <2>3. result[r] \in Successors(Sent(r))
    BY <1>13 DEF Inv, ReadInv, ResultIsTurn, Saved
  <2>4. store' = [store EXCEPT ![session[r]] = result[r]]
    BY <1>13 DEF Saved
  <2>. QED
    BY <2>2, <2>3, <2>4 DEF Sent, Inv, TypeInv, TypeOK
<1>14. ASSUME NEW r \in Requests, Unlock(r)
      PROVE  [StoreTakesTurns]_vars
  BY <1>14 DEF Unlock, DropLock, Close, Goto, handler
<1>15. ASSUME NEW r \in Requests, UnlockFails(r)
      PROVE  [StoreTakesTurns]_vars
  BY <1>15 DEF UnlockFails, Close, Goto, handler, redis
<1>16. ASSUME NEW r \in Requests, LLMReplies(r)
      PROVE  [StoreTakesTurns]_vars
  BY <1>16 DEF LLMReplies, Goto, redis
<1>17. ASSUME NEW r \in Requests, CallFails(r)
      PROVE  [StoreTakesTurns]_vars
  BY <1>17 DEF CallFails, Respond, Goto, handler, redis
<1>18. ASSUME NEW r \in Requests, Disconnect(r)
      PROVE  [StoreTakesTurns]_vars
  BY <1>18 DEF Disconnect, handler, redis
<1>19. ASSUME NEW s \in Sessions, StateExpires(s)
      PROVE  [StoreTakesTurns]_vars
  BY <1>19 DEF StateExpires, handler
<1>20. ASSUME Crash
      PROVE  [StoreTakesTurns]_vars
  BY <1>20 DEF Crash, Active, handler, redis
<1>21. ASSUME Tick
      PROVE  [StoreTakesTurns]_vars
  BY <1>21 DEF Tick, Down, handler
<1>22. CASE UNCHANGED vars
  BY <1>22 DEF vars
<1>. QED
  BY <1>1, <1>2, <1>3, <1>4, <1>5, <1>6, <1>7, <1>8, <1>9, <1>10, <1>11,
     <1>12, <1>13, <1>14, <1>15, <1>16, <1>17, <1>18, <1>19, <1>20, <1>21,
     <1>22 DEF Next, HandlerStep

\* Whatever requests, failures and crashes there are, a stored session only
\* takes turns of Dialogue: SessionsFollowDialogue.
THEOREM StoredSessionsFollowDialogue == Spec => SessionsFollowDialogue
BY Invariance, TurnStep, PTL DEF Spec, SessionsFollowDialogue

LEMMA ReleaseStep == TypeInv /\ [Next]_vars => [ReleasedByOwner]_vars
<1>. SUFFICES ASSUME TypeInv, [Next]_vars PROVE [ReleasedByOwner]_vars
  OBVIOUS
<1>. USE NoneAssumption DEF TypeInv, TypeOK, HaveSessions, Steps, ReleasedByOwner
<1>1. ASSUME NEW r \in Requests, BadRequest(r)
      PROVE  [ReleasedByOwner]_vars
  BY <1>1 DEF BadRequest, Close, Goto, handler, redis
<1>2. ASSUME NEW r \in Requests, NEW s \in Sessions,
               NEW k \in {"prompt", "answer"}, Receive(r, s, k)
      PROVE  [ReleasedByOwner]_vars
  BY <1>2 DEF Receive, Goto, redis
<1>3. ASSUME NEW r \in Requests, Locked(r)
      PROVE  [ReleasedByOwner]_vars
  BY <1>3 DEF Locked, TakeLock, Goto, handler
<1>4. ASSUME NEW r \in Requests, LockReplyLost(r)
      PROVE  [ReleasedByOwner]_vars
  BY <1>4 DEF LockReplyLost, TakeLock, Close, Goto, handler
<1>5. ASSUME NEW r \in Requests, Busy(r)
      PROVE  [ReleasedByOwner]_vars
  BY <1>5 DEF Busy, Close, Goto, handler, redis
<1>6. ASSUME NEW r \in Requests, LockFails(r)
      PROVE  [ReleasedByOwner]_vars
  BY <1>6 DEF LockFails, Close, Goto, handler, redis
<1>7. ASSUME NEW r \in Requests, ReadState(r)
      PROVE  [ReleasedByOwner]_vars
  BY <1>7 DEF ReadState, Respond, Goto, redis
<1>8. ASSUME NEW r \in Requests, ReadFails(r)
      PROVE  [ReleasedByOwner]_vars
  BY <1>8 DEF ReadFails, Respond, Goto, handler, redis
<1>9. ASSUME NEW r \in Requests, LLMRefuses(r)
      PROVE  [ReleasedByOwner]_vars
  BY <1>9 DEF LLMRefuses, Respond, Goto, handler, redis
<1>10. ASSUME NEW r \in Requests, CallTimesOut(r)
      PROVE  [ReleasedByOwner]_vars
  BY <1>10 DEF CallTimesOut, Respond, Goto, handler, redis
<1>11. ASSUME NEW r \in Requests, SendSave(r)
      PROVE  [ReleasedByOwner]_vars
  BY <1>11 DEF SendSave, handler, redis
<1>12. ASSUME NEW r \in Requests, SaveFails(r)
      PROVE  [ReleasedByOwner]_vars
  BY <1>12 DEF SaveFails, Respond, Goto, handler, redis
<1>13. ASSUME NEW r \in Requests, Saved(r)
      PROVE  [ReleasedByOwner]_vars
  BY <1>13 DEF Saved, Answer, Respond, Goto, handler
<1>14. ASSUME NEW r \in Requests, Unlock(r)
      PROVE  [ReleasedByOwner]_vars
  BY <1>14 DEF Unlock, DropLock, Close, Goto, handler
<1>15. ASSUME NEW r \in Requests, UnlockFails(r)
      PROVE  [ReleasedByOwner]_vars
  BY <1>15 DEF UnlockFails, Close, Goto, handler, redis
<1>16. ASSUME NEW r \in Requests, LLMReplies(r)
      PROVE  [ReleasedByOwner]_vars
  BY <1>16 DEF LLMReplies, Goto, redis
<1>17. ASSUME NEW r \in Requests, CallFails(r)
      PROVE  [ReleasedByOwner]_vars
  BY <1>17 DEF CallFails, Respond, Goto, handler, redis
<1>18. ASSUME NEW r \in Requests, Disconnect(r)
      PROVE  [ReleasedByOwner]_vars
  BY <1>18 DEF Disconnect, handler, redis
<1>19. ASSUME NEW s \in Sessions, StateExpires(s)
      PROVE  [ReleasedByOwner]_vars
  BY <1>19 DEF StateExpires, handler
<1>20. ASSUME Crash
      PROVE  [ReleasedByOwner]_vars
  BY <1>20 DEF Crash, Active, handler, redis
<1>21. ASSUME Tick
      PROVE  [ReleasedByOwner]_vars
  BY <1>21 DEF Tick, Down, handler
<1>22. CASE UNCHANGED vars
  BY <1>22 DEF vars
<1>. QED
  BY <1>1, <1>2, <1>3, <1>4, <1>5, <1>6, <1>7, <1>8, <1>9, <1>10, <1>11,
     <1>12, <1>13, <1>14, <1>15, <1>16, <1>17, <1>18, <1>19, <1>20, <1>21,
     <1>22 DEF Next, HandlerStep

\* Nobody releases another request's lock: LocksAreReleasedByTheirOwner.
THEOREM NoForeignUnlock == Spec => LocksAreReleasedByTheirOwner
BY TypeInit, TypeStep, ReleaseStep, PTL DEF Spec, LocksAreReleasedByTheirOwner

-------------------------------------------------------------------------------
(***************************************************************************)
(* The acknowledgement.                                                    *)
(***************************************************************************)

\* A session is a continuation of itself, and a turn continues what the session
\* before it continued.
LEMMA ContinuationReflexive ==
    ASSUME NEW d \in Dialogues
    PROVE  ContinuationOf(d, d)
BY DEF Dialogues, ContinuationOf, IsPrefix

LEMMA ContinuationStep ==
    ASSUME NEW d \in Dialogues, NEW e \in Dialogues, ContinuationOf(d, e),
           NEW f \in Successors(d)
    PROVE  ContinuationOf(f, e)
<1>1. CASE d.phase \in Terminal
  BY <1>1 DEF Successors
<1>2. CASE d.phase \notin Terminal
  <2>1. e.phase \notin Terminal
    BY <1>2 DEF ContinuationOf
  <2>2. d.asked \in Seq(Questions) /\ e.asked \in Seq(Questions)
    BY DEF Dialogues
  <2>3. CASE f.asked = d.asked
    BY <2>1, <2>3 DEF ContinuationOf
  <2>4. ASSUME NEW q \in Questions, f.asked = Append(d.asked, q)
        PROVE  ContinuationOf(f, e)
    <3>1. Len(e.asked) <= Len(d.asked) /\ Len(f.asked) = Len(d.asked) + 1
      BY <2>2, <2>4 DEF ContinuationOf, IsPrefix
    <3>2. SubSeq(f.asked, 1, Len(e.asked)) = SubSeq(d.asked, 1, Len(e.asked))
      BY <2>2, <2>4, <3>1
    <3>. QED
      BY <2>1, <2>2, <3>1, <3>2 DEF ContinuationOf, IsPrefix
  <2>. QED
    BY <1>2, <2>3, <2>4 DEF Successors, Unasked
<1>. QED
  BY <1>1, <1>2

\* What has been acknowledged does not change any more.
AckInv ==
    /\ AcknowledgedIsDurable
    /\ \A r \in Requests :
          status[r] \in Acknowledgements =>
              /\ pc[r] \in {"unlocking", "closed", "dead"}
              /\ session[r] \in Sessions
              /\ result[r] \in Dialogues

LEMMA AckInit == Init => AckInv
BY NoneAssumption
   DEF Init, AckInv, AcknowledgedIsDurable, Acknowledgements, Statuses

LEMMA AckStep ==
    Inv /\ AckInv /\ [Next]_vars => AckInv'
<1>. SUFFICES ASSUME Inv, AckInv, [Next]_vars PROVE AckInv'
  OBVIOUS
<1>. USE NoneAssumption
     DEF Inv, TypeInv, TypeOK, HaveSessions, AckInv, AcknowledgedIsDurable, Acknowledgements
<1>1. ASSUME NEW r \in Requests, BadRequest(r)
      PROVE  AckInv'
  BY <1>1 DEF BadRequest, Close, Goto, handler, redis
<1>2. ASSUME NEW r \in Requests, NEW s \in Sessions,
               NEW k \in {"prompt", "answer"}, Receive(r, s, k)
      PROVE  AckInv'
  BY <1>2 DEF Receive, Goto, redis
<1>3. ASSUME NEW r \in Requests, Locked(r)
      PROVE  AckInv'
  BY <1>3 DEF Locked, TakeLock, Goto, handler
<1>4. ASSUME NEW r \in Requests, LockReplyLost(r)
      PROVE  AckInv'
  BY <1>4 DEF LockReplyLost, TakeLock, Close, Goto, handler
<1>5. ASSUME NEW r \in Requests, Busy(r)
      PROVE  AckInv'
  BY <1>5 DEF Busy, Close, Goto, handler, redis
<1>6. ASSUME NEW r \in Requests, LockFails(r)
      PROVE  AckInv'
  BY <1>6 DEF LockFails, Close, Goto, handler, redis
<1>7. ASSUME NEW r \in Requests, ReadState(r)
      PROVE  AckInv'
  BY <1>7 DEF ReadState, Respond, Goto, redis
<1>8. ASSUME NEW r \in Requests, ReadFails(r)
      PROVE  AckInv'
  BY <1>8 DEF ReadFails, Respond, Goto, handler, redis
<1>9. ASSUME NEW r \in Requests, LLMRefuses(r)
      PROVE  AckInv'
  BY <1>9 DEF LLMRefuses, Respond, Goto, handler, redis
<1>10. ASSUME NEW r \in Requests, CallTimesOut(r)
      PROVE  AckInv'
  BY <1>10 DEF CallTimesOut, Respond, Goto, handler, redis
<1>11. ASSUME NEW r \in Requests, SendSave(r)
      PROVE  AckInv'
  BY <1>11 DEF SendSave, handler, redis
<1>12. ASSUME NEW r \in Requests, SaveFails(r)
      PROVE  AckInv'
  BY <1>12 DEF SaveFails, Respond, Goto, handler, redis
<1>13. ASSUME NEW r \in Requests, Saved(r)
      PROVE  AckInv'
  <2>1. store[session[r]] \in {read[r], result[r], None}
    BY <1>13 DEF LockInv, WireWaits, ReadInv, ReadsCurrent, CanWrite, Saved
  <2>2. session[r] \in Sessions /\ result[r] \in Dialogues
    BY <1>13, SentType, SuccessorsType DEF ReadInv, ResultIsTurn, Saved
  <2>3. store' = [store EXCEPT ![session[r]] = result[r]] /\ UNCHANGED handler
    BY <1>13 DEF Saved
  <2>4. ASSUME NEW p \in Requests, status[p] \in Acknowledgements,
               session[p] \notin expired
        PROVE  ContinuationOf(store'[session[p]], result[p])
    <3>1. CASE session[p] # session[r]
      BY <2>2, <2>3, <2>4, <3>1
    <3>2. CASE session[p] = session[r] /\ store[session[r]] = result[r]
      BY <2>2, <2>3, <2>4, <3>2
    <3>3. CASE session[p] = session[r] /\ store[session[r]] = read[r]
      <4>1. read[r] # None /\ read[r] \in Dialogues
        BY <2>4, <3>3
      <4>2. result[r] \in Successors(read[r])
        BY <1>13, <4>1 DEF ReadInv, ResultIsTurn, Sent, Saved
      <4>3. ContinuationOf(read[r], result[p]) /\ result[p] \in Dialogues
        BY <2>4, <3>3
      <4>4. ContinuationOf(result[r], result[p])
        BY <4>1, <4>2, <4>3, ContinuationStep
      <4>. QED
        BY <2>2, <2>3, <3>3, <4>4
    <3>. QED
      BY <2>1, <2>4, <3>1, <3>2, <3>3
  <2>5. ContinuationOf(result[r], result[r])
    BY <2>2, ContinuationReflexive
  <2>6. \A p \in Requests \ {r} : status'[p] = status[p] /\ pc'[p] = pc[p]
    BY <1>13 DEF Saved, Answer, Respond, Goto
  <2>7. \/ UNCHANGED <<pc, status>>
        \/ pc'[r] = "unlocking"
    BY <1>13 DEF Saved, Answer, Respond, Goto
  <2>. QED
    BY <1>13, <2>2, <2>3, <2>4, <2>5, <2>6, <2>7 DEF Saved, handler
<1>14. ASSUME NEW r \in Requests, Unlock(r)
      PROVE  AckInv'
  BY <1>14 DEF Unlock, DropLock, Close, Goto, handler
<1>15. ASSUME NEW r \in Requests, UnlockFails(r)
      PROVE  AckInv'
  BY <1>15 DEF UnlockFails, Close, Goto, handler, redis
<1>16. ASSUME NEW r \in Requests, LLMReplies(r)
      PROVE  AckInv'
  BY <1>16 DEF LLMReplies, Goto, redis
<1>17. ASSUME NEW r \in Requests, CallFails(r)
      PROVE  AckInv'
  BY <1>17 DEF CallFails, Respond, Goto, handler, redis
<1>18. ASSUME NEW r \in Requests, Disconnect(r)
      PROVE  AckInv'
  BY <1>18 DEF Disconnect, handler, redis
<1>19. ASSUME NEW s \in Sessions, StateExpires(s)
      PROVE  AckInv'
  BY <1>19 DEF StateExpires, handler
<1>20. ASSUME Crash
      PROVE  AckInv'
  BY <1>20 DEF Crash, Active, handler, redis
<1>21. ASSUME Tick
      PROVE  AckInv'
  BY <1>21 DEF Tick, Down, handler
<1>22. CASE UNCHANGED vars
  BY <1>22 DEF vars
<1>. QED
  BY <1>1, <1>2, <1>3, <1>4, <1>5, <1>6, <1>7, <1>8, <1>9, <1>10, <1>11,
     <1>12, <1>13, <1>14, <1>15, <1>16, <1>17, <1>18, <1>19, <1>20, <1>21,
     <1>22 DEF Next, HandlerStep

\* A result that was handed out is stored and only continued:
\* AcknowledgedIsDurable is an invariant.
THEOREM AcknowledgementsLast == Spec => []AcknowledgedIsDurable
<1>1. AckInv => AcknowledgedIsDurable
  BY DEF AckInv
<1>. QED
  BY Invariance, AckInit, AckStep, <1>1, PTL DEF Spec
===============================================================================
