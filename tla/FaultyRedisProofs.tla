--------------------------- MODULE FaultyRedisProofs ---------------------------
(***************************************************************************)
(* Proofs about FaultyRedis, for any number of requests, sessions and      *)
(* restarts.  The lemmas of SessionBackendProofs about a single request    *)
(* hold of every step of the backend, also beside requests that have lost  *)
(* their locks; what is left to show is that the faults themselves disturb *)
(* nobody else.                                                            *)
(***************************************************************************)
EXTENDS FaultyRedis, SessionBackendProofs

-------------------------------------------------------------------------------
(***************************************************************************)
(* Types.                                                                  *)
(***************************************************************************)

FaultyTypeInv ==
    /\ TypeInv
    /\ restarts \in 0..MaxRestarts
    /\ disturbed \subseteq Requests

\* A snapshot holds sessions.
LEMMA EarlierType ==
    ASSUME NEW d \in Dialogues \union {None}
    PROVE  Earlier(d) \subseteq Dialogues \union {None}
<1>1. CASE d = None
  BY <1>1 DEF Earlier
<1>2. CASE d \in Dialogues
  <2>1. d.asked \in Seq(Questions)
    BY <1>2 DEF Dialogues
  <2>2. ASSUME NEW n \in 1..Len(d.asked)
        PROVE  SubSeq(d.asked, 1, n) \in Seq(Questions)
    BY <2>1
  <2>3. "clarification_needed" \in Phases
    BY DEF Phases
  <2>. QED
    BY <1>2, <2>2, <2>3 DEF Earlier, Dialogues
<1>. QED
  BY <1>1, <1>2

LEMMA FaultyTypeInit == FaultyInit => FaultyTypeInv
BY TypeInit, MaxRestartsAssumption DEF FaultyInit, FaultyTypeInv

LEMMA FaultyTypeStep == FaultyTypeInv /\ [FaultyNext]_faultyVars => FaultyTypeInv'
<1>. SUFFICES ASSUME FaultyTypeInv, [FaultyNext]_faultyVars PROVE FaultyTypeInv'
  OBVIOUS
<1>1. CASE Ordinary
  <2>1. TypeInv'
    BY <1>1, TypeStep DEF Ordinary, FaultyTypeInv
  <2>. QED
    BY <1>1, <2>1 DEF Ordinary, FaultyTypeInv
<1>2. CASE Restart
  <2>1. store' \in [Sessions -> Dialogues \union {None}]
    <3>1. ASSUME NEW s \in Sessions
          PROVE  Earlier(store[s]) \subseteq Dialogues \union {None}
      BY EarlierType DEF FaultyTypeInv, TypeInv, TypeOK
    <3>. QED
      BY <1>2, <3>1 DEF Restart
  <2>2. lockOwner' \in [Sessions -> Requests \union {None}]
    BY <1>2 DEF Restart
  <2>3. lockTTL' \in [Sessions -> 0..LockTTL]
    BY <1>2 DEF Restart
  <2>4. wire' = [r \in Requests |-> 0] /\ 0 \in 0..RedisWindow
    BY <1>2, TimingAssumption DEF Restart
  <2>5. UNCHANGED <<pc, session, kind, read, result, deadline, status>>
    BY <1>2 DEF Restart, handler
  <2>6. restarts' \in 0..MaxRestarts /\ disturbed' \subseteq Requests
    BY <1>2, MaxRestartsAssumption DEF Restart, FaultyTypeInv
  <2>7. wire' \in [Requests -> 0..RedisWindow]
    BY <2>4
  <2>8. expired' = expired
    BY <1>2 DEF Restart
  <2>9. TypeOK'
    BY <2>1, <2>2, <2>3, <2>4, <2>5, <2>7, <2>8 DEF FaultyTypeInv, TypeInv, TypeOK
  <2>10. HaveSessions'
    BY <2>4, <2>5 DEF FaultyTypeInv, TypeInv, HaveSessions
  <2>. QED
    BY <2>6, <2>9, <2>10 DEF FaultyTypeInv, TypeInv
<1>3. ASSUME NEW r \in Requests, SaveAbandoned(r)
      PROVE  FaultyTypeInv'
  BY <1>3, NoneAssumption
     DEF SaveAbandoned, Respond, Goto, handler, redis, FaultyTypeInv, TypeInv, TypeOK,
         HaveSessions, Steps, Statuses
<1>4. CASE UNCHANGED faultyVars
  BY <1>4 DEF faultyVars, vars, FaultyTypeInv, TypeInv, TypeOK, HaveSessions
<1>. QED
  BY <1>1, <1>2, <1>3, <1>4 DEF FaultyNext

\* FaultyTypeOK is an invariant.
THEOREM FaultyTypeCorrect == FaultySpec => []FaultyTypeOK
<1>1. FaultyTypeInv => FaultyTypeOK
  BY DEF FaultyTypeInv, FaultyTypeOK, TypeInv
<1>. QED
  BY FaultyTypeInit, FaultyTypeStep, <1>1, PTL DEF FaultySpec

-------------------------------------------------------------------------------
(***************************************************************************)
(* Undisturbed requests.                                                   *)
(***************************************************************************)

\* An undisturbed request keeps its lock, and nobody else can write the session,
\* disturbed or not, while the request works with what it has read.
Undisturbed(r) == LockInv(r) /\ Alone(r) /\ ReadInv(r)

FaultyInv ==
    /\ FaultyTypeInv
    /\ \A r \in Requests \ disturbed : Undisturbed(r)

LEMMA FaultyInvInit == FaultyInit => FaultyInv
<1>. SUFFICES ASSUME FaultyInit PROVE FaultyInv
  OBVIOUS
<1>1. Init
  BY DEF FaultyInit
<1>2. \A r \in Requests : LockInv(r) /\ ReadInv(r)
  BY <1>1, LockInit, ReadInit
<1>3. \A r \in Requests : Alone(r)
  BY <1>2, HoldersAreAlone DEF LockInv
<1>. QED
  BY <1>2, <1>3, FaultyTypeInit DEF FaultyInv, Undisturbed

\* Any step: who can write after it took the lock or could write before, and who
\* works after it with what it has read did so before or has just read.
GoesOnWriting(p) ==
    /\ session'[p] = session[p]
    /\ CanWrite(p) \/ Locked(p)
    /\ WireWaits(p) /\ pc'[p] # "reading" =>
           CanWrite(p) /\ (pc[p] = "reading" => pc'[p] = "calling")

LEMMA WriterStep ==
    ASSUME TypeInv, [Next]_vars, NEW p \in Requests, CanWrite(p)'
    PROVE  GoesOnWriting(p)
<1>. USE TimingAssumption
     DEF TypeInv, TypeOK, HaveSessions, CanWrite, Working, WireWaits, GoesOnWriting
<1>1. ASSUME NEW r \in Requests, BadRequest(r)
      PROVE  GoesOnWriting(p)
  BY <1>1 DEF BadRequest, Close, Goto, handler, redis
<1>2. ASSUME NEW r \in Requests, NEW s \in Sessions,
               NEW k \in {"prompt", "answer"}, Receive(r, s, k)
      PROVE  GoesOnWriting(p)
  BY <1>2 DEF Receive, Goto, redis
<1>3. ASSUME NEW r \in Requests, Locked(r)
      PROVE  GoesOnWriting(p)
  BY <1>3 DEF Locked, TakeLock, Goto, handler
<1>4. ASSUME NEW r \in Requests, LockReplyLost(r)
      PROVE  GoesOnWriting(p)
  BY <1>4 DEF LockReplyLost, TakeLock, Close, Goto, handler
<1>5. ASSUME NEW r \in Requests, Busy(r)
      PROVE  GoesOnWriting(p)
  BY <1>5 DEF Busy, Close, Goto, handler, redis
<1>6. ASSUME NEW r \in Requests, LockFails(r)
      PROVE  GoesOnWriting(p)
  BY <1>6 DEF LockFails, Close, Goto, handler, redis
<1>7. ASSUME NEW r \in Requests, ReadState(r)
      PROVE  GoesOnWriting(p)
  BY <1>7 DEF ReadState, Respond, Goto, redis
<1>8. ASSUME NEW r \in Requests, ReadFails(r)
      PROVE  GoesOnWriting(p)
  BY <1>8 DEF ReadFails, Respond, Goto, handler, redis
<1>9. ASSUME NEW r \in Requests, LLMRefuses(r)
      PROVE  GoesOnWriting(p)
  BY <1>9 DEF LLMRefuses, Respond, Goto, handler, redis
<1>10. ASSUME NEW r \in Requests, CallTimesOut(r)
      PROVE  GoesOnWriting(p)
  BY <1>10 DEF CallTimesOut, Respond, Goto, handler, redis
<1>11. ASSUME NEW r \in Requests, SendSave(r)
      PROVE  GoesOnWriting(p)
  BY <1>11 DEF SendSave, handler, redis
<1>12. ASSUME NEW r \in Requests, SaveFails(r)
      PROVE  GoesOnWriting(p)
  BY <1>12 DEF SaveFails, Respond, Goto, handler, redis
<1>13. ASSUME NEW r \in Requests, Saved(r)
      PROVE  GoesOnWriting(p)
  BY <1>13 DEF Saved, Answer, Respond, Goto, handler
<1>14. ASSUME NEW r \in Requests, Unlock(r)
      PROVE  GoesOnWriting(p)
  BY <1>14 DEF Unlock, DropLock, Close, Goto, handler
<1>15. ASSUME NEW r \in Requests, UnlockFails(r)
      PROVE  GoesOnWriting(p)
  BY <1>15 DEF UnlockFails, Close, Goto, handler, redis
<1>16. ASSUME NEW r \in Requests, LLMReplies(r)
      PROVE  GoesOnWriting(p)
  BY <1>16 DEF LLMReplies, Goto, redis
<1>17. ASSUME NEW r \in Requests, CallFails(r)
      PROVE  GoesOnWriting(p)
  BY <1>17 DEF CallFails, Respond, Goto, handler, redis
<1>18. ASSUME NEW r \in Requests, Disconnect(r)
      PROVE  GoesOnWriting(p)
  BY <1>18 DEF Disconnect, handler, redis
<1>19. ASSUME NEW s \in Sessions, StateExpires(s)
      PROVE  GoesOnWriting(p)
  BY <1>19 DEF StateExpires, handler
<1>20. CASE Crash
  BY <1>20 DEF Crash, Active, handler, redis
<1>21. CASE Tick
  BY <1>21 DEF Tick, Down, handler
<1>22. CASE UNCHANGED vars
  BY <1>22 DEF vars
<1>. QED
  BY <1>1, <1>2, <1>3, <1>4, <1>5, <1>6, <1>7, <1>8, <1>9, <1>10, <1>11,
     <1>12, <1>13, <1>14, <1>15, <1>16, <1>17, <1>18, <1>19, <1>20, <1>21,
     <1>22 DEF Next, HandlerStep

\* A step of the backend leaves an undisturbed request alone with its session,
\* unless the step disturbs it.
LEMMA AloneStep ==
    ASSUME FaultyInv, Ordinary, NEW o \in Requests \ disturbed'
    PROVE  Alone(o)'
<1>. SUFFICES ASSUME CanWrite(o)', pc'[o] # "reading",
                     NEW p \in Requests \ {o}, session'[p] = session'[o], CanWrite(p)'
              PROVE  FALSE
  BY DEF Alone
<1>1. TypeInv /\ [Next]_vars
  BY DEF FaultyInv, FaultyTypeInv, Ordinary
<1>2. o \notin disturbed /\ o \in Requests /\ p \in Requests
  BY DEF Ordinary
<1>3. LockInv(o) /\ Alone(o)
  BY <1>2 DEF FaultyInv, Undisturbed
<1>4. CanWrite(o) /\ (pc[o] = "reading" => pc'[o] = "calling")
  BY <1>1, <1>2, <1>3, WriterStep DEF GoesOnWriting, LockInv
<1>5. session[p] = session[o] /\ (CanWrite(p) \/ Locked(p))
  BY <1>1, <1>2, WriterStep DEF GoesOnWriting
<1>6. lockOwner[session[o]] = o
  BY <1>3, <1>4 DEF LockInv, HoldsLock
<1>7. CASE Locked(p)
  BY <1>2, <1>5, <1>6, <1>7, NoneAssumption DEF Locked
<1>8. CASE CanWrite(p) /\ pc[o] # "reading"
  BY <1>3, <1>4, <1>5, <1>8 DEF Alone
<1>9. CASE CanWrite(p) /\ pc[o] = "reading" /\ p \in disturbed
  BY <1>2, <1>4, <1>5, <1>9 DEF Ordinary, ReadsBesideWriter
<1>10. CASE CanWrite(p) /\ p \notin disturbed
  BY <1>2, <1>5, <1>6, <1>10 DEF FaultyInv, Undisturbed, LockInv, HoldsLock
<1>. QED
  BY <1>5, <1>7, <1>8, <1>9, <1>10

LEMMA FaultyInvStep == FaultyInv /\ [FaultyNext]_faultyVars => FaultyInv'
<1>. SUFFICES ASSUME FaultyInv, [FaultyNext]_faultyVars PROVE FaultyInv'
  OBVIOUS
<1>1. FaultyTypeInv'
  BY FaultyTypeStep DEF FaultyInv
<1>. SUFFICES ASSUME NEW o \in Requests, o \notin disturbed' PROVE Undisturbed(o)'
  BY <1>1 DEF FaultyInv
<1>2. CASE Ordinary
  <2>1. TypeInv /\ [Next]_vars /\ o \notin disturbed
    BY <1>2 DEF FaultyInv, FaultyTypeInv, Ordinary
  <2>2. LockInv(o) /\ Alone(o) /\ ReadInv(o)
    BY <2>1 DEF FaultyInv, Undisturbed
  <2>. QED
    BY <1>2, <2>1, <2>2, LockStep, ReadStep, AloneStep DEF Undisturbed
<1>3. CASE Restart
  <2>1. o \notin disturbed /\ ~ Working(o)
    BY <1>3 DEF Restart
  <2>2. wire'[o] = 0 /\ UNCHANGED <<pc, session, kind, read, result>>
    BY <1>3 DEF Restart, handler
  <2>3. ReadInv(o)
    BY <2>1 DEF FaultyInv, Undisturbed
  <2>. QED
    BY <2>1, <2>2, <2>3
       DEF Undisturbed, LockInv, WireWaits, HoldsLock, ClocksFit, Alone, ReadInv,
           ReadsCurrent, ResultIsTurn, Sent, CanWrite, Working
<1>4. ASSUME NEW r \in Requests, SaveAbandoned(r)
      PROVE  Undisturbed(o)'
  <2>1. o # r /\ o \notin disturbed
    BY <1>4 DEF SaveAbandoned
  <2>2. pc' = [pc EXCEPT ![r] = "unlocking"] /\ wire[r] > 0
    BY <1>4 DEF SaveAbandoned, Respond, Goto
  <2>3. UNCHANGED <<session, kind, read, result, deadline, wire, lockOwner, lockTTL,
                    store>>
    BY <1>4 DEF SaveAbandoned, handler, redis
  <2>4. pc'[o] = pc[o] /\ \A p \in Requests : CanWrite(p)' => CanWrite(p)
    BY <2>1, <2>2, <2>3 DEF CanWrite, Working, FaultyInv, FaultyTypeInv, TypeInv, TypeOK
  <2>5. LockInv(o) /\ Alone(o) /\ ReadInv(o)
    BY <2>1 DEF FaultyInv, Undisturbed
  <2>. QED
    BY <2>3, <2>4, <2>5
       DEF Undisturbed, LockInv, WireWaits, HoldsLock, ClocksFit, Alone, ReadInv,
           ReadsCurrent, ResultIsTurn, Sent, CanWrite, Working
<1>5. CASE UNCHANGED faultyVars
  <2>1. TypeInv /\ [Next]_vars /\ UNCHANGED <<vars, disturbed>>
    BY <1>5 DEF FaultyInv, FaultyTypeInv, faultyVars
  <2>2. LockInv(o) /\ Alone(o) /\ ReadInv(o)
    BY <2>1 DEF FaultyInv, Undisturbed
  <2>3. Alone(o)'
    BY <2>1, <2>2 DEF vars, Alone, CanWrite, Working
  <2>. QED
    BY <2>1, <2>2, <2>3, LockStep, ReadStep DEF Undisturbed
<1>. QED
  BY <1>2, <1>3, <1>4, <1>5 DEF FaultyNext

THEOREM FaultyInvariance == FaultySpec => []FaultyInv
BY FaultyInvInit, FaultyInvStep, PTL DEF FaultySpec

\* Whatever a restart of Redis loses or brings back, and whoever is still about to
\* write, a request that is not disturbed holds its lock as long as it can write.
THEOREM UndisturbedKeepTheirLock == FaultySpec => []UndisturbedHoldTheirLock
<1>1. FaultyInv => UndisturbedHoldTheirLock
  BY DEF FaultyInv, Undisturbed, LockInv, HoldsLock, UndisturbedHoldTheirLock
<1>. QED
  BY FaultyInvariance, <1>1, PTL

\* ... and what it has read is what is stored.
THEOREM UndisturbedDoNotReadStale == FaultySpec => []UndisturbedReadsAreCurrent
<1>1. FaultyInv => UndisturbedReadsAreCurrent
  BY DEF FaultyInv, Undisturbed, ReadInv, ReadsCurrent, UndisturbedReadsAreCurrent
<1>. QED
  BY FaultyInvariance, <1>1, PTL

\* ... and what it writes is one turn after what is stored.
THEOREM UndisturbedTakeTurns == FaultySpec => []UndisturbedWritesAreTurns
<1>1. FaultyInv => UndisturbedWritesAreTurns
  <2>. SUFFICES ASSUME FaultyInv, NEW r \in Requests \ disturbed, wire[r] > 0,
                       store[session[r]] # None
                PROVE  result[r] \in Successors(store[session[r]])
                                     \union {store[session[r]]}
    BY DEF UndisturbedWritesAreTurns
  <2>1. LockInv(r) /\ ReadInv(r)
    BY DEF FaultyInv, Undisturbed
  <2>2. store[session[r]] \in {read[r], result[r], None}
    BY <2>1 DEF LockInv, WireWaits, ReadInv, ReadsCurrent, CanWrite
  <2>3. result[r] \in Successors(Sent(r))
    BY <2>1 DEF ReadInv, ResultIsTurn
  <2>. QED
    BY <2>2, <2>3 DEF Sent
<1>. QED
  BY FaultyInvariance, <1>1, PTL
===============================================================================
