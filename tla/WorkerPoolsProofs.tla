--------------------------- MODULE WorkerPoolsProofs ---------------------------
(***************************************************************************)
(* Proofs about WorkerPools, for any number of runs, attempts and workers  *)
(* and any limits that satisfy PoolsAssumption.                            *)
(***************************************************************************)
EXTENDS WorkerPools, FiniteSetTheorems, TLAPS

-------------------------------------------------------------------------------
(***************************************************************************)
(* Queues.                                                                 *)
(***************************************************************************)

\* No element is in the queue q twice.
Distinct(q) == \A i, j \in 1..Len(q) : q[i] = q[j] => i = j

\* What the head of a queue leaves behind.
LEMMA Taken ==
    ASSUME NEW S, NEW q \in Seq(S), q # <<>>, Distinct(q)
    PROVE  /\ Head(q) \in S
           /\ \E i \in 1..Len(q) : q[i] = Head(q)
           /\ Tail(q) \in Seq(S)
           /\ Distinct(Tail(q))
           /\ \A i \in 1..Len(Tail(q)) :
                Tail(q)[i] # Head(q) /\ \E j \in 1..Len(q) : Tail(q)[i] = q[j]
<1>1. Len(q) \in Nat \ {0} /\ Head(q) = q[1] /\ 1 \in 1..Len(q)
  OBVIOUS
<1>2. Len(Tail(q)) = Len(q) - 1 /\ Tail(q) \in Seq(S)
  OBVIOUS
<1>3. \A i \in 1..Len(Tail(q)) : Tail(q)[i] = q[i + 1] /\ i + 1 \in 1..Len(q)
  BY <1>1, <1>2
<1>4. Distinct(Tail(q))
  BY <1>1, <1>2, <1>3 DEF Distinct
<1>5. \A i \in 1..Len(Tail(q)) : Tail(q)[i] # Head(q)
  BY <1>1, <1>2, <1>3 DEF Distinct
<1>. QED
  BY <1>1, <1>2, <1>3, <1>4, <1>5

\* What a queue becomes when an element joins it that is not in it.
LEMMA Joined ==
    ASSUME NEW S, NEW q \in Seq(S), NEW e \in S, Distinct(q),
           \A i \in 1..Len(q) : q[i] # e
    PROVE  /\ Append(q, e) \in Seq(S)
           /\ Distinct(Append(q, e))
           /\ \A i \in 1..Len(Append(q, e)) :
                Append(q, e)[i] = e \/ \E j \in 1..Len(q) : Append(q, e)[i] = q[j]
<1>1. Append(q, e) \in Seq(S) /\ Len(Append(q, e)) = Len(q) + 1 /\ Len(q) \in Nat
  OBVIOUS
<1>2. \A i \in 1..Len(q) : Append(q, e)[i] = q[i]
  OBVIOUS
<1>3. Append(q, e)[Len(q) + 1] = e
  OBVIOUS
<1>4. \A i \in 1..Len(Append(q, e)) : i \in 1..Len(q) \/ i = Len(q) + 1
  BY <1>1
<1>5. Distinct(Append(q, e))
  BY <1>1, <1>2, <1>3, <1>4 DEF Distinct
<1>. QED
  BY <1>1, <1>2, <1>3, <1>4, <1>5

-------------------------------------------------------------------------------
(***************************************************************************)
(* The inductive invariant.                                                *)
(***************************************************************************)

\* The queues hold what waits for a worker, once.
Queues ==
    /\ Distinct(llmQueue)
    /\ Distinct(callQueue)
    /\ \A i \in 1..Len(llmQueue) : run[llmQueue[i]] = "queued"
    /\ \A i \in 1..Len(callQueue) : call[callQueue[i]] = "queued"

\* A run that generates a script has an attempt left, one that waits for a verdict has
\* made a call, and a call that was not made is unknown to the validator.
Attempted ==
    /\ \A r \in Runs :
         /\ run[r] \in {"idle", "queued"} => attempt[r] = 0
         /\ run[r] = "thinking" => attempt[r] < Attempts
         /\ run[r] = "validating" => attempt[r] > 0
    /\ \A c \in Calls : c[2] > attempt[c[1]] => call[c] = "none"

\* Where a call is tells what there is of it.
Files ==
    \A c \in Calls :
        /\ c \in process <=> call[c] = "running"
        /\ call[c] \in {"none", "queued", "writing"} => file[c] = "none"
        /\ file[c] = "open" => c \in mishap
        /\ call[c] = "over" /\ file[c] # "none" => c \in mishap

Inv == TypeOK /\ Queues /\ Attempted /\ Files

LEMMA InvInit == Init => Inv
BY PoolsAssumption DEF Init, Inv, TypeOK, Queues, Attempted, Files, Distinct, Calls

\* The LLM service's own steps.
LEMMA LlmStep ==
    ASSUME Inv, NEW r \in Runs,
           Ask(r) \/ GiveUp(r) \/ EndsEarly(r) \/ CheckerRefuses(r)
             \/ Verdict(r) \/ RpcTimesOut(r)
    PROVE  Inv'
<1>. USE PoolsAssumption DEF Inv, TypeOK, validator, history
<1>1. ASSUME Ask(r)
      PROVE  Inv'
  <2>1. \A i \in 1..Len(llmQueue) : llmQueue[i] # r
    BY <1>1 DEF Ask, Queues
  <2>2. /\ llmQueue' \in Seq(Runs) /\ Distinct(llmQueue')
        /\ \A i \in 1..Len(llmQueue') :
             llmQueue'[i] = r \/ \E j \in 1..Len(llmQueue) : llmQueue'[i] = llmQueue[j]
    <3>1. llmQueue \in Seq(Runs) /\ Distinct(llmQueue)
      BY DEF Queues
    <3>2. llmQueue' = Append(llmQueue, r)
      BY <1>1 DEF Ask
    <3>. QED
      BY ONLY <2>1, <3>1, <3>2, r \in Runs, Joined
  <2>3. TypeOK'
    BY <1>1, <2>2 DEF Ask
  <2>4. Queues'
    <3>1. callQueue' = callQueue /\ call' = call /\ run'[r] = "queued"
      BY <1>1 DEF Ask
    <3>2. \A s \in Runs : run[s] = "queued" => run'[s] = "queued"
      BY <1>1 DEF Ask
    <3>3. /\ \A j \in 1..Len(llmQueue) : llmQueue[j] \in Runs /\ run[llmQueue[j]] = "queued"
          /\ \A j \in 1..Len(callQueue) : call[callQueue[j]] = "queued"
          /\ Distinct(callQueue)
      BY DEF Queues
    <3>. QED
      BY ONLY <2>2, <3>1, <3>2, <3>3 DEF Queues
  <2>5. Attempted' /\ Files'
    BY <1>1 DEF Ask, Attempted, Files
  <2>. QED
    BY <2>3, <2>4, <2>5
<1>2. ASSUME GiveUp(r)
      PROVE  Inv'
  BY <1>2 DEF GiveUp, Queues, Attempted, Files
<1>3. ASSUME EndsEarly(r)
      PROVE  Inv'
  <2>1. TypeOK' /\ Attempted' /\ Files'
    BY <1>3 DEF EndsEarly, End, Attempted, Files
  <2>2. Queues'
    BY <1>3 DEF EndsEarly, End, Queues
  <2>. QED
    BY <2>1, <2>2
<1>4. ASSUME CheckerRefuses(r)
      PROVE  Inv'
  <2>1. TypeOK' /\ Queues' /\ Files'
    BY <1>4 DEF CheckerRefuses, Queues, Files
  <2>2. Attempted'
    <3>1. \A s \in Runs : attempt'[s] = IF s = r THEN attempt[r] + 1 ELSE attempt[s]
      BY <1>4 DEF CheckerRefuses
    <3>2. \A d \in Calls : d[2] > attempt'[d[1]] => d[2] > attempt[d[1]]
      <4>1. \A s \in Runs : /\ attempt[s] \in Nat /\ attempt'[s] \in Nat
                             /\ attempt[s] <= attempt'[s]
        <5>1. \A s \in Runs : attempt[s] \in 0..Attempts
          OBVIOUS
        <5>. QED
          BY ONLY <3>1, <5>1, r \in Runs, PoolsAssumption
      <4>2. \A d \in Calls : d[1] \in Runs /\ d[2] \in Nat
        BY DEF Calls
      <4>. QED
        BY ONLY <4>1, <4>2
    <3>3. run' = run /\ call' = call /\ run[r] = "thinking" /\ attempt[r] < Attempts - 1
      BY <1>4 DEF CheckerRefuses
    <3>. QED
      BY <3>1, <3>2, <3>3 DEF Attempted
  <2>. QED
    BY <2>1, <2>2
<1>5. ASSUME run[r] = "validating", AfterValidate(r),
             UNCHANGED <<validator, restarts, history>>
      PROVE  Inv'
  <2>1. TypeOK' /\ Attempted' /\ Files'
    BY <1>5 DEF AfterValidate, End, Attempted, Files
  <2>2. Queues'
    BY <1>5 DEF AfterValidate, End, Queues
  <2>. QED
    BY <2>1, <2>2
<1>. QED
  BY <1>1, <1>2, <1>3, <1>4, <1>5 DEF Verdict, RpcTimesOut

\* A run joins the validator's queue.
LEMMA ValidateStep ==
    ASSUME Inv, NEW r \in Runs, Validate(r)
    PROVE  Inv'
<1>. USE PoolsAssumption DEF Inv, TypeOK
<1>1. PICK c \in Calls : c = <<r, attempt[r] + 1>> /\ c[1] = r /\ c[2] = attempt[r] + 1
  <2>1. attempt[r] + 1 \in 1..Attempts
    BY DEF Validate, Attempted
  <2>2. <<r, attempt[r] + 1>> \in Calls
    BY ONLY <2>1, r \in Runs DEF Calls
  <2>. QED
    BY ONLY <2>2
<1>2. call[c] = "none"
  BY <1>1 DEF Attempted
<1>3. \A i \in 1..Len(callQueue) : callQueue[i] # c
  BY <1>2 DEF Queues
<1>4. /\ callQueue' \in Seq(Calls) /\ Distinct(callQueue')
      /\ \A i \in 1..Len(callQueue') :
           callQueue'[i] = c \/ \E j \in 1..Len(callQueue) : callQueue'[i] = callQueue[j]
  <2>1. callQueue \in Seq(Calls) /\ Distinct(callQueue)
    BY DEF Queues
  <2>2. callQueue' = Append(callQueue, c)
    BY <1>1 DEF Validate
  <2>3. c \in Calls
    BY <1>1
  <2>. QED
    BY ONLY <1>3, <2>1, <2>2, <2>3, Joined
<1>5. TypeOK'
  <2>1. attempt' \in [Runs -> 0..Attempts]
    BY DEF Validate, Attempted
  <2>2. crowded' \subseteq Calls
    BY <1>1 DEF Validate
  <2>3. /\ run' \in [Runs -> {"idle", "queued", "thinking", "validating", "ended"}]
        /\ age' \in [Runs -> 0..RpcTimeout]
    BY DEF Validate
  <2>4. call' \in [Calls -> {"none", "queued", "writing", "starting", "running",
                             "cleanup", "over"}]
    BY <1>1 DEF Validate
  <2>. QED
    BY <1>4, <2>1, <2>2, <2>3, <2>4 DEF Validate
<1>6. Queues'
  <2>1. llmQueue' = llmQueue /\ call'[c] = "queued"
    BY <1>1 DEF Validate
  <2>2. \A d \in Calls : call[d] = "queued" => call'[d] = "queued"
    BY <1>1 DEF Validate
  <2>3. \A s \in Runs : run[s] = "queued" => run'[s] = "queued"
    BY DEF Validate
  <2>4. /\ \A j \in 1..Len(llmQueue) : run[llmQueue[j]] = "queued"
        /\ \A j \in 1..Len(callQueue) : call[callQueue[j]] = "queued"
        /\ Distinct(llmQueue)
    BY DEF Queues
  <2>5. /\ \A j \in 1..Len(llmQueue) : llmQueue[j] \in Runs
        /\ \A j \in 1..Len(callQueue) : callQueue[j] \in Calls
    OBVIOUS
  <2>. QED
    BY ONLY <1>4, <2>1, <2>2, <2>3, <2>4, <2>5 DEF Queues
<1>7. Attempted'
  <2>1. \A s \in Runs : attempt'[s] = IF s = r THEN attempt[r] + 1 ELSE attempt[s]
    BY DEF Validate
  <2>2. \A d \in Calls : d # c => call'[d] = call[d]
    BY <1>1 DEF Validate
  <2>3. \A d \in Calls : d[2] > attempt'[d[1]] => d # c /\ d[2] > attempt[d[1]]
    BY <1>1, <2>1 DEF Calls
  <2>4. \A s \in Runs : run'[s] = IF s = r THEN "validating" ELSE run[s]
    BY DEF Validate
  <2>. QED
    BY <2>1, <2>2, <2>3, <2>4 DEF Attempted
<1>8. Files'
  BY <1>1, <1>2 DEF Validate, Files
<1>. QED
  BY <1>5, <1>6, <1>7, <1>8

\* A worker of the LLM service takes up a run.
LEMMA TakeRunStep == ASSUME Inv, TakeRun PROVE Inv'
<1>. USE PoolsAssumption DEF Inv, TypeOK
<1>1. PICK r \in Runs :
      /\ r = Head(llmQueue) /\ run[r] = "queued"
      /\ llmQueue' \in Seq(Runs) /\ Distinct(llmQueue')
      /\ \A i \in 1..Len(llmQueue') :
           llmQueue'[i] # r /\ \E j \in 1..Len(llmQueue) : llmQueue'[i] = llmQueue[j]
  <2>1. llmQueue \in Seq(Runs) /\ llmQueue # <<>> /\ Distinct(llmQueue)
    BY DEF TakeRun, Queues
  <2>2. llmQueue' = Tail(llmQueue)
    BY DEF TakeRun
  <2>3. \A i \in 1..Len(llmQueue) : run[llmQueue[i]] = "queued"
    BY DEF Queues
  <2>. QED
    BY ONLY <2>1, <2>2, <2>3, Taken
<1>2. TypeOK'
  BY <1>1 DEF TakeRun, validator, history
<1>3. Queues'
  <2>1. callQueue' = callQueue /\ call' = call
    BY DEF TakeRun, validator
  <2>2. \A s \in Runs : s # r => run'[s] = run[s]
    BY <1>1 DEF TakeRun
  <2>3. /\ \A j \in 1..Len(llmQueue) : llmQueue[j] \in Runs /\ run[llmQueue[j]] = "queued"
        /\ \A j \in 1..Len(callQueue) : call[callQueue[j]] = "queued"
        /\ Distinct(callQueue)
    BY DEF Queues
  <2>. QED
    BY ONLY <1>1, <2>1, <2>2, <2>3 DEF Queues
<1>4. Attempted' /\ Files'
  BY <1>1 DEF TakeRun, validator, history, Attempted, Files
<1>. QED
  BY <1>2, <1>3, <1>4

\* A worker of the validator takes up a call.
LEMMA TakeCallStep == ASSUME Inv, TakeCall PROVE Inv'
<1>. USE PoolsAssumption DEF Inv, TypeOK
<1>1. PICK c \in Calls :
      /\ c = Head(callQueue) /\ call[c] = "queued"
      /\ callQueue' \in Seq(Calls) /\ Distinct(callQueue')
      /\ \A i \in 1..Len(callQueue') :
           callQueue'[i] # c /\ \E j \in 1..Len(callQueue) : callQueue'[i] = callQueue[j]
  <2>1. callQueue \in Seq(Calls) /\ callQueue # <<>> /\ Distinct(callQueue)
    BY DEF TakeCall, Queues
  <2>2. callQueue' = Tail(callQueue)
    BY DEF TakeCall
  <2>3. \A i \in 1..Len(callQueue) : call[callQueue[i]] = "queued"
    BY DEF Queues
  <2>. QED
    BY ONLY <2>1, <2>2, <2>3, Taken
<1>2. TypeOK'
  BY <1>1 DEF TakeCall, Goto, llm, history
<1>3. Queues'
  <2>1. llmQueue' = llmQueue /\ run' = run
    BY DEF TakeCall, llm
  <2>2. \A d \in Calls : d # c => call'[d] = call[d]
    BY <1>1 DEF TakeCall, Goto
  <2>3. /\ \A j \in 1..Len(llmQueue) : run[llmQueue[j]] = "queued"
        /\ \A j \in 1..Len(callQueue) : callQueue[j] \in Calls /\ call[callQueue[j]] = "queued"
        /\ Distinct(llmQueue)
    BY DEF Queues
  <2>. QED
    BY ONLY <1>1, <2>1, <2>2, <2>3 DEF Queues
<1>4. Attempted' /\ Files'
  BY <1>1 DEF TakeCall, Goto, llm, history, Attempted, Files
<1>. QED
  BY <1>2, <1>3, <1>4

\* The steps of a call.
LEMMA CallStep ==
    ASSUME Inv, NEW c \in Calls,
           WriteScript(c) \/ WriteFails(c) \/ StartScript(c) \/ StartFails(c)
             \/ ScriptTimesOut(c) \/ ScriptEnds(c) \/ Cleanup(c) \/ UnlinkFails(c)
    PROVE  Inv'
<1>. USE PoolsAssumption DEF Inv, TypeOK, llm, history, Goto
<1>1. call[c] \in {"writing", "starting", "running", "cleanup"} /\ callQueue' = callQueue
  BY DEF WriteScript, WriteFails, StartScript, StartFails, ScriptTimesOut, ScriptEnds,
         Cleanup, UnlinkFails
<1>2. /\ llm' = llm /\ restarts' = restarts
      /\ \E place \in {"starting", "running", "cleanup", "over"} :
           call' = [call EXCEPT ![c] = place]
  BY DEF WriteScript, WriteFails, StartScript, StartFails, ScriptTimesOut, ScriptEnds,
         Cleanup, UnlinkFails
<1>3. TypeOK'
  <2>1. call' \in [Calls -> {"none", "queued", "writing", "starting", "running",
                             "cleanup", "over"}]
    BY <1>2
  <2>2. file' \in [Calls -> {"none", "open", "named"}]
    BY DEF WriteScript, WriteFails, StartScript, StartFails, ScriptTimesOut, ScriptEnds,
           Cleanup, UnlinkFails
  <2>3. process' \subseteq Calls /\ ran' \in [Calls -> 0..ScriptLimit]
    BY DEF WriteScript, WriteFails, StartScript, StartFails, ScriptTimesOut, ScriptEnds,
           Cleanup, UnlinkFails
  <2>4. crowded' \subseteq Calls /\ mishap' \subseteq Calls
    BY DEF WriteScript, WriteFails, StartScript, StartFails, ScriptTimesOut, ScriptEnds,
           Cleanup, UnlinkFails
  <2>. QED
    BY <1>1, <1>2, <2>1, <2>2, <2>3, <2>4
<1>4. Queues'
  BY <1>1, <1>2 DEF Queues
<1>5. Attempted'
  BY <1>1, <1>2 DEF Attempted
<1>6. Files'
  <2>. USE DEF Files
  <2>1. CASE WriteScript(c)
    BY <2>1 DEF WriteScript
  <2>2. CASE WriteFails(c)
    BY <2>2 DEF WriteFails
  <2>3. CASE StartScript(c)
    BY <2>3 DEF StartScript
  <2>4. CASE StartFails(c)
    BY <2>4 DEF StartFails
  <2>5. CASE ScriptTimesOut(c)
    BY <2>5 DEF ScriptTimesOut
  <2>6. CASE ScriptEnds(c)
    BY <2>6 DEF ScriptEnds
  <2>7. CASE Cleanup(c)
    BY <2>7 DEF Cleanup
  <2>8. CASE UnlinkFails(c)
    BY <2>8 DEF UnlinkFails
  <2>. QED
    BY <2>1, <2>2, <2>3, <2>4, <2>5, <2>6, <2>7, <2>8
<1>. QED
  BY <1>3, <1>4, <1>5, <1>6

\* Restarts and the clock.
LEMMA ServiceStep ==
    ASSUME Inv, RestartLlm \/ RestartValidator \/ Tick
    PROVE  Inv'
<1>. USE PoolsAssumption DEF Inv, TypeOK
<1>1. CASE RestartLlm
  <2>1. TypeOK'
    <3>1. restarts' \in [llm : 0..MaxRestarts, validator : 0..MaxRestarts]
      <4>1. restarts.llm < MaxRestarts /\ restarts' = [restarts EXCEPT !.llm = @ + 1]
        BY <1>1 DEF RestartLlm
      <4>2. restarts \in [llm : 0..MaxRestarts, validator : 0..MaxRestarts]
        OBVIOUS
      <4>. QED
        BY ONLY <4>1, <4>2, PoolsAssumption
    <3>2. run' \in [Runs -> {"idle", "queued", "thinking", "validating", "ended"}]
      BY <1>1 DEF RestartLlm
    <3>3. awaited' \in [Runs -> BOOLEAN] /\ llmQueue' \in Seq(Runs)
      BY <1>1 DEF RestartLlm
    <3>. QED
      BY <1>1, <3>1, <3>2, <3>3 DEF RestartLlm, validator, history
  <2>2. Queues'
    BY <1>1 DEF RestartLlm, validator, Queues, Distinct
  <2>3. Attempted' /\ Files'
    BY <1>1 DEF RestartLlm, validator, history, Attempted, Files
  <2>. QED
    BY <2>1, <2>2, <2>3
<1>2. CASE RestartValidator
  <2>1. TypeOK'
    <3>1. restarts' \in [llm : 0..MaxRestarts, validator : 0..MaxRestarts]
      <4>1. restarts.validator < MaxRestarts /\ restarts' = [restarts EXCEPT !.validator = @ + 1]
        BY <1>2 DEF RestartValidator
      <4>2. restarts \in [llm : 0..MaxRestarts, validator : 0..MaxRestarts]
        OBVIOUS
      <4>. QED
        BY ONLY <4>1, <4>2, PoolsAssumption
    <3>2. call' \in [Calls -> {"none", "queued", "writing", "starting", "running",
                               "cleanup", "over"}]
      BY <1>2 DEF RestartValidator
    <3>3. callQueue' \in Seq(Calls) /\ process' \subseteq Calls /\ mishap' \subseteq Calls
      BY <1>2 DEF RestartValidator, BusyWorkers
    <3>. QED
      BY <1>2, <3>1, <3>2, <3>3 DEF RestartValidator, llm
  <2>2. Queues'
    BY <1>2 DEF RestartValidator, llm, Queues, Distinct
  <2>3. Attempted'
    BY <1>2 DEF RestartValidator, llm, Attempted
  <2>4. Files'
    BY <1>2 DEF RestartValidator, llm, Files, BusyWorkers
  <2>. QED
    BY <2>1, <2>2, <2>3, <2>4
<1>3. CASE Tick
  <2>1. \A r \in Runs : run[r] = "validating" => age[r] # RpcTimeout
    BY <1>3 DEF Tick, Urgent
  <2>2. \A c \in process : ran[c] # ScriptLimit
    BY <1>3 DEF Tick, Urgent, BusyWorkers, Files
  <2>3. TypeOK'
    <3>1. age' \in [Runs -> 0..RpcTimeout]
      BY <1>3, <2>1 DEF Tick
    <3>2. ran' \in [Calls -> 0..ScriptLimit]
      BY <1>3, <2>2 DEF Tick
    <3>. QED
      BY <1>3, <3>1, <3>2 DEF Tick, history
  <2>4. Queues' /\ Attempted' /\ Files'
    BY <1>3 DEF Tick, history, Queues, Attempted, Files
  <2>. QED
    BY <2>3, <2>4
<1>. QED
  BY <1>1, <1>2, <1>3

LEMMA InvStep == ASSUME Inv, [Next]_vars PROVE Inv'
<1>1. Inv /\ UNCHANGED vars => Inv'
  BY DEF Inv, TypeOK, Queues, Attempted, Files, vars, llm, validator, history
<1>. QED
  BY <1>1, LlmStep, ValidateStep, TakeRunStep, TakeCallStep, CallStep, ServiceStep
     DEF Next, Serve

THEOREM InvAlways == Spec => []Inv
<1>1. Inv /\ [Next]_vars => Inv'
  BY InvStep
<1>. QED
  BY InvInit, <1>1, PTL DEF Spec

-------------------------------------------------------------------------------
\* The pools are in the states that TypeOK lists, however many runs there are.
THEOREM TypeCorrect == Spec => []TypeOK
BY InvAlways, PTL DEF Inv

\* A call of the validator leaves neither a process nor a file behind, a mishap apart,
\* whoever still waits for it (Validate of lua-validator/main.py).
THEOREM NothingLeft == Spec => []NothingIsLeft
<1>1. Inv => NothingIsLeft
  BY DEF Inv, Files, NothingIsLeft
<1>. QED
  BY <1>1, InvAlways, PTL

-------------------------------------------------------------------------------
(***************************************************************************)
(* The validator answers in time.                                          *)
(*                                                                         *)
(* A call that is made while every busy worker serves a client that waits  *)
(* finds a worker free: these clients, and those waiting ahead of it in    *)
(* the queue, are other runs at work, fewer than the LLM service's         *)
(* workers.  So the clock does not go on before a worker has taken the     *)
(* call up, and from then on its age is what its script has run.           *)
(***************************************************************************)

\* The calls that will be served before the queued call c.
Ahead(c) ==
    {d \in Calls :
        /\ Waits(d)
        /\ \E i, j \in 1..Len(callQueue) : i < j /\ callQueue[i] = d /\ callQueue[j] = c}

\* A worker is left for c.
Room(c) ==
    /\ IsFiniteSet(BusyWorkers \union Ahead(c))
    /\ Cardinality(BusyWorkers \union Ahead(c)) < ValidatorWorkers

\* What the validator does for c takes no more time than its script.
OnTime(c) ==
    /\ call[c] # "none"
    /\ call[c] = "queued" =>
         /\ age[c[1]] = 0
         /\ \E i \in 1..Len(callQueue) : callQueue[i] = c
         /\ Room(c)
    /\ call[c] \in {"writing", "starting"} => age[c[1]] = 0
    /\ call[c] = "running" => age[c[1]] = ran[c]
    /\ call[c] = "cleanup" => age[c[1]] <= ScriptLimit

Served == \A c \in Calls : Waits(c) /\ c \notin crowded => OnTime(c)

\* The LLM service's pool.
Pool == IsFiniteSet(BusyLlmWorkers) /\ Cardinality(BusyLlmWorkers) <= LlmWorkers

TimelyInv == Inv /\ Pool /\ Served

LEMMA TimelyInvInit == Init => TimelyInv
<1>. SUFFICES ASSUME Init
              PROVE  TimelyInv
  OBVIOUS
<1>1. BusyLlmWorkers = {}
  BY DEF Init, BusyLlmWorkers
<1>2. Pool
  BY <1>1, FS_EmptySet, PoolsAssumption DEF Pool
<1>3. Served
  BY DEF Init, Served, Waits, Calls
<1>. QED
  BY <1>2, <1>3, InvInit DEF TimelyInv

\* The pool of the LLM service is not exceeded.
LEMMA PoolStep ==
    ASSUME Inv, Pool, [Next]_vars
    PROVE  Pool'
<1>1. CASE TakeRun
  <2>. PICK r : r = Head(llmQueue)
    OBVIOUS
  <2>1. BusyLlmWorkers' \subseteq BusyLlmWorkers \union {r}
    BY <1>1 DEF TakeRun, BusyLlmWorkers, Inv, TypeOK
  <2>2. /\ IsFiniteSet(BusyLlmWorkers \union {r})
        /\ Cardinality(BusyLlmWorkers \union {r}) <= LlmWorkers
    <3>1. IsFiniteSet(BusyLlmWorkers) /\ Cardinality(BusyLlmWorkers) < LlmWorkers
      BY <1>1 DEF TakeRun, Pool
    <3>2. /\ IsFiniteSet(BusyLlmWorkers \union {r})
          /\ \/ Cardinality(BusyLlmWorkers \union {r}) = Cardinality(BusyLlmWorkers)
             \/ Cardinality(BusyLlmWorkers \union {r}) = Cardinality(BusyLlmWorkers) + 1
      BY ONLY <3>1, FS_AddElement
    <3>3. Cardinality(BusyLlmWorkers) \in Nat
      BY ONLY <3>1, FS_CardinalityType
    <3>. QED
      BY ONLY <3>1, <3>2, <3>3, PoolsAssumption
  <2>. QED
    BY <2>1, <2>2, FS_Subset, FS_CardinalityType, PoolsAssumption DEF Pool
<1>2. ASSUME BusyLlmWorkers' \subseteq BusyLlmWorkers
      PROVE  Pool'
  BY <1>2, FS_Subset, FS_CardinalityType, PoolsAssumption DEF Pool
<1>3. ASSUME ~TakeRun
      PROVE  BusyLlmWorkers' \subseteq BusyLlmWorkers
  <2>. USE DEF BusyLlmWorkers, Inv, TypeOK
  <2>1. ASSUME NEW r \in Runs,
               \/ Ask(r) \/ GiveUp(r) \/ EndsEarly(r) \/ CheckerRefuses(r)
               \/ Validate(r) \/ Verdict(r) \/ RpcTimesOut(r)
        PROVE  BusyLlmWorkers' \subseteq BusyLlmWorkers
    BY <2>1 DEF Ask, GiveUp, EndsEarly, CheckerRefuses, Validate, Verdict, RpcTimesOut,
                AfterValidate, End
  <2>2. CASE UNCHANGED run
    BY <2>2
  <2>3. CASE RestartLlm
    BY <2>3 DEF RestartLlm
  <2>. QED
    BY <1>3, <2>1, <2>2, <2>3
       DEF Next, Serve, vars, llm, TakeCall, Tick, WriteScript, WriteFails, StartScript,
           StartFails, ScriptTimesOut, ScriptEnds, Cleanup, UnlinkFails, RestartValidator
<1>. QED
  BY <1>1, <1>2, <1>3

\* A set that shrinks leaves a worker free.
LEMMA RoomStays ==
    ASSUME NEW c, Room(c),
           BusyWorkers' \union Ahead(c)' \subseteq BusyWorkers \union Ahead(c)
    PROVE  Room(c)'
BY FS_Subset, FS_CardinalityType, PoolsAssumption DEF Room

\* Steps of the LLM service by which no run begins to wait.
LEMMA ServedLlmStep ==
    ASSUME Inv, Served, UNCHANGED <<validator, crowded>>,
           \A r \in Runs : run'[r] = "validating" =>
               run[r] = "validating" /\ attempt'[r] = attempt[r] /\ age'[r] = age[r]
    PROVE  Served'
<1>. SUFFICES ASSUME NEW c \in Calls, Waits(c)', c \notin crowded'
              PROVE  OnTime(c)'
  BY DEF Served
<1>1. \A d \in Calls : Waits(d)' => Waits(d) /\ age'[d[1]] = age[d[1]]
  BY DEF Waits, Current, Calls
<1>2. OnTime(c)
  BY <1>1 DEF Served
<1>3. Room(c) => Room(c)'
  <2>1. BusyWorkers' = BusyWorkers /\ Ahead(c)' \subseteq Ahead(c)
    BY <1>1 DEF BusyWorkers, Ahead, validator
  <2>. QED
    BY <2>1, RoomStays
<1>. QED
  BY <1>1, <1>2, <1>3 DEF OnTime, validator

\* The steps of a call.
LEMMA ServedCallStep ==
    ASSUME Inv, Served, NEW b \in Calls,
           WriteScript(b) \/ WriteFails(b) \/ StartScript(b) \/ StartFails(b)
             \/ ScriptTimesOut(b) \/ ScriptEnds(b) \/ Cleanup(b) \/ UnlinkFails(b)
    PROVE  Served'
<1>. SUFFICES ASSUME NEW c \in Calls, Waits(c)', c \notin crowded'
              PROVE  OnTime(c)'
  BY DEF Served
<1>. USE DEF Inv, TypeOK
<1>1. /\ llm' = llm /\ callQueue' = callQueue /\ crowded' = crowded
      /\ call[b] \in {"writing", "starting", "running", "cleanup"}
      /\ call'[b] \in {"starting", "running", "cleanup", "over"}
      /\ \A d \in Calls : d # b => call'[d] = call[d] /\ ran'[d] = ran[d]
  BY DEF WriteScript, WriteFails, StartScript, StartFails, ScriptTimesOut, ScriptEnds,
         Cleanup, UnlinkFails, Goto, history
<1>2. /\ \A d \in Calls : Waits(d)' <=> Waits(d)
      /\ age' = age
  BY <1>1 DEF Waits, Current, llm
<1>3. OnTime(c)
  BY <1>1, <1>2 DEF Served
<1>4. CASE c = b
  <2>. USE <1>1, <1>2, <1>3, <1>4, PoolsAssumption DEF OnTime, Goto
  <2>0. ran[b] \in 0..ScriptLimit
    OBVIOUS
  <2>1. CASE WriteScript(b)
    BY <2>1 DEF WriteScript
  <2>2. CASE WriteFails(b)
    BY <2>2 DEF WriteFails
  <2>3. CASE StartScript(b)
    BY <2>3 DEF StartScript
  <2>4. CASE StartFails(b)
    BY <2>4 DEF StartFails
  <2>5. CASE ScriptTimesOut(b)
    BY <2>0, <2>5 DEF ScriptTimesOut
  <2>6. CASE ScriptEnds(b)
    BY <2>0, <2>6 DEF ScriptEnds
  <2>7. CASE Cleanup(b) \/ UnlinkFails(b)
    BY <2>7 DEF Cleanup, UnlinkFails
  <2>. QED
    BY <2>1, <2>2, <2>3, <2>4, <2>5, <2>6, <2>7
<1>5. CASE c # b
  <2>1. Room(c) => Room(c)'
    <3>1. BusyWorkers' \subseteq BusyWorkers
      BY <1>1 DEF BusyWorkers
    <3>2. Ahead(c)' = Ahead(c)
      BY <1>1, <1>2 DEF Ahead
    <3>. QED
      BY <3>1, <3>2, RoomStays
  <2>. QED
    BY <1>1, <1>2, <1>3, <1>5, <2>1 DEF OnTime
<1>. QED
  BY <1>4, <1>5

\* What the queue loses moves to a worker, or waits no more.
LEMMA ServedTakeCall == ASSUME Inv, Served, TakeCall PROVE Served'
<1>. SUFFICES ASSUME NEW c \in Calls, Waits(c)', c \notin crowded'
              PROVE  OnTime(c)'
  BY DEF Served
<1>1. PICK b \in Calls :
      /\ b = callQueue[1] /\ call[b] = "queued" /\ callQueue' = Tail(callQueue)
      /\ call' = [call EXCEPT ![b] = IF Waits(b) THEN "writing" ELSE "over"]
  <2>1. callQueue \in Seq(Calls) /\ callQueue # <<>>
    BY DEF TakeCall, Inv, TypeOK
  <2>2. Head(callQueue) = callQueue[1] /\ 1 \in 1..Len(callQueue) /\ callQueue[1] \in Calls
    BY ONLY <2>1
  <2>. QED
    BY <2>2 DEF TakeCall, Goto, Inv, Queues
<1>2. /\ Len(callQueue') = Len(callQueue) - 1 /\ Len(callQueue) \in Nat \ {0}
      /\ \A i \in 1..Len(callQueue') :
           i + 1 \in 1..Len(callQueue) /\ callQueue'[i] = callQueue[i + 1]
  <2>1. callQueue \in Seq(Calls) /\ callQueue # <<>>
    BY DEF TakeCall, Inv, TypeOK
  <2>. QED
    BY ONLY <1>1, <2>1
<1>3. /\ llm' = llm /\ ran' = ran /\ crowded' = crowded /\ age' = age
      /\ \A d \in Calls : Waits(d)' <=> Waits(d)
  BY DEF TakeCall, history, llm, Waits, Current
<1>4. OnTime(c)
  BY <1>3 DEF Served
<1>5. CASE c = b
  BY <1>1, <1>3, <1>4, <1>5 DEF OnTime, Inv, TypeOK
<1>6. CASE c # b
  <2>1. call'[c] = call[c]
    BY <1>1, <1>6 DEF Inv, TypeOK
  <2>2. ASSUME call[c] = "queued"
        PROVE  /\ \E i \in 1..Len(callQueue') : callQueue'[i] = c
               /\ Room(c)'
    <3>1. PICK k \in 1..Len(callQueue) : callQueue[k] = c
      BY <1>4, <2>2 DEF OnTime
    <3>2. k # 1 /\ k - 1 \in 1..Len(callQueue') /\ callQueue'[k - 1] = c
      <4>1. k # 1
        BY <1>1, <1>6, <3>1
      <4>2. k - 1 \in 1..Len(callQueue')
        BY ONLY <4>1, <1>2, k \in 1..Len(callQueue)
      <4>3. (k - 1) + 1 = k
        BY ONLY k \in 1..Len(callQueue), <1>2
      <4>. QED
        BY ONLY <1>2, <3>1, <4>1, <4>2, <4>3
    <3>3. Ahead(c)' \subseteq Ahead(c)
      <4>. SUFFICES ASSUME NEW d \in Calls, Waits(d)',
                           NEW i \in 1..Len(callQueue'), NEW j \in 1..Len(callQueue'),
                           i < j, callQueue'[i] = d, callQueue'[j] = c
                    PROVE  d \in Ahead(c)
        BY DEF Ahead
      <4>1. i + 1 < j + 1
        BY ONLY i \in 1..Len(callQueue'), j \in 1..Len(callQueue'), i < j, <1>2
      <4>. QED
        BY <1>2, <1>3, <4>1 DEF Ahead
    <3>4. BusyWorkers' \subseteq BusyWorkers \union Ahead(c)
      <4>1. Waits(b) => b \in Ahead(c)
        <5>1. 1 \in 1..Len(callQueue) /\ 1 < k
          BY ONLY <1>2, <3>2, k \in 1..Len(callQueue)
        <5>. QED
          BY <1>1, <3>1, <5>1 DEF Ahead
      <4>. QED
        BY <1>1, <4>1 DEF BusyWorkers, Inv, TypeOK
    <3>5. Room(c)'
      BY <1>4, <2>2, <3>3, <3>4, RoomStays DEF OnTime
    <3>. QED
      BY <3>2, <3>5
  <2>. QED
    BY <1>3, <1>4, <2>1, <2>2 DEF OnTime
<1>. QED
  BY <1>5, <1>6

\* The calls in front of a new call belong to other runs at work.
LEMMA RoomForNew ==
    ASSUME Inv, Pool, NEW r \in Runs, run[r] = "thinking", NEW S \in SUBSET Calls,
           \A d \in S : Waits(d)
    PROVE  IsFiniteSet(S) /\ Cardinality(S) < ValidatorWorkers
<1>. DEFINE Others == BusyLlmWorkers \ {r}
            Owner == [d \in S |-> d[1]]
<1>1. r \in BusyLlmWorkers
  BY DEF BusyLlmWorkers
<1>2. IsFiniteSet(Others) /\ Cardinality(Others) < LlmWorkers
  <2>1. IsFiniteSet(BusyLlmWorkers) /\ Cardinality(BusyLlmWorkers) <= LlmWorkers
    BY DEF Pool
  <2>2. IsFiniteSet(Others) /\ Cardinality(Others) = Cardinality(BusyLlmWorkers) - 1
    BY ONLY <1>1, <2>1, FS_RemoveElement
  <2>3. Cardinality(BusyLlmWorkers) \in Nat
    BY ONLY <2>1, FS_CardinalityType
  <2>. QED
    BY ONLY <2>1, <2>2, <2>3, PoolsAssumption
<1>3. Owner \in Injection(S, Others)
  <2>1. \A d \in S : d[1] \in Runs /\ d = <<d[1], attempt[d[1]]>> /\ run[d[1]] = "validating"
    BY DEF Waits, Current, Calls
  <2>2. \A d \in S : d[1] \in Others
    BY <2>1 DEF BusyLlmWorkers
  <2>3. \A d, e \in S : d[1] = e[1] => d = e
    BY <2>1
  <2>. QED
    BY <2>2, <2>3 DEF Injection, IsInjective
<1>4. IsFiniteSet(S) /\ Cardinality(S) <= Cardinality(Others)
  BY <1>2, <1>3, FS_Injection
<1>. QED
  BY <1>2, <1>4, FS_CardinalityType, PoolsAssumption

\* A run makes a call: it does not come before any other.
LEMMA ServedValidate ==
    ASSUME Inv, Pool, Served, NEW r \in Runs, Validate(r)
    PROVE  Served'
<1>. SUFFICES ASSUME NEW c \in Calls, Waits(c)', c \notin crowded'
              PROVE  OnTime(c)'
  BY DEF Served
<1>1. PICK b \in Calls : b = <<r, attempt[r] + 1>> /\ b[1] = r /\ b[2] = attempt[r] + 1
  <2>1. attempt[r] + 1 \in 1..Attempts
    BY PoolsAssumption DEF Validate, Inv, TypeOK, Attempted
  <2>2. <<r, attempt[r] + 1>> \in Calls
    BY ONLY <2>1, r \in Runs DEF Calls
  <2>. QED
    BY ONLY <2>2
<1>2. call[b] = "none" /\ run[r] = "thinking"
  BY <1>1 DEF Validate, Inv, TypeOK, Attempted
<1>3. /\ callQueue \in Seq(Calls)
      /\ \A i \in 1..Len(callQueue) : callQueue[i] \in Calls /\ callQueue[i] # b
  BY <1>2 DEF Inv, TypeOK, Queues
<1>4. /\ Len(callQueue') = Len(callQueue) + 1 /\ Len(callQueue) \in Nat
      /\ callQueue'[Len(callQueue) + 1] = b
      /\ \A i \in 1..Len(callQueue) : callQueue'[i] = callQueue[i]
  <2>1. callQueue' = Append(callQueue, b)
    BY <1>1 DEF Validate
  <2>. QED
    BY ONLY <1>3, <2>1
<1>5. /\ call' = [call EXCEPT ![b] = "queued"] /\ ran' = ran
      /\ age' = [age EXCEPT ![r] = 0]
  BY <1>1 DEF Validate
<1>6. BusyWorkers' = BusyWorkers
  BY <1>2, <1>5 DEF BusyWorkers, Inv, TypeOK
<1>7. \A d \in Calls : Waits(d)' /\ d # b => Waits(d) /\ d[1] # r
  BY <1>1 DEF Validate, Waits, Current, Calls, Inv, TypeOK
<1>8. CASE c = b
  <2>1. Crowd = {}
    BY <1>1, <1>8 DEF Validate
  <2>2. \A d \in Ahead(b)' : Waits(d)
    <3>. SUFFICES ASSUME NEW d \in Calls, Waits(d)',
                         NEW i \in 1..Len(callQueue'), NEW j \in 1..Len(callQueue'),
                         i < j, callQueue'[i] = d, callQueue'[j] = b
                  PROVE  d # b
      BY <1>7 DEF Ahead
    <3>1. i \in 1..Len(callQueue)
      BY ONLY <1>4, i < j, i \in 1..Len(callQueue'), j \in 1..Len(callQueue')
    <3>. QED
      BY <1>3, <1>4, <3>1
  <2>3. \A d \in BusyWorkers : Waits(d)
    BY <2>1 DEF Crowd
  <2>4. Room(b)'
    <3>. DEFINE S == BusyWorkers' \union Ahead(b)'
    <3>1. S \in SUBSET Calls
      BY DEF BusyWorkers, Ahead
    <3>2. \A d \in S : Waits(d)
      BY <1>6, <2>2, <2>3
    <3>3. IsFiniteSet(S) /\ Cardinality(S) < ValidatorWorkers
      BY ONLY <3>1, <3>2, <1>2, RoomForNew, Inv, Pool, r \in Runs
    <3>. QED
      BY <3>3 DEF Room
  <2>5. \E i \in 1..Len(callQueue') : callQueue'[i] = b
    BY ONLY <1>4
  <2>. QED
    BY <1>1, <1>5, <1>8, <2>4, <2>5 DEF OnTime, Inv, TypeOK
<1>9. CASE c # b
  <2>1. Waits(c) /\ c[1] # r /\ c \notin crowded
    BY <1>7, <1>9 DEF Validate
  <2>2. OnTime(c)
    BY <2>1 DEF Served
  <2>3. call'[c] = call[c] /\ age'[c[1]] = age[c[1]]
    BY <1>5, <1>9, <2>1 DEF Inv, TypeOK, Calls
  <2>4. Ahead(c)' \subseteq Ahead(c)
    <3>. SUFFICES ASSUME NEW d \in Calls, Waits(d)',
                         NEW i \in 1..Len(callQueue'), NEW j \in 1..Len(callQueue'),
                         i < j, callQueue'[i] = d, callQueue'[j] = c
                  PROVE  d \in Ahead(c)
      BY DEF Ahead
    <3>1. j \in 1..Len(callQueue)
      BY ONLY <1>4, <1>9, callQueue'[j] = c, j \in 1..Len(callQueue')
    <3>2. i \in 1..Len(callQueue)
      BY ONLY <3>1, <1>4, i < j, i \in 1..Len(callQueue')
    <3>3. callQueue[i] = d /\ callQueue[j] = c /\ d # b
      BY <1>3, <1>4, <3>1, <3>2
    <3>. QED
      BY <1>7, <3>1, <3>2, <3>3 DEF Ahead
  <2>5. Room(c) => Room(c)'
    BY <1>6, <2>4, RoomStays
  <2>6. (\E i \in 1..Len(callQueue) : callQueue[i] = c) =>
             \E i \in 1..Len(callQueue') : callQueue'[i] = c
    BY ONLY <1>4
  <2>. QED
    BY <1>5, <2>2, <2>3, <2>5, <2>6 DEF OnTime
<1>. QED
  BY <1>8, <1>9

\* The clock goes on for a call only while its script runs.
LEMMA ServedTick == ASSUME Inv, Served, Tick PROVE Served'
<1>. SUFFICES ASSUME NEW c \in Calls, Waits(c)', c \notin crowded'
              PROVE  OnTime(c)'
  BY DEF Served
<1>1. /\ run' = run /\ attempt' = attempt /\ call' = call /\ callQueue' = callQueue
      /\ crowded' = crowded /\ ~Urgent
  BY DEF Tick, history
<1>2. Waits(c) /\ c[1] \in Runs /\ Current(c[1]) = c /\ run[c[1]] = "validating"
  BY <1>1 DEF Waits, Current, Calls
<1>3. OnTime(c)
  BY <1>1, <1>2 DEF Served
<1>4. call[c] # "queued"
  <2>. SUFFICES ASSUME call[c] = "queued"
                PROVE  FALSE
    OBVIOUS
  <2>1. callQueue # <<>>
    BY <1>3 DEF OnTime
  <2>2. Room(c)
    BY <1>3 DEF OnTime
  <2>3. WorkerFree
    BY <2>2, FS_Subset, FS_CardinalityType, PoolsAssumption DEF Room, WorkerFree
  <2>. QED
    BY <1>1, <2>1, <2>3 DEF Urgent
<1>5. call[c] \notin {"writing", "starting", "cleanup"} /\ call[c] # "over"
  BY <1>1, <1>2 DEF Urgent, BusyWorkers
<1>6. call[c] = "running"
  BY <1>3, <1>4, <1>5 DEF OnTime, Inv, TypeOK
<1>7. c \in process
  BY <1>6 DEF Inv, Files
<1>8. age'[c[1]] = age[c[1]] + 1 /\ ran'[c] = ran[c] + 1
  BY <1>2, <1>7 DEF Tick
<1>. QED
  BY <1>1, <1>3, <1>6, <1>8 DEF OnTime

\* A restart of the validator answers every call.
LEMMA ServedRestart == ASSUME Inv, Served, RestartValidator PROVE Served'
<1>. SUFFICES ASSUME NEW c \in Calls, Waits(c)', c \notin crowded'
              PROVE  OnTime(c)'
  BY DEF Served
<1>1. Waits(c) /\ c \notin crowded
  BY DEF RestartValidator, llm, Waits, Current
<1>2. call'[c] = "over"
  BY <1>1 DEF RestartValidator, Served, OnTime
<1>. QED
  BY <1>2 DEF OnTime

LEMMA TimelyInvStep ==
    ASSUME TimelyInv, [Next]_vars
    PROVE  TimelyInv'
<1>. USE DEF TimelyInv
<1>1. Inv' /\ Pool'
  BY InvStep, PoolStep
<1>2. ASSUME NEW r \in Runs,
             Ask(r) \/ GiveUp(r) \/ EndsEarly(r) \/ CheckerRefuses(r)
               \/ Verdict(r) \/ RpcTimesOut(r)
      PROVE  Served'
  <2>1. UNCHANGED <<validator, crowded>>
    BY <1>2 DEF Ask, GiveUp, EndsEarly, CheckerRefuses, Verdict, RpcTimesOut, history
  <2>2. \A s \in Runs : run'[s] = "validating" =>
            run[s] = "validating" /\ attempt'[s] = attempt[s] /\ age'[s] = age[s]
    BY <1>2 DEF Ask, GiveUp, EndsEarly, CheckerRefuses, Verdict, RpcTimesOut, End,
                AfterValidate, Inv, TypeOK
  <2>. QED
    BY <2>1, <2>2, ServedLlmStep
<1>3. ASSUME TakeRun \/ RestartLlm \/ UNCHANGED vars
      PROVE  Served'
  <2>1. UNCHANGED <<validator, crowded>>
    BY <1>3 DEF TakeRun, RestartLlm, vars, history
  <2>2. \A s \in Runs : run'[s] = "validating" =>
            run[s] = "validating" /\ attempt'[s] = attempt[s] /\ age'[s] = age[s]
    BY <1>3 DEF TakeRun, RestartLlm, vars, llm, Inv, TypeOK
  <2>. QED
    BY ONLY Inv, Served, <2>1, <2>2, ServedLlmStep
<1>4. Served'
  BY <1>2, <1>3, ServedCallStep, ServedTakeCall, ServedValidate, ServedTick, ServedRestart
     DEF Next, Serve
<1>. QED
  BY <1>1, <1>4

\* However many runs and workers there are, a client of the validator gives up only on a
\* call that it made while a worker was busy with a call nobody waited for
\* (LuaValidatorClient.validate, max_workers in both serve()).
THEOREM AnsweredInTime == Spec => AnswersInTime
<1>1. TimelyInv /\ [Next]_vars => TimelyInv'
  BY TimelyInvStep
<1>2. TimelyInv =>
          [\A r \in Runs : RpcTimesOut(r) => Current(r) \in crowded]_vars
  <2>. SUFFICES ASSUME TimelyInv, NEW r \in Runs, RpcTimesOut(r), Current(r) \notin crowded
                PROVE  FALSE
    OBVIOUS
  <2>. PICK c : c = Current(r)
    OBVIOUS
  <2>1. c \in Calls /\ Waits(c) /\ c[1] = r
    BY DEF RpcTimesOut, TimelyInv, Inv, TypeOK, Attempted, Current, Calls, Waits
  <2>2. OnTime(c)
    BY <2>1 DEF TimelyInv, Served
  <2>3. age[r] = RpcTimeout /\ call[c] # "over"
    BY DEF RpcTimesOut
  <2>4. ran[c] \in 0..ScriptLimit /\ call[c] \in {"none", "queued", "writing", "starting",
                                                  "running", "cleanup", "over"}
    BY <2>1 DEF TimelyInv, Inv, TypeOK
  <2>. QED
    BY <2>1, <2>2, <2>3, <2>4, PoolsAssumption DEF OnTime
<1>. QED
  BY TimelyInvInit, <1>1, <1>2, PTL DEF Spec, AnswersInTime
===============================================================================
