------------------------------ MODULE WorkerPools ------------------------------
(***************************************************************************)
(* The worker threads of the LLM service and of the Lua validator, both    *)
(* gRPC servers with a ThreadPoolExecutor, and the calls between them: what *)
(* a script leaves behind, and whether the validator answers before its    *)
(* client gives up.                                                        *)
(*                                                                         *)
(* Only scripts take time, which a clock counts; how long Ollama thinks    *)
(* and the backend waits (minutes) is left open.  The LLM service is the   *)
(* only client of the validator, so env_vars is always a JSON object.      *)
(***************************************************************************)
EXTENDS Integers, Sequences, FiniteSets, SequencesExt

CONSTANTS
    Runs,               \* runs of the pipeline, one per call of the backend
    Attempts,           \* scripts a run may have validated: 1 + MAX_REPAIRS
    LlmWorkers,         \* max_workers of the LLM service
    ValidatorWorkers,   \* max_workers of the Lua validator
    ScriptLimit,        \* timeout_ms: how long a script may run
    RpcTimeout,         \* LUA_VALIDATOR_RPC_TIMEOUT_SECONDS
    MaxRestarts         \* bound on the restarts of each service

ASSUME PoolsAssumption ==
    /\ LlmWorkers \in Nat \ {0} /\ ValidatorWorkers \in Nat
    /\ LlmWorkers <= ValidatorWorkers
    /\ ScriptLimit \in Nat \ {0} /\ RpcTimeout \in Nat
    /\ ScriptLimit < RpcTimeout
    /\ Attempts \in Nat \ {0} /\ MaxRestarts \in Nat

\* The n-th script of run r is a call of Validate.
Calls == Runs \X (1..Attempts)

VARIABLES
    run,        \* where a run is
    awaited,    \* the backend still waits for the run
    llmQueue,   \* runs that no worker of the LLM service has taken up
    attempt,    \* scripts the run has had validated, the current one included
    age,        \* how long the current one has been with the validator
    call,       \* where a call is, in the validator
    callQueue,  \* calls that no worker of the validator has taken up
    file,       \* the script's file: none, open (script_path is not bound), named
    process,    \* calls whose interpreter is running
    ran,        \* and for how long
    restarts    \* restarts of the LLM service and of the validator

\* History: calls that were made while a worker of the validator was busy with a
\* call that nobody waited for, and calls with a mishap that may leave a file.
VARIABLES crowded, mishap

llm == <<run, awaited, llmQueue, attempt, age>>
validator == <<call, callQueue, file, process, ran>>
history == <<crowded, mishap>>
vars == <<llm, validator, restarts, history>>

-------------------------------------------------------------------------------
(***************************************************************************)
(* State formulae.                                                         *)
(***************************************************************************)

Current(r) == <<r, attempt[r]>>

\* The run waits for the reply of the validator.
Waits(c) == run[c[1]] = "validating" /\ Current(c[1]) = c

BusyLlmWorkers == {r \in Runs : run[r] \in {"thinking", "validating"}}

BusyWorkers == {c \in Calls : call[c] \in {"writing", "starting", "running", "cleanup"}}

\* ThreadPoolExecutor(max_workers=10).
WorkerFree == Cardinality(BusyWorkers) < ValidatorWorkers

\* Workers with a call that nobody waits for.
Crowd == {c \in BusyWorkers : ~Waits(c)}

\* What happens without delay, before time goes on: everything but scripts.
Urgent ==
    \/ callQueue # <<>> /\ WorkerFree
    \/ \E c \in BusyWorkers : call[c] # "running" \/ ran[c] = ScriptLimit
    \/ \E r \in Runs : /\ run[r] = "validating"
                       /\ call[Current(r)] = "over" \/ age[r] = RpcTimeout

Init ==
    /\ run = [r \in Runs |-> "idle"]
    /\ awaited = [r \in Runs |-> FALSE]
    /\ llmQueue = <<>>
    /\ attempt = [r \in Runs |-> 0]
    /\ age = [r \in Runs |-> 0]
    /\ call = [c \in Calls |-> "none"]
    /\ callQueue = <<>>
    /\ file = [c \in Calls |-> "none"]
    /\ process = {}
    /\ ran = [c \in Calls |-> 0]
    /\ restarts = [llm |-> 0, validator |-> 0]
    /\ crowded = {}
    /\ mishap = {}

-------------------------------------------------------------------------------
(***************************************************************************)
(* The LLM service.                                                        *)
(***************************************************************************)

\* The backend calls StartOrContinue or AnswerClarification.
Ask(r) ==
    /\ run[r] = "idle"
    /\ run' = [run EXCEPT ![r] = "queued"]
    /\ awaited' = [awaited EXCEPT ![r] = TRUE]
    /\ llmQueue' = Append(llmQueue, r)
    /\ UNCHANGED <<attempt, age, validator, restarts, history>>

\* The backend's deadline passes, or its client goes away.  A run at work does not
\* notice.
GiveUp(r) ==
    /\ awaited[r]
    /\ awaited' = [awaited EXCEPT ![r] = FALSE]
    /\ UNCHANGED <<run, llmQueue, attempt, age, validator, restarts, history>>

\* A worker takes up the next run, unless its call has been cancelled.
TakeRun ==
    /\ llmQueue # <<>>
    /\ Cardinality(BusyLlmWorkers) < LlmWorkers
    /\ llmQueue' = Tail(llmQueue)
    /\ LET r == Head(llmQueue)
       IN  run' = [run EXCEPT ![r] = IF awaited[r] THEN "thinking" ELSE "ended"]
    /\ UNCHANGED <<awaited, attempt, age, validator, restarts, history>>

End(r) ==
    /\ run' = [run EXCEPT ![r] = "ended"]
    /\ awaited' = [awaited EXCEPT ![r] = FALSE]
    /\ UNCHANGED <<llmQueue, attempt, age>>

\* The run ends without a script to validate: with a question or an error.
EndsEarly(r) ==
    /\ run[r] = "thinking"
    /\ End(r)
    /\ UNCHANGED <<validator, restarts, history>>

\* The checker finds fault with the script: the next one is generated.
CheckerRefuses(r) ==
    /\ run[r] = "thinking"
    /\ attempt[r] < Attempts - 1
    /\ attempt' = [attempt EXCEPT ![r] = @ + 1]
    /\ UNCHANGED <<run, awaited, llmQueue, age, validator, restarts, history>>

\* Mutant: one deadline for all calls of a run.
ValidateUnderOneDeadline(r) ==
    LET c == <<r, attempt[r] + 1>>
    IN  /\ run[r] = "thinking"
        /\ run' = [run EXCEPT ![r] = "validating"]
        /\ attempt' = [attempt EXCEPT ![r] = @ + 1]
        /\ call' = [call EXCEPT ![c] = "queued"]
        /\ callQueue' = Append(callQueue, c)
        /\ crowded' = IF Crowd = {} THEN crowded ELSE crowded \union {c}
        /\ UNCHANGED <<awaited, llmQueue, age, file, process, ran, restarts, mishap>>

\* LuaValidatorClient.validate sends its request.
Validate(r) ==
    LET c == <<r, attempt[r] + 1>>
    IN  /\ run[r] = "thinking"
        /\ run' = [run EXCEPT ![r] = "validating"]
        /\ attempt' = [attempt EXCEPT ![r] = @ + 1]
        /\ age' = [age EXCEPT ![r] = 0]
        /\ call' = [call EXCEPT ![c] = "queued"]
        /\ callQueue' = Append(callQueue, c)
        /\ crowded' = IF Crowd = {} THEN crowded ELSE crowded \union {c}
        /\ UNCHANGED <<awaited, llmQueue, file, process, ran, restarts, mishap>>

\* Mutant: one attempt too many.
AfterValidateLate(r) ==
    \/ End(r)
    \/ /\ attempt[r] <= Attempts
       /\ run' = [run EXCEPT ![r] = "thinking"]
       /\ UNCHANGED <<awaited, llmQueue, attempt, age>>

\* route_after_validate: the run is done, or it generates the next script, or has
\* no attempt left.
AfterValidate(r) ==
    \/ End(r)
    \/ /\ attempt[r] < Attempts
       /\ run' = [run EXCEPT ![r] = "thinking"]
       /\ UNCHANGED <<awaited, llmQueue, attempt, age>>

Verdict(r) ==
    /\ run[r] = "validating"
    /\ call[Current(r)] = "over"
    /\ AfterValidate(r)
    /\ UNCHANGED <<validator, restarts, history>>

\* The RPC's deadline passes first, which counts as a script that failed.
RpcTimesOut(r) ==
    /\ run[r] = "validating"
    /\ age[r] = RpcTimeout
    /\ call[Current(r)] # "over"
    /\ AfterValidate(r)
    /\ UNCHANGED <<validator, restarts, history>>

\* The service goes down and comes up again: the backend's calls fail, and the
\* validator sees its calls cancelled.
RestartLlm ==
    /\ restarts.llm < MaxRestarts
    /\ restarts' = [restarts EXCEPT !.llm = @ + 1]
    /\ run' = [r \in Runs |-> IF run[r] = "idle" THEN "idle" ELSE "ended"]
    /\ awaited' = [r \in Runs |-> FALSE]
    /\ llmQueue' = <<>>
    /\ UNCHANGED <<attempt, age, validator, history>>

-------------------------------------------------------------------------------
(***************************************************************************)
(* The Lua validator: LuaValidatorServicer.Validate, step by step.         *)
(***************************************************************************)

Goto(c, place) == call' = [call EXCEPT ![c] = place]

\* A worker takes up the next call, unless its client has cancelled it.
TakeCall ==
    /\ callQueue # <<>>
    /\ WorkerFree
    /\ callQueue' = Tail(callQueue)
    /\ LET c == Head(callQueue)
       IN  Goto(c, IF Waits(c) THEN "writing" ELSE "over")
    /\ UNCHANGED <<llm, file, process, ran, restarts, history>>

WriteScript(c) ==
    /\ call[c] = "writing"
    /\ file' = [file EXCEPT ![c] = "named"]
    /\ Goto(c, "starting")
    /\ UNCHANGED <<llm, callQueue, process, ran, restarts, history>>

\* The temporary file cannot be made, or it cannot be written to: then it is there,
\* and script_path is not bound.
WriteFails(c) ==
    /\ call[c] = "writing"
    /\ \E left \in {"none", "open"} : file' = [file EXCEPT ![c] = left]
    /\ mishap' = mishap \union {c}
    /\ Goto(c, "cleanup")
    /\ UNCHANGED <<llm, callQueue, process, ran, restarts, crowded>>

\* subprocess.run starts the interpreter.
StartScript(c) ==
    /\ call[c] = "starting"
    /\ process' = process \union {c}
    /\ ran' = [ran EXCEPT ![c] = 0]
    /\ Goto(c, "running")
    /\ UNCHANGED <<llm, callQueue, file, restarts, history>>

\* FileNotFoundError, or another error of the operating system.
StartFails(c) ==
    /\ call[c] = "starting"
    /\ Goto(c, "cleanup")
    /\ UNCHANGED <<llm, callQueue, file, process, ran, restarts, history>>

\* Mutant: the timeout is not handed on to subprocess.run.
NeverTimesOut(c) == FALSE

\* subprocess.run kills the interpreter and raises TimeoutExpired.
ScriptTimesOut(c) ==
    /\ call[c] = "running"
    /\ ran[c] = ScriptLimit
    /\ process' = process \ {c}
    /\ Goto(c, "cleanup")
    /\ UNCHANGED <<llm, callQueue, file, ran, restarts, history>>

ScriptEnds(c) ==
    /\ call[c] = "running"
    /\ process' = process \ {c}
    /\ Goto(c, "cleanup")
    /\ UNCHANGED <<llm, callQueue, file, ran, restarts, history>>

\* Mutant: the file stays when no reply is due.
CleanupOfAwaited(c) ==
    /\ call[c] = "cleanup"
    /\ file' = [file EXCEPT ![c] = IF @ = "named" /\ Waits(c) THEN "none" ELSE @]
    /\ Goto(c, "over")
    /\ UNCHANGED <<llm, callQueue, process, ran, restarts, history>>

\* The finally clause removes the file, if script_path is bound; then the reply is
\* sent.
Cleanup(c) ==
    /\ call[c] = "cleanup"
    /\ file' = [file EXCEPT ![c] = IF @ = "named" THEN "none" ELSE @]
    /\ Goto(c, "over")
    /\ UNCHANGED <<llm, callQueue, process, ran, restarts, history>>

\* An error of unlink is swallowed.
UnlinkFails(c) ==
    /\ call[c] = "cleanup"
    /\ file[c] = "named"
    /\ mishap' = mishap \union {c}
    /\ Goto(c, "over")
    /\ UNCHANGED <<llm, callQueue, file, process, ran, restarts, crowded>>

\* The container is started again (restart: unless-stopped): processes end, files
\* stay, and calls fail at once.
RestartValidator ==
    /\ restarts.validator < MaxRestarts
    /\ restarts' = [restarts EXCEPT !.validator = @ + 1]
    /\ call' = [c \in Calls |-> IF call[c] = "none" THEN "none" ELSE "over"]
    /\ callQueue' = <<>>
    /\ process' = {}
    /\ mishap' = mishap \union {c \in BusyWorkers : file[c] # "none"}
    /\ UNCHANGED <<llm, file, ran, crowded>>

-------------------------------------------------------------------------------
\* One unit of time passes for the scripts that run and the clients that wait.
Tick ==
    /\ ~Urgent
    /\ \E r \in Runs : run[r] = "validating"
       \/ process # {}
    /\ age' = [r \in Runs |-> IF run[r] = "validating" THEN age[r] + 1 ELSE age[r]]
    /\ ran' = [c \in Calls |-> IF c \in process THEN ran[c] + 1 ELSE ran[c]]
    /\ UNCHANGED <<run, awaited, llmQueue, attempt, call, callQueue, file, process,
                   restarts, history>>

\* What the services do by themselves, a script's end apart: it may never come.
Serve ==
    \/ TakeRun \/ TakeCall \/ Tick
    \/ \E r \in Runs : \/ EndsEarly(r) \/ CheckerRefuses(r) \/ Validate(r)
                       \/ Verdict(r) \/ RpcTimesOut(r)
    \/ \E c \in Calls : \/ WriteScript(c) \/ WriteFails(c) \/ StartScript(c)
                        \/ StartFails(c) \/ ScriptTimesOut(c)
                        \/ Cleanup(c) \/ UnlinkFails(c)

Next ==
    \/ Serve
    \/ \E c \in Calls : ScriptEnds(c)
    \/ \E r \in Runs : Ask(r) \/ GiveUp(r)
    \/ RestartLlm
    \/ RestartValidator

\* Threads go on, time passes, and Ollama answers every call.
Spec == Init /\ [][Next]_vars /\ WF_vars(Serve)

-------------------------------------------------------------------------------
(***************************************************************************)
(* Properties.                                                             *)
(***************************************************************************)

TypeOK ==
    /\ run \in [Runs -> {"idle", "queued", "thinking", "validating", "ended"}]
    /\ awaited \in [Runs -> BOOLEAN]
    /\ llmQueue \in Seq(Runs)
    /\ attempt \in [Runs -> 0..Attempts]
    /\ age \in [Runs -> 0..RpcTimeout]
    /\ call \in [Calls -> {"none", "queued", "writing", "starting", "running",
                           "cleanup", "over"}]
    /\ callQueue \in Seq(Calls)
    /\ file \in [Calls -> {"none", "open", "named"}]
    /\ process \subseteq Calls
    /\ ran \in [Calls -> 0..ScriptLimit]
    /\ restarts \in [llm : 0..MaxRestarts, validator : 0..MaxRestarts]
    /\ crowded \subseteq Calls
    /\ mishap \subseteq Calls

\* A call leaves neither a process nor a file, unless writing or removing the file
\* failed or the service went down: also when its client has given up, and when the
\* script had to be stopped (the finally clause of Validate, subprocess.run).
NothingIsLeft ==
    \A c \in Calls :
        /\ c \in process <=> call[c] = "running"
        /\ call[c] = "over" /\ file[c] # "none" => c \in mishap

\* The two pools and the two timeouts fit: a client of the validator gives up only if
\* a worker was busy with a call of a client that had gone when it asked
\* (max_workers in both serve(), timeout_ms, rpc_timeout_s).
AnswersInTime ==
    [][\A r \in Runs : RpcTimesOut(r) => Current(r) \in crowded]_vars

\* Whatever becomes of the backend's call, no worker is held for ever: again and again
\* no run and no script is under way.  With runs that are handled once this says that
\* each of them ends (serve, subprocess.run with a timeout).
WorkersComeFree ==
    []<>(/\ \A r \in Runs : run[r] \in {"idle", "ended"}
         /\ callQueue = <<>> /\ BusyWorkers = {})
===============================================================================
