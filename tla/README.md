# A verification project for the Lua code generation service

TLA+ models of the code generation service in this repository, the TLC runs that
check them on small instances, and proofs that TLAPS checks for every instance.
Paths are relative to the repository's root.

## 1. The system

A user describes a Lua script in a chat page; the service extracts a
specification, asks for what is missing, generates code and returns it once a
static checker and a sandboxed run have accepted it.

```
 browser -> frontend -> backend ----------> LLM service -----> Ollama
            (Streamlit)  |  POST /generate   |  gRPC            (external)
                         v                   +--> lua-checker   (gRPC)
                       Redis (external)      +--> lua-validator (gRPC)
```

| component | source | state it keeps | operations | hard behaviours |
|---|---|---|---|---|
| Frontend | `services/frontend/app.py`, `transport.py` | Streamlit session state: messages, `pending_session_id`, `pending_request` with `inflight`, the context | submit, `call_backend`, rerun of the script, reload of the page | a rerun in the middle of a call; a pending session that ended meanwhile; equal timeouts at client and backend |
| Backend handler | `services/backend/internal/handler/handlers.go` | none between requests; per request: the lock token, `rpcCtx`, the state it read | `POST /generate`: lock, get, call, save, answer, deferred unlock | concurrent requests for one session, slow LLM calls, failures at every step, crash, client disconnect |
| Session store | `services/backend/internal/session/store.go` | in Redis: `session:<id>:state` and `session:<id>:lock`, each with a time to live | `Get`, `Save`, `Lock` (SETNX), `Unlock` (compare and delete) | expiry, lost replies, a release after expiry |
| Backend configuration | `services/backend/internal/config/config.go` | three durations, read once | `LoadConfig` | the repair of durations that do not fit together |
| LLM service | `services/llm/graph.py`, `main.py`, `state.py` | none: every call brings the `PipelineState` and takes the next one back | `StartOrContinue`, `AnswerClarification`; the graph's nodes and routers | what survives in the state from turn to turn, the repair loop, a run that fails in the middle |
| Clarification policy | `services/llm/spec_logic.py` | none | merge the answers, resolve the input path, find the blocker, decide | answers to earlier questions against a specification extracted anew on each turn |
| Context normaliser | `services/llm/context_normalizer.py` | none | `normalize_context`, `normalize_context_safe` | called at two places whose readings must agree |
| Checker, validator clients | `services/llm/checker_client.py`, `validator_client.py` | a channel | one call each | outages, deadlines |
| Lua checker | `services/lua-checker` | none | `Check` | expressions the walk does not reach |
| Lua validator | `services/lua-validator/main.py` | temporary files, processes, worker threads | `Validate` | timeouts, clean-up after failure, a full pool, clients that have gone |
| Prompts, protocol, deployment | `services/llm/prompts.py`, `proto`, `docker-compose.yml` | none | none | Redis restarts |

What makes them correct:

* **backend and store**: nobody's turn is lost, overwritten or answered twice,
  whatever happens to requests, replies and processes; a result that was handed
  out is stored; every request ends; no session stays locked for good.
* **configuration**: a lock outlives the request that holds it, a session its lock.
* **LLM service and policy**: no question is asked twice; what the user settled
  stays settled; code comes only from a complete specification; code is `done` only
  after both stages accepted it; the repair budget is exact; every call, and with
  a user who answers every session, ends; a state that waits for an answer can
  be resumed.
* **frontend**: between two calls the page and the backend agree on the question that
  is open; an answer goes to the question its author saw; the page does not lock
  itself up.
* **search for the input path and context**: the search makes up no path, the review
  keeps it, and the script finds the value there unless it is null; the script sees what
  the user gave.
* **validator and worker pools**: a script leaves nothing behind, holds no worker for
  ever, and is answered before its client gives up.
* **checker**: the verdict on a script does not depend on the blocks it stands in, calls
  that are statements are checked against what is documented, and no fault is made up.

`PROJECT.json` lists the hazards behind these properties, each at its line.

## 2. Modules

| module | what it is |
|---|---|
| `DialogueTurns` | vocabulary: sessions seen from outside and what one turn may make of them (`Successors`) |
| `Dialogue` | the abstract specification of one session |
| `SpecLogic` | the clarification policy, as operators |
| `Pipeline` | the LLM service; implements `Dialogue` |
| `MCPipeline` | instances of `Pipeline` |
| `SessionBackend` | handler, store, Redis and clients; uses `DialogueTurns` for what the LLM service returns |
| `MCSessionBackend` | the symmetry of requests |
| `SessionBackendProofs` | theorems about `SessionBackend` |
| `PipelineProofs` | theorems about `Pipeline`, its steps as steps of `Dialogue` included |
| `BackendConfig`, `MCBackendConfig`, `BackendConfigProofs` | `LoadConfig`, its instance, its theorem |
| `Chat`, `MCChat`, `ChatProofs` | the chat page, composed with `SessionBackend`; theorems |
| `FaultyRedis`, `MCFaultyRedis`, `FaultyRedisProofs` | `SessionBackend` on a Redis that restarts and executes commands late; theorems |
| `ContextNormalizer` | contexts as documents, `normalize_context_safe` |
| `InputPath`, `MCInputPath`, `InputPathProofs` | the search for the input path, from the context to the script; theorems about it and about the normaliser |
| `WorkerPools`, `WorkerPoolsProofs` | the thread pools of LLM service and validator, the validator's handler; theorems |
| `LuaChecker`, `MCLuaChecker`, `LuaCheckerProofs` | the static check; theorems |

How they fit: `Pipeline` is shown to implement `Dialogue`, and `SessionBackend`
takes for the LLM service exactly what `Dialogue` allows (any element of
`Successors` of the session it sent, an error, or no answer). `BackendConfig` says
when the `TimingAssumption` of `SessionBackend` is justified. `Chat` and `FaultyRedis`
extend `SessionBackend`: its actions are theirs, with a client that is a page, and
with faults it leaves out. `InputPath` details what `SpecLogic` leaves open
(`Candidates`): its `SearchEndsInContext` is what `SpecLogic` relies on. `WorkerPools`
details the call that `Pipeline.ValidateNode` takes in one step.

### SessionBackend

One element of `Requests` is an HTTP request, its goroutine and its lock token (the
code draws a fresh UUID, so tokens differ). `pc[r]` is the place in `Handler`:

| `pc` | code | leaves by |
|---|---|---|
| `idle` | before the request is decoded | `BadRequest` (400, or 500 when no session id can be drawn), `Receive` |
| `locking` | `store.Lock` | `Locked`, `Busy` (409), `LockFails` (500, also when no token can be drawn), `LockReplyLost` (409 or 500, with the key set) |
| `reading` | `store.Get` and the checks on the phase | `ReadState` (404, 409 or on), `ReadFails` (500) |
| `calling` | the gRPC call | `LLMReplies`, `LLMRefuses` (409), `CallFails` (a response without a state included), `CallTimesOut` (502) |
| `saving` | `store.Save` | `SendSave` / `Saved` (200 or 422), `SaveFails` (500) |
| `unlocking` | the deferred `store.Unlock` | `Unlock`, `UnlockFails` |
| `closed`, `dead` | returned; killed by `Crash` | |

An error whose text is empty (an exception without one, `RunFails` in `Pipeline`) is sent
with status 200, as the code does. `Sent`, `Refused` and the conditions in `ReadState` are
those of the code; a session is abstracted to its phase and the questions it has been
asked (`Dialogues`). Redis is `lockOwner`, `lockTTL`, `store` and `wire`: sending the SET
of `Save` and its execution are separate steps, so the sender may time out, disconnect or
die in between, and a reply may be lost (`Saved` need not move the handler). Time is
counted down by `Tick` on every clock at once: `rpcCtx` (`deadline`), lock keys
(`lockTTL`) and commands under way (`wire`). A clock at zero has run out; nothing in the
model forces a handler to notice before it takes its next step. A state's own time to live
is long and is not counted: `StateExpires` may happen at any time.

Assumptions of this model:

* Redis executes a command before its sender learns that it failed, or never, and
  at most `RedisWindow` after it was sent (`Saved` is impossible after that; go-redis
  sends nothing under a context that has ended). `TimingAssumption` leaves that
  window between request timeout and lock. `FaultyRedis` drops the first half of
  this assumption, and that Redis keeps what it was told.
* Redis and the backend agree on how fast time passes, and there is one backend
  process (or several: they share nothing but Redis; `Crash` then takes all of them).
* A handler that dies while its SETNX is under way behaves like `LockReplyLost`.
* The LLM service returns the session id it was given.
* `transport.py`/`encodeTransportText` wrapping of texts is left out.

### SpecLogic and Pipeline

`SpecLogic` abstracts a text to a member of `Texts`, and every scan of a text to a
constant: `GenericGoals` and `GenericReturns` (the sets the code compares with),
`CanonicalPath` (the `wf` path found in a text), `NoInputAnswers`. `MergeHistory`,
`NormalizeInputPath`, `Blocker`, `BuildQuestion` and `ClarifierDecision` keep the
order of the code's conditions. The search for a path in the context
(`_candidate_parent_path`) scores words against paths; the model lets it end with
any path of the context or none (`Candidates`); `InputPath` has the search itself.

`Pipeline` follows one session. While `node = "idle"`, `state` is the `PipelineState` its
caller holds; `StartOrContinue` and `AnswerClarification` start a run, each graph node is
an action (a call whose state lacks what the RPC needs is turned away by `Refuse`), each
router an operator (`RouteEntry`, `RouteAfterClarifier`, `RouteAfterValidate`), and the
terminal nodes return through `Response` (`_state_to_response`). `base` is the state the
run started with: that is what the handler of an exception returns (`RunFails`). The
language model is nondeterministic: it extracts any member of `SpecAgentOutputs`,
something that is not JSON (`parseFailed`), or fails the run; code is abstracted to
whether the checker accepts it and whether it runs; each stage can also be unreachable.
The graph's recursion limit is out of reach of the longest run.

### BackendConfig

`LoadConfig` on integers: durations that are set may be negative, as
`time.ParseDuration` allows, and a malformed one counts as not set.

### Chat

The page is a Streamlit script that runs from top to bottom after every event; what
outlives a run is `st.session_state`. `pendingSession` and `pendingRequest` are its
members `pending_session_id` and `pending_request`, `script` the place of the run
(`idle`, `calling` in `requests.post`, `finishing` between the response and the reset
of `pending_request`, `stopped` at `st.stop`), `shown` the question on the page.
`Submit` ends with a rerun, `StartCall` posts, `Received` takes the response in as the
code does by status, error, code and question, `CallRaises` is the `except` branch.
`Interrupt` is an event during a run: Streamlit abandons the run at its next use of
`st`, and the next run finds `inflight` set and stops. `Reload` is a new
`session_state`. The history variables `meant` and `untold` name what each answer was
meant for, and the sessions whose outcome the page was not told.

Assumptions: there is one page, and only the page calls the backend; a result that
is done carries code that is not blank; a small response reaches the page only
after the deferred unlock (gin flushes it when the handler has returned).

### FaultyRedis

`Ordinary` is any step of `SessionBackend`. `Restart` replaces states and locks by those
of any earlier time or by none, each lock with any remaining life, and drops the
commands under way. `SaveAbandoned` answers 500 while Redis has yet to execute the
SET. `disturbed` collects the requests such a fault hits (those at work during a
restart, the abandoned writer) and those that read a session which one of these can
still write. The code has no version in the state and no token in the write, so
these lose the guarantees; the properties say that nobody else does.

### ContextNormalizer and InputPath

A context is a function from the paths of its values to their kinds; items of a list share
the list's path, as they do in `_flatten_context_paths`. The backend passes on objects,
null or nothing, so documents that do not parse are not among them. A null is a value for
the search (`json.loads`), and none for the script: `dkjson.decode` makes nil of it, so
`ScriptPaths` has no path for it. A text is the sequence of its dotted segments; what
scanning a segment yields (`_split_identifier`, `_extract_search_terms`, the identifier at
its start, whether it ends in the word `wf`) is given by constants. `CanonicalPath` is the
first path anywhere in a text, as `re.search` finds it. Keys have no dot.
`_candidate_parent_path` tries the terms of a Python set one after another:
`CandidateParentPaths` is the set of results over all orders.

`given` is what the backend passed on, `context` what `_make_initial_state` makes of it;
`specified` and `reviewed` are the input path after the two evaluations, `seen` the
paths that exist for the script. `InputPath` follows one run before any answer.

### WorkerPools

`run[r]` is a run of the graph: queued for one of `LlmWorkers` threads, `thinking`
(calls of Ollama and the checker), `validating` (its RPC to the validator, with `age`),
`ended`. `call[c]` is the place of a call in the validator's handler: queued for one
of `ValidatorWorkers` threads, `writing` the script, `starting` and `running` the
interpreter, in the `finally` clause (`cleanup`), `over`. A call or run whose client has
gone is skipped when a worker takes it up, and is not interrupted once it has begun,
as in gRPC for Python. Everything but a running script is taken to be instantaneous
(`Urgent` holds the clock), and how long Ollama thinks is not counted. `crowded` and
`mishap` are history: calls that were made while a worker was busy for nobody, and
calls that may leave a file since a step of theirs failed. Files survive a restart
of the container.

### LuaChecker

A script is the set of its uses of names: the way through the syntax tree to the use
(edges of gopher-lua's nodes), the reference and its shape (read, call, method).
`WalkedEdges` and `CallParts` are the children `walk` goes on to, `SkippedEdges` those it
does not; `Walked` says which ways it takes, `CheckAttrGet`, `CheckFuncCall` and
`CheckArrayUsage` what it finds there, `Forbidden` is the code's list. The checks go by
name, and so does the model: that a script may bind `load` or `wf` to something of its own
is neither in the code nor here. Whether a script parses, is blank, wrapped, or
matches the pattern for JSON paths is an input.

## 3. Runs

| run | checks | what it shows |
|---|---|---|
| `backend_safety` | `TypeOK`, `LockCoversWrites`, `ReadIsCurrent`, `AcknowledgedIsDurable`, `LocksAreReleasedByTheirOwner`, `SessionsFollowDialogue` | three requests compete for one session while replies get lost, clients leave, the process dies and states expire |
| `backend_liveness` | `LocksEnd`, `RequestsEnd` | every lock ends and every request is answered |
| `config` | `LockOutlivesRequest` | every combination of durations around the code's thresholds |
| `pipeline_policy` | `TypeOK`, `QuestionsNeverRepeat`, `WaitingStateIsResumable`, `CodeComesFromApprovedSpec`, `SettledBlockersStaySettled` | every extraction of the spec agent after every kind of answer |
| `pipeline_session` | `DoneCodePassedBothStages`, `RepairBudgetIsExact`, `RunTerminates`, `ImplementsDialogue` | whole sessions with `MAX_REPAIRS = 2` as in the code, outages at every attempt and a model that fails in any call; they implement `Dialogue`, its liveness included |
| `chat` | `ChatTypeOK`, `PageKnowsItsSession`, `AnswersReachTheirQuestion` | page and backend agree through reruns, reloads, lost replies and crashes |
| `faulty_redis` | `FaultyTypeOK`, `UndisturbedHoldTheirLock`, `UndisturbedReadsAreCurrent`, `UndisturbedWritesAreTurns` | only the requests a fault of Redis hits lose the lock's guarantees |
| `input_path` | `TypeOK`, `SearchEndsInContext`, `ReviewKeepsPath`, `ScriptFindsItsInput`, `ScriptSeesWhatWasGiven` | from the context given to what the script finds |
| `worker_pools` | `TypeOK`, `NothingIsLeft`, `AnswersInTime`, `WorkersComeFree` | the two pools through restarts of both services and failures of every step |
| `lua_checker` | `RefusalsAreDeserved`, `NestingChangesNothing`, `StatementCallsAreChecked` | scripts with up to two uses anywhere in the tree: no refusal without a fault, one verdict in any block, and no statement that calls what the README names one by one |
| `chat_rerun` | `PendingRequestEnds` | violated, see section 6 |
| `lua_checker_wf` | `WfOnlyThroughSections` | violated, see section 6 |

Bounds:

* `backend_safety`: **three requests** let one hold the lock, one lose a reply or die
  with the lock taken, and a third find what they left; sessions do not interact
  (`Sessions` is a set with **one** member; the proofs are for any number). **Two
  questions** make a lost or repeated turn visible. `RequestTimeout = 2`,
  `RedisWindow = 1`, `LockTTL = 3` is the tightest choice the assumption allows, with
  a moment for every event before and after the deadline. Each request is handled
  once, so no counter needs a cap. A handler that has returned stays so: the system
  may really stop, hence `CHECK_DEADLOCK FALSE`. `BackendSymmetry` is sound: no
  action distinguishes requests or questions, and the run checks no liveness.
* `backend_liveness`: two requests, one question, no symmetry.
* `config`: four units to the minute, values one below, at and one above each
  threshold, and each variable unset. After `Start` nothing is left to do.
* `pipeline_policy`: three requests (no hint, a `wf` path, a hint at input), contexts
  with and without data, the one with data holding a key Lua cannot spell, answers
  that are blank, a confirmation and meaningful, fields extracted or missing or
  needing clarification. `MAX_REPAIRS = 0`: repairs have no part in the policy.
* `pipeline_session`: one request whose three fields can all become blockers, and the
  code's `MAX_REPAIRS`. Histories need no cap: a question is never repeated, so they
  end by themselves.
* `chat`: **three requests** of one page: a question, its answer and one more after a
  lost reply. One session: a second one only adds sessions nobody asks about, and
  is too large. The clocks are those of `backend_safety`. `chat_rerun` needs
  two requests and one question, and no symmetry.
* `faulty_redis`: two requests, one of each side of a fault, one restart. A second one
  could only add requests to `disturbed`.
* `input_path`: every document whose leaves are among nine paths (a collection and its
  fields, the same name in two sections, a key Lua cannot spell, one that starts with a
  digit, values beside the sections and beside `wf`), alone and among others with one of
  them null, and every kind of value at the places the normaliser looks at; requests that
  name nothing, one value, two, and only fields; extractions that are empty, sentinels,
  names, paths, and texts with a path in their middle.
* `worker_pools`: two runs with two attempts each, pools of one thread, one restart of
  each service; `ScriptLimit = 2` and `RpcTimeout = 4` keep the code's proportion (5 s
  and 10 s). A script abandoned by a restart of the LLM service and the one that comes
  after it fill the pool of the validator, and RPC deadlines do pass. The theorems
  on `WorkerPools` are for pools of any size. Runs are handled once, hence
  `CHECK_DEADLOCK FALSE`.
* `lua_checker`: ways of up to four edges through branches, a loop, functions, calls and
  every edge at which the walk stops, fourteen references of every form the checks tell
  apart; a second use, with a fault of its own or none, shows that a violation of one
  does not hide or cause one of the other.
  The theorems are for ways through any of the edges.

Every property has a mutant in `PROJECT.json`: a plausible bug in the code, as an
operator defined before the one it replaces, under which the run finds the
property violated.

## 4. Fairness

* `SessionBackend`: weak fairness of `Tick` (time passes) and, per request, of
  `HandlerStep` (the Go scheduler runs every goroutine, and go-redis bounds every
  command with its timeouts, so each Redis call ends in one of its outcomes).
  `HandlerStep` includes `CallTimesOut`, since a gRPC call under `rpcCtx` returns when
  that ends. Nothing is assumed of the LLM service (`LLMReplies`, `CallFails`), of
  clients, or of crashes.
* `Pipeline`: weak fairness of `RunStep`: a run that was started goes on. The calls of
  checker and validator have deadlines. Those of Ollama do not: for them this is
  an assumption about Ollama, not about the code; the backend's liveness does not
  rest on it.
* `pipeline_session` uses `CooperativeSpec`, which adds weak fairness of the user: starts the
  session and answers what is asked, with any answer, the blank one included, in
  calls that carry a state and a session id.

* `Chat`: weak fairness of the page's own steps (`StartCall`, `Received`, `Finish`, and
  `CallRaises` when the backend process has died and the connection is closed) and of
  the backend as above. Nothing is assumed of the user.
* `WorkerPools`: weak fairness of `Serve`: threads go on, time passes, and a call of
  Ollama ends. `ScriptEnds` is not in it: a script may run for ever, and
  `ScriptTimesOut` must end it.

## 5. Proofs

Every safety property of a passing run, action properties included, is proved for
every value of the constants. Symmetry and fairness have no part in the proofs. An
assumption on constants is named in the module that declares them, and TLC evaluates
it on every run of that module:

| assumption | says | because |
|---|---|---|
| `TimingAssumption` | `RequestTimeout + RedisWindow <= LockTTL` | `BackendConfig` says when `LoadConfig` sees to it |
| `NoneAssumption`, `MaxRestartsAssumption` | the null value is no request, session or status; a bound is a number | |
| `ConfigAssumption` | a minute is positive, durations that are set are integers | |
| `TextsAssumption`, `PipelineAssumption` | the blank text is generic; inputs and answers are texts | sets of `spec_logic.py` |
| `MarkersAssumption` | sentinels are distinct and not blank, and no path is a sentinel | `spec_logic.py:18`; a path begins with `wf.` |
| `KeysAssumption`, `SegmentsAssumption`, `InputsAssumption` | the kinds of the scanning functions and of the inputs | |
| `PoolsAssumption` | the LLM service has at most as many workers as the validator, a script's limit is below the RPC's | `max_workers` in both `serve()`, `timeout_ms`, `rpc_timeout_s` |
| `ScriptsAssumption` | a script is a set of uses in a syntax tree | the parser |

### SessionBackend

| theorem | property |
|---|---|
| `TypeCorrect` | `TypeOK` |
| `LockIsHeldWhileWriting` | `LockCoversWrites` |
| `NoStaleRead` | `ReadIsCurrent` |
| `StoredSessionsFollowDialogue` | `SessionsFollowDialogue` |
| `NoForeignUnlock` | `LocksAreReleasedByTheirOwner` |
| `AcknowledgementsLast` | `AcknowledgedIsDurable` |

The argument, layer by layer:

1. `TypeInv` is `TypeOK` and `HaveSessions`: a handler at work, or one whose SET is under
   way, has a session. Otherwise a SET could be executed for no session at all.
2. `LockInv(r)` is an invariant of each request by itself: what it needs of the others is
   nothing. That a request which can write owns its lock (`HoldsLock`) is not inductive:
   a `Tick` might take the lock. `ClocksFit` gives the numbers: while a handler at work
   owns the lock, its deadline and one command's window still fit in what is left of
   the lock, and a SET under way fits in it too. `WireWaits` says where a handler with a
   SET under way can be.
3. `Alone(r)` says that nobody else can write the session of r while r can; it follows
   from `LockInv` of both, since both would own the lock.
4. `ReadInv(r)` says that what r has read is stored, and that its result is a turn of it
   (`ReadsCurrent`, `ResultIsTurn`): with `Alone(r)` nobody can change it. From it follows
   `SessionsFollowDialogue`: the only step that stores a session stores a turn of what was
   read, and that is still what is stored.
5. `AckInv` adds `AcknowledgedIsDurable`: turns only continue sessions (`ContinuationOf` is
   transitive over `Successors`), so a result once stored is continued by all that is
   stored later.

### FaultyRedis

| theorem | property |
|---|---|
| `FaultyTypeCorrect` | `FaultyTypeOK` |
| `UndisturbedKeepTheirLock` | `UndisturbedHoldTheirLock` |
| `UndisturbedDoNotReadStale` | `UndisturbedReadsAreCurrent` |
| `UndisturbedTakeTurns` | `UndisturbedWritesAreTurns` |

`FaultyInv` is `LockInv(r)`, `Alone(r)` and `ReadInv(r)` for every request outside `disturbed`.
Here `Alone` does not follow from the locks, since a disturbed request may write without
one: it is an invariant of its own. It holds because a request that reads a session which a
disturbed one can still write is disturbed from then on, and because who can write after
a step could write before it or took the lock in it (`WriterStep`). The lemmas on single
requests are those of `SessionBackend`.

### Chat

| theorem | property |
|---|---|
| `ChatTypeCorrect` | `ChatTypeOK` |
| `PageAndSessionAgree` | `PageKnowsItsSession` |
| `AnswersMeetTheirQuestion` | `AnswersReachTheirQuestion` |
| `ChatKeepsSessions` | the backend's `LockCoversWrites`, `ReadIsCurrent` and `SessionsFollowDialogue`, behind the page |

The page's properties speak of the moments between two calls; during a call the session
runs ahead of the page. `ChatInv` bridges this: all requests about a session in sight are
over but the one the page waits for (`OthersAreOver`), and page and session `Agree`, or that
request has `Written` the session and its response will not deny it (`SightInv`).
`RequestInv` adds to the backend's invariant what a status says of a result. `AnswerInv` is the
same for answers: what the request of an answer has read asks the question its author was
shown. A session leaves the sight of the page (`untold`) when the page loses a response;
nothing is claimed of those, and no step but the page's brings it about.

### BackendConfig

`LoadedConfigKeepsOrder` is `LockOutlivesRequest`, for all integers.

### Pipeline

| theorem | property |
|---|---|
| `PipelineTypeCorrect` | `TypeOK` |
| `NeverRepeats` | `QuestionsNeverRepeat` |
| `DoneCodePassed` | `DoneCodePassedBothStages` |
| `BudgetIsExact` | `RepairBudgetIsExact` |
| `CodeIsApproved` | `CodeComesFromApprovedSpec` |
| `WaitingIsResumable` | `WaitingStateIsResumable` |
| `SettledForGood` | `SettledBlockersStaySettled` |
| `StepsOfDialogue` | the initial states and steps of `ImplementsDialogue` |

None of these properties is inductive: each speaks of the states in which a caller
or a node sees the session, and the code establishes it some nodes earlier. There are
three invariants, each on top of the one before:

* `Inv` says what every node may rely on. `WellFormed` holds throughout (entries of the
  history have different questions, code has an approved specification, attempts are
  counted); `Startable` holds until the clarifier's review (nothing is left of an earlier
  run) and of `base`, so that a failed run returns a legal end of the session; `Asks` holds
  from a question until its answer, and gives the next entry of the history; `AfterReview`
  says what leads to `generate`, `validate`, `done` and `error`. About the policy it needs
  only `EvaluateSpecEvaluated`: the target of an evaluated specification is the blocker of
  its fields.
* `Typed` is `TypeOK`, and that the clarifier finds a specification.
* `Settling`: from the extraction on, the specification agrees with every answer of the
  history (`AnswersSettle`), but for states that a failed run was started with; and nothing
  of a validation is left before the next one.

`Settling` needs what `MergeHistory`, a fold over the history, computes for histories of any
length. The induction over their length is obtained from the library's theorem that strict
inclusion of finite sets is well-founded: a set of numbers without a smallest counterexample
is all of `Nat` (`NumbersByInduction`). `MergeSteps` then gives the fold's values after each
entry, `MergeEntryFills` what one entry does, and `MergeHistoryFills` that a field once filled
stays filled. `StepsOfDialogue` follows with one lemma per action: a step inside a run does
not show, the return from a run is a turn, and an answer or a call on an ended session
changes nothing that its caller sees. `BudgetIsExact` is about the steps that end a run: a run
returns from a terminal node or fails (`RunsEndAtTheirEnds`); `AfterReview` has the attempts
spent at `error`; and where a run fails nothing of a validation is left in `base`, so that the
session's error is the exception's and no diagnostics (`Returned`).

### ContextNormalizer and InputPath

| theorem | what it says |
|---|---|
| `NormalizeSafeTwice` | normalising twice is normalising once |
| `NormalisationKeepsData` | normalising keeps all values of a context of the described form |
| `InputTypeCorrect` | `TypeOK` |
| `SearchStaysInContext` | `SearchEndsInContext` |
| `ReviewChangesNothing` | `ReviewKeepsPath` |
| `InputIsFound` | `ScriptFindsItsInput` |
| `GivenDataIsSeen` | `ScriptSeesWhatWasGiven` |

`Contexts` is the first invariant: `context` is normalised, and `seen`, once set, is what
the script makes of it normalised again; `NormalizeSafeTwice` makes the two the same
document, so that the script sees all its values but the nulls (`OneView`). `PathInv` adds
that `specified` was `EvaluatedFrom` what the spec agent said and `reviewed` from
`specified`. What a search returns is read off its definition, with lemmas for the
operators it rests on: `Max` of a set of numbers (again by well-foundedness of finite
sets), the first path in a text and the longest one there (`MinOfNumbers`,
`CanonicalPathForm`, `CanonicalPathWhole`), the single member of a set, and that prefixes
of a normalised document's paths are its paths. The review keeps a path because evaluating
a spellable path in a section gives the path itself (`EvaluatedAgain`).

### WorkerPools

| theorem | property |
|---|---|
| `TypeCorrect` | `TypeOK` |
| `NothingLeft` | `NothingIsLeft` |
| `AnsweredInTime` | `AnswersInTime` |

`TypeOK` is not inductive: that `attempt`, `age` and `ran` stay below their limits needs where
runs and calls are (`Urgent` holds the clock at a limit), and that a call waiting in a
queue is at its place (`Inv`).

`AnsweredInTime` adds two invariants. `Pool`: no more runs are at work than the LLM service has
workers. `Served`: for a call that is waited for and was not made in a crowd, either a
worker of the validator is left for it (`Room`: those that are busy, and those with calls
ahead of it in the queue, are fewer than the pool) and it has no age; or its age is what its
script has run. `Room` holds when the call is made: everything in front of it
belongs to a client that waits, these are different runs at work, and the caller is one
more (`RoomForNew` counts them by an injection into the runs). Afterwards what is in front of
it only shrinks. So while it is queued, time stands still, and a script's limit is below the
RPC's deadline.

### LuaChecker

| theorem | property |
|---|---|
| `OnlyFaultsAreRefused` | `RefusalsAreDeserved` |
| `NestingIsImmaterial` | `NestingChangesNothing` |
| `DocumentedCallsAreFound` | `StatementCallsAreChecked` |

For ways and references of any length. The reply is what `Validate` says; the lemmas are about
one use. What is found at a use is among its faults (`FoundIsFault`). A block in front of a way
is walked, and so a way is walked inside it if and only if it was before
(`WalkedThroughBlock`, `StatementThroughBlock`), so that the same is found (`FoundInBlock`). A
call in nothing but blocks is a walked statement (`CallStatementIsWalked`), and what is found
there covers the documented functions and every helper that is not permitted
(`ArrayUsage`, `BelowArray`).

### Only model-checked

Liveness under fairness, which this prover does not do: `LocksEnd`, `RequestsEnd`,
`RunTerminates`, `WorkersComeFree`, and the fairness of `ImplementsDialogue` (its safety half
is `StepsOfDialogue`). The two properties of section 6 are violated.

## 6. Where documentation and code disagree

* `chat_rerun`: the page tells the user to wait for an answer. After an event of the
  page during the call (a change in the sidebar, say) nobody waits for it any more,
  `inflight` stays set, and the chat is disabled until the page is loaded anew.
* `lua_checker_wf`: the README says the check ensures that `wf` is used through its sections
  only. `walk` does not go into calls within expressions, operators, functions without
  a name or method calls, and `wf[1]` passes. Calls of forbidden functions there pass, too;
  hence `StatementCallsAreChecked` is about statements.

Seen while modelling, and allowed by the models without a run of their own:

* The README names `debug.*` among what the checker blocks; its list has seven functions of
  `debug`, and `debug.setmetatable(...)` passes as a plain statement. The README's other
  functions are all listed: `StatementCallsAreChecked` is about those it names one by one.
* The repair prompt calls the code it encloses "failed validation". An outage of the checker
  or the validator counts as a failed validation, so the model is asked to repair code in
  which nothing was found wrong. Outages use up attempts as faults do: three of them end a
  session, which `RepairBudgetIsExact` allows.
* The README's account of a multi-turn dialogue starts with the backend persisting
  the answer. `Handler` saves after the LLM call only: one that fails loses the answer
  (`CallFails`).
* The README says an answer leads to approval or to an error. The clarifier may ask a
  second and a third question (`QuestionsNeverRepeat` bounds them).
* A comment in `_state_to_response` promises diagnostics in the error message after the
  last repair. `error_node` has set a non-empty error by then, so code that failed at
  run time ends as "unknown error".
* A test is named "... never approves generation". With answers for goal and return
  value in the history, an output that cannot be parsed is approved (`MergeHistory`).
* An answer names its session only. After a turn whose response was lost, the answer
  to the old question is taken for the answer to the new one: hence the second
  disjunct of `AnswersReachTheirQuestion`.
* The README calls the clarifier's policy deterministic; its search returns at the first
  term of a Python set that fits (`CandidateParentPaths` is a set of outcomes).
* On the second evaluation the words of the sentinel for tasks without input (input,
  path, not, applicable) are search terms, so a context with a value called `path`
  gets that as its input path: hence the condition in `ReviewKeepsPath`.

## 7. What is not modelled, and what is left

Not modelled: prompts and wording (`prompts.py`, texts for the language model without
control), `_build_context_schema` (its result reaches prompts only), encodings of texts
(so the error path of `main.py` that serialises what could not be serialised is a
hazard without a property), the text of a user's request (so that a prompt for an
ended session is ignored is one, too; the page sends none), generated code, the
parser of the checker, the language model itself, and tests. Sidebar and
rendering of the page and `transport.py` carry texts to and fro.

What could follow:

1. **Two pages** on one session (a duplicated tab has its own state), and two sessions
   in `chat`: both need a smaller backend, for which `Dialogue`'s turns could stand in.
2. **Search and policy together**: `SpecLogic` with `CandidateParentPaths` in place of
   `Candidates`, to see the search after answers.
