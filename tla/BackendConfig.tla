----------------------------- MODULE BackendConfig -----------------------------
(***************************************************************************)
(* The durations of the backend: LoadConfig of internal/config/config.go.  *)
(* Their order is what SessionBackend's TimingAssumption rests on.         *)
(* Durations are integers; the environment can set any, negative ones too. *)
(***************************************************************************)
EXTENDS Integers

CONSTANTS
    Minute,          \* time.Minute
    EnvDurations,    \* durations the environment may set
    Unset            \* a variable that is not set, or is no duration

ASSUME ConfigAssumption ==
    /\ Minute \in Nat \ {0}
    /\ EnvDurations \subseteq Int
    /\ Unset \notin Int

VARIABLES
    env,     \* the environment of the process
    config   \* what LoadConfig returned, or Unset before it has run

vars == <<env, config>>

Hour == 60 * Minute

Envs == [SESSION_LOCK_TTL : EnvDurations \union {Unset},
         PIPELINE_STATE_TTL : EnvDurations \union {Unset},
         LLM_REQUEST_TIMEOUT : EnvDurations \union {Unset}]

\* getDurationEnv.
DurationEnv(value, fallback) == IF value = Unset THEN fallback ELSE value

StateTTL(stateTTL, lockTTL) ==
    IF stateTTL <= lockTTL THEN lockTTL + Hour ELSE stateTTL

\* Mutant: the timeout is only cut when it exceeds the lock's time to live.
TimeoutCutTooLate(timeout, lockTTL) ==
    LET cut == IF timeout > lockTTL /\ lockTTL > Minute
               THEN lockTTL - Minute ELSE timeout
    IN  IF cut <= 0 THEN lockTTL ELSE cut

\* The timeout of a request: cut to fit the lock, then made positive.
RequestTimeout(timeout, lockTTL) ==
    LET cut == IF timeout >= lockTTL /\ lockTTL > Minute
               THEN lockTTL - Minute ELSE timeout
    IN  IF cut <= 0 THEN lockTTL ELSE cut

LoadConfig(e) ==
    LET lockTTL == DurationEnv(e.SESSION_LOCK_TTL, 20 * Minute)
    IN  [SessionLockTTL |-> lockTTL,
         PipelineStateTTL |->
             StateTTL(DurationEnv(e.PIPELINE_STATE_TTL, 24 * Hour), lockTTL),
         LLMRequestTimeout |->
             RequestTimeout(DurationEnv(e.LLM_REQUEST_TIMEOUT, 15 * Minute), lockTTL)]

Init == env \in Envs /\ config = Unset

\* main.go: the configuration is loaded once.
Start ==
    /\ config = Unset
    /\ config' = LoadConfig(env)
    /\ UNCHANGED env

Next == Start

Spec == Init /\ [][Next]_vars

-------------------------------------------------------------------------------
\* A lock outlives the request that took it, and the state of a session the
\* lock, whatever the environment says: with two exceptions that LoadConfig
\* leaves, a lock of a minute or less and a request timeout that is not
\* positive, where the lock may run out first or at the same time.
LockOutlivesRequest ==
    config # Unset =>
        /\ config.PipelineStateTTL > config.SessionLockTTL
        /\ \/ config.SessionLockTTL <= Minute
           \/ env.LLM_REQUEST_TIMEOUT # Unset /\ env.LLM_REQUEST_TIMEOUT <= 0
           \/ 0 < config.LLMRequestTimeout /\ config.LLMRequestTimeout < config.SessionLockTTL
===============================================================================
