-------------------------- MODULE BackendConfigProofs --------------------------
(***************************************************************************)
(* LoadConfig keeps a lock longer than a request, for all integers.        *)
(***************************************************************************)
EXTENDS BackendConfig, TLAPS

\* What LoadConfig returns is kept as it is.
Loaded ==
    /\ env \in Envs
    /\ config # Unset => config = LoadConfig(env)

\* A duration of the environment, or its fallback, is an integer.
LEMMA DurationEnvType ==
    ASSUME NEW value \in EnvDurations \union {Unset}, NEW fallback \in Int
    PROVE  DurationEnv(value, fallback) \in Int
BY ConfigAssumption DEF DurationEnv

\* The request timeout fits a lock of more than a minute.
LEMMA TimeoutFits ==
    ASSUME NEW timeout \in Int, NEW lockTTL \in Int,
           timeout > 0, lockTTL > Minute
    PROVE  0 < RequestTimeout(timeout, lockTTL) /\ RequestTimeout(timeout, lockTTL) < lockTTL
BY ConfigAssumption DEF RequestTimeout

\* LockOutlivesRequest is an invariant, whatever the environment says.
THEOREM LoadedConfigKeepsOrder == Spec => []LockOutlivesRequest
<1>1. Init => Loaded
  BY DEF Init, Loaded
<1>2. Loaded /\ [Next]_vars => Loaded'
  BY DEF Loaded, Next, Start, vars
<1>3. Loaded => LockOutlivesRequest
  <2>. SUFFICES ASSUME Loaded, config # Unset PROVE LockOutlivesRequest
    BY DEF LockOutlivesRequest
  <2>. DEFINE lockTTL == DurationEnv(env.SESSION_LOCK_TTL, 20 * Minute)
              stateTTL == DurationEnv(env.PIPELINE_STATE_TTL, 24 * Hour)
              timeout == DurationEnv(env.LLM_REQUEST_TIMEOUT, 15 * Minute)
  <2>1. lockTTL \in Int /\ stateTTL \in Int /\ timeout \in Int
    <3>1. /\ env.SESSION_LOCK_TTL \in EnvDurations \union {Unset}
          /\ env.PIPELINE_STATE_TTL \in EnvDurations \union {Unset}
          /\ env.LLM_REQUEST_TIMEOUT \in EnvDurations \union {Unset}
      BY DEF Loaded, Envs
    <3>2. 20 * Minute \in Int /\ 24 * Hour \in Int /\ 15 * Minute \in Int
      BY ConfigAssumption DEF Hour
    <3>. QED
      BY <3>1, <3>2, DurationEnvType
  <2>2. config = [SessionLockTTL |-> lockTTL,
                  PipelineStateTTL |-> StateTTL(stateTTL, lockTTL),
                  LLMRequestTimeout |-> RequestTimeout(timeout, lockTTL)]
    BY DEF Loaded, LoadConfig
  <2>3. StateTTL(stateTTL, lockTTL) > lockTTL
    BY <2>1, ConfigAssumption DEF StateTTL, Hour
  <2>4. CASE env.LLM_REQUEST_TIMEOUT # Unset /\ env.LLM_REQUEST_TIMEOUT <= 0
    BY <2>2, <2>3, <2>4 DEF LockOutlivesRequest
  <2>5. CASE env.LLM_REQUEST_TIMEOUT = Unset \/ ~(env.LLM_REQUEST_TIMEOUT <= 0)
    <3>1. timeout > 0
      BY <2>1, <2>5, ConfigAssumption DEF DurationEnv
    <3>2. lockTTL > Minute =>
            0 < RequestTimeout(timeout, lockTTL) /\ RequestTimeout(timeout, lockTTL) < lockTTL
      BY <2>1, <3>1, TimeoutFits
    <3>3. lockTTL > Minute \/ lockTTL <= Minute
      BY <2>1, ConfigAssumption
    <3>. HIDE DEF lockTTL, stateTTL, timeout
    <3>. QED
      BY <2>2, <2>3, <3>2, <3>3 DEF LockOutlivesRequest
  <2>. QED
    BY <2>4, <2>5
<1>. QED
  BY <1>1, <1>2, <1>3, PTL DEF Spec
===============================================================================
