SPECIFICATION Spec
CONSTANTS
    Minute = 4
    EnvDurations <- MCEnvDurations
    Unset = Unset
CHECK_DEADLOCK FALSE
INVARIANT
    LockOutlivesRequest
