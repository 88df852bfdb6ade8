SPECIFICATION FaultySpec
CONSTANTS
    None = None
    Requests = {r1, r2}
    Sessions = {s1}
    Questions = {q1, q2}
    RequestTimeout = 2
    RedisWindow = 1
    LockTTL = 3
    MaxRestarts = 1
SYMMETRY FaultySymmetry
CHECK_DEADLOCK FALSE
INVARIANTS
    FaultyTypeOK
    UndisturbedHoldTheirLock
    UndisturbedReadsAreCurrent
    UndisturbedWritesAreTurns
