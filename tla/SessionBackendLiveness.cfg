SPECIFICATION Spec
CONSTANTS
    None = None
    Requests = {r1, r2}
    Sessions = {s1}
    Questions = {q1}
    RequestTimeout = 2
    RedisWindow = 1
    LockTTL = 3
CHECK_DEADLOCK FALSE
PROPERTIES
    LocksEnd
    RequestsEnd
