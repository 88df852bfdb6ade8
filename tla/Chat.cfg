SPECIFICATION ChatSpec
CONSTANTS
    None = None
    Requests = {r1, r2, r3}
    Sessions = {s1}
    Questions = {q1, q2}
    RequestTimeout = 2
    RedisWindow = 1
    LockTTL = 3
SYMMETRY ChatSymmetry
CHECK_DEADLOCK FALSE
INVARIANTS
    ChatTypeOK
    PageKnowsItsSession
    AnswersReachTheirQuestion
