SPECIFICATION Spec
CONSTANTS
    Runs = {r1, r2}
    Attempts = 2
    LlmWorkers = 1
    ValidatorWorkers = 1
    ScriptLimit = 2
    RpcTimeout = 4
    MaxRestarts = 1
INVARIANTS
    TypeOK
    NothingIsLeft
PROPERTIES
    AnswersInTime
    WorkersComeFree
CHECK_DEADLOCK FALSE
