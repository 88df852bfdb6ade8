SPECIFICATION Spec
CONSTANTS
    None = None
    Texts <- MCTexts
    Empty = ""
    NotApplicable = "not applicable"
    NeedsClarification = "needs clarification"
    GenericGoals <- MCGenericGoals
    GenericReturns <- MCGenericReturns
    BinarySearchTexts <- MCBinarySearchTexts
    NoInputAnswers <- MCNoInputAnswers
    ContextPaths <- MCContextPaths
    CanonicalPath <- MCCanonicalPath
    UserRequests <- PolicyRequests
    UserContexts <- PolicyContexts
    Answers <- PolicyAnswers
    SpecAgentOutputs <- PolicyOutputs
    MAX_REPAIRS = 0
INVARIANTS
    TypeOK
    QuestionsNeverRepeat
    WaitingStateIsResumable
    CodeComesFromApprovedSpec
    SettledBlockersStaySettled
