SPECIFICATION CooperativeSpec
CONSTANTS
    None = None
    Texts <- MCTexts
    Empty = ""
    NotApplicable = "not applicable"
    NeedsClarification = "needs clarification"
    GenericGoals <- MCGenericGoals
    GenericReturns <- MCGenericReturns
    BinarySearchTexts <- MCBinarySearchTexts
    NoInputAnswers <- MCNoInputAnswers
    ContextPaths <- MCContextPaths
    CanonicalPath <- MCCanonicalPath
    UserRequests <- SessionRequests
    UserContexts <- SessionContexts
    Answers <- SessionAnswers
    SpecAgentOutputs <- SessionOutputs
    MAX_REPAIRS = 2
INVARIANTS
    DoneCodePassedBothStages
PROPERTIES
    RepairBudgetIsExact
    RunTerminates
    ImplementsDialogue
