SPECIFICATION Spec
CONSTANTS
    Keys <- MCKeys
    Segments <- MCSegments
    Terms <- MCTerms
    Lower <- MCLower
    Words <- MCWords
    TermsOf <- MCTermsOf
    Cut <- MCCut
    EndsInWf <- MCEndsInWf
    FieldConcepts = {"id", "name"}
    UserContexts <- MCContexts
    UserRequests <- MCRequests
    RawInputPaths <- MCRawInputPaths
CHECK_DEADLOCK FALSE
INVARIANTS
    TypeOK
    SearchEndsInContext
    ReviewKeepsPath
    ScriptFindsItsInput
    ScriptSeesWhatWasGiven
