SPECIFICATION Spec
CONSTANTS
    Names <- MCNames
    Scripts <- MCScripts
INVARIANTS
    RefusalsAreDeserved
    NestingChangesNothing
    StatementCallsAreChecked
CHECK_DEADLOCK FALSE
