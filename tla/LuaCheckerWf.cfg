SPECIFICATION Spec
CONSTANTS
    Names <- MCNames
    Scripts <- MCScripts
INVARIANTS
    WfOnlyThroughSections
CHECK_DEADLOCK FALSE
