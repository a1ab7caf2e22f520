SPECIFICATION Spec
CONSTANTS
    Cases <- NestedCases
    Inputs <- ThreeInputs
    MaxCopies = 64
    MaxTrips = 8
    MaxBlocks = 60
    CallerSaved <- OneCaller
    CalleeSaved <- OneCallee
    FloatPool <- OneFloat
    NONE = NONE
INVARIANT
    CrossingsFound
CHECK_DEADLOCK FALSE
