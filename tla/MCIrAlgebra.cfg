SPECIFICATION Spec
CONSTANTS
    Cases <- LastCases
    Inputs <- ThreeInputs
    MaxCopies = 64
    MaxTrips = 8
    MaxBlocks = 60
    CallerSaved <- OneCaller
    CalleeSaved <- OneCallee
    FloatPool <- OneFloat
    NONE = NONE
INVARIANT
    SemanticsPreserved
CHECK_DEADLOCK FALSE
