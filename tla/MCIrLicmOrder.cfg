SPECIFICATION Spec
CONSTANTS
    Cases <- InvariantCases
    Inputs <- ThreeInputs
    MaxCopies = 64
    MaxTrips = 8
    MaxBlocks = 60
    CallerSaved <- OneCaller
    CalleeSaved <- OneCallee
    FloatPool <- OneFloat
    NONE = NONE
INVARIANT
    SsaForm
CHECK_DEADLOCK FALSE
