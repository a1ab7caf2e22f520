SPECIFICATION Spec
CONSTANTS
    Cases <- SoundCases
    Inputs <- ThreeInputs
    MaxCopies = 64
    MaxTrips = 8
    MaxBlocks = 60
    CallerSaved <- OneCaller
    CalleeSaved <- OneCallee
    FloatPool <- OneFloat
    NONE = NONE
INVARIANTS
    SemanticsPreserved
    NeverRejected
    DominanceExact
    SsaForm
    LoopsExact
    FixpointReached
    IntervalsCover
    NativePreserved
CHECK_DEADLOCK FALSE
