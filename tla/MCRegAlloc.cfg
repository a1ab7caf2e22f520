SPECIFICATION Spec
CONSTANTS
    CallerSaved <- OneCaller
    CalleeSaved <- OneCallee
    FloatPool <- OneFloat
    NONE = NONE
    Inputs <- AllTables
    MaxHomes = 1
INVARIANTS
    NoSharing
    BusyExact
    PlacedAcrossCalls
    FrameSafe
    SpilledUnderPressure
CHECK_DEADLOCK FALSE
