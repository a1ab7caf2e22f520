SPECIFICATION Spec
CONSTANT Families <- SafeFamilies
INVARIANTS
    NoUseAfterMove
    FreedIsGone
    NoLeak
    TableAgreesWithRun
CHECK_DEADLOCK FALSE
