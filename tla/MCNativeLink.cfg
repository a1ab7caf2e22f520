SPECIFICATION Spec
CONSTANTS
    Programs <- MCPrograms
    PageSize = 512
INVARIANTS
    ObjectExact
    LinkedExactly
    LinkDecision
    SegmentsLoadable
CHECK_DEADLOCK FALSE
