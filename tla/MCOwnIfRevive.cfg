SPECIFICATION Spec
CONSTANT Families <- RevivingFamilies
INVARIANT NoUseAfterMove
CHECK_DEADLOCK FALSE
