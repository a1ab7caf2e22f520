CONSTANTS
  k1 = k1
  k2 = k2
  k3 = k3
  k4 = k4
  k5 = k5
  NULL = NULL
  Keys <- MCKeys
  Hash <- MCHash
  Values = {v1, v2}
  InitialCapacity = 4
  MaxCapacity = 16
  OwnsKeys = TRUE
SPECIFICATION Spec
INVARIANTS NoHiddenEntry CountersExact ProbesTerminate OwnershipExact
PROPERTY RefinesDict
