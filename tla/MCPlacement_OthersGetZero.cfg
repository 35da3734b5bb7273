SPECIFICATION Spec
CONSTANTS
  a = a
  b = b
  c = c
  d = d
  None = None
  MaxWeight = 2
  MaxEntries = 2
  MaxReplicas = 3
  MaxListing = 0
INVARIANTS
  OthersGetZero
CHECK_DEADLOCK FALSE
