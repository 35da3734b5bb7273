SPECIFICATION Spec
CONSTANTS
  a = a
  b = b
  c = c
  d = d
  None = None
  MaxWeight = 3
  MaxEntries = 3
  MaxReplicas = 6
  MaxListing = 4
INVARIANTS
  ExactTotal
  NearestShare
  KeepsExactly
CHECK_DEADLOCK FALSE
