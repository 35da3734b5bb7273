SPECIFICATION Spec
CONSTANTS
  p = p
  q = q
  a = a
  b = b
  m = m
  n = n
  d1 = d1
  d2 = d2
  x = x
  y = y
  None = None
  Policies = {p}
  Groups = {a, b}
  Nodes = {m}
  Deploys = {d1, d2}
  Pods = {x, y}
  Specs <- BothSpec
  Selectors <- OnlyEast
  LabelSets <- EastWest
  Sizes <- OneReplica
  Selected <- XShared
  MaxEvents = 1
INVARIANTS
  TypeOK
  OnlyPlacedPods
  Trimmed
CHECK_DEADLOCK FALSE
