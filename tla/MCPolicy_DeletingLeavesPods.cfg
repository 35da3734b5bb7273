SPECIFICATION Spec
CONSTANTS
  p = p
  q = q
  a = a
  b = b
  m = m
  n = n
  d1 = d1
  d2 = d2
  x = x
  y = y
  None = None
  Policies = {p}
  Groups = {a, b}
  Nodes = {m}
  Deploys = {d1}
  Pods = {x, y}
  Specs <- OneSpec
  Selectors <- OnlyEast
  LabelSets <- OnlyEast
  Sizes <- OneReplica
  Selected <- EverythingSelected
  MaxEvents = 1
INVARIANTS
  DeletingLeavesPods
CHECK_DEADLOCK FALSE
