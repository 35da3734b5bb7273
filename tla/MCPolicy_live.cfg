SPECIFICATION FairSpec
CONSTANTS
  p = p
  q = q
  a = a
  b = b
  m = m
  n = n
  d1 = d1
  d2 = d2
  x = x
  y = y
  None = None
  Policies = {p}
  Groups = {a}
  Nodes = {m}
  Deploys = {d1}
  Pods = {x, y}
  Specs <- EmptyOrNot
  Selectors <- OnlyEast
  LabelSets <- EastWest
  Sizes <- OneReplica
  Selected <- EverythingSelected
  MaxEvents = 1
PROPERTIES
  Converges
CHECK_DEADLOCK FALSE
