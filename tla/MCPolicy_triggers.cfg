SPECIFICATION Spec
CONSTANTS
  p = p
  q = q
  a = a
  b = b
  m = m
  n = n
  d1 = d1
  d2 = d2
  x = x
  y = y
  None = None
  Policies = {p, q}
  Groups = {a, b}
  Nodes = {m}
  Deploys = {d1}
  Pods = {}
  Specs <- TriggerSpecs
  Selectors <- EastWest
  LabelSets <- OnlyEast
  Sizes <- TwoReplicas
  Selected <- NothingSelected
  MaxEvents = 2
INVARIANTS
  NoLostTrigger
CHECK_DEADLOCK FALSE
