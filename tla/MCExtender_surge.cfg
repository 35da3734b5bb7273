SPECIFICATION Spec
CONSTANTS
  p = p
  q = q
  a = a
  b = b
  m = m
  n = n
  d1 = d1
  d2 = d2
  x = x
  y = y
  z = z
  None = None
  PolicyOrder <- OrderP
  Groups = {a, b}
  Nodes = {m, n}
  Deploys = {d1}
  Pods = {x, y, z}
  Specs <- SurgeSpecs
  DeploySpecs <- Surge
  Selectors <- EastWest
  LabelSets <- EastWest
  Feasible <- AllNodes
  MaxBinding = 2
  MaxEdits = 0
  MaxFailures = 0
INVARIANTS
  FewTooMany
CHECK_DEADLOCK FALSE
