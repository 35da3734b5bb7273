SPECIFICATION Spec
CONSTANTS
  p = p
  q = q
  a = a
  b = b
  m = m
  n = n
  d1 = d1
  d2 = d2
  x = x
  y = y
  z = z
  None = None
  PolicyOrder <- OrderP
  Groups = {a, b}
  Nodes = {m, n}
  Deploys = {d1}
  Pods = {x}
  Specs <- EmptySpecs
  DeploySpecs <- OneOfOne
  Selectors <- EastWest
  LabelSets <- EastWest
  Feasible <- AllNodes
  MaxBinding = 1
  MaxEdits = 0
  MaxFailures = 0
INVARIANTS
  EmptyFieldsAreAllowed
CHECK_DEADLOCK FALSE
