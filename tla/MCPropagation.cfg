SPECIFICATION FairSpec
CONSTANTS
  a = a
  b = b
  m = m
  n = n
  None = None
  Nodes = {m, n}
  Pods = {p1, p2, p3}
  Groups = {a, b}
  NodesIn <- MinA
  WeightLists <- EvenAndUneven
  Size = 2
  MaxUnavailable = 1
  MaxSurge = 1
  MaxEarly = 1
INVARIANT TypeOK
PROPERTIES
  BalanceIsStable
  EventuallyBalanced
  AlwaysComesBack
CHECK_DEADLOCK FALSE
