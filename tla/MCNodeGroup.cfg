SPECIFICATION FairSpec
CONSTANTS
  None = None
  Groups = {a}
  Nodes = {m, n}
  Selectors <- EastAny
  LabelSets <- EastWest
  MaxEvents = 4
INVARIANTS
  TypeOK
  Settled
PROPERTIES
  StatusFitsSpec
  LiveGroupsAreKept
  ImplementsStatus
  EventuallyAccurate
CHECK_DEADLOCK FALSE
