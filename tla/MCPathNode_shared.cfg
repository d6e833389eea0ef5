SPECIFICATION FairSpec
CONSTANTS
  Nodes = {1, 2, 3, 4, 5, 6}
  NoNode = NoNode
  Parent <- Tree
  Starts = {3, 4}
  NextUnits <- TreeUnits
  Unknown = {6}
  Workers = {w1, w2}
  Consumers = {c1}
INVARIANTS
  BorrowedAlone
  StateAssertions
  ExecutedOnce
  FailureExplained
  StatesReleased
PROPERTIES
  AllExplored
CHECK_DEADLOCK FALSE
