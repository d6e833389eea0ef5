SPECIFICATION FairSpec
CONSTANTS
  Workers = {w1, w2}
  Users = {"u1", "u2"}
  Paths = {1, 2}
  Roots <- RootsOfChain
  Children <- Chain
  Hardware = 2
  Calls <- ConsumerCalls
  MaxCalls <- ThreeAndOne
  Spurious = TRUE
  NoPath = NoPath
  NoThread = NoThread
PROPERTIES
  WorkersFinish
  PendingWorkIsTaken
  ResultsReturn
  StopReturns
