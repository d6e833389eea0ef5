SPECIFICATION FairSpec
CONSTANTS
  Workers = {w1}
  Users = {u1}
  Paths = {1, 2, 3}
  Roots <- RootsOfChain
  Children <- Chain
  Hardware = 1
  Calls <- RunCalls
  MaxCalls <- Three
  Spurious = TRUE
  NoPath = NoPath
  NoThread = NoThread
PROPERTIES
  RunReturns
