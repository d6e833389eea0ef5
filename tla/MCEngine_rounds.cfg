SPECIFICATION Spec
CONSTANTS
  Workers = {w1, w2}
  Users = {"u1", "u2"}
  Paths = {1, 2, 3}
  Roots <- RootsOfFork
  Children <- Fork
  Hardware = 2
  Calls <- RoundsCalls
  MaxCalls <- FiveAndTwo
  Spurious = TRUE
  NoPath = NoPath
  NoThread = NoThread
SYMMETRY WorkerSymmetry
INVARIANTS
  WorkConserved
  ResetAssertions
  FanoutAccounts
  CountersMatch
  NoSharedWork
PROPERTIES
  QuitOnlyWhenDone
  ChangeStateAssertions
  StopQuiesces
  ImplementsExploration
