SPECIFICATION FairSpec
CONSTANTS
  Tasks = {1, 2, 3, 4}
  Graphs <- SomeGraphs
  NoGraph = NoGraph
  NoTask = NoTask
  Requests = {0, 4}
  Hardware = 2
  Users = {"u1", "u2"}
  MaxCalls <- TwoAndOne
INVARIANTS QueuedOnceAndReady SleepersNotNeeded EndsOnlyWhenDone
PROPERTIES ImplementsTaskOrder WorkCompletes WaitReturns
CHECK_DEADLOCK FALSE
