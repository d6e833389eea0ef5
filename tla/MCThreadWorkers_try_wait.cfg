SPECIFICATION Spec
CONSTANTS
  Tasks = {1, 2}
  Graphs <- TwoTasks
  NoGraph = NoGraph
  NoTask = NoTask
  Requests = {2}
  Hardware = 2
  Users = {"u1", "u2"}
  MaxCalls <- Three
PROPERTIES TryWaitTruthful
CHECK_DEADLOCK FALSE
