SPECIFICATION Spec
CONSTANTS
  Shapes <- CouplingShapes
  Facts <- CouplingFacts
  Options <- DefaultOnly
  Arrays = {"A", "B"}
  MinParallel = 100
  MinCPU = 1000
  BatchLimit = 50000
  HelperLimit = 1000
INVARIANT
  NoHostTouchBetween
CHECK_DEADLOCK FALSE
