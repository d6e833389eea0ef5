SPECIFICATION Spec
CONSTANTS
  Shapes <- SmallShapes
  Facts <- SmallFacts
  Options <- SmallOptions
  Arrays = {"A", "B"}
  MinParallel = 100
  MinCPU = 1000
  BatchLimit = 50000
  HelperLimit = 1000
INVARIANTS
  DirectivesSafe
  NoNestedKernels
  HostBetweenHeldBack
  HelpersGrouped
  CountsAgree
CHECK_DEADLOCK FALSE
