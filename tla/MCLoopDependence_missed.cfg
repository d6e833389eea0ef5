SPECIFICATION Spec
CONSTANTS
  LoopVar = "i"
  Enclosing = {"k"}
  OtherVars = {"j"}
  Expressions <- AllExpressions
  Height <- HeightOf
  Loops <- SmallLoops
  NoBase = NoBase
  Iterations <- Window
  Values = {0, 1}
INVARIANTS
  MarkedIfConflict
CHECK_DEADLOCK FALSE
