SPECIFICATION Spec
CONSTANTS
  Names = {1, 2, 3, 4, 5}
  Pure = {5}
  Impure = {4}
  Bodies <- ClaimBodies
  Projects <- ClaimProjects
  NoBody = NoBody
INVARIANTS
  SafeIsSideEffectFree
