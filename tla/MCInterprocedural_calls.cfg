SPECIFICATION Spec
CONSTANTS
  Names = {1, 2, 3, 4, 5, 6}
  Pure = {5}
  Impure = {4}
  Bodies <- CallBodies
  Projects <- CallProjects
  NoBody = NoBody
INVARIANTS
  CyclesFound
  EstimatesSettle
  FirstDefinitionDecides
  SideEffectsReachCallers
  SafeHasNoKnownEffects
  VerdictsAgree
