SPECIFICATION Spec
CHECK_DEADLOCK FALSE
CONSTANTS
  Models <- MCRouterModels
  Recipes <- MCRouterRecipes
  Pipelines <- MCPipelines
  NumBatches = 3
INVARIANTS
  ModelIsPreserved
