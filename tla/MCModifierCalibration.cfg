SPECIFICATION Spec
CHECK_DEADLOCK FALSE
CONSTANTS
  Models <- MCModels
  Recipes <- MCRecipes
  Pipelines <- MCPipelines
  NumBatches = 3
INVARIANTS
  ModelIsPreserved
  ActivationsMatchModel
  MappingsAppliedInFull
  StatisticsFitTheWeights
  ScalesFitTheModel
  ObserversPresent
