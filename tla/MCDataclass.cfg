CONSTANTS
  MCN = 3
  Shared = FALSE
  Kinds = {"placeholder", "get_attr", "call", "layer"}
  N = 3
  Modules <- MCModules
  NoModule = 0
  Targets <- MCTargets
  Graphs <- MCGraphs
  NumBatches = 1
  Quantizable <- MCModules
  Dataclasses <- MCNodes
  NoInputs = NoInputs
  NoFuture = NoFuture
SPECIFICATION PipelineSpec
INVARIANT StoredValuesCanBeFetched
CHECK_DEADLOCK FALSE
