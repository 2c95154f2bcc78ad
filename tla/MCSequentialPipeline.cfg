CONSTANTS
  MCN = 4
  Shared = FALSE
  Kinds = {"placeholder", "get_attr", "call", "layer", "module"}
  N = 4
  Modules <- MCModules
  NoModule = 0
  Targets <- MCTargets
  Graphs <- MCGraphs
  NumBatches = 3
  Quantizable <- MCModules
  Dataclasses <- NoNodes
  NoInputs = NoInputs
  NoFuture = NoFuture
SPECIFICATION FairPipelineSpec
INVARIANTS
  NeverRaises
  InputsComeFromCompressedModel
  CalibratedOnEveryBatch
  CacheHoldsLiveValues
PROPERTIES
  ImplementsLayerwiseCompression
  NoWriteWhileFetching
  CalibrationEnds
CHECK_DEADLOCK FALSE
