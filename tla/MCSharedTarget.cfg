CONSTANTS
  MCN = 5
  Shared = TRUE
  Kinds = {"placeholder", "get_attr", "call", "layer"}
  N = 5
  Modules <- MCModules
  NoModule = 0
  Targets <- MCTargets
  Graphs <- MCGraphs
SPECIFICATION Spec
INVARIANT TargetInOnePartition
CHECK_DEADLOCK FALSE
