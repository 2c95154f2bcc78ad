CONSTANTS
  MCN = 5
  Shared = FALSE
  Kinds = {"placeholder", "get_attr", "call", "layer"}
  N = 5
  Modules <- MCModules
  NoModule = 0
  Targets <- MCTargets
  Graphs <- MCGraphs
SPECIFICATION FairSpec
INVARIANTS
  TypeOK
  InputsComputedFirst
  AssignedOnce
  TargetClosesPartition
  NamesAvailable
  NothingLeaks
  GetAttrDelayed
PROPERTY Terminates
CHECK_DEADLOCK FALSE
