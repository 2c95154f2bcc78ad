SPECIFICATION Spec
CONSTANTS
  Names <- MCNames
  RoleOrder <- MCRoleOrder
  FusedMappings <- MCFusedMappings
  LayerOrders <- MCLayerOrders
  NumFiles = 3
  Checkpoints <- MCCheckpoints
  Ignores <- MCIgnores
  Malformed <- MCMalformed
  MaxWorkers = 2
  MaxFailures = 1
  None = None
INVARIANTS
  FusedSetsShareScale
  NothingLost
  NothingWrittenUnlessValid
CHECK_DEADLOCK FALSE
