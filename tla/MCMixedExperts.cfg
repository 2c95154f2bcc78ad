SPECIFICATION DistributedSpec
CHECK_DEADLOCK FALSE
CONSTANTS
  WorldSize = 2
  Subgraphs <- MCSubgraphs
  Columns <- MCColumns
  Samples <- MCSamples
  Datasets <- MCDatasets
  Requests <- MCRequests
  TokensOf <- MCTokensOf
  Blocks <- MCBlocks
INVARIANTS
  SameWeights
