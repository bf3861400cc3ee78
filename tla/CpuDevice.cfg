SPECIFICATION Spec
CONSTANTS
  Workloads <- MCWorkloads
  PoolDescs <- MCPools
  PagedTensors = {1, 2}
  Lengths = {0, 1}
  Chunks <- MCChunks
  MaxLength = 3
INVARIANTS
  ReadsMean
  ExpertsMixed
  PagesAccounted
PROPERTY ImplementsRows
CHECK_DEADLOCK FALSE
