SPECIFICATION Spec
CONSTANTS
  NbSlabsPerShard = 2
  BufferSlabs = 4
  Width = 3
  ShardArgs = {0, 1, 2, 3, 4, 8}
  ChunkArgs = {0, 2, 3}
  NodeArgs = {0, 1, 4, 8}
  Scale = 4
  WorkerCounts = {1, 2, 4}
  NONE = NONE
INVARIANT SuccessIsTrue
