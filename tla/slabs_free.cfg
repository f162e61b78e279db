SPECIFICATION Spec
CONSTANTS
  AllocatorTypes = {"SHMEM"}
  Room = 36
  ALIGN = 2
  Header = 4
  ManagerSize = 2
  SlabclassSize = 2
  item_size_min = 4
  item_size_max = 16
  FAST_SLAB_LINEAR_FACTOR = 6
  Uptypes = {"POWER"}
  Requests = {3, 7, 15}
  SplitSizes <- SplitSizes1
  SizeMod = 64
  MaxMissed = 12
  Things = {1, 2, 3}
  NoChunk = NoChunk
  NoWant = NoWant
INVARIANTS
  FreeOfOwnChunkSucceeds
CHECK_DEADLOCK FALSE
