SPECIFICATION AllocSpec
CONSTANTS
  Arena = 12
  Header = 1
  min_size = 2
  max_size = 6
  factor = 2
  LevelTypes = {"linear", "exp"}
  Requests = {1, 2, 3, 5}
  Thresholds = {0}
  AllocatorTypes = {"SHMEM", "MEMPOOL", "COMMPOOL"}
  Room = 36
  ALIGN = 2
  ChunkLinkSize = 4
  ManagerSize = 2
  SlabclassSize = 2
  item_size_min = 4
  item_size_max = 16
  FAST_SLAB_LINEAR_FACTOR = 6
  Uptypes = {"POWER", "LINEAR"}
  ChunkRequests = {3, 7, 15, 20}
  SizeMod = 64
  MaxMissed = 12
  Things = {1, 2, 3}
  NoChunk = NoChunk
  NoWant = NoWant
INVARIANTS
  BlocksExact
  ListsExact
  FreeIsServed
  ChunksExact
  StatisticsExact
  ClassesServe
PROPERTIES
  ImplementsHeap
  RecoveryServes
  ImplementsLoans
CHECK_DEADLOCK FALSE
