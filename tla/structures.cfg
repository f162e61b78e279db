SPECIFICATION StructSpec
CONSTANTS
  Structures = {"tree", "queue", "half-life", "pool", "hash", "days"}
  NULL = NULL
  Nodes = {1, 2, 3, 4, 5, 6, 7, 8}
  a = a
  b = b
  c = c
  d = d
  Heads = {h1, h2}
  Rank <- Ranks
  Elements = {a, b, c, d}
  Chunks = {1, 2, 3, 4, 5}
  PoolSizes <- MaxMin
  ALIGNMENT = 2
  POOL_T = 6
  POOL_DATA_T = 2
  POOL_LARGE_T = 2
  ARRAY_T = 2
  CreateSize = 14
  MaxAlloc = 6
  Requests = {1, 3, 6, 7}
  ElementSize = 1
  Larges = {1, 2}
  MaxBlocks = 3
  MaxAreas = 2
  MaxNalloc = 4
  ReuseAfterLarge = FALSE
  ab = ab
  abc = abc
  xy = xy
  HashLinks = {l1, l2, l3}
  HashKeys = {ab, abc, xy}
  HashSizes = {0, 1, 3}
  DEFAULT_SIZE = 5
  Hash <- HashOf
  Equal <- EqualTo
  LastDay = 49710
INVARIANTS
  RedBlack
  QueuesExact
  AreasApart
  TableExact
  DateRight
PROPERTIES
  TreeIsLine
  ChunksLent
CHECK_DEADLOCK FALSE
