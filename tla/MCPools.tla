------------------------------- MODULE MCPools --------------------------------
(***************************************************************************)
(* The library's pools, its queue, its hash table and its calendar: the    *)
(* half-life memory pool, the memory pool with its arrays, rings of links, *)
(* buckets, and time_gmtime.  They do not touch each other, so that each   *)
(* behaviour of this module is one of one of them, "part"; the others stay *)
(* as they begin.                                                          *)
(***************************************************************************)
EXTENDS Integers

CONSTANTS
  Structures, NULL,
  Chunks, PoolSizes,
  ALIGNMENT, POOL_T, POOL_DATA_T, POOL_LARGE_T, ARRAY_T, CreateSize, MaxAlloc,
  Requests, ElementSize, Larges, MaxBlocks, MaxAreas, MaxNalloc, ReuseAfterLarge,
  Heads, Elements, Rank,
  HashLinks, HashKeys, HashSizes, DEFAULT_SIZE, Hash, Equal,
  LastDay

VARIABLES
  part,
  sizes, free_q, free_size, lent, heap, got,
  pool, array, areas, larges,
  prv, nxt, line,
  table, link, joined, given,
  day, date

(* <<max_size, min_size>>, the reserve of one chunk, none and all. *)
MaxMin == {<<2, 1>>, <<3, 1>>, <<3, 0>>, <<2, 2>>}

HL == INSTANCE HalfLifePool
MP == INSTANCE MemoryPool WITH heap <- larges
QU == INSTANCE Queue
HT == INSTANCE Hashtable
CA == INSTANCE Calendar

ASSUME PoolsAssumption ==
  HL!HLAssumption /\ MP!MPAssumption /\ QU!QueueAssumption /\ HT!HashAssumption

hl_vars    == <<sizes, free_q, free_size, lent, heap, got>>
pool_vars  == <<pool, array, areas, larges>>
queue_vars == <<prv, nxt, line>>
hash_vars  == <<table, link, joined, given>>
cal_vars   == <<day, date>>
pools_vars == <<part, hl_vars, pool_vars, queue_vars, hash_vars, cal_vars>>

PoolsInit ==
  /\ part \in Structures
  /\ HL!HLInit /\ MP!MPInit /\ QU!QInit /\ HT!HashInit /\ CA!CalInit

HLPools == /\ part = "half-life" /\ HL!HLNext
           /\ UNCHANGED <<part, pool_vars, queue_vars, hash_vars, cal_vars>>
Pools   == /\ part = "pool" /\ MP!MPNext
           /\ UNCHANGED <<part, hl_vars, queue_vars, hash_vars, cal_vars>>
Queues  == /\ part = "queue" /\ QU!QNext
           /\ UNCHANGED <<part, hl_vars, pool_vars, hash_vars, cal_vars>>
Hashes  == /\ part = "hash" /\ HT!HashNext
           /\ UNCHANGED <<part, hl_vars, pool_vars, queue_vars, cal_vars>>
Days    == /\ part = "days" /\ CA!NextDay
           /\ UNCHANGED <<part, hl_vars, pool_vars, queue_vars, hash_vars>>

PoolsNext == HLPools \/ Pools \/ Queues \/ Hashes \/ Days

PoolsSpec == PoolsInit /\ [][PoolsNext]_pools_vars

(* The half-life pool lends a chunk to one caller at a time; what it keeps *)
(* and what it lent are what malloc gave, and it keeps its reserve.        *)
ChunksLent == HL!HLLending!Spec /\ [](HL!HeapExact /\ HL!ReserveKept)

(* Areas the memory pool has given, its own structures and the array       *)
(* never overlap and lie inside their block; a large allocation is freed   *)
(* once.                                                                   *)
AreasApart == MP!NothingOverlaps /\ MP!LargesFreedOnce

(* Forward and backward links of every queue give the line the operations  *)
(* promise, through split, add and sort, and queue_middle finds its        *)
(* middle, or the first of the later half.                                 *)
QueuesExact == QU!RingsAreLines /\ QU!MiddleInMiddle

(* Every joined link is once in the bucket of its hash, and counted; a key *)
(* looked up finds the newest link that compares equal in that bucket.     *)
TableExact == HT!BucketsExact /\ HT!NewestFound

(* The formula of time_gmtime gives the date the calendar counts to.       *)
DateRight == CA!DateRight
=============================================================================
