----------------------------- MODULE Allocator ------------------------------
(***************************************************************************)
(* The table of allocators of fast_mem_allocator.c: one interface over     *)
(* the shared-memory allocator, the memory pool and the common pool.  What *)
(* their users see of them is how much is taken, who may refuse and what   *)
(* free does; where the memory lies is for the modules Shmem and           *)
(* MemoryPool.                                                             *)
(***************************************************************************)
EXTENDS FastMath

CONSTANTS
  AllocatorTypes,   \* subset of {"SHMEM", "MEMPOOL", "COMMPOOL"}
  Room,             \* bytes an allocator can give
  ALIGN             \* FAST_MATH_ALIGN_SIZE, and the pools' FAST_ALIGNMENT

VARIABLES
  allocator_type,   \* fast_mem_allocator_t.type
  taken             \* bytes taken from the allocator

(* fast_mem_allocator_new_init: the table of the type, initialised.        *)
NewInit ==
  /\ allocator_type \in AllocatorTypes
  /\ taken = 0

(* fast_shmem_alloc refuses when no free block fits, which a fragmented    *)
(* area may do at any time.                                                *)
ShmemAlloc(size, ok) ==
  /\ ok => taken + size <= Room
  /\ taken' = IF ok THEN taken + size ELSE taken

(* mpool_alloc of the common pool: the rest of one area, from the front.   *)
MpoolAlloc(size, ok) ==
  LET free == AlignTo(taken, ALIGN) IN
  /\ ok <=> free + size <= Room
  /\ taken' = IF ok THEN free + size ELSE IF free > Room THEN Room ELSE free

(* pool_alloc refuses when malloc does.                                    *)
PoolAlloc(size, ok) ==
  /\ ok => taken + size <= Room
  /\ taken' = IF ok THEN taken + size ELSE taken

(* allocator->alloc, and calloc, which clears what alloc gave.             *)
AllocatorAlloc(size, ok) ==
  CASE allocator_type = "SHMEM"    -> ShmemAlloc(size, ok)
    [] allocator_type = "MEMPOOL"  -> PoolAlloc(size, ok)
    [] allocator_type = "COMMPOOL" -> MpoolAlloc(size, ok)

(* allocator->split_alloc: the largest free block, if it has minsize. Only *)
(* the shared-memory allocator has one.                                    *)
HasSplitAlloc == allocator_type = "SHMEM"

AllocatorSplitAlloc(minsize, size, ok) ==
  /\ HasSplitAlloc
  /\ ok => size >= minsize
  /\ ShmemAlloc(size, ok)

(* allocator->free: the memory pool has none, the common pool's does       *)
(* nothing.                                                                *)
HasFree == allocator_type # "MEMPOOL"

AllocatorFree(size) ==
  /\ HasFree
  /\ taken' = IF allocator_type = "SHMEM" THEN taken - size ELSE taken
=============================================================================
