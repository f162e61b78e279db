----------------------------- MODULE MemoryPool -----------------------------
(***************************************************************************)
(* fast_memory_pool.c, and fast_array.c as its user: blocks of one size    *)
(* from malloc that are filled from the front and emptied together, a list *)
(* of large allocations whose nodes live in the blocks, and an array that  *)
(* grows in place while it is the last thing in the first block.  An       *)
(* address is a pair <<block, offset>>; a large allocation is <<0, i>>.    *)
(***************************************************************************)
EXTENDS FastMath, Sequences, FiniteSetsExt

CONSTANTS
  ALIGNMENT, POOL_T, POOL_DATA_T, POOL_LARGE_T, ARRAY_T,  \* sizes of the structures
  CreateSize, MaxAlloc,   \* the arguments of pool_create
  Requests,               \* sizes the program asks for
  ElementSize,            \* of the array
  Larges,                 \* large allocations malloc can give
  MaxBlocks, MaxAreas,    \* bounds: blocks of malloc, areas of the program
  MaxNalloc,              \* bound: the array's elements
  ReuseAfterLarge,        \* does the program use on a pool reset with large allocations?
  NULL

(* pool_create *)
psize == IF CreateSize < POOL_T THEN CreateSize + POOL_T ELSE CreateSize
max   == Min({psize - POOL_T, MaxAlloc})

(* Sizes are positive, a block's header is no larger than the pool's, and  *)
(* the pool puts its own structures into its blocks.                       *)
MPAssumption ==
  /\ {ALIGNMENT, POOL_T, POOL_DATA_T, POOL_LARGE_T, ARRAY_T, ElementSize} \subseteq Nat \ {0}
  /\ CreateSize \in Nat /\ MaxAlloc \in Nat /\ Requests \subseteq Nat \ {0}
  /\ Larges \subseteq Nat \ {0} /\ NULL \notin Larges
  /\ AlignTo(POOL_DATA_T, ALIGNMENT) <= POOL_T
  /\ POOL_LARGE_T <= max /\ ARRAY_T <= max

VARIABLES
  pool,           \* last[i]: first free offset of block i, current, large
  array,          \* at, elts, nelts, nalloc; or NULL
  areas,          \* ghost: what the program has, oldest first: [at, size]
  heap            \* ghost: the large allocations malloc has given out

pool_vars == <<pool, array, areas, heap>>

MPInit ==
  /\ pool = [last |-> <<POOL_T>>, current |-> 1, large |-> << >>]
  /\ array = NULL
  /\ areas = << >>
  /\ heap = {}

FitsIn(p, i, size) ==
  /\ AlignTo(p.last[i], ALIGNMENT) < psize
  /\ psize - AlignTo(p.last[i], ALIGNMENT) >= size

(* pool_alloc_block: current moves past the last full block, or to the new *)
(* one.                                                                    *)
NewBlock(p, size) ==
  LET n    == Len(p.last)
      m    == AlignTo(POOL_DATA_T, ALIGNMENT)
      full == {i \in p.current .. n - 1 : psize - p.last[i] < ALIGNMENT}
  IN  [pool |-> [p EXCEPT !.last = Append(@, m + size),
                          !.current = IF full = {} THEN n + 1 ELSE Max(full) + 1],
       at   |-> <<n + 1, m>>]

(* pool_alloc of at most max; the results malloc allows. *)
Small(p, size) ==
  LET fit == {i \in p.current .. Len(p.last) : FitsIn(p, i, size)}
      i   == Min(fit)
      m   == AlignTo(p.last[i], ALIGNMENT)
  IN  IF fit # {} THEN {[pool |-> [p EXCEPT !.last[i] = m + size], at |-> <<i, m>>]}
      ELSE IF Len(p.last) < MaxBlocks THEN {NewBlock(p, size)}
      ELSE {}

(* pool_alloc_large and pool_memalign: the allocation and its node, which  *)
(* goes to the head of the list.  Without a node the allocation is given   *)
(* back, and nothing has changed.                                          *)
Large(p) ==
  {[pool |-> [n.pool EXCEPT !.large = <<[node |-> n.at, alloc |-> l]>> \o @],
    at   |-> <<0, l>>] :
     n \in Small(p, POOL_LARGE_T), l \in {l \in Larges \ heap :
                                          \A k \in Larges \ heap : l <= k}}

PoolAlloc(p, size) == IF size <= max THEN Small(p, size) ELSE Large(p)

NewLarge(at) == IF at[1] = 0 THEN heap \cup {at[2]} ELSE heap

(* The nodes of freed large allocations stay listed after a reset.         *)
ListStale == \E i \in DOMAIN pool.large : pool.large[i].alloc = NULL
MayUse == ReuseAfterLarge \/ ~ListStale

-----------------------------------------------------------------------------
(* pool_alloc, pool_calloc *)
Alloc == \E size \in Requests : \E r \in PoolAlloc(pool, size) :
  /\ MayUse /\ Len(areas) < MaxAreas
  /\ pool' = r.pool
  /\ areas' = Append(areas, [at |-> r.at, size |-> size])
  /\ heap' = NewLarge(r.at)
  /\ UNCHANGED array

Memalign == \E size \in Requests : \E r \in Large(pool) :
  /\ MayUse /\ Len(areas) < MaxAreas
  /\ pool' = r.pool
  /\ areas' = Append(areas, [at |-> r.at, size |-> size])
  /\ heap' = NewLarge(r.at)
  /\ UNCHANGED array

Listed == {pool.large[i].alloc : i \in DOMAIN pool.large} \ {NULL}

(* pool_reset; the program forgets what it had.                            *)
Reset ==
  /\ pool' = [pool EXCEPT !.last = [i \in DOMAIN @ |-> POOL_T], !.current = 1,
                          !.large = [i \in DOMAIN @ |-> [@[i] EXCEPT !.alloc = NULL]]]
  /\ areas' = << >> /\ array' = NULL
  /\ heap' = heap \ Listed

(* pool_destroy, and pool_create for the next one. *)
Destroy ==
  /\ pool' = [last |-> <<POOL_T>>, current |-> 1, large |-> << >>]
  /\ areas' = << >> /\ array' = NULL
  /\ heap' = heap \ Listed

-----------------------------------------------------------------------------
(* array_create, array_init *)
ArrayCreate == \E a \in Small(pool, ARRAY_T) : \E e \in PoolAlloc(a.pool, ElementSize) :
  /\ MayUse /\ array = NULL
  /\ pool' = e.pool
  /\ array' = [at |-> a.at, elts |-> e.at, nelts |-> 0, nalloc |-> 1]
  /\ heap' = NewLarge(e.at)
  /\ UNCHANGED areas

ElementBytes == ElementSize * array.nalloc
EndsFirst(at, size) == at[1] = 1 /\ at[2] + size = pool.last[1]

MayExtend ==
  /\ EndsFirst(array.elts, ElementBytes)
  /\ pool.last[1] + ElementSize <= psize

(* array_push: into the room it has, with the next in place, or with all   *)
(* of it copied to twice the room.                                         *)
Push ==
  /\ array.nelts < array.nalloc
  /\ array' = [array EXCEPT !.nelts = @ + 1]
  /\ UNCHANGED <<pool, areas, heap>>

PushExtend ==
  /\ array.nelts = array.nalloc /\ array.nalloc < MaxNalloc /\ MayExtend
  /\ pool' = [pool EXCEPT !.last[1] = @ + ElementSize]
  /\ array' = [array EXCEPT !.nelts = @ + 1, !.nalloc = @ + 1]
  /\ UNCHANGED <<areas, heap>>

PushMove == \E r \in PoolAlloc(pool, 2 * ElementBytes) :
  /\ array.nelts = array.nalloc /\ 2 * array.nalloc <= MaxNalloc /\ ~MayExtend
  /\ pool' = r.pool
  /\ array' = [array EXCEPT !.nelts = @ + 1, !.nalloc = 2 * @, !.elts = r.at]
  /\ heap' = NewLarge(r.at)
  /\ UNCHANGED areas

(* Mutated form: the elements it was created with are given back. *)
ArrayDestroy_First ==
  LET p1 == IF array.elts[1] = 1 THEN [pool EXCEPT !.last[1] = array.elts[2]] ELSE pool
  IN  /\ pool' = p1
      /\ array' = NULL
      /\ UNCHANGED <<areas, heap>>

(* array_destroy gives back what is last in the first block: the elements, *)
(* then the array itself.                                                  *)
ArrayDestroy ==
  LET p1 == IF EndsFirst(array.elts, ElementBytes)
            THEN [pool EXCEPT !.last[1] = array.elts[2]] ELSE pool
      p2 == IF array.at[1] = 1 /\ array.at[2] + ARRAY_T = p1.last[1]
            THEN [p1 EXCEPT !.last[1] = array.at[2]] ELSE p1
  IN  /\ pool' = p2
      /\ array' = NULL
      /\ UNCHANGED <<areas, heap>>

ArrayReset ==
  /\ array' = [array EXCEPT !.nelts = 0]
  /\ UNCHANGED <<pool, areas, heap>>

ArrayOps == array # NULL /\ (Push \/ PushExtend \/ PushMove \/ ArrayDestroy \/ ArrayReset)

MPNext == Alloc \/ Memalign \/ Reset \/ Destroy \/ ArrayCreate \/ ArrayOps

-----------------------------------------------------------------------------
(* Everything that lies in the blocks, and whose it is; nodes are counted  *)
(* from the end of the list, where the first one stays.                    *)
Held(of, at, size) == IF at[1] = 0 THEN {} ELSE {[of |-> of, at |-> at, size |-> size]}

InUse ==
  (UNION {Held(<<"area", i>>, areas[i].at, areas[i].size) : i \in DOMAIN areas})
    \cup (UNION {Held(<<"node", Len(pool.large) - i>>, pool.large[i].node, POOL_LARGE_T) :
                    i \in DOMAIN pool.large})
    \cup (IF array = NULL THEN {}
          ELSE Held(<<"array", 0>>, array.at, ARRAY_T)
                 \cup Held(<<"elements", 0>>, array.elts, ElementBytes))

Overlap(a, b) ==
  /\ a.at[1] = b.at[1]
  /\ a.at[2] < b.at[2] + b.size /\ b.at[2] < a.at[2] + a.size

(* No two things in the blocks overlap, the nodes of the large list among  *)
(* them, though they survive a reset; nothing reaches into a block's       *)
(* header or over its end; what was given out is below the free offset,    *)
(* until a reset.                                                          *)
NothingOverlaps ==
  /\ \A a, b \in InUse : a = b \/ ~Overlap(a, b)
  /\ \A a \in InUse :
       /\ a.at[2] >= IF a.at[1] = 1 THEN POOL_T ELSE POOL_DATA_T
       /\ a.at[2] + a.size <= psize
       /\ ListStale \/ a.at[2] + a.size <= pool.last[a.at[1]]

(* A large allocation is on the list as long as malloc knows it, and only  *)
(* once: none is lost, none is freed again by a later reset or destroy.    *)
LargesFreedOnce ==
  /\ heap = Listed
  /\ \A i, j \in DOMAIN pool.large :
       pool.large[i].alloc = pool.large[j].alloc => i = j \/ pool.large[i].alloc = NULL
=============================================================================
