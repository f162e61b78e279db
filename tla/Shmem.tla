------------------------------- MODULE Shmem -------------------------------
(***************************************************************************)
(* fast_shmem.c: an allocator over one mapped area.  The area is cut into  *)
(* blocks, each with a header (struct storage) before its memory; "order"  *)
(* links all blocks by address, "free" keeps the free blocks by size class *)
(* and "available" the classes that have any, in increasing order, with    *)
(* max_available_index caching the last of them.                           *)
(*                                                                         *)
(* The calls are not thread safe and hold no lock: a caller serialises     *)
(* them, so each call is one action.  Sizes are numbers of arbitrary       *)
(* units; act_size is kept for allocated blocks only (0 otherwise); the    *)
(* counters of calls (failed, split) are left out.                         *)
(***************************************************************************)
EXTENDS FastMath, Totals, Sequences, SequencesExt, FiniteSetsExt

CONSTANTS
  Arena,          \* bytes from the first header to the end of the mapping
  Header,         \* sizeof(struct storage)
  min_size, max_size, factor,
  LevelTypes,     \* the kinds of size classes areas are created with
  Requests,       \* sizes asked for
  Thresholds      \* values given to fast_shmem_set_split_threshold

(* The parameters fast_shmem_create accepts. *)
ASSUME ShmemAssumption ==
  /\ {Arena, Header, min_size, max_size, factor} \subseteq Nat \ {0}
  /\ min_size < max_size
  /\ max_size <= Arena - Header
  /\ LevelTypes \subseteq {"linear", "exp"}
  /\ Requests \subseteq Nat \ {0}
  /\ Thresholds \subseteq Nat

VARIABLES
  level_type,     \* "linear" or "exp", fixed at creation
  order,          \* blocks by address: [addr, size, act, alloc]
  lists,          \* [free, available, max_available_index]
  used_size, reqs_size, st_count,   \* shmem_stat
  split_threshold,
  err             \* what the last call reported

stats == <<used_size, reqs_size, st_count>>
settings == <<level_type, split_threshold>>
vars == <<level_type, order, lists, used_size, reqs_size, st_count, split_threshold, err>>

-----------------------------------------------------------------------------
(* Size classes *)

(* The length of the free array: one class for min_size, then one for each *)
(* step up to max_size.                                                    *)
free_len == 1 + IF level_type = "linear" THEN DivUp(max_size - min_size, factor)
                ELSE Log2Up(DivUp(max_size, min_size))

Classes == 0 .. free_len - 1

(* The smallest class whose blocks are all large enough for the request. *)
AllocIndex(size) ==
  IF size <= min_size THEN 0
  ELSE IF level_type = "linear" THEN DivUp(size - min_size, factor)
  ELSE Log2Up(DivUp(size, min_size))

(* The class a free block belongs to. *)
InsertIndex(size) ==
  IF size <= min_size THEN 0
  ELSE IF level_type = "linear" THEN (size - min_size) \div factor
  ELSE Log2Down(size \div min_size)

-----------------------------------------------------------------------------
(* The free lists *)

BlockAt(a) == CHOOSE b \in ToSet(order) : b.addr = a
IndexOf(a) == CHOOSE k \in DOMAIN order : order[k].addr = a

(* fast_shmem_remove_free: ok is FALSE when the block is not on the list   *)
(* its size says.  A list that becomes empty leaves "available", and when  *)
(* it was the last one its predecessor is the new maximum.                 *)
RemoveFree(L, b) ==
  LET i    == IF InsertIndex(b.size) > L.max_available_index
              THEN L.max_available_index ELSE InsertIndex(b.size)
      rest == RemoveFirst(L.free[i], b.addr)
      left == RemoveFirst(L.available, i)
  IN [ok |-> Contains(L.free[i], b.addr),
      lists |->
        IF rest # <<>> THEN [L EXCEPT !.free[i] = rest]
        ELSE [free |-> [L.free EXCEPT ![i] = rest],
              available |-> left,
              max_available_index |->
                IF i # L.max_available_index THEN L.max_available_index
                ELSE IF left = <<>> THEN free_len ELSE Last(left)]]

(* fast_shmem_insert_free: at the head of its list; the class of an empty  *)
(* list enters "available" before the first larger one, or as the last,    *)
(* which makes it the maximum.                                             *)
InsertFree(L, b) ==
  LET i      == IF InsertIndex(b.size) > free_len - 1 THEN free_len - 1 ELSE InsertIndex(b.size)
      larger == SelectInSeq(L.available, LAMBDA j : j > i)
  IN [free |-> [L.free EXCEPT ![i] = <<b.addr>> \o @],
      available |->
        IF L.free[i] # <<>> THEN L.available
        ELSE InsertAt(L.available, IF larger = 0 THEN Len(L.available) + 1 ELSE larger, i),
      max_available_index |->
        IF L.free[i] = <<>> /\ larger = 0 THEN i ELSE L.max_available_index]

-----------------------------------------------------------------------------
(* fast_shmem_create: one free block. *)
FirstBlock == [addr |-> 0, size |-> Arena - Header, act |-> 0, alloc |-> FALSE]

Init ==
  /\ level_type \in LevelTypes
  /\ order = <<FirstBlock>>
  /\ lists = InsertFree([free |-> [i \in Classes |-> <<>>], available |-> <<>>,
                         max_available_index |-> free_len], FirstBlock)
  /\ used_size = 0 /\ reqs_size = 0 /\ st_count = 1
  /\ split_threshold = min_size
  /\ err = "none"

(* Mutated form: the first available list, not the first one after it.     *)
SearchList_First(size) ==
  LET i == AllocIndex(size)
  IN IF i >= lists.max_available_index THEN lists.max_available_index
     ELSE IF lists.free[i] # <<>> THEN i ELSE Head(lists.available)

(* The list fast_shmem_alloc searches: the largest one when the request is *)
(* of its class or a larger one; else the list of the request's class when *)
(* it has blocks, or the first available list after it (free_len: none).   *)
SearchList(size) ==
  LET i     == AllocIndex(size)
      later == SelectInSeq(lists.available, LAMBDA j : j > i /\ lists.free[j] # <<>>)
  IN IF i >= lists.max_available_index THEN lists.max_available_index
     ELSE IF lists.free[i] # <<>> THEN i
     ELSE IF later # 0 THEN lists.available[later] ELSE free_len

Fits(a, size) == BlockAt(a).size >= size

(* The first block of the list searched that is large enough. *)
FirstFit(size) ==
  LET L == lists.free[SearchList(size)]
  IN L[SelectInSeq(L, LAMBDA a : Fits(a, size))]

AllocError(e) ==
  /\ err' = e
  /\ UNCHANGED <<order, lists, stats, settings>>

(* fast_shmem_alloc returns NULL for the request. *)
Refused(size) ==
  \/ lists.max_available_index = free_len
  \/ SearchList(size) = free_len
  \/ ~ \E a \in ToSet(lists.free[SearchList(size)]) : Fits(a, size)

(* "memory is exhausted" *)
AllocExhausted(size) ==
  /\ lists.max_available_index = free_len
  /\ AllocError("exhausted")

(* "found no fixed free space": no block of the list searched is large     *)
(* enough.                                                                 *)
AllocNoFixed(size) ==
  /\ lists.max_available_index # free_len
  /\ Refused(size)
  /\ AllocError("found_no_fixed")

(* Mutated form of fast_shmem_alloc: the rest of a split block forgets its *)
(* header.                                                                 *)
AllocTake_NoHeader(size) ==
  LET k   == IndexOf(FirstFit(size))
      st  == order[k]
      rm  == RemoveFree(lists, st)
      st_new == [st EXCEPT !.addr = @ + Header + size, !.size = @ - size]
  IN
  /\ ~ Refused(size)
  /\ IF st.size - size < Header + split_threshold
     THEN /\ order' = [order EXCEPT ![k].alloc = TRUE, ![k].act = size]
          /\ lists' = rm.lists
          /\ used_size' = used_size + st.size
          /\ UNCHANGED st_count
     ELSE /\ order' = InsertAt([order EXCEPT ![k].alloc = TRUE, ![k].act = size, ![k].size = size],
                               k + 1, st_new)
          /\ lists' = InsertFree(rm.lists, st_new)
          /\ used_size' = used_size + size
          /\ st_count' = st_count + 1
  /\ reqs_size' = reqs_size + size
  /\ err' = "none"
  /\ UNCHANGED settings

(* The first block of the list that fits is taken off it.  It is given     *)
(* whole when less than a header and split_threshold would be left, else   *)
(* its end becomes a new free block.                                       *)
AllocTake(size) ==
  LET k    == IndexOf(FirstFit(size))
      st   == order[k]
      rm   == RemoveFree(lists, st)
      st_new == [st EXCEPT !.addr = @ + Header + size, !.size = @ - (size + Header)]
  IN
  /\ ~ Refused(size)
  /\ IF ~ rm.ok THEN AllocError("remove_failed")
     ELSE
     /\ IF st.size - size < Header + split_threshold
        THEN /\ order' = [order EXCEPT ![k].alloc = TRUE, ![k].act = size]
             /\ lists' = rm.lists
             /\ used_size' = used_size + st.size
             /\ UNCHANGED st_count
        ELSE /\ order' = InsertAt([order EXCEPT ![k].alloc = TRUE, ![k].act = size, ![k].size = size],
                                  k + 1, st_new)
             /\ lists' = InsertFree(rm.lists, st_new)
             /\ used_size' = used_size + size
             /\ st_count' = st_count + 1
     /\ reqs_size' = reqs_size + size
     /\ err' = "none"
     /\ UNCHANGED settings

Alloc(size) == AllocExhausted(size) \/ AllocNoFixed(size) \/ AllocTake(size)

(* fast_shmem_get_max_st: the first of the largest blocks of the list of   *)
(* the last available class.                                               *)
MaxSt ==
  LET L == lists.free[Last(lists.available)]
  IN L[CHOOSE i \in DOMAIN L :
         /\ \A j \in DOMAIN L : BlockAt(L[j]).size <= BlockAt(L[i]).size
         /\ \A j \in 1 .. i - 1 : BlockAt(L[j]).size < BlockAt(L[i]).size]

(* fast_shmem_split_alloc: the largest block as a whole, when it has at    *)
(* least the size asked for.                                               *)
SplitAlloc(req_minsize) ==
  IF lists.max_available_index = free_len \/ lists.available = <<>>
  THEN AllocError("max_exhausted")
  ELSE
  LET k  == IndexOf(MaxSt)
      st == order[k]
      rm == RemoveFree(lists, st)
  IN IF st.size < req_minsize THEN AllocError("no_fixed_req_minsize")
     ELSE IF ~ rm.ok THEN AllocError("remove_failed")
     ELSE /\ order' = [order EXCEPT ![k].alloc = TRUE, ![k].act = st.size]
          /\ lists' = rm.lists
          /\ used_size' = used_size + st.size
          /\ reqs_size' = reqs_size + st.size
          /\ err' = "none"
          /\ UNCHANGED <<st_count, settings>>

(* Mutated forms of fast_shmem_free: it does not look at the block before; *)
(* the next block it merges stays on its free list.                        *)
FreeWith(k, mergesPrev, unlistsNext) ==
  LET next == k < Len(order) /\ ~ order[k + 1].alloc
      prev == mergesPrev /\ k > 1 /\ ~ order[k - 1].alloc
      rmn  == IF next /\ unlistsNext THEN RemoveFree(lists, order[k + 1])
              ELSE [ok |-> TRUE, lists |-> lists]
      st_alloc == [order[k] EXCEPT !.alloc = FALSE, !.act = 0,
                     !.size = IF next THEN @ + order[k + 1].size + Header ELSE @]
      rmp  == IF prev THEN RemoveFree(rmn.lists, order[k - 1]) ELSE rmn
      st   == IF prev THEN [order[k - 1] EXCEPT !.size = @ + st_alloc.size + Header] ELSE st_alloc
  IN
  /\ order[k].alloc
  /\ used_size' = used_size - order[k].size
  /\ reqs_size' = reqs_size - order[k].act
  /\ order' = SubSeq(order, 1, IF prev THEN k - 2 ELSE k - 1) \o <<st>>
                \o SubSeq(order, IF next THEN k + 2 ELSE k + 1, Len(order))
  /\ lists' = InsertFree(rmp.lists, st)
  /\ st_count' = st_count - (IF next THEN 1 ELSE 0) - (IF prev THEN 1 ELSE 0)
  /\ err' = "none"
  /\ UNCHANGED settings

Free_NoPrev(k)       == FreeWith(k, FALSE, TRUE)
Free_NextListed(k)   == FreeWith(k, TRUE, FALSE)
(* fast_shmem_free of the k-th block: merged with the next block when that *)
(* one is free, then with the previous one; the result is put on the list  *)
(* of its size.  (A failed removal leaves the call where it is.)           *)
Free(k) ==
  LET next == k < Len(order) /\ ~ order[k + 1].alloc
      prev == k > 1 /\ ~ order[k - 1].alloc
      rmn  == IF next THEN RemoveFree(lists, order[k + 1]) ELSE [ok |-> TRUE, lists |-> lists]
      st_alloc == [order[k] EXCEPT !.alloc = FALSE, !.act = 0,
                     !.size = IF next THEN @ + order[k + 1].size + Header ELSE @]
      rmp  == IF prev THEN RemoveFree(rmn.lists, order[k - 1]) ELSE rmn
      st   == IF prev THEN [order[k - 1] EXCEPT !.size = @ + st_alloc.size + Header] ELSE st_alloc
  IN
  /\ order[k].alloc
  /\ used_size' = used_size - order[k].size
  /\ reqs_size' = reqs_size - order[k].act
  /\ IF ~ rmn.ok
     THEN /\ err' = "remove_next_failed"
          /\ order' = [order EXCEPT ![k].alloc = FALSE, ![k].act = 0]
          /\ UNCHANGED <<lists, st_count>>
     ELSE IF ~ rmp.ok
     THEN /\ err' = "remove_prev_failed"
          /\ order' = SubSeq(order, 1, k - 1) \o <<st_alloc>>
                        \o SubSeq(order, IF next THEN k + 2 ELSE k + 1, Len(order))
          /\ lists' = rmn.lists
          /\ st_count' = st_count - (IF next THEN 1 ELSE 0)
     ELSE /\ err' = "none"
          /\ order' = SubSeq(order, 1, IF prev THEN k - 2 ELSE k - 1) \o <<st>>
                        \o SubSeq(order, IF next THEN k + 2 ELSE k + 1, Len(order))
          /\ lists' = InsertFree(rmp.lists, st)
          /\ st_count' = st_count - (IF next THEN 1 ELSE 0) - (IF prev THEN 1 ELSE 0)
  /\ UNCHANGED settings

(* fast_shmem_set_split_threshold *)
SetSplitThreshold(size) ==
  /\ split_threshold' = size
  /\ UNCHANGED <<level_type, order, lists, stats, err>>

Next ==
  \/ \E size \in Requests : Alloc(size) \/ SplitAlloc(size)
  \/ \E k \in DOMAIN order : Free(k)
  \/ \E size \in Thresholds : SetSplitThreshold(size)

Spec == Init /\ [][Next]_vars

-----------------------------------------------------------------------------
Blocks == ToSet(order)
FreeBlocks == {b \in Blocks : ~ b.alloc}

TypeOK ==
  /\ level_type \in LevelTypes
  /\ order \in Seq([addr : Nat, size : Nat, act : Nat, alloc : BOOLEAN])
  /\ lists.free \in [Classes -> Seq(Nat)]
  /\ lists.available \in Seq(Classes)
  /\ lists.max_available_index \in 0 .. free_len
  /\ used_size \in Nat /\ reqs_size \in Nat /\ st_count \in Nat
  /\ split_threshold \in Thresholds \cup {min_size}

(* The blocks tile the area: whatever was split and merged, each block     *)
(* starts where the one before it ends, the last one ends with the area,   *)
(* and st_count is their number.                                           *)
Tiling ==
  /\ order[1].addr = 0
  /\ \A k \in 1 .. Len(order) - 1 : order[k + 1].addr = order[k].addr + Header + order[k].size
  /\ Last(order).addr + Header + Last(order).size = Arena
  /\ st_count = Len(order)

(* Free memory is not fragmented more than it must be: fast_shmem_free     *)
(* leaves no two neighbouring free blocks, so that when everything is      *)
(* freed there is the one block of the beginning again.                    *)
Coalesced == \A k \in 1 .. Len(order) - 1 : order[k].alloc \/ order[k + 1].alloc

Used(b)  == IF b.alloc THEN b.size ELSE 0
Asked(b) == IF b.alloc THEN b.act ELSE 0

(* used_size is the sum of the sizes of the allocated blocks, reqs_size of *)
(* what was asked for them.                                                *)
UsageExact ==
  /\ used_size = SumOf([k \in 1 .. Len(order) |-> Used(order[k])])
  /\ reqs_size = SumOf([k \in 1 .. Len(order) |-> Asked(order[k])])

(* The blocks stay what the calls say of them through every split and      *)
(* merge: a tiling, with no free neighbours, and the statistics its sums.  *)
BlocksExact == TypeOK /\ Tiling /\ Coalesced /\ UsageExact

(* Every free block is on the list of its size class, once, and the lists  *)
(* hold nothing else.                                                      *)
FreeListsExact ==
  /\ \A i \in Classes : ToSet(lists.free[i]) =
       {b.addr : b \in {f \in FreeBlocks : i = Min({InsertIndex(f.size), free_len - 1})}}
  /\ \A i \in Classes : IsInjective(lists.free[i])

(* "available" is the increasing sequence of the classes that have free    *)
(* blocks, and max_available_index its last (free_len when it is empty).   *)
AvailableExact ==
  /\ ToSet(lists.available) = {i \in Classes : lists.free[i] # <<>>}
  /\ \A j \in 1 .. Len(lists.available) - 1 : lists.available[j] < lists.available[j + 1]
  /\ lists.max_available_index =
       IF lists.available = <<>> THEN free_len ELSE Last(lists.available)

(* The errors that tell of damaged lists ("remove free failed", "remove    *)
(* the next/previous storage failed") are never reported.                  *)
NoListDamage == err \notin {"remove_failed", "remove_next_failed", "remove_prev_failed"}

(* The free lists, the classes available and their cached maximum stay in  *)
(* step with the blocks, so that no call meets damage.                     *)
ListsExact == FreeListsExact /\ AvailableExact /\ NoListDamage

(* A request above min_size fails only when no free block is large enough. *)
LargeRequestServed ==
  \A size \in {s \in Requests : s > min_size} :
    Refused(size) => \A b \in FreeBlocks : b.size < size

(* The same for every request: a refusal means what its messages say, that *)
(* the memory is exhausted or that no free space that fits was found.      *)
RefusedOnlyWhenNoneFits ==
  \A size \in Requests : Refused(size) => \A b \in FreeBlocks : b.size < size

(* fast_shmem_split_alloc gives the largest free block of the area: the    *)
(* largest one of the last available class is the largest of all.          *)
LargestGiven == lists.available # <<>> => \A b \in FreeBlocks : b.size <= BlockAt(MaxSt).size

(* What is free can be had: by a request above min_size that fits, and by  *)
(* a split allocation the largest block.                                   *)
FreeIsServed == LargeRequestServed /\ LargestGiven

Memory == INSTANCE Heap WITH
  Base <- 0, Top <- Arena,
  live <- {[at |-> b.addr + Header, len |-> b.size, asked |-> b.act] : b \in {c \in Blocks : c.alloc}}

(* fast_shmem.c implements an allocator: the memory it gives lies in the   *)
(* area, is as long as asked for and overlaps no live memory.              *)
ImplementsHeap == Memory!Spec
=============================================================================
