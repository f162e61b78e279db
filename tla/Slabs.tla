------------------------------- MODULE Slabs --------------------------------
(***************************************************************************)
(* fast_slabs.c: chunks of fixed size classes over an allocator of the     *)
(* table (Allocator).  A freed chunk goes to the free list of its class;   *)
(* when the allocator refuses a chunk, free chunks of other classes are    *)
(* given back to it and the allocation is tried again.                     *)
(*                                                                         *)
(* The calls hold no lock: a caller serialises them.  The loop of          *)
(* fast_slabs_alloc is a step for each call of the allocator.  Parameter   *)
(* errors and the counters of failed calls are left out.                   *)
(***************************************************************************)
EXTENDS Allocator, Totals, Sequences, SequencesExt, FiniteSets, FiniteSetsExt

CONSTANTS
  Header,                     \* sizeof(chunk_link_t)
  ManagerSize, SlabclassSize, \* sizeof(fast_slab_manager_t), sizeof(slabclass_t)
  item_size_min, item_size_max,
  FAST_SLAB_LINEAR_FACTOR,
  Uptypes,                    \* subset of {"POWER", "LINEAR"}
  Requests,                   \* sizes asked for
  SplitSizes,                 \* <<req_size, req_minsize>> of split_alloc
  SizeMod,                    \* size_t counts modulo SizeMod
  MaxMissed,                  \* bound: what frees in error may leave uncounted
  Things,                     \* the chunks there can be at one time
  NoChunk, NoWant

(* The parameters fast_slabs_create accepts. *)
SlabsAssumption ==
  /\ {Header, item_size_min, item_size_max, FAST_SLAB_LINEAR_FACTOR, ALIGN, SizeMod} \subseteq Nat \ {0}
  /\ Header % ALIGN = 0
  /\ {Room, ManagerSize, SlabclassSize, MaxMissed} \subseteq Nat
  /\ item_size_max \div item_size_min >= 2
  /\ Uptypes \subseteq {"POWER", "LINEAR"}
  /\ AllocatorTypes \subseteq {"SHMEM", "MEMPOOL", "COMMPOOL"}
  /\ Requests \subseteq Nat \ {0}
  /\ \A s \in SplitSizes : s[1] \in Nat \ {0} /\ s[2] \in Nat
  /\ IsFiniteSet(Things) /\ Things = 1 .. Cardinality(Things)
  /\ NoChunk \notin [size : Int, req_size : Int, id : Int]
  /\ NoWant \notin [id : Int, type : {"REQ", "ACT"}, req_size : Int,
                    todo : {"ask", "recover"}, given : Int]

VARIABLES
  uptype,
  manager,      \* "none", "half" (no classes yet), "live", "failed"
  free_list,    \* class -> its free chunks, as a stack
  chunk,        \* thing -> [size, req_size, id], or NoChunk
  slab_stat,    \* [used_size, reqs_size, free_size, chunk_count]
  lent,         \* ghost: thing -> the number of callers who have it
  missed,       \* ghost: how much was freed in error
  want,         \* the allocation under way, or NoWant
  reply         \* what the last call reported

vars == <<allocator_type, taken, uptype, manager, free_list, chunk, slab_stat,
          lent, missed, want, reply>>

-----------------------------------------------------------------------------
(* Size classes *)

free_len ==
  1 + IF uptype = "POWER" THEN Log2Up(DivUp(item_size_max, item_size_min))
      ELSE DivUp(item_size_max - item_size_min, FAST_SLAB_LINEAR_FACTOR)

Classes == 0 .. free_len - 1
max_id  == free_len - 1

ChunkSize(size) == AlignTo(size + Header, ALIGN)

ClassSize(i) == ChunkSize(
  IF uptype = "POWER" THEN item_size_min * 2^i
  ELSE item_size_min + i * FAST_SLAB_LINEAR_FACTOR)

INVALID_ID == -1

(* The binary search among the middle classes. *)
PowerId(all_size) ==
  LET search[r \in (1 .. free_len) \X (0 .. max_id)] ==
        LET low == r[1]  high == r[2]  mid == (low + high) \div 2 IN
        IF low > high THEN INVALID_ID
        ELSE IF all_size > ClassSize(mid)
             THEN IF all_size <= ClassSize(mid + 1) THEN mid + 1 ELSE search[<<mid + 1, high>>]
        ELSE IF all_size > ClassSize(mid - 1) THEN mid
        ELSE IF all_size = ClassSize(mid - 1) THEN mid - 1
        ELSE search[<<low, mid - 1>>]
  IN search[<<1, max_id - 1>>]

LinearId(size) == DivUp(size - item_size_min, FAST_SLAB_LINEAR_FACTOR)

(* Mutated form: an exact match with the largest class is left to the      *)
(* search.                                                                 *)
ClsId_NoLast(size) ==
  LET all_size == ChunkSize(size) IN
  IF all_size >= ClassSize(max_id) THEN INVALID_ID
  ELSE IF all_size <= ClassSize(0) THEN 0
  ELSE IF uptype = "LINEAR" THEN LinearId(size)
  ELSE PowerId(all_size)

(* fast_slabs_clsid, which its callers ask to round up. *)
ClsId(size) ==
  LET all_size == ChunkSize(size) IN
  IF all_size > ClassSize(max_id) THEN INVALID_ID
  ELSE IF all_size <= ClassSize(0) THEN 0
  ELSE IF all_size = ClassSize(max_id) THEN max_id
  ELSE IF uptype = "LINEAR" THEN LinearId(size)
  ELSE PowerId(all_size)

-----------------------------------------------------------------------------
Init ==
  /\ NewInit
  /\ uptype \in Uptypes
  /\ manager = "none"
  /\ free_list = [i \in Classes |-> <<>>]
  /\ chunk = [t \in Things |-> NoChunk]
  /\ slab_stat = [used_size |-> 0, reqs_size |-> 0, free_size |-> 0, chunk_count |-> 0]
  /\ lent = [t \in Things |-> 0]
  /\ missed = 0
  /\ want = NoWant
  /\ reply = "none"

Size(x) == x % SizeMod

Count(used, reqs, free, chunks) ==
  slab_stat' = [used_size   |-> Size(slab_stat.used_size + used),
                reqs_size   |-> Size(slab_stat.reqs_size + reqs),
                free_size   |-> Size(slab_stat.free_size + free),
                chunk_count |-> Size(slab_stat.chunk_count + chunks)]

Idle == manager = "live" /\ want = NoWant

(* fast_slabs_create: when the classes cannot be had, the manager is       *)
(* neither used nor given back.                                            *)
CreateManager == \E ok \in BOOLEAN :
  /\ manager = "none"
  /\ AllocatorAlloc(ManagerSize, ok)
  /\ manager' = IF ok THEN "half" ELSE "none"
  /\ reply' = IF ok THEN "none" ELSE "allocator_error"
  /\ UNCHANGED <<allocator_type, uptype, free_list, chunk, slab_stat, lent, missed, want>>

CreateClasses == \E ok \in BOOLEAN :
  /\ manager = "half"
  /\ AllocatorAlloc(SlabclassSize * free_len, ok)
  /\ manager' = IF ok THEN "live" ELSE "failed"
  /\ reply' = IF ok THEN "ok" ELSE "allocator_error"
  /\ UNCHANGED <<allocator_type, uptype, free_list, chunk, slab_stat, lent, missed, want>>

(* fast_slabs_release takes its error argument for an error, and returns.  *)
Release ==
  /\ Idle
  /\ reply' = "error"
  /\ UNCHANGED <<allocator_type, taken, uptype, manager, free_list, chunk, slab_stat,
                 lent, missed, want>>

-----------------------------------------------------------------------------
(* fast_slabs_alloc *)

(* Mutated form: what was asked for counts as used, not the chunk.         *)
HandOut_Requested(t, id, type, req_size, listed, new) ==
  LET size == ClassSize(id) - Header
      req  == IF type = "ACT" THEN size ELSE req_size
  IN /\ chunk' = [chunk EXCEPT ![t] = [size |-> size, req_size |-> req, id |-> id]]
     /\ Count(req, req, listed, new)
     /\ lent' = [lent EXCEPT ![t] = @ + 1]
     /\ reply' = "ok"

(* Handing out chunk t of class id: ACT asks for all of the chunk.         *)
HandOut(t, id, type, req_size, listed, new) ==
  LET size == ClassSize(id) - Header
      req  == IF type = "ACT" THEN size ELSE req_size
  IN /\ chunk' = [chunk EXCEPT ![t] = [size |-> size, req_size |-> req, id |-> id]]
     /\ Count(size, req, listed, new)
     /\ lent' = [lent EXCEPT ![t] = @ + 1]
     /\ reply' = "ok"

AllocInvalid(req_size) ==
  /\ Idle
  /\ ClsId(req_size) = INVALID_ID
  /\ reply' = "invalid_id"
  /\ UNCHANGED <<allocator_type, taken, uptype, manager, free_list, chunk, slab_stat,
                 lent, missed, want>>

(* Mutated form: the chunk taken stays on its free list.                   *)
AllocListed_Keep(type, req_size) ==
  LET id == ClsId(req_size) IN
  /\ Idle /\ id # INVALID_ID
  /\ free_list[id] # <<>>
  /\ HandOut(Head(free_list[id]), id, type, req_size, -(ClassSize(id) - Header), 0)
  /\ UNCHANGED <<allocator_type, taken, uptype, manager, free_list, missed, want>>

AllocListed(type, req_size) ==
  LET id == ClsId(req_size) IN
  /\ Idle /\ id # INVALID_ID
  /\ free_list[id] # <<>>
  /\ HandOut(Head(free_list[id]), id, type, req_size, -(ClassSize(id) - Header), 0)
  /\ free_list' = [free_list EXCEPT ![id] = Tail(@)]
  /\ UNCHANGED <<allocator_type, taken, uptype, manager, missed, want>>

AllocAsk(type, req_size) ==
  LET id == ClsId(req_size) IN
  /\ Idle /\ id # INVALID_ID
  /\ free_list[id] = <<>>
  /\ want' = [id |-> id, type |-> type, req_size |-> req_size, todo |-> "ask", given |-> 0]
  /\ reply' = "none"
  /\ UNCHANGED <<allocator_type, taken, uptype, manager, free_list, chunk, slab_stat,
                 lent, missed>>

Unused == {t \in Things : chunk[t] = NoChunk}

AllocGranted ==
  /\ want # NoWant /\ want.todo = "ask"
  /\ Unused # {}
  /\ AllocatorAlloc(ClassSize(want.id), TRUE)
  /\ HandOut(Min(Unused), want.id, want.type, want.req_size, 0, 1)
  /\ want' = NoWant
  /\ UNCHANGED <<allocator_type, uptype, manager, free_list, missed>>

AllocRefused ==
  /\ want # NoWant /\ want.todo = "ask"
  /\ AllocatorAlloc(ClassSize(want.id), FALSE)
  /\ want' = [want EXCEPT !.todo = "recover", !.given = 0]
  /\ UNCHANGED <<allocator_type, uptype, manager, free_list, chunk, slab_stat,
                 lent, missed, reply>>

-----------------------------------------------------------------------------
(* fast_slabs_recover *)

FAST_SLAB_RECOVER_FACTOR == 2

Listed(S) == {i \in S : free_list[i] # <<>>}
Larger    == Listed(want.id + 1 .. max_id)
Smaller   == Listed(0 .. want.id - 1)

(* Mutated form: the chunk is forgotten, not given back.                   *)
GiveBack_Forget(i) ==
  LET t == Head(free_list[i]) IN
  /\ UNCHANGED taken
  /\ free_list' = [free_list EXCEPT ![i] = Tail(@)]
  /\ chunk' = [chunk EXCEPT ![t] = NoChunk]
  /\ Count(0, 0, -(ClassSize(i) - Header), -1)

(* The first free chunk of class i goes back to the allocator.             *)
GiveBack(i) ==
  LET t == Head(free_list[i]) IN
  /\ AllocatorFree(ClassSize(i))
  /\ free_list' = [free_list EXCEPT ![i] = Tail(@)]
  /\ chunk' = [chunk EXCEPT ![t] = NoChunk]
  /\ Count(0, 0, -(ClassSize(i) - Header), -1)

(* One chunk of the next larger class that has any is enough.              *)
RecoverLarger ==
  /\ want # NoWant /\ want.todo = "recover" /\ want.given = 0
  /\ Larger # {}
  /\ GiveBack(Min(Larger))
  /\ want' = [want EXCEPT !.todo = "ask"]
  /\ UNCHANGED <<allocator_type, uptype, manager, lent, missed, reply>>

(* Smaller ones are given back from the largest of them down, until they   *)
(* are twice what is wanted.                                               *)
RecoverSmaller ==
  /\ want # NoWant /\ want.todo = "recover"
  /\ want.given = 0 => Larger = {}
  /\ Smaller # {}
  /\ GiveBack(Max(Smaller))
  /\ LET given == want.given + ClassSize(Max(Smaller)) IN
     want' = IF given >= ClassSize(want.id) * FAST_SLAB_RECOVER_FACTOR
             THEN [want EXCEPT !.todo = "ask", !.given = 0]
             ELSE [want EXCEPT !.given = given]
  /\ UNCHANGED <<allocator_type, uptype, manager, lent, missed, reply>>

(* All the smaller ones were given back: that may be enough.               *)
RecoverAll ==
  /\ want # NoWant /\ want.todo = "recover"
  /\ want.given > 0 /\ Smaller = {}
  /\ want' = [want EXCEPT !.todo = "ask", !.given = 0]
  /\ UNCHANGED <<allocator_type, taken, uptype, manager, free_list, chunk, slab_stat,
                 lent, missed, reply>>

(* Mutated form: only the larger classes are looked at.                    *)
RecoverNoSpace_LargerOnly ==
  /\ want # NoWant /\ want.todo = "recover" /\ want.given = 0
  /\ Larger = {}
  /\ want' = NoWant
  /\ reply' = "alloc_failed"
  /\ UNCHANGED <<allocator_type, taken, uptype, manager, free_list, chunk, slab_stat,
                 lent, missed>>

(* FAST_SLAB_ERROR_NOSPACE: nothing was given back, the allocation fails.  *)
RecoverNoSpace ==
  /\ want # NoWant /\ want.todo = "recover" /\ want.given = 0
  /\ Larger = {} /\ Smaller = {}
  /\ want' = NoWant
  /\ reply' = "alloc_failed"
  /\ UNCHANGED <<allocator_type, taken, uptype, manager, free_list, chunk, slab_stat,
                 lent, missed>>

-----------------------------------------------------------------------------
FAST_SLAB_SPLIT_ID == -5

(* fast_slabs_split_alloc: the size of the request only bounds it, what    *)
(* comes is the allocator's largest block.                                 *)
SplitRefused(req_size, req_minsize) ==
  /\ Idle
  /\ reply' = IF ~HasSplitAlloc THEN "not_supported"
              ELSE IF ChunkSize(req_size) > ClassSize(max_id) THEN "too_large"
              ELSE "allocator_error"
  /\ HasSplitAlloc => AllocatorSplitAlloc(ChunkSize(req_minsize), 0, FALSE)
  /\ ~HasSplitAlloc => UNCHANGED taken
  /\ UNCHANGED <<allocator_type, uptype, manager, free_list, chunk, slab_stat,
                 lent, missed, want>>

SplitAlloc(req_size, req_minsize) == \E size \in {ChunkSize(req_minsize), ChunkSize(req_size)} :
  LET t == Min(Unused) IN
  /\ Idle
  /\ ChunkSize(req_size) <= ClassSize(max_id)
  /\ Unused # {}
  /\ AllocatorSplitAlloc(ChunkSize(req_minsize), size, TRUE)
  /\ LET c == [size |-> size - Header, id |-> FAST_SLAB_SPLIT_ID,
               req_size |-> IF req_size >= size - Header THEN size - Header ELSE req_size]
     IN chunk' = [chunk EXCEPT ![t] = c] /\ Count(c.size, c.req_size, 0, 1)
  /\ lent' = [lent EXCEPT ![t] = @ + 1]
  /\ reply' = "ok"
  /\ UNCHANGED <<allocator_type, uptype, manager, free_list, missed, want>>

-----------------------------------------------------------------------------
(* fast_slabs_free *)

(* An allocator that cannot free keeps the chunk, and so does the manager. *)
FreeUnsupported(t) ==
  /\ Idle /\ lent[t] > 0
  /\ ~HasFree
  /\ lent' = [lent EXCEPT ![t] = @ - 1]
  /\ reply' = "not_supported"
  /\ UNCHANGED <<allocator_type, taken, uptype, manager, free_list, chunk, slab_stat,
                 missed, want>>

FreeSplit(t) ==
  LET c == chunk[t] IN
  /\ Idle /\ lent[t] > 0
  /\ HasFree /\ c.id = FAST_SLAB_SPLIT_ID
  /\ AllocatorFree(c.size + Header)
  /\ Count(-c.size, -c.req_size, 0, -1)
  /\ chunk' = [chunk EXCEPT ![t] = NoChunk]
  /\ lent' = [lent EXCEPT ![t] = @ - 1]
  /\ reply' = "ok"
  /\ UNCHANGED <<allocator_type, uptype, manager, free_list, missed, want>>

(* Linked first, counted afterwards - unless less is in use than the size  *)
(* of the class with its header, which used_size does not have.            *)
Free(t) ==
  LET c == chunk[t] IN
  /\ Idle /\ lent[t] > 0
  /\ HasFree /\ c.id # FAST_SLAB_SPLIT_ID
  /\ free_list' = [free_list EXCEPT ![c.id] = <<t>> \o @]
  /\ lent' = [lent EXCEPT ![t] = @ - 1]
  /\ IF slab_stat.used_size < ClassSize(c.id)
     THEN /\ missed + c.size <= MaxMissed
          /\ missed' = missed + c.size
          /\ reply' = "chunk_id_error"
          /\ UNCHANGED slab_stat
     ELSE /\ Count(-c.size, -c.req_size, c.size, 0)
          /\ reply' = "ok"
          /\ UNCHANGED missed
  /\ UNCHANGED <<allocator_type, taken, uptype, manager, chunk, want>>

-----------------------------------------------------------------------------
Next ==
  \/ CreateManager \/ CreateClasses \/ Release
  \/ \E req_size \in Requests :
       \/ AllocInvalid(req_size)
       \/ \E type \in {"REQ", "ACT"} : AllocListed(type, req_size) \/ AllocAsk(type, req_size)
  \/ AllocGranted \/ AllocRefused
  \/ RecoverLarger \/ RecoverSmaller \/ RecoverAll \/ RecoverNoSpace
  \/ \E s \in SplitSizes : SplitRefused(s[1], s[2]) \/ SplitAlloc(s[1], s[2])
  \/ \E t \in Things : FreeUnsupported(t) \/ FreeSplit(t) \/ Free(t)

Spec == Init /\ [][Next]_vars

(* A call of fast_slabs_alloc goes on.                                     *)
Going == \/ AllocGranted \/ AllocRefused
         \/ RecoverLarger \/ RecoverSmaller \/ RecoverAll \/ RecoverNoSpace

FairSpec == Spec /\ WF_vars(Going)

-----------------------------------------------------------------------------
Lent == {t \in Things : lent[t] > 0}
Got == {t \in Things : chunk[t] # NoChunk}
OnList(i) == ToSet(free_list[i])
SizeOf(t) == chunk[t].size

(* What the things of S come to, each with so much more.                   *)
Total(S, more) == SumOf([t \in Things |-> IF t \in S THEN SizeOf(t) + more ELSE 0])

(* Every variable has its type; sizes in use stay below the wrap.          *)
TypeOK ==
  /\ allocator_type \in AllocatorTypes /\ uptype \in Uptypes
  /\ taken \in 0 .. Room
  /\ manager \in {"none", "half", "live", "failed"}
  /\ DOMAIN free_list = Classes
  /\ \A i \in Classes : OnList(i) \subseteq Things
  /\ lent \in [Things -> Nat]
  /\ \A f \in DOMAIN slab_stat : slab_stat[f] \in 0 .. SizeMod - 1

(* A chunk is with one caller or once on the list of the class it has,     *)
(* which is what its size says; only an allocator without free loses one.  *)
ChunksInPlace ==
  /\ \A i \in Classes :
       /\ IsInjective(free_list[i])
       /\ OnList(i) \cap Lent = {}
       /\ \A t \in OnList(i) : t \in Got /\ chunk[t].id = i /\ SizeOf(t) = ClassSize(i) - Header
  /\ Lent \subseteq Got
  /\ HasFree => Got = Lent \cup UNION {OnList(i) : i \in Classes}

(* used_size and free_size together are all the chunks there are, also     *)
(* after frees in error and recoveries; chunk_count is their number.       *)
UsedPlusFree ==
  /\ Size(slab_stat.used_size + slab_stat.free_size) = Size(Total(Got, 0))
  /\ slab_stat.chunk_count = Size(Cardinality(Got))

(* used_size is what callers have, but for the chunks freed in error.      *)
UsedIsLent == HasFree =>
  slab_stat.used_size = Size(Total(Lent, 0) + missed)

(* The memory of a chunk that was given back is the allocator's again: the *)
(* shared memory taken is the manager's and the chunks'.                   *)
NothingLost == allocator_type = "SHMEM" =>
  taken = Total(Got, Header)
          + (IF manager = "none" THEN 0 ELSE ManagerSize)
          + (IF manager = "live" THEN SlabclassSize * free_len ELSE 0)

(* A caller's chunk holds what was asked for.                              *)
ChunkServes == \A t \in Lent : chunk[t].req_size <= SizeOf(t)

(* Every size the manager was created for has a class that holds it, with  *)
(* power classes the smallest that does.                                   *)
EverySizeHasClass == manager = "none" => \A size \in 1 .. item_size_max :
  LET id == ClsId(size) IN
  /\ id \in Classes
  /\ ChunkSize(size) <= ClassSize(id)
  /\ uptype = "POWER" => \A i \in Classes : i < id => ClassSize(i) < ChunkSize(size)

(* The chunks are exact: in one place each, on the list of their class,    *)
(* and no memory of a chunk is lost to the allocator.                      *)
ChunksExact == TypeOK /\ ChunksInPlace /\ NothingLost

(* The statistics count the chunks through refusals, recoveries and frees  *)
(* in error.                                                               *)
StatisticsExact == UsedPlusFree /\ UsedIsLent

(* Classes and chunks hold the sizes they are chosen for.                  *)
ClassesServe == EverySizeHasClass /\ ChunkServes

(* An allocation fails only when every free chunk went back to the         *)
(* allocator before: nothing is hoarded while a caller goes without.       *)
FailsOnlyWhenEmpty == [][
  reply # "alloc_failed" /\ reply' = "alloc_failed" => \A i \in Classes : free_list[i] = <<>>]_vars

(* However often the allocator refuses, an allocation ends.                *)
AllocEnds == want # NoWant ~> want = NoWant

(* Recovery serves the caller: the allocation comes to an end, and fails   *)
(* only with nothing left to give back.                                    *)
RecoveryServes == FailsOnlyWhenEmpty /\ AllocEnds

(* Slabs lend each chunk to one caller at a time.                          *)
Lending == INSTANCE Loans
ImplementsLoans == Lending!Spec

(* What "fast_slabs_free: chunk id error" says: the chunk freed was not    *)
(* one of the manager's.  Every chunk freed here is.                       *)
FreeOfOwnChunkSucceeds == reply # "chunk_id_error"
=============================================================================
