----------------------------- MODULE MCAllocators -----------------------------
(***************************************************************************)
(* The shared-memory allocator, and slabs over each kind of allocator.     *)
(* Slabs see of the allocator what Allocator says, so that each behaviour  *)
(* of this module is one of one of the two, "part".                        *)
(***************************************************************************)
EXTENDS Shmem

CONSTANTS
  AllocatorTypes, Room, ALIGN,
  ChunkLinkSize, ManagerSize, SlabclassSize, item_size_min, item_size_max,
  FAST_SLAB_LINEAR_FACTOR, Uptypes, ChunkRequests, SizeMod, MaxMissed, Things, NoChunk, NoWant

VARIABLES
  part,
  allocator_type, taken, uptype, manager, free_list, chunk, slab_stat, lent, missed, want, reply

(* <<req_size, req_minsize>> *)
OneSplit == {<<10, 4>>}

SL == INSTANCE Slabs WITH
        Header <- ChunkLinkSize, Requests <- ChunkRequests, SplitSizes <- OneSplit

ASSUME AllocatorsAssumption == SL!SlabsAssumption

slabs_vars == <<allocator_type, taken, uptype, manager, free_list, chunk, slab_stat,
                lent, missed, want, reply>>
all_vars == <<part, vars, slabs_vars>>

(* The kind of the part that rests does not matter. *)
AllocInit ==
  /\ part \in {"shmem", "slabs"} /\ Init /\ SL!Init
  /\ part = "shmem" => allocator_type = "SHMEM" /\ uptype = "POWER"
  /\ part = "slabs" => level_type = "linear"

Area  == part = "shmem" /\ Next /\ UNCHANGED <<part, slabs_vars>>
Slabs == part = "slabs" /\ SL!Next /\ UNCHANGED <<part, vars>>

(* A call of fast_slabs_alloc goes on. *)
AllocGoes == part = "slabs" /\ SL!Going /\ UNCHANGED <<part, vars>>

AllocNext == Area \/ Slabs

AllocSpec == AllocInit /\ [][AllocNext]_all_vars /\ WF_all_vars(AllocGoes)

(* The chunks are exact: in one place each, on the list of their class,    *)
(* and no memory of a chunk is lost to the allocator.                      *)
ChunksExact == SL!ChunksExact

(* The slabs' statistics count the chunks through refusals, recoveries and *)
(* frees in error.                                                         *)
StatisticsExact == SL!StatisticsExact

(* Classes and chunks hold the sizes they are chosen for.                  *)
ClassesServe == SL!ClassesServe

(* An allocation ends, and fails only with nothing left to give back.      *)
RecoveryServes == SL!RecoveryServes

(* Slabs lend each chunk to one caller at a time.                          *)
ImplementsLoans == SL!ImplementsLoans
=============================================================================
