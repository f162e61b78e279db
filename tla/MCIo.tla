--------------------------------- MODULE MCIo ---------------------------------
(***************************************************************************)
(* Chains of buffers written to and read from a socket, against a kernel   *)
(* that takes what it wants, has no room or fails: two more parts beside   *)
(* those of MCSync, the library's other dealings with the world outside    *)
(* one thread of it.                                                       *)
(***************************************************************************)
EXTENDS MCSync, Sequences

CONSTANTS
  Limits, FAST_MAX_LIMIT, FAST_IOVS_MAX, AppendSizes, EmptyBeforeFile, MaxBytes, MaxLinks,
  CHAIN_ERROR,
  FAST_IOVS_REV, MaxRead

VARIABLES
  out, kept, ready, wire, asked, call,
  bufs, memory, received, taken

InMemory(n) == [memory |-> TRUE, size |-> n]
InFile(n)   == [memory |-> FALSE, size |-> n]

(* Chains in memory and in files, mixed, with empty buffers everywhere the *)
(* code allows for them.                                                   *)
SmallShapes ==
  {<<InMemory(2)>>, <<InMemory(1), InMemory(0), InMemory(2)>>, <<InFile(2), InFile(0)>>,
   <<InMemory(1), InFile(1), InMemory(1)>>, <<InMemory(0)>>}

(* The first two buffers are neighbours in memory, the third is apart.     *)
Neighbours == <<[start |-> 1, end |-> 3], [start |-> 3, end |-> 5], [start |-> 7, end |-> 9]>>

CO == INSTANCE ChainOutput WITH Shapes <- SmallShapes
CI == INSTANCE ChainInput WITH Regions <- Neighbours

out_vars == <<out, kept, ready, wire, asked, call>>
in_vars  == <<bufs, memory, received, taken>>
io_vars  == <<out_vars, in_vars>>

IoInit == SyncInit /\ CO!OutInit /\ CI!InInit

Output  == part = "output" /\ CO!OutNext /\ UNCHANGED <<all_vars, in_vars>>
Input   == part = "input" /\ CI!InNext /\ UNCHANGED <<all_vars, out_vars>>

IoNext == (SyncNext /\ UNCHANGED io_vars) \/ Output \/ Input

(* A call on the output chain goes on. *)
OutputRuns == part = "output" /\ CO!Running /\ UNCHANGED <<all_vars, in_vars>>

IoSpec ==
  /\ IoInit /\ [][IoNext]_<<all_vars, io_vars>>
  /\ WF_<<all_vars, io_vars>>(InsideMBlocks /\ UNCHANGED io_vars)
  /\ WF_<<all_vars, io_vars>>(LoopWakes /\ UNCHANGED io_vars)
  /\ WF_<<all_vars, io_vars>>(OutputRuns)

(* Streams keep their bytes in order.  Output: what the kernel took is a   *)
(* beginning of what the program gave, and the chains hold the rest,       *)
(* however the kernel and the limits cut the buffers.  Input: readv over   *)
(* buffers that are neighbours in memory or not, chain_read_update and     *)
(* buffer_shrink leave the bytes as they came.                             *)
StreamsInOrder == CO!SentInOrder /\ CI!ReadInOrder

(* chain_output_with_limit sends no more than its limit, in however many   *)
(* rounds; FAST_OK means that all is sent, FAST_AGAIN that the socket is   *)
(* full, so that an event will come, or the limit used up; and it returns, *)
(* whatever the kernel takes.                                              *)
OutputTrue == CO!OutputReturns /\ [](CO!LimitKept /\ CO!ResultTrue)
=============================================================================
