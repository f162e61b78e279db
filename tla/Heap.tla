-------------------------------- MODULE Heap --------------------------------
(***************************************************************************)
(* What an allocator promises its caller: every live allocation is an      *)
(* interval of the arena, disjoint from every other; allocating adds one   *)
(* at least as long as asked for, freeing takes one away.  The allocators  *)
(* of the library implement it.                                            *)
(***************************************************************************)
EXTENDS Integers

CONSTANTS
  Base, Top,      \* the arena: addresses Base .. Top - 1
  Requests        \* sizes callers ask for

VARIABLE live     \* set of [at, len, asked] : the memory callers own

Disjoint(x, y) == x.at + x.len <= y.at \/ y.at + y.len <= x.at

Init == live = {}

Intervals == { x \in [at : Base .. Top, len : 1 .. Top - Base, asked : 1 .. Top - Base] :
                 x.at + x.len <= Top /\ x.asked <= x.len }

(* (The new allocation is looked for in live', which is cheaper to check.) *)
Alloc == \E new \in live' \ live :
  /\ new \in Intervals
  /\ live' = live \cup {new}
  /\ \A old \in live : Disjoint(new, old)
  /\ \E size \in Requests : size <= new.asked

Free == \E old \in live : live' = live \ {old}

Next == Alloc \/ Free

Spec == Init /\ [][Next]_live
=============================================================================
