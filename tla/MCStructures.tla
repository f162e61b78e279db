----------------------------- MODULE MCStructures -----------------------------
(***************************************************************************)
(* The library's data structures: the red-black tree, one more part beside *)
(* those of MCPools, and the ranks, hashes and keys the others are given.  *)
(***************************************************************************)
EXTENDS MCPools, Sequences, TLC

CONSTANTS Nodes, a, b, c, d, ab, abc, xy

VARIABLE tree

(* Nodes 7 and 8 have the keys of 5 and 6: every node has one key, and two *)
(* keys have two nodes.                                                    *)
NodeKeys == [n \in Nodes |-> {IF n > 6 THEN n - 2 ELSE n}]

(* Two elements the program's cmp finds equal. *)
Ranks == (a :> 1) @@ (b :> 1) @@ (c :> 2) @@ (d :> 3)

(* Under 3 buckets ab and xy share one, under 5 ab alone has its; comparing *)
(* by the length of the shorter key takes abc for ab.                      *)
HashOf  == (ab :> 1) @@ (abc :> 5) @@ (xy :> 4)
EqualTo == (ab :> {ab, abc}) @@ (abc :> {abc}) @@ (xy :> {xy})

RB == INSTANCE RBTree WITH KeysOf <- NodeKeys

all_vars   == <<pools_vars, tree>>

StructInit == PoolsInit /\ RB!RBInit

Trees == part = "tree" /\ RB!RBNext /\ UNCHANGED pools_vars

StructNext == (PoolsNext /\ UNCHANGED tree) \/ Trees

StructSpec == StructInit /\ [][StructNext]_all_vars

(* The tree stays red-black through every rotation: a node's parent is the *)
(* one it is a child of, no red node has a red child, every path meets as  *)
(* many black nodes - the height the timers' logarithmic cost needs.       *)
RedBlack == RB!ParentsRight /\ RB!Balanced

(* In order, the tree is a line into which a node steps behind all whose   *)
(* key is not above its own, and rbtree_min its first.                     *)
TreeIsLine == RB!Line!Spec
=============================================================================
