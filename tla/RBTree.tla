------------------------------- MODULE RBTree -------------------------------
(***************************************************************************)
(* fast_rbtree.c: a red-black tree of nodes the program allocates, with a  *)
(* sentinel for every missing child.  A left half of the code and its      *)
(* mirror are one definition here, over the two sides.  What nobody reads  *)
(* again is kept too: the parent of a root that was a child, and the       *)
(* sentinel's parent, which a deletion writes.                             *)
(***************************************************************************)
EXTENDS Integers, FiniteSets, Sequences

CONSTANTS
  Nodes,          \* 1 .. n; the program takes the first that is free
  KeysOf,         \* node -> the keys the program gives it
  NULL

VARIABLE tree     \* root, kid[side][node], parent[node], red[node], key[node]

Sentinel == 0
Places   == Nodes \cup {Sentinel}
SidesOfNode == {"left", "right"}
Mirror(side) == IF side = "left" THEN "right" ELSE "left"

SideOf(t, n) == IF t.kid["left"][t.parent[n]] = n THEN "left" ELSE "right"

Red(t, n)      == [t EXCEPT !.red[n] = TRUE]
Black(t, n)    == [t EXCEPT !.red[n] = FALSE]
SetParent(t, n, p) == [t EXCEPT !.parent[n] = p]

(* The place of node in its parent, or the root, goes to other. *)
Replace(t, node, other) ==
  IF node = t.root THEN [t EXCEPT !.root = other]
                   ELSE [t EXCEPT !.kid[SideOf(t, node)][t.parent[node]] = other]

(* rbtree_left_rotate (side = "left") and rbtree_right_rotate: x goes down *)
(* on that side, its child of the other side takes its place.              *)
Rotate(t, x, side) ==
  LET up    == t.kid[Mirror(side)][x]
      child == t.kid[side][up]
      moved == [Replace(t, x, up) EXCEPT !.kid[Mirror(side)][x] = child, !.kid[side][up] = x]
      below == IF child = Sentinel THEN moved ELSE SetParent(moved, child, x)
  IN  [below EXCEPT !.parent[up] = t.parent[x], !.parent[x] = up]

RECURSIVE Leftmost(_, _)
(* rbtree_min *)
Leftmost(t, n) ==
  IF t.kid["left"][n] = Sentinel THEN n ELSE Leftmost(t, t.kid["left"][n])

-----------------------------------------------------------------------------
NoTree == [root   |-> Sentinel,
           kid    |-> [s \in SidesOfNode |-> [n \in Nodes |-> NULL]],
           parent |-> [n \in Places |-> NULL],
           red    |-> [n \in Places |-> FALSE],
           key    |-> [n \in Nodes |-> 0]]

(* rbtree_init, rbtree_sentinel_init *)
RBInit == tree = NoTree

RECURSIVE Descend(_, _, _)
(* Mutated form: an equal key goes to the left. *)
Descend_EqualLeft(t, k, at) ==
  LET side == IF k <= t.key[at] THEN "left" ELSE "right"
      kid  == t.kid[side][at]
  IN  IF kid = Sentinel THEN <<at, side>> ELSE Descend(t, k, kid)

(* The loop of rbtree_insert_value and of rbtree_insert_timer_value: the   *)
(* types of both comparisons are the same.                                 *)
Descend(t, k, at) ==
  LET side == IF k < t.key[at] THEN "left" ELSE "right"
      kid  == t.kid[side][at]
  IN  IF kid = Sentinel THEN <<at, side>> ELSE Descend(t, k, kid)

Hang(t, n) ==
  LET where == Descend(t, t.key[n], t.root)
  IN  [t EXCEPT !.kid[where[2]][where[1]] = n,
                !.parent[n] = where[1],
                !.kid["left"][n] = Sentinel, !.kid["right"][n] = Sentinel,
                !.red[n] = TRUE]

(* A red node with a red parent and a black uncle: the inner grandchild is *)
(* first turned outwards.                                                  *)
Straighten(t, n) ==
  LET p    == t.parent[n]
      g    == t.parent[p]
      side == SideOf(t, p)
      out  == IF n = t.kid[Mirror(side)][p] THEN Rotate(t, p, side) ELSE t
      mid  == out.kid[side][g]
  IN  Rotate(Red(Black(out, mid), g), g, Mirror(side))

RECURSIVE InsertFixup(_, _)
InsertFixup(t, n) ==
  LET p == t.parent[n]
      g == t.parent[p]
      u == t.kid[Mirror(SideOf(t, p))][g]
  IN  IF n = t.root \/ ~t.red[p] THEN Black(t, t.root)
      ELSE IF t.red[u] THEN InsertFixup(Red(Black(Black(t, p), u), g), g)
      ELSE Black(Straighten(t, n), Straighten(t, n).root)

FirstNode(t, n) ==
  [t EXCEPT !.root = n, !.parent[n] = NULL, !.red[n] = FALSE,
            !.kid["left"][n] = Sentinel, !.kid["right"][n] = Sentinel]

Inserted(t, n) ==
  IF t.root = Sentinel THEN FirstNode(t, n) ELSE InsertFixup(Hang(t, n), n)

-----------------------------------------------------------------------------
(* Mutated form: the sibling keeps the colour it had.                      *)
Borrow_OwnColour(t, x, side) ==
  LET p    == t.parent[x]
      w    == t.kid[Mirror(side)][p]
      near == t.kid[side][w]
      t1   == IF t.red[t.kid[Mirror(side)][w]] THEN t
              ELSE Rotate(Red(Black(t, near), w), w, Mirror(side))
      w1   == t1.kid[Mirror(side)][p]
  IN  Rotate([t1 EXCEPT !.red[p] = FALSE,
                        !.red[t1.kid[Mirror(side)][w1]] = FALSE], p, side)

(* A black sibling with a red child, the near one turned outwards first:   *)
(* the side that misses a black node gets one, and the fix-up ends.        *)
Borrow(t, x, side) ==
  LET p    == t.parent[x]
      w    == t.kid[Mirror(side)][p]
      near == t.kid[side][w]
      t1   == IF t.red[t.kid[Mirror(side)][w]] THEN t
              ELSE Rotate(Red(Black(t, near), w), w, Mirror(side))
      w1   == t1.kid[Mirror(side)][p]
  IN  Rotate([t1 EXCEPT !.red[w1] = t1.red[p], !.red[p] = FALSE,
                        !.red[t1.kid[Mirror(side)][w1]] = FALSE], p, side)

RECURSIVE DeleteFixup(_, _)
(* The loop of rbtree_delete: x is short of a black node.                  *)
DeleteFixup(t, x) ==
  IF x = t.root \/ t.red[x] THEN Black(t, x)
  ELSE LET side == SideOf(t, x)
           p    == t.parent[x]
           w0   == t.kid[Mirror(side)][p]
           t1   == IF t.red[w0] THEN Rotate(Red(Black(t, w0), p), p, side) ELSE t
           w    == t1.kid[Mirror(side)][p]
           lent == \E s \in SidesOfNode : t1.red[t1.kid[s][w]]
       IN  IF lent THEN LET t2 == Borrow(t1, x, side) IN Black(t2, t2.root)
                   ELSE DeleteFixup(Red(t1, w), p)

(* The DEBUG stuff.  The colour stays in the code, for no one to read: it  *)
(* is not kept here.                                                       *)
Clear(t, n) ==
  [t EXCEPT !.kid["left"][n] = NULL, !.kid["right"][n] = NULL,
            !.parent[n] = NULL, !.key[n] = 0, !.red[n] = FALSE]

(* The node that leaves its place, and the one that comes there.           *)
Subst(t, n) ==
  IF \E s \in SidesOfNode : t.kid[s][n] = Sentinel THEN n
                                             ELSE Leftmost(t, t.kid["right"][n])
Temp(t, subst) ==
  IF t.kid["left"][subst] = Sentinel THEN t.kid["right"][subst]
                                     ELSE t.kid["left"][subst]

(* The successor takes the node's place, its colour and its children.      *)
TakePlace(t, n, subst, temp) ==
  LET t1 == SetParent(t, temp, IF t.parent[subst] = n THEN subst ELSE t.parent[subst])
      t2 == [t1 EXCEPT !.kid["left"][subst] = t1.kid["left"][n],
                       !.kid["right"][subst] = t1.kid["right"][n],
                       !.parent[subst] = t1.parent[n],
                       !.red[subst] = t1.red[n]]
      t3 == Replace(t2, n, subst)
      kids == {t3.kid[s][subst] : s \in SidesOfNode} \ {Sentinel}
  IN  [t3 EXCEPT !.parent = [m \in Places |-> IF m \in kids THEN subst ELSE @[m]]]

Deleted(t, n) ==
  LET subst == Subst(t, n)
      temp  == Temp(t, subst)
      out   == Replace(t, subst, temp)
      put   == IF subst = n THEN SetParent(out, temp, t.parent[n])
                            ELSE TakePlace(out, n, subst, temp)
  IN  IF subst = t.root THEN Clear(Black([t EXCEPT !.root = temp], temp), n)
      ELSE IF t.red[subst] THEN Clear(put, n)
      ELSE DeleteFixup(Clear(put, n), temp)

-----------------------------------------------------------------------------
RECURSIVE InOrder(_, _)
InOrder(t, n) ==
  IF n = Sentinel THEN << >>
  ELSE InOrder(t, t.kid["left"][n]) \o <<[node |-> n, key |-> t.key[n]]>>
         \o InOrder(t, t.kid["right"][n])

Linked(t) == {n \in Nodes : t.kid["left"][n] # NULL}

(* The program inserts nodes that are not in a tree, and deletes those     *)
(* that are.                                                               *)
Insert ==
  LET free == Nodes \ Linked(tree)
  IN  \E n \in free : \E k \in KeysOf[n] :
        tree' = Inserted([tree EXCEPT !.key[n] = k], n)

Delete == \E n \in Linked(tree) : tree' = Deleted(tree, n)

RBNext == Insert \/ Delete

-----------------------------------------------------------------------------
(* Every linked node but the root is the child its parent says, so that    *)
(* rotations and deletions, which climb, stay in the tree.                 *)
ParentsRight ==
  \A n \in Linked(tree) \ {tree.root} :
    /\ tree.parent[n] \in Linked(tree)
    /\ \E s \in SidesOfNode : tree.kid[s][tree.parent[n]] = n

RECURSIVE BlackHeights(_, _)
BlackHeights(t, n) ==
  IF n = Sentinel THEN {0}
  ELSE {h + (IF t.red[n] THEN 0 ELSE 1) :
          h \in BlackHeights(t, t.kid["left"][n]) \cup BlackHeights(t, t.kid["right"][n])}

(* The rules that keep the tree flat: a black root and sentinel, no red    *)
(* child of a red node, and as many black nodes on every way down.         *)
Balanced ==
  /\ ~tree.red[tree.root] /\ ~tree.red[Sentinel]
  /\ \A n \in Linked(tree) : tree.red[n] =>
       \A s \in SidesOfNode : ~tree.red[tree.kid[s][n]]
  /\ Cardinality(BlackHeights(tree, tree.root)) = 1

(* Walked in order the tree is the sorted line: nothing gets lost, nothing *)
(* of one key overtakes.                                                   *)
Line == INSTANCE SortedLine WITH
          Entries <- UNION {[node : {n}, key : KeysOf[n]] : n \in Nodes},
          line <- InOrder(tree, tree.root)
=============================================================================
