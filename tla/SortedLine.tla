----------------------------- MODULE SortedLine -----------------------------
(***************************************************************************)
(* What a tree of keyed nodes promises to its users (the event timers take *)
(* the earliest from it): the nodes stand in a line in the order of their  *)
(* keys, those of one key in the order they came.                          *)
(***************************************************************************)
EXTENDS Integers, SequencesExt

CONSTANT Entries      \* what may stand in the line: [node, key]

VARIABLE line

Init == line = << >>

(* An entry steps in behind all whose key is not above its own.            *)
Enter == \E e \in Entries :
  LET ahead == Cardinality({i \in DOMAIN line : line[i].key <= e.key})
  IN  /\ \A i \in DOMAIN line : line[i].node # e.node
      /\ line' = InsertAt(line, ahead + 1, e)

Leave == \E i \in DOMAIN line : line' = RemoveAt(line, i)

Next == Enter \/ Leave

Spec == Init /\ [][Next]_line
=============================================================================
