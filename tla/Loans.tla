------------------------------- MODULE Loans --------------------------------
(***************************************************************************)
(* What a pool of equal things promises: something is lent to one caller   *)
(* at a time, and lent again only after it came back.  Slabs, the memory   *)
(* blocks and the half-life pool implement it.                             *)
(***************************************************************************)
EXTENDS Naturals

CONSTANT Things

VARIABLE lent     \* thing -> the number of callers who have it

Init == lent = [t \in Things |-> 0]

Lend == \E t \in Things :
  /\ lent[t] = 0
  /\ lent' = [lent EXCEPT ![t] = 1]

Return == \E t \in Things :
  /\ lent[t] = 1
  /\ lent' = [lent EXCEPT ![t] = 0]

Next == Lend \/ Return

Spec == Init /\ [][Next]_lent
=============================================================================
