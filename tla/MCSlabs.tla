------------------------------ MODULE MCSlabs -------------------------------
(* Small instances of Slabs for TLC. *)
EXTENDS Slabs

SplitSizes1 == {<<10, 4>>}
=============================================================================
