----------------------------- MODULE MCConnPool -----------------------------
(* Small instances of ConnPool for TLC. *)
EXTENDS ConnPool

CONSTANTS w1, w2

EvenPools  == [w \in {w1, w2} |-> 2]
=============================================================================
