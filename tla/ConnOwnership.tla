---------------------------- MODULE ConnOwnership ----------------------------
(***************************************************************************)
(* What the connection pools of fast_conn_pool.c promise: every connection *)
(* has one place at any time, and moves between places only along the      *)
(* steps below.  ConnPool is shown to implement this specification.        *)
(***************************************************************************)
EXTENDS FiniteSets

CONSTANTS
  Conns,          \* all connections of all pools
  Workers,        \* the worker threads
  Home            \* connection -> the worker whose pool it starts in

VARIABLE place

(* All the connections of S are at place p and move to place q. *)
Move(S, p, q) ==
  /\ S # {}
  /\ \A c \in S : place[c] = p
  /\ place' = [c \in Conns |-> IF c \in S THEN q ELSE place[c]]

Init == place = [c \in Conns |-> <<"free", Home[c]>>]

Get(w)      == \E c \in Conns : Move({c}, <<"free", w>>, <<"held", w>>)
Free(w)     == \E c \in Conns : Move({c}, <<"held", w>>, <<"free", w>>)
Return(w)   == \E c \in Conns : Move({c}, <<"held", w>>, <<"returning", w>>)
Returned(w) == \E c \in Conns : Move({c}, <<"returning", w>>, <<"common">>)
Fetch(w)    == \E S \in SUBSET Conns : Move(S, <<"common">>, <<"refill", w>>)
Out(w, v)   == \E S \in SUBSET Conns : Move(S, <<"held", w>>, <<"transit", v>>)
In(w)       == \E S \in SUBSET Conns : Move(S, <<"transit", w>>, <<"held", w>>)

(* Of what was fetched one connection is used, the rest is free. *)
Refill(w) == \E c \in Conns :
  /\ place[c] = <<"refill", w>>
  /\ place' = [d \in Conns |->
       IF d = c THEN <<"held", w>>
       ELSE IF place[d] = <<"refill", w>> THEN <<"free", w>> ELSE place[d]]

Next == \E w \in Workers :
  \/ Get(w) \/ Free(w) \/ Return(w) \/ Returned(w) \/ Fetch(w) \/ Refill(w) \/ In(w)
  \/ \E v \in Workers \ {w} : Out(w, v)

Spec == Init /\ [][Next]_place
==============================================================================
