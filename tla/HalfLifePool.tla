---------------------------- MODULE HalfLifePool ----------------------------
(***************************************************************************)
(* fast_half_life_mempool.c: elements of one size, of which between        *)
(* min_size and max_size are kept free.  The pool takes elements from      *)
(* malloc and gives them back; what the program holds is not the pool's    *)
(* any more.  The queue of free elements is a sequence (Queue shows that   *)
(* it is one).                                                             *)
(***************************************************************************)
EXTENDS Integers, SequencesExt

CONSTANTS
  Chunks,         \* what malloc has, an initial segment of the naturals
  PoolSizes,      \* pairs <<max_size, min_size>> of hl_mempool_create
  NULL

(* The program reserves no less than nothing.                              *)
HLAssumption ==
  /\ IsFiniteSet(Chunks) /\ NULL \notin Chunks
  /\ PoolSizes \subseteq Int \X Nat /\ NULL \notin PoolSizes

VARIABLES
  sizes,          \* the pair the pool was created with, or NULL without pool
  free_q, free_size,
  lent,           \* ghost: chunk -> the number of callers who have it
  heap,           \* ghost: the chunks malloc has given out
  got             \* ghost: the last hl_mempool_get: [node, ret, left]

hl_vars == <<sizes, free_q, free_size, lent, heap, got>>

max_size == sizes[1]
min_size == sizes[2]

NothingGot == [node |-> NULL, ret |-> 0, left |-> 0]

HLInit ==
  /\ sizes = NULL
  /\ free_q = << >> /\ free_size = 0
  /\ lent = [c \in Chunks |-> 0]
  /\ heap = {}
  /\ got = NothingGot

(* Any n chunks malloc still has: which ones does not matter, since they   *)
(* are alike.                                                              *)
Fresh(n) == SubSeq(SetToSeq(Chunks \ heap), 1, n)

Spare == Cardinality(Chunks \ heap)

-----------------------------------------------------------------------------
(* hl_mempool_create fills the pool, or fails and gives everything back.   *)
HLCreate == \E p \in PoolSizes :
  /\ sizes = NULL
  /\ p[1] > 0 /\ p[1] >= p[2]
  /\ p[1] <= Spare
  /\ sizes' = p
  /\ free_q' = Reverse(Fresh(p[1])) /\ free_size' = p[1]
  /\ heap' = heap \cup ToSet(Fresh(p[1]))
  /\ UNCHANGED <<lent, got>>

(* do_expand, when malloc gives n elements: up to max_size, or until it    *)
(* fails.                                                                  *)
Expand(n) ==
  IF free_size > min_size THEN [ret |-> 0, more |-> << >>]
  ELSE [ret  |-> IF free_size + n < max_size THEN -1 ELSE 0, more |-> Fresh(n)]

GetNothing(e) == e.ret # 0 /\ free_size + Len(e.more) <= 0

(* hl_mempool_get takes the head.                                          *)
HLGet == \E n \in 0 .. max_size - free_size :
  LET e    == Expand(n)
      full == free_q \o e.more
  IN  /\ n <= Spare
      /\ heap' = heap \cup ToSet(e.more)
      /\ IF GetNothing(e)
         THEN /\ free_q' = full /\ free_size' = free_size + Len(e.more)
              /\ got' = [node |-> NULL, ret |-> e.ret, left |-> Len(full)]
              /\ UNCHANGED lent
         ELSE /\ free_q' = Tail(full) /\ free_size' = free_size + Len(e.more) - 1
              /\ got' = [node |-> Head(full), ret |-> e.ret, left |-> Len(full) - 1]
              /\ lent' = [lent EXCEPT ![Head(full)] = @ + 1]
      /\ UNCHANGED sizes

(* Mutated form: the one that came back goes to malloc, and stays.         *)
Shrink_Tail(q) ==
  LET over == IF Len(q) > max_size THEN Len(q) - max_size ELSE 0
  IN  [gone |-> {Last(q)}, kept |-> SubSeq(q, over + 1, Len(q))]

(* do_shrink: what is too much goes, from the head. *)
Shrink(q) ==
  LET over == IF Len(q) > max_size THEN Len(q) - max_size ELSE 0
  IN  [gone |-> ToSet(SubSeq(q, 1, over)), kept |-> SubSeq(q, over + 1, Len(q))]

(* hl_mempool_free puts at the tail. *)
HLFree == \E c \in Chunks :
  LET s == Shrink(Append(free_q, c))
  IN  /\ lent[c] = 1
      /\ lent' = [lent EXCEPT ![c] = @ - 1]
      /\ free_q' = s.kept /\ free_size' = Len(s.kept)
      /\ heap' = heap \ s.gone
      /\ got' = NothingGot
      /\ UNCHANGED sizes

(* hl_mempool_destroy frees the free ones; the program has given back the  *)
(* others, or they are lost.                                               *)
HLDestroy ==
  /\ sizes # NULL
  /\ \A c \in Chunks : lent[c] = 0
  /\ sizes' = NULL
  /\ heap' = heap \ ToSet(free_q)
  /\ free_q' = << >> /\ free_size' = 0
  /\ got' = NothingGot
  /\ UNCHANGED lent

HLNext == HLCreate \/ HLDestroy \/ (sizes # NULL /\ (HLGet \/ HLFree))

-----------------------------------------------------------------------------
(* Every chunk from malloc is in the queue or with one caller, and the     *)
(* counter is the queue's length: no element is lost, freed while it is    *)
(* lent, or kept when the pool goes.                                       *)
HeapExact ==
  /\ free_size = Len(free_q)
  /\ Cardinality(ToSet(free_q)) = Len(free_q)
  /\ heap = ToSet(free_q) \cup {c \in Chunks : lent[c] > 0}
  /\ \A c \in ToSet(free_q) : lent[c] = 0

(* The reserve: never more than max_size, a get fails only when malloc     *)
(* does with nothing free, and without a failure leaves min_size behind,   *)
(* or max_size - 1 where that is less.                                     *)
ReserveKept ==
  /\ sizes # NULL => free_size <= max_size
  /\ got # NothingGot =>
       /\ got.node = NULL => got.ret = -1 /\ got.left = 0
       /\ got.ret = 0 => \/ got.left >= min_size \/ got.left = max_size - 1

(* Elements are lent to one caller at a time. *)
HLLending == INSTANCE Loans WITH Things <- Chunks
=============================================================================
