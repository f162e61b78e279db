------------------------------- MODULE Queue --------------------------------
(***************************************************************************)
(* fast_queue.h and fast_queue.c: rings of links with a head, kept by      *)
(* assignments to prev and next in an order that matters.  line is what    *)
(* the operations promise: the elements of each queue, first to last.      *)
(***************************************************************************)
EXTENDS Integers, SequencesExt

CONSTANTS
  Heads, Elements,
  Rank,           \* element -> what the program's cmp compares
  NULL

VARIABLES
  prv, nxt,       \* link -> its neighbours
  line            \* ghost: head -> the elements it should have

Links == Heads \cup Elements

QueueAssumption ==
  /\ IsFiniteSet(Elements) /\ Heads \cap Elements = {} /\ NULL \notin Links
  /\ Rank \in [Elements -> Int]

ring == [prev |-> prv, next |-> nxt]
queue_vars == <<prv, nxt, line>>

Becomes(r) == prv' = r.prev /\ nxt' = r.next

(* queue_init of every head. *)
QInit ==
  /\ prv = [x \in Links |-> IF x \in Heads THEN x ELSE NULL]
  /\ nxt = prv
  /\ line = [h \in Heads |-> << >>]

Held(h) == ToSet(line[h])
Loose   == Elements \ UNION {Held(h) : h \in Heads}

-----------------------------------------------------------------------------
(* Each macro, assignment by assignment; r.x.y is what the line before it  *)
(* left.                                                                   *)
SetPrev(r, x, y) == [r EXCEPT !.prev[x] = y]
SetNext(r, x, y) == [r EXCEPT !.next[x] = y]

(* queue_insert_head(h, x), which queue_insert_after equals; h may be any  *)
(* link.                                                                   *)
PutAfter(r0, h, x) ==
  LET r1 == SetNext(r0, x, r0.next[h])
      r2 == SetPrev(r1, r1.next[x], x)
      r3 == SetPrev(r2, x, h)
  IN  SetNext(r3, h, x)

(* queue_insert_tail(h, x), which queue_insert_before equals. *)
PutBefore(r0, h, x) ==
  LET r1 == SetPrev(r0, x, r0.prev[h])
      r2 == SetNext(r1, r1.prev[x], x)
      r3 == SetNext(r2, x, h)
  IN  SetPrev(r3, h, x)

(* queue_remove *)
TakeOut(r0, x) ==
  LET r1 == SetPrev(r0, r0.next[x], r0.prev[x])
      r2 == SetNext(r1, r1.prev[x], r1.next[x])
  IN  SetPrev(SetNext(r2, x, NULL), x, NULL)

(* queue_add_queue: n's elements follow h's, n is left in between. *)
Join(r0, h, n) ==
  LET r1 == SetNext(r0, r0.prev[h], r0.next[n])
      r2 == SetPrev(r1, r1.next[n], r1.prev[h])
      r3 == SetPrev(r2, h, r2.prev[n])
  IN  SetNext(r3, r3.prev[h], h)

(* queue_split: n gets h's elements from q on. *)
Cut(r0, h, q, n) ==
  LET r1 == SetPrev(r0, n, r0.prev[h])
      r2 == SetNext(r1, r1.prev[n], n)
      r3 == SetNext(r2, n, q)
      r4 == SetPrev(r3, h, r3.prev[q])
      r5 == SetNext(r4, r4.prev[h], h)
  IN  SetPrev(r5, q, n)

(* The links met from x on, following f. *)
Steps(f, x) ==
  LET step[n \in 0 .. 2 * Cardinality(Elements)] == IF n = 0 THEN x ELSE f[step[n - 1]]
  IN  step

(* Mutated form: elements of equal rank pass each other. *)
StepBack_Equal(r, h, p, x) ==
  LET back == Steps(r.prev, p)
      ends == {n \in DOMAIN back : back[n] = h \/ Rank[back[n]] < Rank[x]}
  IN  back[Min(ends)]

(* The do-loop of queue_sort: from p back to where x belongs.              *)
StepBack(r, h, p, x) ==
  LET back == Steps(r.prev, p)
      ends == {n \in DOMAIN back : back[n] = h \/ Rank[back[n]] <= Rank[x]}
  IN  back[Min(ends)]

(* One round of queue_sort: q goes to its place among those before it.     *)
SortRound(s, h) ==
  LET out == TakeOut(s.ring, s.q)
  IN  [ring |-> PutAfter(out, StepBack(out, h, s.ring.prev[s.q], s.q), s.q),
       q    |-> s.ring.next[s.q]]

(* queue_sort *)
Sorted(r, h) ==
  LET round[n \in 0 .. Cardinality(Elements)] ==
        IF n = 0 THEN [ring |-> r, q |-> r.next[r.next[h]]]
        ELSE IF round[n - 1].q = h THEN round[n - 1] ELSE SortRound(round[n - 1], h)
  IN  IF r.next[h] = r.prev[h] THEN r ELSE round[Cardinality(Elements)].ring

(* queue_middle: next takes two steps for one of middle, until it meets    *)
(* the tail.                                                               *)
Middle(r, h) ==
  LET step == Steps(r.next, r.next[h])
      ends == {n \in 0 .. Cardinality(Elements) :
                 r.prev[h] \in {r.next[step[2 * n]], r.next[r.next[step[2 * n]]]}}
  IN  IF r.next[h] = r.prev[h] THEN r.next[h] ELSE r.next[step[Min(ends)]]

-----------------------------------------------------------------------------
QueueInsertHead(h, x) ==
  /\ x \in Loose
  /\ Becomes(PutAfter(ring, h, x))
  /\ line' = [line EXCEPT ![h] = InsertAt(@, 1, x)]

QueueInsertTail(h, x) ==
  /\ x \in Loose
  /\ Becomes(PutBefore(ring, h, x))
  /\ line' = [line EXCEPT ![h] = InsertAt(@, Len(@) + 1, x)]

(* Before, after and without the i-th element of h. *)
QueueInsertBefore(h, i, x) ==
  /\ x \in Loose
  /\ Becomes(PutBefore(ring, line[h][i], x))
  /\ line' = [line EXCEPT ![h] = InsertAt(@, i, x)]

QueueInsertAfter(h, i, x) ==
  /\ x \in Loose
  /\ Becomes(PutAfter(ring, line[h][i], x))
  /\ line' = [line EXCEPT ![h] = InsertAt(@, i + 1, x)]

QueueRemove(h, i) ==
  /\ Becomes(TakeOut(ring, line[h][i]))
  /\ line' = [line EXCEPT ![h] = RemoveAt(@, i)]

(* The program makes n a queue again after its elements went to h.         *)
QueueAdd(h, n) ==
  /\ h # n
  /\ Becomes(SetNext(SetPrev(Join(ring, h, n), n, n), n, n))
  /\ line' = [line EXCEPT ![h] = @ \o line[n], ![n] = << >>]

(* n, a head without elements, gets the rest of h's from the i-th on.      *)
QueueSplit(h, i, n) ==
  /\ h # n /\ line[n] = << >>
  /\ Becomes(Cut(ring, h, line[h][i], n))
  /\ line' = [line EXCEPT ![h] = SubSeq(@, 1, i - 1), ![n] = SubSeq(line[h], i, Len(line[h]))]

(* In the order of rank, and among equals in the order they were in.       *)
Goes(s, x, y) == \E i, j \in DOMAIN s :
  s[i] = x /\ s[j] = y /\ (Rank[x] < Rank[y] \/ (Rank[x] = Rank[y] /\ i < j))

InRankOrder(s) == CHOOSE t \in SetToSeqs(ToSet(s)) :
  \A i, j \in DOMAIN t : i < j => Goes(s, t[i], t[j])

QueueSort(h) ==
  /\ Becomes(Sorted(ring, h))
  /\ line' = [line EXCEPT ![h] = InRankOrder(@)]

QNext ==
  \E h \in Heads :
    \/ \E x \in Elements : QueueInsertHead(h, x) \/ QueueInsertTail(h, x)
    \/ \E i \in DOMAIN line[h], x \in Elements :
         QueueInsertBefore(h, i, x) \/ QueueInsertAfter(h, i, x)
    \/ \E i \in DOMAIN line[h] : QueueRemove(h, i)
    \/ \E n \in Heads : QueueAdd(h, n) \/ \E i \in DOMAIN line[h] : QueueSplit(h, i, n)
    \/ QueueSort(h)

-----------------------------------------------------------------------------
(* Followed forwards and backwards every ring is exactly its line, and     *)
(* what is in no line is linked nowhere.                                   *)
RingsAreLines ==
  /\ \A h \in Heads :
       LET at(i) == IF i \in DOMAIN line[h] THEN line[h][i] ELSE h
       IN  \A i \in 0 .. Len(line[h]) :
             nxt[at(i)] = at(i + 1) /\ prv[at(i + 1)] = at(i)
  /\ \A x \in Loose : prv[x] = NULL /\ nxt[x] = NULL

(* queue_middle gives the middle element, of an even number the first of   *)
(* the second half.                                                        *)
MiddleInMiddle ==
  \A h \in Heads : Middle(ring, h) =
    IF line[h] = << >> THEN h ELSE line[h][Len(line[h]) \div 2 + 1]
=============================================================================
