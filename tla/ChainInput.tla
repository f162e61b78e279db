----------------------------- MODULE ChainInput -----------------------------
(***************************************************************************)
(* The reading half of fast_sysio.c with chain_read_update of fast_chain.c *)
(* and buffer_shrink of fast_buffer.c: readv into the free ends of a chain *)
(* of buffers, where neighbours in memory become one vector.  The bytes of *)
(* the stream are numbered; memory holds a byte at each address.           *)
(***************************************************************************)
EXTENDS Integers, SequencesExt

CONSTANTS
  Regions,          \* the buffers of the chain: a sequence of [start, end]
  FAST_IOVS_REV,
  MaxRead           \* bound: bytes received

VARIABLES
  bufs,             \* buffer -> [pos, last]
  memory,           \* address -> the byte there, 0 before any
  received, taken   \* ghost: bytes the kernel gave, the program used

in_vars == <<bufs, memory, received, taken>>

BufferBytes == UNION {Regions[i].start .. Regions[i].end - 1 : i \in DOMAIN Regions}

InInit ==
  /\ bufs = [i \in DOMAIN Regions |-> [pos |-> Regions[i].start, last |-> Regions[i].start]]
  /\ memory = [a \in BufferBytes |-> 0]
  /\ received = 0 /\ taken = 0

Filling(i) == bufs[i].last > bufs[i].pos

-----------------------------------------------------------------------------
RECURSIVE Vectors(_, _, _)
(* The first loop of sysio_readv_chain; prev is the end of the buffer      *)
(* before.                                                                 *)
Vectors(i, prev, vecs) ==
  IF i \notin DOMAIN bufs \/ Len(vecs) >= FAST_IOVS_REV THEN vecs
  ELSE LET room == Regions[i].end - bufs[i].last
       IN  Vectors(i + 1, Regions[i].end,
             IF prev = bufs[i].last
             THEN [vecs EXCEPT ![Len(vecs)].len = @ + room]
             ELSE Append(vecs, [base |-> bufs[i].last, len |-> room]))

(* The addresses the kernel fills, in its order. *)
Targets(vecs) ==
  FlattenSeq([v \in DOMAIN vecs |-> [k \in 1 .. vecs[v].len |-> vecs[v].base + k - 1]])

RECURSIVE ReadUpdate(_, _, _)
(* chain_read_update *)
ReadUpdate(b, i, n) ==
  IF i \notin DOMAIN b \/ n = 0 THEN b
  ELSE LET room == Regions[i].end - b[i].last
       IN  IF n >= room THEN ReadUpdate([b EXCEPT ![i].last = Regions[i].end], i + 1, n - room)
                        ELSE [b EXCEPT ![i].last = @ + n]

(* sysio_readv_chain gives n, and the program tells the chain.  (EAGAIN, an *)
(* error and the end of the stream leave everything.)                      *)
Readv ==
  LET to == Targets(Vectors(1, 0, << >>))
  IN  \E n \in 1 .. Len(to) :
        /\ received + n <= MaxRead
        /\ memory' = [a \in BufferBytes |->
                        IF \E k \in 1 .. n : to[k] = a
                        THEN received + CHOOSE k \in 1 .. n : to[k] = a
                        ELSE memory[a]]
        /\ bufs' = ReadUpdate(bufs, 1, n)
        /\ received' = received + n
        /\ UNCHANGED taken

(* buffer_pull: the program uses bytes from the front. *)
Pull == \E i \in DOMAIN bufs : \E n \in 1 .. bufs[i].last - bufs[i].pos :
  /\ \A j \in 1 .. i - 1 : ~Filling(j)
  /\ bufs' = [bufs EXCEPT ![i].pos = @ + n]
  /\ taken' = taken + n
  /\ UNCHANGED <<memory, received>>

(* buffer_shrink of the last buffer with bytes in it: they move to the     *)
(* start; an empty buffer is reset.                                        *)
Shrink == \E i \in DOMAIN bufs :
  LET n == bufs[i].last - bufs[i].pos
      s == Regions[i].start
  IN  /\ \A j \in DOMAIN bufs : j > i => ~Filling(j)
      /\ bufs[i].pos # s
      /\ bufs' = [bufs EXCEPT ![i] = [pos |-> s, last |-> s + n]]
      /\ memory' = [a \in BufferBytes |-> IF a \in s .. s + n - 1
                                        THEN memory[bufs[i].pos + (a - s)] ELSE memory[a]]
      /\ UNCHANGED <<received, taken>>

(* chain_reset, when all is used. *)
ChainReset ==
  /\ \A i \in DOMAIN bufs : ~Filling(i)
  /\ bufs' = [i \in DOMAIN bufs |-> [pos |-> Regions[i].start, last |-> Regions[i].start]]
  /\ UNCHANGED <<memory, received, taken>>

InNext == Readv \/ Pull \/ Shrink \/ ChainReset

-----------------------------------------------------------------------------
(* Read from pos to last, buffer after buffer, the chain holds exactly the *)
(* bytes that were received and not used, in their order.                  *)
ReadInOrder ==
  LET held(i) == [k \in 1 .. bufs[i].last - bufs[i].pos |-> memory[bufs[i].pos + k - 1]]
  IN  FlattenSeq([i \in DOMAIN bufs |-> held(i)]) =
        [k \in 1 .. received - taken |-> taken + k]
=============================================================================
