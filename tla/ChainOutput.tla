---------------------------- MODULE ChainOutput -----------------------------
(***************************************************************************)
(* fast_chain.c and the writing half of fast_sysio.c: a chain of buffers,  *)
(* in memory or in a file, that goes out through writev and sendfile in    *)
(* whatever pieces the kernel takes, up to a limit, until the socket is    *)
(* full.  One step is one system call.  The bytes the program gives to the *)
(* connection are numbered; a buffer holds those after pos up to last.     *)
(***************************************************************************)
EXTENDS FastMath, SequencesExt

CONSTANTS
  Shapes,           \* the chains the program gives: sequences of [memory, size]
  Limits,           \* limits it sets; 0 is none
  FAST_MAX_LIMIT, FAST_IOVS_MAX,
  AppendSizes,      \* sizes for chain_append_withsize
  EmptyBeforeFile,  \* may an empty memory buffer come before one in a file?
  MaxBytes,         \* bound: bytes given to one connection
  MaxLinks,         \* bound: buffers of one chain
  CHAIN_ERROR

VARIABLES
  out,              \* ctx->out: a sequence of buffers, or CHAIN_ERROR
  kept,             \* the free chain of chain_append_withsize
  ready,            \* c->write->ready
  wire,             \* ghost: the bytes the kernel took; c->sent is its length
  asked,            \* ghost: the number of bytes given to the connection
  call              \* the call that runs: at, op, limit, left, done; what it
                    \* began with (start) and the last one's result (ret)

out_vars == <<out, kept, ready, wire, asked, call>>

sent == Len(wire)
Size(b) == b.last - b.pos
Empty(chain) == \A i \in DOMAIN chain : Size(chain[i]) = 0

Bytes(b) == [i \in 1 .. Size(b) |-> b.pos + i]
RECURSIVE AllBytes(_)
AllBytes(chain) ==
  IF chain = << >> THEN << >> ELSE Bytes(Head(chain)) \o AllBytes(Tail(chain))

Idle == [at |-> "idle", op |-> "none", limit |-> 0, left |-> 0, done |-> 0,
         start |-> 0, ret |-> "none"]

OutInit ==
  /\ out = << >> /\ kept = << >>
  /\ ready = TRUE
  /\ wire = << >> /\ asked = 0
  /\ call = Idle

RECURSIVE Filled(_, _)
(* The buffers of a chain the program fills, in the order of the bytes.    *)
Filled(shape, from) ==
  IF shape = << >> THEN << >>
  ELSE LET last == from + Head(shape).size
       IN  <<[memory |-> Head(shape).memory, pos |-> from, last |-> last]>>
             \o Filled(Tail(shape), last)

(* An empty memory buffer ends what sysio_writev_chain looks at when a     *)
(* file buffer follows it; the rest is dropped then.                       *)
Harmless(chain) ==
  \/ EmptyBeforeFile
  \/ \A i \in 1 .. Len(chain) - 1 :
       chain[i].memory /\ Size(chain[i]) = 0 => chain[i + 1].memory

-----------------------------------------------------------------------------
RECURSIVE WithSize(_, _)
(* chain_append_withsize takes buffers until size is used up; size is      *)
(* unsigned, so that one larger than what is left makes it huge.           *)
WithSize(chain, size) ==
  IF chain = << >> \/ size = 0 THEN 0
  ELSE IF Size(Head(chain)) > size THEN Len(chain)
  ELSE 1 + WithSize(Tail(chain), size - Size(Head(chain)))

Give(chain, rest, bytes) ==
  /\ call.at = "idle" /\ out # CHAIN_ERROR
  /\ Harmless(out \o chain \o rest)
  /\ Len(out) + Len(chain) <= MaxLinks
  /\ out' = out \o chain
  /\ kept' = rest
  /\ asked' = asked + bytes
  /\ UNCHANGED <<ready, wire>>

Given(in) == IF in = << >> THEN 0 ELSE Last(in).last - asked

(* chain_output appends its chain; with nothing to send it returns.        *)
Output == \E shape \in Shapes \cup {<< >>} : \E lim \in Limits :
  LET in == Filled(shape, asked)
  IN  /\ asked + Given(in) <= MaxBytes /\ kept = << >>
      /\ Give(in, << >>, Given(in))
      /\ call' = IF Empty(out') THEN [Idle EXCEPT !.ret = "ok"]
                 ELSE [Idle EXCEPT !.at = "loop", !.op = "output", !.left = lim]

(* The program appends part of a chain, and later the rest.                *)
Append1 == \E shape \in Shapes : \E size \in AppendSizes :
  LET in == Filled(shape, asked)
      k  == WithSize(in, size)
  IN  /\ asked + Given(in) <= MaxBytes /\ kept = << >>
      /\ Give(SubSeq(in, 1, k), SubSeq(in, k + 1, Len(in)), Given(in))
      /\ call' = Idle

AppendRest ==
  /\ kept # << >>
  /\ Give(kept, << >>, 0)
  /\ call' = Idle

(* chain_output_with_limit *)
OutputWithLimit == \E lim \in Limits :
  /\ call.at = "idle" /\ out # CHAIN_ERROR
  /\ call' = [Idle EXCEPT !.at = "loop", !.op = "limit", !.limit = lim,
                          !.left = lim, !.start = sent]
  /\ UNCHANGED <<out, kept, ready, wire, asked>>

-----------------------------------------------------------------------------
Return ==
  call' = [call EXCEPT !.at = "idle", !.left = 0,
                       !.ret = IF out = CHAIN_ERROR THEN "error"
                               ELSE IF out # << >> THEN "again" ELSE "ok"]

Goto(at) == call' = [call EXCEPT !.at = at, !.done = 0]

(* The head of the loop of both functions: by the kind of the first buffer *)
(* the chain goes to sysio_writev_chain or to sysio_sendfile_chain.        *)
Loop ==
  /\ call.at = "loop"
  /\ IF ready /\ out # << >>
     THEN Goto(IF out[1].memory THEN "writev" ELSE "sendfile")
     ELSE Return
  /\ UNCHANGED <<out, kept, ready, wire, asked>>

(* Mutated form: one round of a call with a limit is taken for all it may. *)
Back_OneRound ==
  /\ call.at = "back"
  /\ IF out = CHAIN_ERROR \/ (call.op = "limit" /\ (~ready \/ call.limit > 0))
     THEN Return
     ELSE call' = [call EXCEPT !.at = "loop"]
  /\ UNCHANGED <<out, kept, ready, wire, asked>>

(* The rest of the loop, after the one or the other has come back.         *)
Back ==
  LET left == call.limit - (sent - call.start)
  IN  /\ call.at = "back"
      /\ IF \/ out = CHAIN_ERROR
            \/ call.op = "limit" /\ ~ready
            \/ call.op = "limit" /\ call.limit > 0 /\ left <= 0
         THEN Return
         ELSE call' = [call EXCEPT !.at = "loop",
                                   !.left = IF call.op = "limit" /\ call.limit > 0
                                            THEN left ELSE @]
      /\ UNCHANGED <<out, kept, ready, wire, asked>>

-----------------------------------------------------------------------------
(* The limit of one call of the chain functions. *)
CallLimit == IF call.left = 0 \/ call.left > FAST_MAX_LIMIT THEN FAST_MAX_LIMIT
                                                            ELSE call.left

FirstFile(chain) ==
  Min({i \in DOMAIN chain : ~chain[i].memory} \cup {Len(chain) + 1})

(* sysio_pack_chain_to_iovs: memory buffers up to one in a file, at most   *)
(* FAST_IOVS_MAX that are not empty, and no more than limit bytes in all.  *)
(* (Buffers that follow each other at one address are not modelled.)       *)
Pack(chain, room) ==
  LET mem == SelectSeq(SubSeq(chain, 1, FirstFile(chain) - 1), LAMBDA b : Size(b) > 0)
      all == AllBytes(SubSeq(mem, 1, Min({Len(mem), FAST_IOVS_MAX})))
  IN  SubSeq(all, 1, Min({Len(all), room}))

RECURSIVE WriteUpdate(_, _)
(* Mutated form: a buffer cut in two is taken for sent. *)
WriteUpdate_Whole(chain, n) ==
  IF chain = << >> \/ n = 0 THEN chain
  ELSE IF n < Size(Head(chain)) THEN Tail(chain)
  ELSE WriteUpdate(Tail(chain), n - Size(Head(chain)))

(* chain_write_update *)
WriteUpdate(chain, n) ==
  IF chain = << >> \/ n = 0 THEN chain
  ELSE IF n < Size(Head(chain))
       THEN <<[Head(chain) EXCEPT !.pos = @ + n]>> \o Tail(chain)
  ELSE WriteUpdate(Tail(chain), n - Size(Head(chain)))

(* The conditions of the loops of both chain functions. *)
Writing ==
  /\ call.at = "writev" /\ out # << >> /\ out[1].memory
  /\ call.done < CallLimit
Sending ==
  /\ call.at = "sendfile" /\ out # << >> /\ ~out[1].memory
  /\ call.done < CallLimit

(* The loop of sysio_writev_chain ends; what it has left is the result.    *)
WritevEnds ==
  /\ call.at = "writev"
  /\ ~Writing
  /\ Goto("back")
  /\ UNCHANGED <<out, kept, ready, wire, asked>>

WritevNothing ==
  /\ Writing /\ Pack(out, CallLimit - call.done) = << >>
  /\ out' = << >>
  /\ Goto("back")
  /\ UNCHANGED <<kept, ready, wire, asked>>

(* The kernel takes n of what was packed; the limit counts what was.       *)
Writev ==
  LET iovs == Pack(out, CallLimit - call.done)
      done == call.done + Len(iovs)
  IN  /\ Writing
      /\ \E n \in 1 .. Len(iovs) :
           /\ wire' = wire \o SubSeq(iovs, 1, n)
           /\ out' = WriteUpdate(out, n)
      /\ call' = [call EXCEPT !.at = IF done >= CallLimit THEN "back" ELSE "writev",
                              !.done = IF done >= CallLimit THEN 0 ELSE done]
      /\ UNCHANGED <<kept, ready, asked>>

WritevAgain ==
  /\ Writing /\ Pack(out, CallLimit - call.done) # << >>
  /\ ready' = FALSE
  /\ Goto("back")
  /\ UNCHANGED <<out, kept, wire, asked>>

-----------------------------------------------------------------------------
(* sysio_sendfile_chain *)
SendfileEnds ==
  /\ call.at = "sendfile"
  /\ ~Sending
  /\ Goto("back")
  /\ UNCHANGED <<out, kept, ready, wire, asked>>

SendfileSkip ==
  /\ Sending /\ Size(out[1]) = 0
  /\ out' = Tail(out)
  /\ UNCHANGED <<kept, ready, wire, asked, call>>

Sendfile == \E n \in 1 .. Min({Size(out[1]), CallLimit - call.done}) :
  /\ wire' = wire \o SubSeq(Bytes(out[1]), 1, n)
  /\ out' = IF n = Size(out[1]) THEN Tail(out) ELSE [out EXCEPT ![1].pos = @ + n]
  /\ call' = [call EXCEPT !.done = @ + n]
  /\ UNCHANGED <<kept, ready, asked>>

SendfileAgain ==
  /\ Sending /\ Size(out[1]) > 0
  /\ ready' = FALSE
  /\ Goto("back")
  /\ UNCHANGED <<out, kept, wire, asked>>

(* An error, or nothing sent, of either. *)
Fail ==
  /\ \/ Writing /\ Pack(out, CallLimit - call.done) # << >>
     \/ Sending /\ Size(out[1]) > 0
  /\ out' = CHAIN_ERROR
  /\ Goto("back")
  /\ UNCHANGED <<kept, ready, wire, asked>>

-----------------------------------------------------------------------------
(* The write event of a socket that has room again. *)
Writable ==
  /\ call.at = "idle" /\ ~ready
  /\ ready' = TRUE
  /\ call' = [call EXCEPT !.ret = "none"]
  /\ UNCHANGED <<out, kept, wire, asked>>

(* The program closes the connection and has another. *)
Reconnect ==
  /\ call.at = "idle"
  /\ out' = << >> /\ kept' = << >> /\ ready' = TRUE
  /\ wire' = << >> /\ asked' = 0 /\ call' = Idle

Running ==
  \/ Loop \/ Back
  \/ WritevEnds \/ WritevNothing \/ Writev \/ WritevAgain
  \/ SendfileEnds \/ SendfileSkip \/ (Sending /\ Sendfile) \/ SendfileAgain
  \/ Fail

OutNext == Running \/ Output \/ Append1 \/ AppendRest \/ OutputWithLimit \/ Writable \/ Reconnect

-----------------------------------------------------------------------------
(* What the kernel took is a beginning of what the program gave, and the   *)
(* chains hold the rest: no byte is skipped, sent twice or out of order,   *)
(* however the kernel and the limits cut the buffers.                      *)
SentInOrder ==
  /\ \A i \in DOMAIN wire : wire[i] = i
  /\ out # CHAIN_ERROR =>
       wire \o AllBytes(out) \o AllBytes(kept) = [i \in 1 .. asked |-> i]

(* A call with a limit sends no more than that, in however many rounds.    *)
LimitKept ==
  call.op = "limit" /\ call.limit > 0 => sent - call.start <= call.limit

(* FAST_OK means that all is sent; FAST_AGAIN that the socket is full, so  *)
(* that an event comes (epoll tells of a change only), or that the limit   *)
(* is used up to the last byte.                                            *)
ResultTrue ==
  /\ call.ret = "ok" => sent = asked - Len(AllBytes(kept))
  /\ call.ret = "again" =>
       /\ out # << >>
       /\ ready => call.op = "limit" /\ sent - call.start = call.limit

(* A call returns: each round sends something or finds the socket full.    *)
OutputReturns == call.at # "idle" ~> call.at = "idle"
=============================================================================
