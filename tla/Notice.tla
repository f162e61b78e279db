------------------------------- MODULE Notice -------------------------------
(***************************************************************************)
(* fast_notice.c and fast_pipe.c: other threads wake up an event loop by a *)
(* byte in a non-blocking pipe; the loop's read handler drains the pipe    *)
(* and then calls back, once for however many wake-ups there were.  What a *)
(* thread wants to be seen it writes before it wakes up.                   *)
(***************************************************************************)
EXTENDS Integers

CONSTANTS
  PipeSize,          \* bytes the pipe holds
  NOTICE_BUFF_SIZE

(* What the actions and the proofs assume of the parameters.               *)
NoticeAssumption ==
  /\ PipeSize \in Nat \ {0}
  /\ NOTICE_BUFF_SIZE \in Nat \ {0}

VARIABLES
  notice,            \* "none", "opening", "ready"
  pipe,              \* bytes in the pipe
  reader,            \* the loop: "wait", "drain", "call"
  unseen             \* ghost: was there a wake-up since call_back last ran?

notice_vars == <<notice, pipe, reader, unseen>>

Init ==
  /\ notice = "none"
  /\ pipe = 0
  /\ reader = "wait"
  /\ unseen = FALSE

(* notice_init: the pipe first, then its connection and read event; when   *)
(* these fail the pipe is closed again.                                    *)
PipeOpen ==
  /\ notice = "none"
  /\ notice' = "opening"
  /\ UNCHANGED <<pipe, reader, unseen>>

PipeClose == notice' = "none" /\ pipe' = 0

NoticeInit ==
  /\ notice = "opening"
  /\ \/ notice' = "ready" /\ UNCHANGED pipe
     \/ PipeClose
  /\ UNCHANGED <<reader, unseen>>

(* notice_wake_up: a full pipe is as good as a byte more.  Nothing limits  *)
(* how often the program wakes up, nor while the handler reads.            *)
NoticeWakeUp ==
  /\ notice = "ready"
  /\ pipe' = IF pipe < PipeSize THEN pipe + 1 ELSE pipe
  /\ unseen' = TRUE
  /\ UNCHANGED <<notice, reader>>

(* epoll reports the readable pipe.                                        *)
Readable ==
  /\ notice = "ready" /\ reader = "wait"
  /\ pipe > 0
  /\ reader' = "drain"
  /\ UNCHANGED <<notice, pipe, unseen>>

(* Mutated form: a read that empties the pipe ends the handler.            *)
Read_Return ==
  /\ reader = "drain" /\ pipe > 0
  /\ pipe' = IF pipe > NOTICE_BUFF_SIZE THEN pipe - NOTICE_BUFF_SIZE ELSE 0
  /\ reader' = IF pipe' = 0 THEN "wait" ELSE reader
  /\ UNCHANGED <<notice, unseen>>

Read ==
  /\ reader = "drain" /\ pipe > 0
  /\ pipe' = IF pipe > NOTICE_BUFF_SIZE THEN pipe - NOTICE_BUFF_SIZE ELSE 0
  /\ UNCHANGED <<notice, reader, unseen>>

(* FAST_EAGAIN ends the reading.                                           *)
ReadNothing ==
  /\ reader = "drain" /\ pipe = 0
  /\ reader' = "call"
  /\ UNCHANGED <<notice, pipe, unseen>>

CallBack ==
  /\ reader = "call"
  /\ reader' = "wait"
  /\ unseen' = FALSE
  /\ UNCHANGED <<notice, pipe>>

Loop == Readable \/ Read \/ ReadNothing \/ CallBack

Next == PipeOpen \/ NoticeInit \/ NoticeWakeUp \/ Loop

Spec == Init /\ [][Next]_notice_vars

-----------------------------------------------------------------------------
(* Every variable has its type. *)
TypeOK ==
  /\ notice \in {"none", "opening", "ready"}
  /\ pipe \in 0 .. PipeSize
  /\ reader \in {"wait", "drain", "call"}
  /\ unseen \in BOOLEAN

(* A wake-up the program has not been called back for is still in the      *)
(* pipe, or the handler is on its way to the call.                         *)
NoLostWakeUp == unseen => pipe > 0 \/ reader \in {"drain", "call"}

(* The handler never comes to the end of the pipe, because the program     *)
(* wakes up for ever while it reads.                                       *)
ReadsForEver == <>[](reader = "drain") /\ []<><<NoticeWakeUp>>_notice_vars

(* Every wake-up is followed by a call back, unless wake-ups keep coming   *)
(* without end into one reading of the pipe.                               *)
WokenUp == ReadsForEver \/ (unseen ~> ~unseen)
=============================================================================
