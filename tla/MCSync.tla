------------------------------- MODULE MCSync -------------------------------
(***************************************************************************)
(* What processes and threads share: the process lock, the process         *)
(* read-write lock, memory blocks behind an atomic lock, notices, and the  *)
(* addresses that listening sockets are bound to.  They do not touch each  *)
(* other, so that each behaviour of this module is one of one of them,     *)
(* "part"; the others stay as they begin.                                  *)
(***************************************************************************)
EXTENDS ProcessLock, Integers

CONSTANTS
  Parts, Unsaved,
  Threads, count, NULL,
  PipeSize, NOTICE_BUFF_SIZE,
  Addresses, MaxListeners, MaxTries, Sockets, NoSocket,
  p1, p2, p3, t1, t2, t3, sigusr2, sigterm

VARIABLES
  part,
  readers, writer, rw_prev_mask, rw_mask, rw_pc, spoilt,
  lock, next, free_blks, hot_count, cold_count, pdata, at, lent,
  notice, pipe, reader, unseen,
  ls, open, used, registered, work

(* All processes block the same signal outside the lock. *)
SameMask3 == [p \in {p1, p2, p3} |-> {sigterm}]

(* Every process has a mask of its own. *)
OwnMask == [p \in {p1, p2} |-> IF p = p1 THEN {} ELSE {sigterm}]

RW == INSTANCE ProcessRWLock
MB == INSTANCE MemBlocks
NT == INSTANCE Notice
LI == INSTANCE Listening

ASSUME SyncAssumption ==
  RW!RWAssumption /\ NT!NoticeAssumption /\ LI!ListenAssumption /\ count \in Nat

rw_vars == <<readers, writer, rw_prev_mask, rw_mask, rw_pc, spoilt>>
mb_vars == <<lock, next, free_blks, hot_count, cold_count, pdata, at, lent>>
notice_vars == <<notice, pipe, reader, unseen>>
listening_vars == <<ls, open, used, registered, work>>
all_vars == <<part, vars, rw_vars, mb_vars, notice_vars, listening_vars>>

(* The mask that lies in the lock's memory matters to the process lock only. *)
SyncInit ==
  /\ part \in Parts /\ Init /\ RW!Init /\ MB!Init /\ NT!Init /\ LI!ListenInit
  /\ part # "mutex" => sig_prev_mask = {}

Mutex ==
  part = "mutex" /\ Next /\ UNCHANGED <<part, rw_vars, mb_vars, notice_vars, listening_vars>>
RWLock ==
  part = "rwlock" /\ RW!Next /\ UNCHANGED <<part, vars, mb_vars, notice_vars, listening_vars>>
MBlocks ==
  part = "mblks" /\ MB!Next /\ UNCHANGED <<part, vars, rw_vars, notice_vars, listening_vars>>
Wakes ==
  part = "notice" /\ NT!Next /\ UNCHANGED <<part, vars, rw_vars, mb_vars, listening_vars>>
Servers ==
  part = "listening" /\ LI!ListenNext /\ UNCHANGED <<part, vars, rw_vars, mb_vars, notice_vars>>

SyncNext == Mutex \/ RWLock \/ MBlocks \/ Wakes \/ Servers

(* A thread with the atomic lock on goes on, and so does the event loop.   *)
InsideMBlocks == part = "mblks" /\ (\E t \in Threads : MB!Inside(t))
                   /\ UNCHANGED <<part, vars, rw_vars, notice_vars, listening_vars>>
LoopWakes == part = "notice" /\ NT!Loop
               /\ UNCHANGED <<part, vars, rw_vars, mb_vars, listening_vars>>

SyncSpec ==
  /\ SyncInit /\ [][SyncNext]_all_vars
  /\ WF_all_vars(InsideMBlocks) /\ WF_all_vars(LoopWakes)

(* A writer of the read-write lock is alone, through failed tries, deaths  *)
(* of holders and resets.                                                  *)
WriterAlone == RW!WriterAlone

(* Who waits for the read-write lock or has it has its signals blocked,    *)
(* whatever other readers recover meanwhile; and processes with one mask   *)
(* are outside with it, unless a try failed or a mask never saved was      *)
(* recovered.                                                              *)
ReadersProtected == RW!TypeOK /\ RW!InsideProtected /\ RW!MasksKept

(* The memory blocks are lent to one thread at a time, and the free list   *)
(* is exactly the others: it never leads past the end.                     *)
BlocksLent == MB!Lending!Spec /\ [](MB!TypeOK /\ MB!ListExact)

(* Every wake-up of a notice is followed by a call back, unless wake-ups   *)
(* without end keep the handler reading: none is lost between the drain    *)
(* and the call.                                                           *)
WokenUp == NT!WokenUp /\ [](NT!TypeOK /\ NT!NoLostWakeUp)

(* conn_listening_open loses no socket through tries and failures, gives   *)
(* FAST_OK only when every listener listens, and conn_listening_add_event  *)
(* only when each one's socket is registered for it.                       *)
ListenersTrue == LI!NoSocketLost /\ LI!OpenTrue /\ LI!AddedIsServed
=============================================================================
