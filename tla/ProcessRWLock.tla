--------------------------- MODULE ProcessRWLock ----------------------------
(***************************************************************************)
(* The process read-write lock of fast_lock.c.  As with the process lock,  *)
(* signals are blocked before the pthread lock is asked for, and the mask  *)
(* a process had is kept in one word that all processes share - here also  *)
(* while several of them read.                                             *)
(*                                                                         *)
(* The callers' contract is that of ProcessLock: off by a holder, release  *)
(* and destroy when nobody uses the lock, reset when a holder has died and *)
(* no other holds it.                                                      *)
(***************************************************************************)
CONSTANTS
  Procs,          \* the processes sharing the lock
  Signals,
  sig_block_mask,
  HomeMask,       \* process -> the mask it runs with outside the lock
  NoProc,
  Unsaved         \* no mask has been saved yet

(* What the actions and the proofs assume of the parameters.               *)
RWAssumption ==
  /\ sig_block_mask \subseteq Signals
  /\ HomeMask \in [Procs -> SUBSET Signals]
  /\ NoProc \notin Procs

VARIABLES
  readers,        \* who holds the pthread lock to read
  writer,         \* who holds it to write, or NoProc
  rw_prev_mask,   \* sig_prev_mask of the lock
  rw_mask,        \* process -> its current signal mask
  rw_pc,          \* where each process is
  spoilt          \* ghost: a try has failed, or a mask never saved was recovered

rw_vars == <<readers, writer, rw_prev_mask, rw_mask, rw_pc, spoilt>>

(* create leaves sig_prev_mask as the memory was: some mask, Unsaved until *)
(* the first save.                                                         *)
Init ==
  /\ readers = {} /\ writer = NoProc
  /\ rw_prev_mask = Unsaved
  /\ rw_mask = HomeMask
  /\ rw_pc = [p \in Procs |-> "out"]
  /\ spoilt = FALSE

Goto(p, from, to) ==
  /\ rw_pc[p] = from
  /\ rw_pc' = [rw_pc EXCEPT ![p] = to]

(* Mutated form: the mask is saved after the signals are blocked.          *)
BlockSignals_Late(p) ==
  /\ rw_prev_mask' = rw_mask[p] \cup sig_block_mask
  /\ rw_mask' = [rw_mask EXCEPT ![p] = @ \cup sig_block_mask]

BlockSignals(p) ==
  /\ rw_prev_mask' = rw_mask[p]
  /\ rw_mask' = [rw_mask EXCEPT ![p] = @ \cup sig_block_mask]

(* "recover signal": whatever mask was saved last.                         *)
RecoverSignals(p) ==
  /\ \E m \in IF rw_prev_mask = Unsaved THEN SUBSET Signals ELSE {rw_prev_mask} :
       rw_mask' = [rw_mask EXCEPT ![p] = m]
  /\ spoilt' = (spoilt \/ rw_prev_mask = Unsaved)

-----------------------------------------------------------------------------
ReadBlock(p) ==
  /\ Goto(p, "out", "to read")
  /\ BlockSignals(p)
  /\ UNCHANGED <<readers, writer, spoilt>>

(* Mutated form: a reader does not wait for the writer.                    *)
ReadLock_Any(p) ==
  /\ Goto(p, "to read", "reading")
  /\ readers' = readers \cup {p}
  /\ UNCHANGED <<writer, rw_prev_mask, rw_mask, spoilt>>

ReadLock(p) ==
  /\ Goto(p, "to read", "reading")
  /\ writer = NoProc
  /\ readers' = readers \cup {p}
  /\ UNCHANGED <<writer, rw_prev_mask, rw_mask, spoilt>>

WriteBlock(p) ==
  /\ Goto(p, "out", "to write")
  /\ BlockSignals(p)
  /\ UNCHANGED <<readers, writer, spoilt>>

Unheld == readers = {} /\ writer = NoProc

WriteLock(p) ==
  /\ Goto(p, "to write", "writing")
  /\ Unheld
  /\ writer' = p
  /\ UNCHANGED <<readers, rw_prev_mask, rw_mask, spoilt>>

(* fast_process_rwlock_write_try_on: a failed try returns with the signals *)
(* blocked.                                                                *)
TryBlock(p) ==
  /\ Goto(p, "out", "trying")
  /\ BlockSignals(p)
  /\ UNCHANGED <<readers, writer, spoilt>>

TryLock(p) ==
  /\ Goto(p, "trying", "writing")
  /\ Unheld
  /\ writer' = p
  /\ UNCHANGED <<readers, rw_prev_mask, rw_mask, spoilt>>

TryFail(p) ==
  /\ Goto(p, "trying", "out")
  /\ ~Unheld
  /\ spoilt' = TRUE
  /\ UNCHANGED <<readers, writer, rw_prev_mask, rw_mask>>

Unlock(p) ==
  /\ readers' = readers \ {p}
  /\ writer' = IF writer = p THEN NoProc ELSE writer

OffUnlock(p) ==
  /\ Goto(p, "reading", "leaving") \/ Goto(p, "writing", "leaving")
  /\ Unlock(p)
  /\ UNCHANGED <<rw_prev_mask, rw_mask, spoilt>>

OffRecover(p) ==
  /\ Goto(p, "leaving", "out")
  /\ RecoverSignals(p)
  /\ UNCHANGED <<readers, writer, rw_prev_mask>>

-----------------------------------------------------------------------------
Crash(p) ==
  /\ rw_pc[p] \notin {"gone", "dead"}
  /\ rw_pc' = [rw_pc EXCEPT ![p] = "dead"]
  /\ UNCHANGED <<readers, writer, rw_prev_mask, rw_mask, spoilt>>

(* fast_process_rwlock_reset: the pthread lock is initialised anew.        *)
Reset(p) ==
  /\ rw_pc[p] = "out"
  /\ ~Unheld /\ \A q \in readers \cup ({writer} \ {NoProc}) : rw_pc[q] = "dead"
  /\ readers' = {} /\ writer' = NoProc
  /\ UNCHANGED <<rw_prev_mask, rw_mask, rw_pc, spoilt>>

Unused == \A q \in Procs : rw_pc[q] \in {"out", "dead"}

(* fast_process_rwlock_destroy, of a lock in the caller's memory: the      *)
(* caller's mask is "recovered" first.  The pthread lock cannot be         *)
(* destroyed while a dead process holds it.                                *)
Destroy(p) ==
  /\ rw_pc[p] = "out" /\ Unused
  /\ RecoverSignals(p)
  /\ rw_pc' = [q \in Procs |-> IF rw_pc[q] = "out" /\ Unheld THEN "down" ELSE rw_pc[q]]
  /\ UNCHANGED <<readers, writer, rw_prev_mask>>

(* fast_process_rwlock_release gives the memory back besides.              *)
Release(p) ==
  /\ rw_pc[p] = "out" /\ Unused
  /\ RecoverSignals(p)
  /\ rw_pc' = [q \in Procs |-> IF rw_pc[q] = "out" /\ Unheld THEN "gone" ELSE rw_pc[q]]
  /\ UNCHANGED <<readers, writer, rw_prev_mask>>

(* fast_process_rwlock_init on the same memory: the old mask stays in it.  *)
InitAgain(p) ==
  /\ rw_pc[p] = "down"
  /\ rw_pc' = [q \in Procs |-> IF rw_pc[q] = "down" THEN "out" ELSE rw_pc[q]]
  /\ UNCHANGED <<readers, writer, rw_prev_mask, rw_mask, spoilt>>

Next == \E p \in Procs :
  \/ ReadBlock(p) \/ ReadLock(p)
  \/ WriteBlock(p) \/ WriteLock(p)
  \/ TryBlock(p) \/ TryLock(p) \/ TryFail(p)
  \/ OffUnlock(p) \/ OffRecover(p)
  \/ Crash(p) \/ Reset(p) \/ Release(p)
  \/ Destroy(p) \/ InitAgain(p)

Spec == Init /\ [][Next]_rw_vars

-----------------------------------------------------------------------------
Places == {"out", "to read", "reading", "to write", "trying", "writing",
           "leaving", "dead", "gone", "down"}

(* Every variable has its type, and the pthread lock is held by those who  *)
(* are inside, or died there.                                              *)
TypeOK ==
  /\ readers \subseteq Procs /\ writer \in Procs \cup {NoProc}
  /\ rw_prev_mask = Unsaved \/ rw_prev_mask \in SUBSET Signals
  /\ rw_mask \in [Procs -> SUBSET Signals]
  /\ rw_pc \in [Procs -> Places] /\ spoilt \in BOOLEAN
  /\ \A p \in readers : rw_pc[p] \in {"reading", "dead"}
  /\ writer # NoProc => rw_pc[writer] \in {"writing", "dead"}

(* A writer is alone, through failed tries, deaths and resets.             *)
WriterAlone == \A p, q \in Procs :
  rw_pc[p] = "writing" /\ rw_pc[q] \in {"reading", "writing"} => p = q

(* A process that waits for the lock or has it has the signals blocked,    *)
(* whatever other readers recover meanwhile.                               *)
InsideProtected == \A p \in Procs :
  rw_pc[p] \in {"to read", "to write", "trying", "reading", "writing", "leaving"} =>
    sig_block_mask \subseteq rw_mask[p]

(* As long as no try fails and no mask is recovered that was never saved,  *)
(* processes that share one mask run with it whenever they are outside:    *)
(* the one saved mask does not mix up overlapping readers and writers.     *)
MasksKept == ~spoilt => \A p \in Procs : rw_pc[p] \in {"out", "down", "gone"} => rw_mask[p] = HomeMask[p]
=============================================================================
