---------------------------- MODULE ProcessLock ----------------------------
(***************************************************************************)
(* The process lock of fast_lock.c: a process-shared mutex in shared       *)
(* memory, taken with most signals blocked.  The mask a process had before *)
(* is kept in sig_prev_mask - one word of the shared lock, not one of each *)
(* process, written before the mutex is taken and read after it is let go. *)
(*                                                                         *)
(* The callers' contract: a process calls off when it holds the lock,      *)
(* release when nobody uses the lock, and reset (which initialises the     *)
(* mutex anew) only when the process that held it has died.                *)
(***************************************************************************)
EXTENDS FiniteSets

CONSTANTS
  Procs,          \* the processes sharing the lock
  Signals,        \* signals
  sig_block_mask, \* what fast_process_lock_create puts in sig_block_mask
  HomeMask,       \* process -> the mask it runs with outside the lock
  Calls,          \* which of "try_on", "release", "crash" the program meets
  NoProc

ASSUME LockAssumption ==
  /\ NoProc \notin Procs
  /\ sig_block_mask \subseteq Signals
  /\ HomeMask \in [Procs -> SUBSET Signals]
  /\ Calls \subseteq {"try_on", "release", "crash"}

VARIABLES
  owner,          \* who holds the pthread mutex, NoProc when it is free
  sig_prev_mask,  \* the shared saved mask
  mask,           \* process -> its current signal mask
  pc              \* where each process is

vars == <<owner, sig_prev_mask, mask, pc>>

(* create does not set sig_prev_mask: it is what the memory held. *)
Init ==
  /\ owner = NoProc
  /\ sig_prev_mask \in SUBSET Signals
  /\ mask = HomeMask
  /\ pc = [p \in Procs |-> "out"]

Goto(p, from, to) ==
  /\ pc[p] = from
  /\ pc' = [pc EXCEPT ![p] = to]

(* sigprocmask(SIG_BLOCK, &sig_block_mask, &sig_prev_mask) *)
BlockSignals(p) ==
  /\ sig_prev_mask' = mask[p]
  /\ mask' = [mask EXCEPT ![p] = @ \cup sig_block_mask]

-----------------------------------------------------------------------------
(* Mutated form: the mask is saved, but nothing blocked. *)
OnBlock_NoBlock(p) ==
  /\ Goto(p, "out", "waiting")
  /\ sig_prev_mask' = mask[p]
  /\ UNCHANGED <<owner, mask>>

(* fast_process_lock_on: block, then wait for the mutex. *)
OnBlock(p) ==
  /\ Goto(p, "out", "waiting")
  /\ BlockSignals(p)
  /\ UNCHANGED owner

(* Mutated form: the result of pthread_mutex_lock is not waited for. *)
OnLock_NoWait(p) ==
  /\ Goto(p, "waiting", "in")
  /\ owner' = p
  /\ UNCHANGED <<sig_prev_mask, mask>>

OnLock(p) ==
  /\ Goto(p, "waiting", "in")
  /\ owner = NoProc
  /\ owner' = p
  /\ UNCHANGED <<sig_prev_mask, mask>>

(* fast_process_lock_try_on: block, then try; a failed try returns with    *)
(* the signals blocked.                                                    *)
TryBlock(p) ==
  /\ "try_on" \in Calls
  /\ Goto(p, "out", "trying")
  /\ BlockSignals(p)
  /\ UNCHANGED owner

TryLock(p) ==
  /\ Goto(p, "trying", "in")
  /\ owner = NoProc
  /\ owner' = p
  /\ UNCHANGED <<sig_prev_mask, mask>>

TryFail(p) ==
  /\ Goto(p, "trying", "out")
  /\ owner # NoProc
  /\ UNCHANGED <<owner, sig_prev_mask, mask>>

(* fast_process_lock_off: unlock, then recover the mask. *)
OffUnlock(p) ==
  /\ Goto(p, "in", "leaving")
  /\ owner' = NoProc
  /\ UNCHANGED <<sig_prev_mask, mask>>

OffRecover(p) ==
  /\ Goto(p, "leaving", "out")
  /\ mask' = [mask EXCEPT ![p] = sig_prev_mask]
  /\ UNCHANGED <<owner, sig_prev_mask>>

(* A process dies where it is; a mutex it holds stays locked. *)
Crash(p) ==
  /\ "crash" \in Calls
  /\ pc[p] # "gone"
  /\ pc' = [pc EXCEPT ![p] = "dead"]
  /\ UNCHANGED <<owner, sig_prev_mask, mask>>

(* fast_process_lock_reset by a process outside the lock, after the death  *)
(* of the holder.                                                          *)
Reset(p) ==
  /\ pc[p] = "out"
  /\ owner # NoProc /\ pc[owner] = "dead"
  /\ owner' = NoProc
  /\ UNCHANGED <<sig_prev_mask, mask, pc>>

(* fast_process_lock_release, by one process for all: "recover signal      *)
(* mask" of the caller, then the mutex is destroyed - which fails, with    *)
(* the lock left in place, when a dead process still holds it.             *)
Release(p) ==
  /\ "release" \in Calls
  /\ pc[p] = "out"
  /\ \A q \in Procs : pc[q] \in {"out", "dead"}
  /\ mask' = [mask EXCEPT ![p] = sig_prev_mask]
  /\ pc' = [q \in Procs |-> IF pc[q] = "out" /\ owner = NoProc THEN "gone" ELSE pc[q]]
  /\ UNCHANGED <<owner, sig_prev_mask>>

Next == \E p \in Procs :
  \/ OnBlock(p) \/ OnLock(p)
  \/ TryBlock(p) \/ TryLock(p) \/ TryFail(p)
  \/ OffUnlock(p) \/ OffRecover(p)
  \/ Crash(p) \/ Reset(p) \/ Release(p)

Spec == Init /\ [][Next]_vars

-----------------------------------------------------------------------------
(* Every variable has its type; the holder of the mutex is inside, or died *)
(* with it.                                                                *)
TypeOK ==
  /\ owner \in Procs \cup {NoProc}
  /\ sig_prev_mask \in SUBSET Signals
  /\ mask \in [Procs -> SUBSET Signals]
  /\ pc \in [Procs -> {"out", "waiting", "trying", "in", "leaving", "dead", "gone"}]
  /\ owner # NoProc => pc[owner] \in {"in", "dead"}

(* At most one process is between a successful on or try_on and its off,   *)
(* through failed tries, deaths of holders and resets.                     *)
MutualExclusion == \A p, q \in Procs : pc[p] = "in" /\ pc[q] = "in" => p = q

(* A process that holds or waits for the lock has the signals of           *)
(* sig_block_mask blocked until it has let go of it, whatever masks the    *)
(* other processes save and recover meanwhile.                             *)
HolderProtected == \A p \in Procs :
  pc[p] \in {"waiting", "trying", "in", "leaving"} => sig_block_mask \subseteq mask[p]

(* A process outside the lock runs with the mask it had before it took it: *)
(* what off and release call "recover signal".                             *)
SignalsRecovered == \A p \in Procs : pc[p] \in {"out", "gone"} => mask[p] = HomeMask[p]
=============================================================================
