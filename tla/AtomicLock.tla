----------------------------- MODULE AtomicLock -----------------------------
(***************************************************************************)
(* The atomic lock of fast_lock.c: one word, FAST_LOCK_OFF or              *)
(* FAST_LOCK_ON, changed by compare-and-swap.  The word records no owner:  *)
(* who may call off is a contract of the callers, so that this module only *)
(* gives the effect of each call on the word; the modules that use the     *)
(* lock say who calls.                                                     *)
(***************************************************************************)
EXTENDS Integers

VARIABLE lock      \* fast_atomic_lock_t.lock

FAST_LOCK_OFF == 0
FAST_LOCK_ON  == 1

(* CAS(&lock, old, new): the step in which the swap succeeds. *)
CAS(old, new) ==
  /\ lock = old
  /\ lock' = new

(* fast_atomic_lock_init, _reset and the store made by every creator. *)
AtomicLockInit == lock = FAST_LOCK_OFF

(* Mutated form: the store without the compare.                            *)
AtomicLockOn_NoCas == lock' = FAST_LOCK_ON

(* fast_atomic_lock_on spins until its CAS succeeds; the failed attempts   *)
(* change nothing, so the call is the step of the successful one.          *)
AtomicLockOn == CAS(FAST_LOCK_OFF, FAST_LOCK_ON)

(* fast_atomic_lock_off: nothing to do on a word that is off; otherwise    *)
(* the CAS that turns it off, whoever turned it on.                        *)
AtomicLockOff ==
  \/ lock = FAST_LOCK_OFF /\ UNCHANGED lock
  \/ CAS(FAST_LOCK_ON, FAST_LOCK_OFF)
=============================================================================
