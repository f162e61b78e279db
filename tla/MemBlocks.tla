----------------------------- MODULE MemBlocks ------------------------------
(***************************************************************************)
(* fast_mblks.c: a fixed number of blocks that threads take from and put   *)
(* back on a linked list under an atomic lock.  A block's next is the next *)
(* free block, or the address of its pool while a thread has it.  The last *)
(* block's next points past the end of the memory, so that only cold_count *)
(* tells where the list ends.                                              *)
(***************************************************************************)
EXTENDS AtomicLock, FiniteSets

CONSTANTS
  Threads,
  count,          \* blocks
  NULL

VARIABLES
  next,           \* block -> mem_data.next
  free_blks,
  hot_count, cold_count,
  pdata,          \* thread -> the block its call is about, or NULL
  at,             \* thread -> where it is
  lent            \* ghost: block -> the number of threads that have it

Things == 1 .. count
PastEnd == count + 1
MBLKS == 0        \* the address of the pool

mb_vars == <<lock, next, free_blks, hot_count, cold_count, pdata, at, lent>>

Init ==
  /\ AtomicLockInit
  /\ next = [b \in Things |-> b + 1]
  /\ free_blks = 1
  /\ hot_count = 0 /\ cold_count = count
  /\ pdata = [t \in Threads |-> NULL]
  /\ at = [t \in Threads |-> "out"]
  /\ lent = [b \in Things |-> 0]

Goto(t, from, to) ==
  /\ at[t] = from
  /\ at' = [at EXCEPT ![t] = to]

-----------------------------------------------------------------------------
(* mem_get, and mem_get0, which clears the block it got.                   *)
GetLock(t) ==
  /\ Goto(t, "out", "take")
  /\ AtomicLockOn
  /\ UNCHANGED <<next, free_blks, hot_count, cold_count, pdata, lent>>

(* Mutated form: cold_count is not looked at.                              *)
GetTake_NoCheck(t) ==
  /\ Goto(t, "take", "unlink")
  /\ pdata' = [pdata EXCEPT ![t] = free_blks]
  /\ UNCHANGED <<lock, next, free_blks, hot_count, cold_count, lent>>

GetTake(t) ==
  /\ Goto(t, "take", "unlink")
  /\ cold_count > 0
  /\ pdata' = [pdata EXCEPT ![t] = free_blks]
  /\ UNCHANGED <<lock, next, free_blks, hot_count, cold_count, lent>>

GetNone(t) ==
  /\ Goto(t, "take", "unlock")
  /\ cold_count = 0
  /\ pdata' = [pdata EXCEPT ![t] = NULL]
  /\ UNCHANGED <<lock, next, free_blks, hot_count, cold_count, lent>>

GetUnlink(t) ==
  /\ Goto(t, "unlink", "unlock")
  /\ free_blks' = next[pdata[t]]
  /\ next' = [next EXCEPT ![pdata[t]] = MBLKS]
  /\ hot_count' = hot_count + 1
  /\ cold_count' = cold_count - 1
  /\ lent' = [lent EXCEPT ![pdata[t]] = @ + 1]
  /\ UNCHANGED <<lock, pdata>>

(* mem_put: a thread gives back a block that some thread got; the pool is  *)
(* found in its next, before the lock is taken.                            *)
PutBegin(t, b) ==
  /\ Goto(t, "out", "put")
  /\ lent[b] > 0 /\ next[b] = MBLKS
  /\ \A u \in Threads : pdata[u] # b
  /\ pdata' = [pdata EXCEPT ![t] = b]
  /\ UNCHANGED <<lock, next, free_blks, hot_count, cold_count, lent>>

PutLock(t) ==
  /\ Goto(t, "put", "link")
  /\ AtomicLockOn
  /\ UNCHANGED <<next, free_blks, hot_count, cold_count, pdata, lent>>

PutLink(t) ==
  /\ Goto(t, "link", "unlock")
  /\ hot_count' = hot_count - 1
  /\ cold_count' = cold_count + 1
  /\ next' = [next EXCEPT ![pdata[t]] = free_blks]
  /\ free_blks' = pdata[t]
  /\ lent' = [lent EXCEPT ![pdata[t]] = @ - 1]
  /\ UNCHANGED <<lock, pdata>>

Unlock(t) ==
  /\ Goto(t, "unlock", "out")
  /\ AtomicLockOff
  /\ pdata' = [pdata EXCEPT ![t] = NULL]
  /\ UNCHANGED <<next, free_blks, hot_count, cold_count, lent>>

(* What a thread does with the lock on.                                    *)
Inside(t) ==
  GetTake(t) \/ GetNone(t) \/ GetUnlink(t) \/ PutLink(t) \/ Unlock(t)

Next == \E t \in Threads :
  \/ GetLock(t) \/ PutLock(t) \/ Inside(t)
  \/ \E b \in Things : PutBegin(t, b)

Spec == Init /\ [][Next]_mb_vars

-----------------------------------------------------------------------------
(* The list: cold_count blocks, from free_blks on.                         *)
Nth[i \in 1 .. cold_count] ==
  IF i = 1 THEN free_blks
  ELSE IF Nth[i - 1] \in Things THEN next[Nth[i - 1]] ELSE PastEnd

Cold == {Nth[i] : i \in 1 .. cold_count}

(* Every variable has its type.                                            *)
TypeOK ==
  /\ lock \in {FAST_LOCK_OFF, FAST_LOCK_ON}
  /\ next \in [Things -> 0 .. PastEnd]
  /\ hot_count \in 0 .. count /\ cold_count \in 0 .. count
  /\ pdata \in [Threads -> Things \cup {NULL}]
  /\ \A t \in Threads : at[t] \in {"take", "unlink", "link", "unlock"} => lock = FAST_LOCK_ON

(* With the lock off the list has exactly the blocks no thread has, each   *)
(* once, and ends before the pointer past the end is followed.             *)
ListExact == lock = FAST_LOCK_OFF =>
  /\ Cold = {b \in Things : lent[b] = 0}
  /\ Cardinality(Cold) = cold_count
  /\ hot_count + cold_count = count

(* No thread waits for a lock that stays on.                               *)
LockComesOff == (lock = FAST_LOCK_ON) ~> (lock = FAST_LOCK_OFF)

(* A block is with one thread at a time.                                   *)
Lending == INSTANCE Loans
=============================================================================
