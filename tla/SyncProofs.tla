----------------------------- MODULE SyncProofs -----------------------------
(***************************************************************************)
(* The safety of MCSync for any processes, signals, threads, blocks, pipe  *)
(* and read buffer.  Each part is proved about by itself, from its own     *)
(* specification; at the end every behaviour of SyncSpec is shown to be    *)
(* one of each part.                                                       *)
(***************************************************************************)
EXTENDS MCSync, NumberLemmas, FunctionTheorems, SequenceTheorems

-----------------------------------------------------------------------------
(* The process lock. *)

(* The holder of the mutex is the process inside, as long as it lives.     *)
HolderKnown == \A p \in Procs : pc[p] = "in" => owner = p

IInv == TypeOK /\ HolderKnown /\ HolderProtected

(* Who is inside holds the mutex, and only one process can: exclusion.     *)
LEMMA HolderExcludes == HolderKnown => MutualExclusion
BY DEF HolderKnown, MutualExclusion

LEMMA IInvInit == Init => IInv
BY LockAssumption DEF Init, IInv, TypeOK, HolderKnown, HolderProtected

LEMMA IInvNext == IInv /\ [Next]_vars => IInv'
<1> SUFFICES ASSUME IInv, [Next]_vars PROVE IInv'
  OBVIOUS
<1> USE LockAssumption DEF IInv, TypeOK, HolderKnown, HolderProtected
<1>1. ASSUME NEW p \in Procs, OnBlock(p) PROVE IInv'
  BY <1>1 DEF OnBlock, Goto, BlockSignals
<1>2. ASSUME NEW p \in Procs, OnLock(p) PROVE IInv'
  BY <1>2 DEF OnLock, Goto
<1>3. ASSUME NEW p \in Procs, TryBlock(p) PROVE IInv'
  BY <1>3 DEF TryBlock, Goto, BlockSignals
<1>4. ASSUME NEW p \in Procs, TryLock(p) PROVE IInv'
  BY <1>4 DEF TryLock, Goto
<1>5. ASSUME NEW p \in Procs, TryFail(p) PROVE IInv'
  BY <1>5 DEF TryFail, Goto
<1>6. ASSUME NEW p \in Procs, OffUnlock(p) PROVE IInv'
  BY <1>6 DEF OffUnlock, Goto
<1>7. ASSUME NEW p \in Procs, OffRecover(p) PROVE IInv'
  BY <1>7 DEF OffRecover, Goto
<1>8. ASSUME NEW p \in Procs, Crash(p) PROVE IInv'
  BY <1>8 DEF Crash
<1>9. ASSUME NEW p \in Procs, Reset(p) PROVE IInv'
  BY <1>9 DEF Reset
<1>10. ASSUME NEW p \in Procs, Release(p) PROVE IInv'
  BY <1>10 DEF Release
<1>11. CASE UNCHANGED vars
  BY <1>11 DEF vars
<1> QED
  BY <1>1, <1>2, <1>3, <1>4, <1>5, <1>6, <1>7, <1>8, <1>9, <1>10, <1>11 DEF Next

(* fast_process_lock_on, try_on and off keep the variables' types, and the *)
(* mutex belongs to a process that is inside or died there.                *)
THEOREM TypeCorrect == Spec => []TypeOK
<1>1. IInv => TypeOK
  BY DEF IInv
<1> QED
  BY IInvInit, IInvNext, <1>1, PTL DEF Spec

(* Two processes are never both between on (or a successful try_on) and    *)
(* off.                                                                    *)
THEOREM LockExcludes == Spec => []MutualExclusion
<1>1. IInv => MutualExclusion
  BY HolderExcludes DEF IInv
<1> QED
  BY IInvInit, IInvNext, <1>1, PTL DEF Spec

(* Whatever masks others save in the shared sig_prev_mask and recover, a   *)
(* process that waits for the lock or holds it has sig_block_mask blocked. *)
THEOREM ProtectedInside == Spec => []HolderProtected
<1>1. IInv => HolderProtected
  BY DEF IInv
<1> QED
  BY IInvInit, IInvNext, <1>1, PTL DEF Spec

-----------------------------------------------------------------------------
(* The process read-write lock. *)

(* Who reads or writes holds the pthread lock.                             *)
HoldersKnown == \A p \in Procs :
  /\ rw_pc[p] = "reading" => p \in readers
  /\ rw_pc[p] = "writing" => p = writer

(* The pthread lock is never held to write and to read at a time.          *)
NeverMixed == writer # NoProc => readers = {}

RWInv == RW!TypeOK /\ HoldersKnown /\ NeverMixed /\ RW!InsideProtected

(* Those inside are holders, and the pthread lock excludes: so do they.    *)
LEMMA HoldersExclude ==
  ASSUME RW!RWAssumption
  PROVE  RWInv => RW!WriterAlone
BY DEF RW!RWAssumption, RWInv, RW!TypeOK, HoldersKnown, NeverMixed, RW!WriterAlone

LEMMA RWInvInit ==
  ASSUME RW!RWAssumption
  PROVE  RW!Init => RWInv
BY DEF RW!RWAssumption, RW!Init, RWInv, RW!TypeOK, HoldersKnown, NeverMixed, RW!InsideProtected, RW!Places

(* The mask recovered is a mask, and it is set for one process only.       *)
LEMMA Recovered ==
  ASSUME RW!TypeOK, NEW p \in Procs, RW!RecoverSignals(p)
  PROVE  /\ rw_mask' \in [Procs -> SUBSET Signals] /\ spoilt' \in BOOLEAN
         /\ \A q \in Procs \ {p} : rw_mask'[q] = rw_mask[q]
<1>1. PICK m \in IF rw_prev_mask = Unsaved THEN SUBSET Signals ELSE {rw_prev_mask} :
        rw_mask' = [rw_mask EXCEPT ![p] = m]
  BY DEF RW!RecoverSignals
<1>2. m \in SUBSET Signals
  BY <1>1 DEF RW!TypeOK
<1>3. rw_mask' \in [Procs -> SUBSET Signals] /\ \A q \in Procs \ {p} : rw_mask'[q] = rw_mask[q]
  BY <1>1, <1>2 DEF RW!TypeOK
<1>4. spoilt' \in BOOLEAN
  BY DEF RW!RecoverSignals, RW!TypeOK
<1> QED
  BY <1>3, <1>4

LEMMA RWInvNext ==
  ASSUME RW!RWAssumption
  PROVE  RWInv /\ [RW!Next]_RW!rw_vars => RWInv'
<1> SUFFICES ASSUME RWInv, [RW!Next]_RW!rw_vars PROVE RWInv'
  OBVIOUS
<1> USE DEF RW!RWAssumption, RWInv, RW!TypeOK, HoldersKnown, NeverMixed, RW!InsideProtected, RW!Places
<1>1. ASSUME NEW p \in Procs, RW!ReadBlock(p) PROVE RWInv'
  BY <1>1 DEF RW!ReadBlock, RW!Goto, RW!BlockSignals
<1>2. ASSUME NEW p \in Procs, RW!ReadLock(p) PROVE RWInv'
  <2>1. readers' = readers \cup {p} /\ rw_pc' = [rw_pc EXCEPT ![p] = "reading"]
        /\ rw_pc[p] = "to read" /\ writer = NoProc
        /\ UNCHANGED <<writer, rw_prev_mask, rw_mask, spoilt>>
    BY <1>2 DEF RW!ReadLock, RW!Goto
  <2>2. RW!TypeOK'
    <3>1. rw_pc' \in [Procs -> RW!Places] /\ readers' \subseteq Procs
      BY <2>1
    <3>2. ASSUME NEW q \in readers' PROVE rw_pc'[q] \in {"reading", "dead"}
      <4>1. CASE q = p
        BY <2>1, <4>1
      <4>2. CASE q # p
        <5>1. q \in readers /\ rw_pc'[q] = rw_pc[q]
          BY <2>1, <4>2
        <5> QED
          BY <5>1
      <4> QED
        BY <4>1, <4>2
    <3> QED
      BY <2>1, <3>1, <3>2
  <2>3. HoldersKnown' /\ NeverMixed'
    BY <2>1
  <2>4. RW!InsideProtected'
    BY <2>1
  <2> QED
    BY <2>2, <2>3, <2>4
<1>3. ASSUME NEW p \in Procs, RW!WriteBlock(p) PROVE RWInv'
  BY <1>3 DEF RW!WriteBlock, RW!Goto, RW!BlockSignals
<1>4. ASSUME NEW p \in Procs, RW!WriteLock(p) PROVE RWInv'
  BY <1>4 DEF RW!WriteLock, RW!Goto, RW!Unheld
<1>5. ASSUME NEW p \in Procs, RW!TryBlock(p) PROVE RWInv'
  BY <1>5 DEF RW!TryBlock, RW!Goto, RW!BlockSignals
<1>6. ASSUME NEW p \in Procs, RW!TryLock(p) PROVE RWInv'
  BY <1>6 DEF RW!TryLock, RW!Goto, RW!Unheld
<1>7. ASSUME NEW p \in Procs, RW!TryFail(p) PROVE RWInv'
  BY <1>7 DEF RW!TryFail, RW!Goto
<1>8. ASSUME NEW p \in Procs, RW!OffUnlock(p) PROVE RWInv'
  BY <1>8 DEF RW!OffUnlock, RW!Goto, RW!Unlock
<1>9. ASSUME NEW p \in Procs, RW!OffRecover(p) PROVE RWInv'
  <2>1. RW!RecoverSignals(p) /\ rw_pc[p] = "leaving" /\ rw_pc' = [rw_pc EXCEPT ![p] = "out"]
        /\ UNCHANGED <<readers, writer, rw_prev_mask>>
    BY <1>9 DEF RW!OffRecover, RW!Goto
  <2>2. RW!TypeOK'
    BY <2>1, Recovered
  <2>3. HoldersKnown' /\ NeverMixed'
    BY <2>1
  <2>4. RW!InsideProtected'
    BY <2>1, Recovered
  <2> QED
    BY <2>2, <2>3, <2>4
<1>10. ASSUME NEW p \in Procs, RW!Crash(p) PROVE RWInv'
  BY <1>10 DEF RW!Crash
<1>11. ASSUME NEW p \in Procs, RW!Reset(p) PROVE RWInv'
  BY <1>11 DEF RW!Reset
<1>12. ASSUME NEW p \in Procs, RW!Release(p) PROVE RWInv'
  <2>1. RW!RecoverSignals(p) /\ UNCHANGED <<readers, writer, rw_prev_mask>>
    BY <1>12 DEF RW!Release
  <2>2. \A q \in Procs : rw_pc[q] \in {"out", "dead"} /\ rw_pc'[q] \in {rw_pc[q], "gone"}
                         /\ (rw_pc[q] = "dead" => rw_pc'[q] = "dead")
    BY <1>12 DEF RW!Release, RW!Unused
  <2>3. rw_pc' \in [Procs -> RW!Places]
    BY <1>12 DEF RW!Release
  <2>4. RW!TypeOK'
    BY <2>1, <2>2, <2>3, Recovered
  <2>5. HoldersKnown' /\ NeverMixed' /\ RW!InsideProtected'
    BY <2>1, <2>2
  <2> QED
    BY <2>4, <2>5
<1>13. ASSUME NEW p \in Procs, RW!Destroy(p) PROVE RWInv'
  <2>1. RW!RecoverSignals(p) /\ UNCHANGED <<readers, writer, rw_prev_mask>>
    BY <1>13 DEF RW!Destroy
  <2>2. \A q \in Procs : rw_pc[q] \in {"out", "dead"} /\ rw_pc'[q] \in {rw_pc[q], "down"}
                         /\ (rw_pc[q] = "dead" => rw_pc'[q] = "dead")
    BY <1>13 DEF RW!Destroy, RW!Unused
  <2>3. rw_pc' \in [Procs -> RW!Places]
    BY <1>13 DEF RW!Destroy
  <2>4. RW!TypeOK'
    BY <2>1, <2>2, <2>3, Recovered
  <2>5. HoldersKnown' /\ NeverMixed' /\ RW!InsideProtected'
    BY <2>1, <2>2
  <2> QED
    BY <2>4, <2>5
<1>14. ASSUME NEW p \in Procs, RW!InitAgain(p) PROVE RWInv'
  <2>1. \A q \in Procs : rw_pc'[q] = IF rw_pc[q] = "down" THEN "out" ELSE rw_pc[q]
    BY <1>14 DEF RW!InitAgain
  <2>2. RW!TypeOK' /\ RW!InsideProtected'
    BY <1>14, <2>1 DEF RW!InitAgain
  <2>3. HoldersKnown' /\ NeverMixed'
    BY <1>14, <2>1 DEF RW!InitAgain
  <2> QED
    BY <2>2, <2>3
<1>15. CASE UNCHANGED RW!rw_vars
  BY <1>15 DEF RW!rw_vars
<1> QED
  BY <1>1, <1>2, <1>3, <1>4, <1>5, <1>6, <1>7, <1>8, <1>9, <1>10, <1>11, <1>12,
     <1>13, <1>14, <1>15 DEF RW!Next

(* The variables of fast_process_rwlock_* keep their types, and those who  *)
(* hold the pthread lock are inside or died there.                         *)
THEOREM RWTypeCorrect ==
  ASSUME RW!RWAssumption
  PROVE  RW!Spec => []RW!TypeOK
<1>1. RWInv => RW!TypeOK
  BY DEF RWInv
<1> QED
  BY RWInvInit, RWInvNext, <1>1, PTL DEF RW!Spec

(* fast_process_rwlock_write_on and a successful write_try_on let a        *)
(* process in alone, until off.                                            *)
THEOREM WriterExcludes ==
  ASSUME RW!RWAssumption
  PROVE  RW!Spec => []RW!WriterAlone
BY RWInvInit, RWInvNext, HoldersExclude, PTL DEF RW!Spec

(* Whatever masks others save in the shared word and recover, who waits    *)
(* for the read-write lock or has it has sig_block_mask blocked.           *)
THEOREM RWProtected ==
  ASSUME RW!RWAssumption
  PROVE  RW!Spec => []RW!InsideProtected
<1>1. RWInv => RW!InsideProtected
  BY DEF RWInv
<1> QED
  BY RWInvInit, RWInvNext, <1>1, PTL DEF RW!Spec


(* The processes share one mask.                                           *)
OneMask == \A p, q \in Procs : HomeMask[p] = HomeMask[q]

(* Then the saved mask is everybody's, once there is one.                  *)
SavedIsHome == ~spoilt =>
  rw_prev_mask = Unsaved \/ \A p \in Procs : rw_prev_mask = HomeMask[p]

HomeInv == SavedIsHome /\ RW!MasksKept

(* What a process has outside, when it saves and blocks, is its home mask; *)
(* what it recovers is the saved one.                                      *)
LEMMA HomeInvNext ==
  ASSUME RW!RWAssumption, OneMask
  PROVE  RWInv /\ HomeInv /\ [RW!Next]_RW!rw_vars => HomeInv'
<1> SUFFICES ASSUME RWInv, HomeInv, [RW!Next]_RW!rw_vars PROVE HomeInv'
  OBVIOUS
<1> USE DEF HomeInv, SavedIsHome, RW!MasksKept
<1>0. /\ rw_mask \in [Procs -> SUBSET Signals]
      /\ rw_pc \in [Procs -> RW!Places] /\ spoilt \in BOOLEAN
  BY DEF RWInv, RW!TypeOK
<1>1. ASSUME NEW p \in Procs, NEW to \in {"to read", "to write", "trying"},
             RW!Goto(p, "out", to), RW!BlockSignals(p), UNCHANGED spoilt
      PROVE  HomeInv'
  <2>1. ~spoilt => \A q \in Procs : rw_prev_mask' = HomeMask[q]
    BY <1>0, <1>1 DEF RW!Goto, RW!BlockSignals, OneMask
  <2>2. \A q \in Procs : rw_pc'[q] \in {"out", "down", "gone"} =>
          rw_pc'[q] = rw_pc[q] /\ rw_mask'[q] = rw_mask[q]
    BY <1>0, <1>1 DEF RW!Goto, RW!BlockSignals
  <2> QED
    BY <2>1, <2>2, <1>1
<1>2. ASSUME NEW p \in Procs, RW!RecoverSignals(p), UNCHANGED rw_prev_mask,
             \A q \in Procs \ {p} : rw_pc'[q] \in {"out", "down", "gone"} =>
               rw_pc[q] \in {"out", "down", "gone"}
      PROVE  HomeInv'
  <2>1. spoilt' = (spoilt \/ rw_prev_mask = Unsaved)
    BY <1>2 DEF RW!RecoverSignals
  <2>2. SavedIsHome'
    BY <2>1, <1>2
  <2>3. \A q \in Procs \ {p} : rw_mask'[q] = rw_mask[q]
    BY <1>2, Recovered DEF RWInv
  <2>4. rw_prev_mask # Unsaved => rw_mask'[p] = rw_prev_mask
    BY <1>0, <1>2 DEF RW!RecoverSignals
  <2>5. ~spoilt' => rw_prev_mask # Unsaved /\ rw_mask'[p] = HomeMask[p]
    BY <2>1, <2>4
  <2>6. RW!MasksKept'
    BY <2>1, <2>3, <2>5, <1>2
  <2> QED
    BY <2>2, <2>6
<1>3. ASSUME UNCHANGED <<rw_prev_mask, rw_mask, spoilt>>,
             \A q \in Procs : rw_pc'[q] \in {"out", "down", "gone"} =>
               rw_pc[q] \in {"out", "down", "gone"}
      PROVE  HomeInv'
  BY <1>3
<1>4. ASSUME NEW p \in Procs, RW!ReadBlock(p) \/ RW!WriteBlock(p) \/ RW!TryBlock(p) PROVE HomeInv'
  BY <1>1, <1>4 DEF RW!ReadBlock, RW!WriteBlock, RW!TryBlock
<1>5. ASSUME NEW p \in Procs,
             RW!ReadLock(p) \/ RW!WriteLock(p) \/ RW!TryLock(p) \/ RW!OffUnlock(p) \/ RW!Crash(p)
               \/ RW!Reset(p) \/ RW!InitAgain(p)
      PROVE  HomeInv'
  BY <1>0, <1>3, <1>5
     DEF RW!ReadLock, RW!WriteLock, RW!TryLock, RW!OffUnlock, RW!Crash, RW!Reset, RW!InitAgain, RW!Goto
<1>6. ASSUME NEW p \in Procs, RW!TryFail(p) PROVE HomeInv'
  BY <1>6 DEF RW!TryFail
<1>7. ASSUME NEW p \in Procs, RW!OffRecover(p) PROVE HomeInv'
  BY <1>0, <1>2, <1>7 DEF RW!OffRecover, RW!Goto
<1>8. ASSUME NEW p \in Procs, RW!Release(p) \/ RW!Destroy(p) PROVE HomeInv'
  BY <1>0, <1>2, <1>8 DEF RW!Release, RW!Destroy
<1>9. CASE UNCHANGED RW!rw_vars
  BY <1>9 DEF RW!rw_vars
<1> QED
  BY <1>4, <1>5, <1>6, <1>7, <1>8, <1>9 DEF RW!Next

(* As long as no try fails and no mask is recovered that was never saved,  *)
(* one saved word is enough for any number of overlapping readers and      *)
(* writers with one mask: each gets it back.                               *)
THEOREM RWMasksKept ==
  ASSUME RW!RWAssumption, OneMask
  PROVE  RW!Spec => []RW!MasksKept
<1>1. RW!Init => HomeInv
  BY DEF RW!Init, HomeInv, SavedIsHome, RW!MasksKept
<1>2. HomeInv => RW!MasksKept
  BY DEF HomeInv
<1> QED
  BY RWInvInit, RWInvNext, HomeInvNext, <1>1, <1>2, PTL DEF RW!Spec

-----------------------------------------------------------------------------
(* The memory blocks. *)


InLock == {"take", "unlink", "link", "unlock"}

MBTyped ==
  /\ next \in [MB!Things -> 0 .. MB!PastEnd] /\ free_blks \in 0 .. MB!PastEnd
  /\ cold_count \in Nat /\ hot_count \in Int /\ hot_count + cold_count = count
  /\ lock \in {MB!FAST_LOCK_OFF, MB!FAST_LOCK_ON}
  /\ pdata \in [Threads -> MB!Things \cup {NULL}]
  /\ at \in [Threads -> InLock \cup {"out", "put"}]
  /\ lent \in [MB!Things -> {0, 1}]

(* The atomic lock is on while a thread is inside, and one thread is.      *)
Alone ==
  /\ \A t \in Threads : at[t] \in InLock => lock = MB!FAST_LOCK_ON
  /\ \A t, u \in Threads : at[t] \in InLock /\ at[u] \in InLock => t = u

(* f lists the free blocks, each once, in the order of the list.           *)
IsList(f) ==
  /\ f \in [1 .. cold_count -> MB!Things]
  /\ cold_count > 0 => f[1] = free_blks
  /\ \A i \in 1 .. cold_count : lent[f[i]] = 0
  /\ \A i, j \in 1 .. cold_count : f[i] = f[j] => i = j
  /\ \A i \in 1 .. cold_count : i + 1 \in 1 .. cold_count => next[f[i]] = f[i + 1]
  /\ \A b \in MB!Things : lent[b] = 0 => \E i \in 1 .. cold_count : f[i] = b

Listed == \E f : IsList(f)

(* Who is about to unlink the first block has checked that there is one.   *)
Checked == \A t \in Threads : at[t] = "unlink" =>
  /\ cold_count > 0
  /\ pdata[t] = free_blks

(* Blocks on their way back are lent, each to the thread that returns it.  *)
Returning ==
  /\ \A t \in Threads : at[t] \in {"put", "link"} =>
       pdata[t] \in MB!Things /\ lent[pdata[t]] = 1
  /\ \A t, u \in Threads :
       at[t] \in {"put", "link"} /\ at[u] \in {"put", "link"} /\ pdata[t] = pdata[u] => t = u

MBInv == MBTyped /\ Alone /\ Listed /\ Checked /\ Returning

(* The first block of the list is free.                                    *)
LEMMA FirstIsFree ==
  ASSUME MBTyped, Listed, cold_count > 0
  PROVE  free_blks \in MB!Things /\ lent[free_blks] = 0
<1>1. PICK f : IsList(f)
  BY DEF Listed
<1>2. 1 \in 1 .. cold_count
  BY DEF MBTyped
<1> QED
  BY <1>1, <1>2 DEF IsList

LEMMA MBInvInit ==
  ASSUME count \in Nat
  PROVE  MB!Init => MBInv
<1> SUFFICES ASSUME MB!Init PROVE MBInv
  OBVIOUS
<1>1. Listed
  <2> DEFINE f == [i \in 1 .. count |-> i]
  <2>1. IsList(f)
    BY DEF MB!Init, IsList, MB!Things
  <2> QED
    BY <2>1 DEF Listed
<1>2. MBTyped
  BY DEF MB!Init, MB!AtomicLockInit, MBTyped, MB!Things, MB!PastEnd, InLock
<1>3. Alone /\ Checked /\ Returning
  BY DEF MB!Init, Alone, Checked, Returning, InLock
<1> QED
  BY <1>1, <1>2, <1>3 DEF MBInv

(* A step that leaves the list, its blocks and what is lent alone.         *)
LEMMA ListKept ==
  ASSUME Listed, UNCHANGED <<next, free_blks, cold_count, lent>>
  PROVE  Listed'
<1>1. \A f : IsList(f) => IsList(f)'
  BY DEF IsList
<1> QED
  BY <1>1 DEF Listed

(* mem_get unlinks the first block: the rest is the list.                  *)
LEMMA UnlinkKeepsList ==
  ASSUME MBInv, NEW t \in Threads, MB!GetUnlink(t)
  PROVE  Listed'
<1> DEFINE b == pdata[t]
<1>1. /\ cold_count > 0 /\ b = free_blks
      /\ free_blks' = next[b] /\ next' = [next EXCEPT ![b] = MB!MBLKS]
      /\ cold_count' = cold_count - 1 /\ lent' = [lent EXCEPT ![b] = @ + 1]
  BY DEF MB!GetUnlink, MB!Goto, MBInv, Checked
<1>2. b \in MB!Things
  BY <1>1, FirstIsFree DEF MBInv
<1>3. PICK f : IsList(f)
  BY DEF MBInv, Listed
<1> HIDE DEF b
<1>7. PICK g : g = [i \in 1 .. cold_count' |-> f[i + 1]]
  OBVIOUS
<1>4. cold_count \in Nat /\ cold_count' \in Nat
  BY <1>1 DEF MBInv, MBTyped
<1>5. \A i \in 1 .. cold_count' : i + 1 \in 1 .. cold_count /\ i \in 1 .. cold_count
  BY <1>1, <1>4
<1>6. \A i \in 1 .. cold_count' : f[i + 1] \in MB!Things /\ f[i + 1] # b
  <2> SUFFICES ASSUME NEW i \in 1 .. cold_count' PROVE f[i + 1] \in MB!Things /\ f[i + 1] # b
    OBVIOUS
  <2>1. i + 1 \in 1 .. cold_count /\ 1 \in 1 .. cold_count /\ i + 1 # 1
    BY <1>4, <1>5, <1>1
  <2>2. f[1] = b
    BY <1>1, <1>3 DEF IsList
  <2> QED
    BY <2>1, <2>2, <1>3 DEF IsList
<1>8. IsList(g)'
  <2>1. g \in [1 .. cold_count' -> MB!Things]
    BY <1>6, <1>7
  <2>2. cold_count' > 0 => g[1] = free_blks'
    <3> SUFFICES ASSUME cold_count' > 0 PROVE f[1 + 1] = next[b] /\ 1 \in 1 .. cold_count'
      BY <1>1, <1>7
    <3>1. 1 \in 1 .. cold_count' /\ 1 \in 1 .. cold_count /\ 1 + 1 \in 1 .. cold_count
      BY <1>4, <1>1
    <3>2. f[1] = b /\ next[f[1]] = f[1 + 1]
      BY <3>1, <1>3, <1>1 DEF IsList
    <3> QED
      BY <3>1, <3>2
  <2>3. \A i \in 1 .. cold_count' : lent'[g[i]] = 0
    <3> SUFFICES ASSUME NEW i \in 1 .. cold_count' PROVE lent'[f[i + 1]] = 0
      BY <1>7
    <3>1. lent[f[i + 1]] = 0
      BY <1>3, <1>5 DEF IsList
    <3> QED
      BY <3>1, <1>1, <1>6 DEF MBInv, MBTyped
  <2>4. \A i, j \in 1 .. cold_count' : g[i] = g[j] => i = j
    <3> SUFFICES ASSUME NEW i \in 1 .. cold_count', NEW j \in 1 .. cold_count', f[i + 1] = f[j + 1]
                 PROVE  i = j
      BY <1>7
    <3>1. i + 1 = j + 1
      BY <1>3, <1>5 DEF IsList
    <3> QED
      BY <3>1, <1>4
  <2>5. \A i \in 1 .. cold_count' : i + 1 \in 1 .. cold_count' => next'[g[i]] = g[i + 1]
    <3> SUFFICES ASSUME NEW i \in 1 .. cold_count', i + 1 \in 1 .. cold_count'
                 PROVE  next'[f[i + 1]] = f[i + 1 + 1]
      BY <1>7
    <3>1. next[f[i + 1]] = f[i + 1 + 1]
      BY <1>3, <1>5 DEF IsList
    <3> QED
      BY <3>1, <1>1, <1>6 DEF MBInv, MBTyped
  <2>6. \A c \in MB!Things : lent'[c] = 0 => \E i \in 1 .. cold_count' : g[i] = c
    <3> SUFFICES ASSUME NEW c \in MB!Things, lent'[c] = 0
                 PROVE  \E i \in 1 .. cold_count' : g[i] = c
      OBVIOUS
    <3>1. lent[b] = 0 /\ lent'[b] = 1
      <4>1. 1 \in 1 .. cold_count
        BY <1>1, <1>4
      <4>2. lent[b] = 0
        BY <4>1, <1>1, <1>3 DEF IsList
      <4> QED
        BY <4>2, <1>1, <1>2 DEF MBInv, MBTyped
    <3>2. c # b /\ lent[c] = 0
      BY <3>1, <1>1 DEF MBInv, MBTyped
    <3>3. PICK j \in 1 .. cold_count : f[j] = c
      BY <3>2, <1>3 DEF IsList
    <3>4. j # 1
      BY <3>2, <3>3, <1>1, <1>3 DEF IsList
    <3>5. j - 1 \in 1 .. cold_count' /\ (j - 1) + 1 = j
      BY <3>4, <1>1, <1>4
    <3>6. g[j - 1] = f[j]
      BY <3>5, <1>7
    <3> QED
      BY <3>3, <3>5, <3>6
  <2> QED
    BY <2>1, <2>2, <2>3, <2>4, <2>5, <2>6 DEF IsList
<1> QED
  BY <1>8 DEF Listed

(* mem_put links the block in front of the list.                           *)
LEMMA LinkKeepsList ==
  ASSUME MBInv, NEW t \in Threads, MB!PutLink(t)
  PROVE  Listed'
<1>1. PICK b \in MB!Things :
        /\ b = pdata[t] /\ lent[b] = 1
        /\ cold_count' = cold_count + 1 /\ free_blks' = b
        /\ next' = [next EXCEPT ![b] = free_blks] /\ lent' = [lent EXCEPT ![b] = @ - 1]
  BY DEF MB!PutLink, MB!Goto, MBInv, Returning
<1>2. PICK f : IsList(f)
  BY DEF MBInv, Listed
<1>3. PICK g : g = [i \in 1 .. cold_count' |-> IF i = 1 THEN b ELSE f[i - 1]]
  OBVIOUS
<1>4. cold_count \in Nat /\ cold_count' \in Nat
  BY <1>1 DEF MBInv, MBTyped
<1>5. \A i \in 1 .. cold_count' : i # 1 => i - 1 \in 1 .. cold_count
  BY <1>1, <1>4
<1>6. \A i \in 1 .. cold_count : f[i] \in MB!Things /\ lent[f[i]] = 0 /\ f[i] # b
  BY <1>1, <1>2 DEF IsList
<1>7. g[1] = b /\ \A i \in 1 .. cold_count' : i # 1 => g[i] = f[i - 1]
  BY <1>1, <1>3, <1>4
<1>8. IsList(g)'
  <2>1. g \in [1 .. cold_count' -> MB!Things]
    BY <1>3, <1>5, <1>6
  <2>2. g[1] = free_blks'
    BY <1>1, <1>7
  <2>3. \A i \in 1 .. cold_count' : lent'[g[i]] = 0
    <3> SUFFICES ASSUME NEW i \in 1 .. cold_count' PROVE lent'[g[i]] = 0
      OBVIOUS
    <3>1. CASE i = 1
      BY <3>1, <1>1, <1>7 DEF MBInv, MBTyped
    <3>2. CASE i # 1
      <4>1. g[i] \in MB!Things /\ lent[g[i]] = 0 /\ g[i] # b
        BY <3>2, <1>5, <1>6, <1>7
      <4> QED
        BY <4>1, <1>1 DEF MBInv, MBTyped
    <3> QED
      BY <3>1, <3>2
  <2>4. \A i, j \in 1 .. cold_count' : g[i] = g[j] => i = j
    <3> SUFFICES ASSUME NEW i \in 1 .. cold_count', NEW j \in 1 .. cold_count', g[i] = g[j]
                 PROVE  i = j
      OBVIOUS
    <3>1. CASE i = 1 \/ j = 1
      BY <3>1, <1>5, <1>6, <1>7
    <3>2. CASE i # 1 /\ j # 1
      <4>1. i - 1 = j - 1
        BY <3>2, <1>2, <1>5, <1>7 DEF IsList
      <4> QED
        BY <4>1, <1>4
    <3> QED
      BY <3>1, <3>2
  <2>5. \A i \in 1 .. cold_count' : i + 1 \in 1 .. cold_count' => next'[g[i]] = g[i + 1]
    <3> SUFFICES ASSUME NEW i \in 1 .. cold_count', i + 1 \in 1 .. cold_count'
                 PROVE  next'[g[i]] = g[i + 1]
      OBVIOUS
    <3>1. i + 1 # 1 /\ (i + 1) - 1 = i /\ i \in 1 .. cold_count
      BY <1>1, <1>4
    <3>2. g[i + 1] = f[i]
      BY <3>1, <1>7
    <3>3. CASE i = 1
      <4>1. next'[b] = free_blks
        BY <1>1 DEF MBInv, MBTyped
      <4>2. f[1] = free_blks
        BY <3>1, <3>3, <1>2, <1>4 DEF IsList
      <4> QED
        BY <4>1, <4>2, <3>2, <3>3, <1>7
    <3>4. CASE i # 1
      <4>1. i - 1 \in 1 .. cold_count /\ (i - 1) + 1 = i /\ g[i] = f[i - 1]
        BY <3>4, <1>5, <1>7, <1>4
      <4>2. next[f[i - 1]] = f[i]
        BY <4>1, <3>1, <1>2 DEF IsList
      <4>3. next'[f[i - 1]] = next[f[i - 1]]
        BY <4>1, <1>6, <1>1 DEF MBInv, MBTyped
      <4> QED
        BY <4>1, <4>2, <4>3, <3>2
    <3> QED
      BY <3>3, <3>4
  <2>6. \A c \in MB!Things : lent'[c] = 0 => \E i \in 1 .. cold_count' : g[i] = c
    <3> SUFFICES ASSUME NEW c \in MB!Things, lent'[c] = 0
                 PROVE  \E i \in 1 .. cold_count' : g[i] = c
      OBVIOUS
    <3>1. CASE c = b
      BY <3>1, <1>1, <1>4, <1>7
    <3>2. CASE c # b
      <4>1. lent[c] = 0
        BY <3>2, <1>1 DEF MBInv, MBTyped
      <4>2. PICK j \in 1 .. cold_count : f[j] = c
        BY <4>1, <1>2 DEF IsList
      <4>3. j + 1 \in 1 .. cold_count' /\ j + 1 # 1 /\ (j + 1) - 1 = j
        BY <1>1, <1>4
      <4>4. g[j + 1] = f[j]
        BY <4>3, <1>7
      <4> QED
        BY <4>2, <4>3, <4>4
    <3> QED
      BY <3>1, <3>2
  <2> QED
    BY <2>1, <2>2, <2>3, <2>4, <2>5, <2>6 DEF IsList
<1> QED
  BY <1>8 DEF Listed

LEMMA MBInvNext == MBInv /\ [MB!Next]_MB!mb_vars => MBInv'
<1> SUFFICES ASSUME MBInv, [MB!Next]_MB!mb_vars PROVE MBInv'
  OBVIOUS
<1> USE DEF MBInv, InLock
<1>1. ASSUME NEW t \in Threads, MB!GetLock(t) PROVE MBInv'
  <2>1. MBTyped' /\ Alone'
    BY <1>1 DEF MB!GetLock, MB!Goto, MB!AtomicLockOn, MB!CAS, MBTyped, Alone, MB!FAST_LOCK_OFF, MB!FAST_LOCK_ON
  <2>2. Checked' /\ Returning'
    BY <1>1 DEF MB!GetLock, MB!Goto, MBTyped, Checked, Returning
  <2>3. Listed'
    BY <1>1, ListKept DEF MB!GetLock
  <2> QED
    BY <2>1, <2>2, <2>3
<1>2. ASSUME NEW t \in Threads, MB!GetTake(t) PROVE MBInv'
  <2>1. MBTyped' /\ Alone'
    <3>1. free_blks \in MB!Things
      BY <1>2, FirstIsFree DEF MB!GetTake
    <3> QED
      BY <3>1, <1>2 DEF MB!GetTake, MB!Goto, MBTyped, Alone
  <2>2. Checked'
    BY <1>2 DEF MB!GetTake, MB!Goto, MBTyped, Checked
  <2>3. Returning'
    BY <1>2 DEF MB!GetTake, MB!Goto, MBTyped, Returning
  <2>4. Listed'
    BY <1>2, ListKept DEF MB!GetTake
  <2> QED
    BY <2>1, <2>2, <2>3, <2>4
<1>3. ASSUME NEW t \in Threads, MB!GetNone(t) PROVE MBInv'
  <2>1. MBTyped' /\ Alone'
    BY <1>3 DEF MB!GetNone, MB!Goto, MBTyped, Alone
  <2>2. Checked' /\ Returning'
    BY <1>3 DEF MB!GetNone, MB!Goto, MBTyped, Checked, Returning
  <2>3. Listed'
    BY <1>3, ListKept DEF MB!GetNone
  <2> QED
    BY <2>1, <2>2, <2>3
<1>4. ASSUME NEW t \in Threads, MB!GetUnlink(t) PROVE MBInv'
  <2>1. PICK b \in MB!Things :
          /\ b = pdata[t] /\ lent[b] = 0 /\ cold_count > 0
          /\ free_blks' = next[b] /\ next' = [next EXCEPT ![b] = MB!MBLKS]
          /\ cold_count' = cold_count - 1 /\ lent' = [lent EXCEPT ![b] = @ + 1]
          /\ hot_count' = hot_count + 1
    BY <1>4, FirstIsFree DEF MB!GetUnlink, MB!Goto, Checked
  <2>2. at[t] = "unlink" /\ at' = [at EXCEPT ![t] = "unlock"] /\ UNCHANGED <<lock, pdata>>
    BY <1>4 DEF MB!GetUnlink, MB!Goto
  <2>3. MBTyped'
    BY <2>1, <2>2, SyncAssumption DEF MBTyped, MB!MBLKS, MB!PastEnd
  <2>4. Alone' /\ Checked'
    BY <2>1, <2>2 DEF MBTyped, Alone, Checked
  <2>5. Returning'
    BY <2>1, <2>2 DEF MBTyped, Returning
  <2>6. Listed'
    BY <1>4, UnlinkKeepsList
  <2> QED
    BY <2>3, <2>4, <2>5, <2>6
<1>5. ASSUME NEW t \in Threads, NEW b \in MB!Things, MB!PutBegin(t, b) PROVE MBInv'
  <2>1. MBTyped' /\ Alone' /\ Checked'
    BY <1>5 DEF MB!PutBegin, MB!Goto, MBTyped, Alone, Checked
  <2>2. Returning'
    BY <1>5 DEF MB!PutBegin, MB!Goto, MBTyped, Returning
  <2>3. Listed'
    BY <1>5, ListKept DEF MB!PutBegin
  <2> QED
    BY <2>1, <2>2, <2>3
<1>6. ASSUME NEW t \in Threads, MB!PutLock(t) PROVE MBInv'
  <2>1. MBTyped' /\ Alone'
    BY <1>6 DEF MB!PutLock, MB!Goto, MB!AtomicLockOn, MB!CAS, MBTyped, Alone, MB!FAST_LOCK_OFF, MB!FAST_LOCK_ON
  <2>2. Checked' /\ Returning'
    BY <1>6 DEF MB!PutLock, MB!Goto, MBTyped, Checked, Returning
  <2>3. Listed'
    BY <1>6, ListKept DEF MB!PutLock
  <2> QED
    BY <2>1, <2>2, <2>3
<1>7. ASSUME NEW t \in Threads, MB!PutLink(t) PROVE MBInv'
  <2>1. PICK b \in MB!Things :
          /\ b = pdata[t] /\ lent[b] = 1
          /\ cold_count' = cold_count + 1 /\ free_blks' = b
          /\ next' = [next EXCEPT ![b] = free_blks] /\ lent' = [lent EXCEPT ![b] = @ - 1]
          /\ hot_count' = hot_count - 1
    BY <1>7 DEF MB!PutLink, MB!Goto, Returning
  <2>2. at[t] = "link" /\ at' = [at EXCEPT ![t] = "unlock"] /\ UNCHANGED <<lock, pdata>>
    BY <1>7 DEF MB!PutLink, MB!Goto
  <2>3. MBTyped'
    BY <2>1, <2>2, SyncAssumption DEF MBTyped, MB!Things, MB!PastEnd
  <2>4. Alone' /\ Checked'
    BY <2>1, <2>2 DEF MBTyped, Alone, Checked
  <2>5. Returning'
    BY <2>1, <2>2 DEF MBTyped, Returning
  <2>6. Listed'
    BY <1>7, LinkKeepsList
  <2> QED
    BY <2>3, <2>4, <2>5, <2>6
<1>8. ASSUME NEW t \in Threads, MB!Unlock(t) PROVE MBInv'
  <2>1. MBTyped' /\ Alone'
    BY <1>8 DEF MB!Unlock, MB!Goto, MB!AtomicLockOff, MB!CAS, MBTyped, Alone, MB!FAST_LOCK_OFF, MB!FAST_LOCK_ON
  <2>2. Checked' /\ Returning'
    BY <1>8 DEF MB!Unlock, MB!Goto, MBTyped, Checked, Returning
  <2>3. Listed'
    BY <1>8, ListKept DEF MB!Unlock
  <2> QED
    BY <2>1, <2>2, <2>3
<1>9. CASE UNCHANGED MB!mb_vars
  <2>1. MBTyped' /\ Alone' /\ Checked' /\ Returning'
    BY <1>9 DEF MB!mb_vars, MBTyped, Alone, Checked, Returning
  <2>2. Listed'
    BY <1>9, ListKept DEF MB!mb_vars
  <2> QED
    BY <2>1, <2>2
<1> QED
  BY <1>1, <1>2, <1>3, <1>4, <1>5, <1>6, <1>7, <1>8, <1>9 DEF MB!Next, MB!Inside

(* Under the atomic lock, mem_get and mem_put work on the list one thread  *)
(* at a time.                                                              *)
THEOREM OneInside ==
  ASSUME count \in Nat
  PROVE  MB!Spec => []Alone
<1>1. MBInv => Alone
  BY DEF MBInv
<1> QED
  BY MBInvInit, MBInvNext, <1>1, PTL DEF MB!Spec

(* The list in the blocks themselves is sound at every step: the first     *)
(* cold_count blocks from free_blks on are different blocks of the pool    *)
(* that nobody has, so that mem_get never follows the last pointer.        *)
THEOREM FreeListSound ==
  ASSUME count \in Nat
  PROVE  MB!Spec => []Listed
<1>1. MBInv => Listed
  BY DEF MBInv
<1> QED
  BY MBInvInit, MBInvNext, <1>1, PTL DEF MB!Spec

(* mem_get and mem_put implement lending: a block that a thread has is not *)
(* given to another before it came back.                                   *)
THEOREM BlocksImplementLoans ==
  ASSUME count \in Nat
  PROVE  MB!Spec => MB!Lending!Spec
<1>1. MB!Init => MB!Lending!Init
  BY DEF MB!Init, MB!Lending!Init
<1>2. MBInv /\ [MB!Next]_MB!mb_vars => [MB!Lending!Next]_lent
  <2> SUFFICES ASSUME MBInv, [MB!Next]_MB!mb_vars PROVE [MB!Lending!Next]_lent
    OBVIOUS
  <2>1. ASSUME NEW t \in Threads, MB!GetUnlink(t) PROVE MB!Lending!Next
    <3>1. pdata[t] \in MB!Things /\ lent[pdata[t]] = 0
      BY <2>1, FirstIsFree DEF MB!GetUnlink, MB!Goto, MBInv, Checked
    <3>2. lent' = [lent EXCEPT ![pdata[t]] = 1]
      BY <2>1, <3>1 DEF MB!GetUnlink, MBInv, MBTyped
    <3> QED
      BY <3>1, <3>2 DEF MB!Lending!Next, MB!Lending!Lend
  <2>2. ASSUME NEW t \in Threads, MB!PutLink(t) PROVE MB!Lending!Next
    <3>1. pdata[t] \in MB!Things /\ lent[pdata[t]] = 1
      BY <2>2 DEF MB!PutLink, MB!Goto, MBInv, Returning
    <3>2. lent' = [lent EXCEPT ![pdata[t]] = 0]
      BY <2>2, <3>1 DEF MB!PutLink, MBInv, MBTyped
    <3> QED
      BY <3>1, <3>2 DEF MB!Lending!Next, MB!Lending!Return
  <2>3. ASSUME NEW t \in Threads,
               MB!GetLock(t) \/ MB!GetTake(t) \/ MB!GetNone(t) \/ MB!PutLock(t) \/ MB!Unlock(t)
                 \/ \E b \in MB!Things : MB!PutBegin(t, b)
        PROVE  UNCHANGED lent
    BY <2>3 DEF MB!GetLock, MB!GetTake, MB!GetNone, MB!PutLock, MB!Unlock, MB!PutBegin
  <2>4. CASE UNCHANGED MB!mb_vars
    BY <2>4 DEF MB!mb_vars
  <2> QED
    BY <2>1, <2>2, <2>3, <2>4 DEF MB!Next, MB!Inside
<1> QED
  BY MBInvInit, MBInvNext, <1>1, <1>2, PTL DEF MB!Spec, MB!Lending!Spec

(* The walk over next from free_blks, cold_count long, is the list.        *)
LEMMA WalkIsList ==
  ASSUME MBInv, NEW f, IsList(f)
  PROVE  MB!Nth = f
<1> DEFINE G(h) == [i \in 1 .. cold_count |->
      IF i = 1 THEN free_blks
      ELSE IF h[i - 1] \in MB!Things THEN next[h[i - 1]] ELSE MB!PastEnd]
<1>1. cold_count \in Nat /\ f \in [1 .. cold_count -> MB!Things]
  BY DEF MBInv, MBTyped, IsList
<1>2. f = G(f)
  <2>1. ASSUME NEW i \in 1 .. cold_count PROVE f[i] = G(f)[i]
    <3>1. CASE i = 1
      BY <3>1, <1>1 DEF IsList
    <3>2. CASE i # 1
      <4>1. i - 1 \in 1 .. cold_count /\ (i - 1) + 1 = i
        BY <3>2, <1>1
      <4>2. next[f[i - 1]] = f[i] /\ f[i - 1] \in MB!Things
        BY <4>1, <1>1 DEF IsList
      <4> QED
        BY <4>2, <3>2
    <3> QED
      BY <3>1, <3>2
  <2> QED
    BY <2>1, <1>1
<1>3. MB!Nth = G(MB!Nth)
  <2>1. MB!Nth = CHOOSE h : h = G(h)
    BY DEF MB!Nth
  <2> HIDE DEF G
  <2> QED
    BY <2>1, <1>2
<1>4. PICK h : h = MB!Nth
  OBVIOUS
<1>5. /\ DOMAIN h = 1 .. cold_count
      /\ \A i \in 1 .. cold_count : h[i] = IF i = 1 THEN free_blks
           ELSE IF h[i - 1] \in MB!Things THEN next[h[i - 1]] ELSE MB!PastEnd
  BY <1>3, <1>4
<1> HIDE DEF G
<1>6. PICK D : D = {i \in 1 .. cold_count : h[i] # f[i]}
  OBVIOUS
<1>7. ASSUME D # {} PROVE FALSE
  <2>1. D \in SUBSET Nat
    BY <1>1, <1>6
  <2>2. PICK m \in D : \A k \in D : m <= k
    BY <2>1, <1>7, LeastOf
  <2>3. m \in 1 .. cold_count /\ h[m] # f[m]
    BY <2>2, <1>6
  <2>4. CASE m = 1
    BY <2>3, <2>4, <1>1, <1>5 DEF IsList
  <2>5. CASE m # 1
    <3>1. m - 1 \in 1 .. cold_count /\ ~(m <= m - 1) /\ (m - 1) + 1 = m
      BY <2>3, <2>5, <1>1
    <3>2. h[m - 1] = f[m - 1]
      BY <3>1, <2>2, <1>6
    <3>3. h[m] = next[f[m - 1]]
      BY <3>1, <3>2, <2>3, <2>5, <1>1, <1>5
    <3>4. next[f[m - 1]] = f[m]
      BY <3>1, <2>3 DEF IsList
    <3> QED
      BY <3>3, <3>4, <2>3
  <2> QED
    BY <2>4, <2>5
<1>8. \A i \in 1 .. cold_count : h[i] = f[i]
  BY <1>6, <1>7
<1>9. h = [i \in 1 .. cold_count |-> h[i]]
  BY <1>3, <1>4, <1>5 DEF G
<1> QED
  BY <1>1, <1>4, <1>8, <1>9

(* So the blocks on the list are those that nobody has, cold_count of      *)
(* them, and the counters stay within the number of blocks.                *)
LEMMA ColdIsUnlent ==
  ASSUME MBInv
  PROVE  /\ MB!Cold = {b \in MB!Things : lent[b] = 0}
         /\ Cardinality(MB!Cold) = cold_count
         /\ cold_count <= count
<1>1. PICK f : IsList(f)
  BY DEF MBInv, Listed
<1>2. MB!Cold = {f[i] : i \in 1 .. cold_count}
  BY <1>1, WalkIsList DEF MB!Cold
<1>3. cold_count \in Nat /\ f \in [1 .. cold_count -> MB!Things]
  BY <1>1 DEF MBInv, MBTyped, IsList
<1>4. MB!Cold = {b \in MB!Things : lent[b] = 0}
  BY <1>1, <1>2, <1>3 DEF IsList
<1>5. f \in Bijection(1 .. cold_count, MB!Cold)
  <2>1. f \in [1 .. cold_count -> MB!Cold]
    BY <1>2, <1>3
  <2>2. \A i, j \in 1 .. cold_count : f[i] = f[j] => i = j
    BY <1>1 DEF IsList
  <2>3. \A b \in MB!Cold : \E i \in 1 .. cold_count : f[i] = b
    BY <1>2
  <2> QED
    BY <2>1, <2>2, <2>3 DEF Bijection, Injection, IsInjective, Surjection
<1>6. Cardinality(MB!Cold) = cold_count
  BY <1>3, <1>5, FS_CountingElements DEF ExistsBijection
<1>7. cold_count <= count
  <2>1. IsFiniteSet(MB!Things) /\ Cardinality(MB!Things) = count
    BY FS_Interval, SyncAssumption DEF MB!Things
  <2>2. MB!Cold \in SUBSET MB!Things
    BY <1>4
  <2> QED
    BY <2>1, <2>2, <1>6, FS_Subset
<1> QED
  BY <1>4, <1>6, <1>7

(* mem_get and mem_put keep the list and its two counters right: the       *)
(* cold_count blocks reached from free_blks are exactly those nobody has,  *)
(* at every step.                                                          *)
THEOREM ListStaysExact == MB!Spec => [](MB!TypeOK /\ MB!ListExact)
<1>1. MBInv => MB!TypeOK /\ MB!ListExact
  <2> SUFFICES ASSUME MBInv PROVE MB!TypeOK /\ MB!ListExact
    OBVIOUS
  <2>1. hot_count + cold_count = count /\ cold_count \in Nat /\ cold_count <= count /\ hot_count \in Int
    BY ColdIsUnlent DEF MBInv, MBTyped
  <2>2. hot_count \in 0 .. count /\ cold_count \in 0 .. count
    BY <2>1, SyncAssumption
  <2>3. MB!TypeOK
    BY <2>2 DEF MBInv, MBTyped, Alone, InLock, MB!TypeOK
  <2>4. MB!ListExact
    <3>1. MB!Cold = {b \in MB!Things : lent[b] = 0}
      BY ColdIsUnlent
    <3>2. Cardinality(MB!Cold) = cold_count
      BY ColdIsUnlent
    <3>3. MB!Cardinality(MB!Cold) = Cardinality(MB!Cold)
      BY DEF MB!Cardinality, Cardinality
    <3> QED
      BY <2>1, <3>1, <3>2, <3>3 DEF MB!ListExact
  <2> QED
    BY <2>3, <2>4
<1>2. count \in Nat
  BY SyncAssumption
<1> QED
  BY MBInvInit, MBInvNext, <1>1, <1>2, PTL DEF MB!Spec

-----------------------------------------------------------------------------
(* Notices. *)


(* Without a pipe there is nothing in it and no wake-up was possible.      *)
NothingBefore == notice # "ready" => pipe = 0 /\ reader = "wait" /\ ~unseen

NTInv == NT!TypeOK /\ NothingBefore /\ NT!NoLostWakeUp

LEMMA NTInvInit ==
  ASSUME NT!NoticeAssumption
  PROVE  NT!Init => NTInv
<1> SUFFICES ASSUME NT!Init PROVE NTInv
  OBVIOUS
<1>1. pipe \in 0 .. PipeSize
  BY DEF NT!NoticeAssumption, NT!Init
<1>2. NT!TypeOK
  BY <1>1, Zenon DEF NT!Init, NT!TypeOK
<1>3. NothingBefore /\ NT!NoLostWakeUp
  BY Zenon DEF NT!Init, NothingBefore, NT!NoLostWakeUp
<1> QED
  BY <1>2, <1>3 DEF NTInv

LEMMA NTInvNext ==
  ASSUME NT!NoticeAssumption
  PROVE  NTInv /\ [NT!Next]_NT!notice_vars => NTInv'
<1> SUFFICES ASSUME NTInv, [NT!Next]_NT!notice_vars PROVE NTInv'
  OBVIOUS
<1> USE DEF NT!NoticeAssumption, NTInv, NT!TypeOK, NothingBefore, NT!NoLostWakeUp
<1>1. CASE NT!PipeOpen
  BY <1>1 DEF NT!PipeOpen
<1>2. CASE NT!NoticeInit
  BY <1>2 DEF NT!NoticeInit, NT!PipeClose
<1>3. CASE NT!NoticeWakeUp
  BY <1>3 DEF NT!NoticeWakeUp
<1>4. CASE NT!Readable
  BY <1>4 DEF NT!Readable
<1>5. CASE NT!Read
  BY <1>5 DEF NT!Read
<1>6. CASE NT!ReadNothing
  BY <1>6 DEF NT!ReadNothing
<1>7. CASE NT!CallBack
  BY <1>7 DEF NT!CallBack
<1>8. CASE UNCHANGED NT!notice_vars
  BY <1>8 DEF NT!notice_vars
<1> QED
  BY <1>1, <1>2, <1>3, <1>4, <1>5, <1>6, <1>7, <1>8 DEF NT!Next, NT!Loop

(* notice_wake_up may drop its byte when the pipe is full, and the handler *)
(* reads several wake-ups at once: still a wake-up that was not called     *)
(* back for is in the pipe, or the handler is on its way to the call.      *)
THEOREM WakeUpKept ==
  ASSUME NT!NoticeAssumption
  PROVE  NT!Spec => []NT!NoLostWakeUp
<1>1. NTInv => NT!NoLostWakeUp
  BY DEF NTInv
<1> QED
  BY NTInvInit, NTInvNext, <1>1, PTL DEF NT!Spec

-----------------------------------------------------------------------------
(* Listening sockets. *)

Listener == [addr : Addresses, ignore : BOOLEAN,
             fd : Sockets \cup {NoSocket}, conn : Sockets \cup {NoSocket, NULL}]

LITyped ==
  /\ ls \in Seq(Listener) /\ open \subseteq Sockets
  /\ work \in [at : {"idle", "open", "add"}, i : Nat, tries : Int, failed : BOOLEAN,
               ret : {"none", "ok", "error", "served", "deleted"}]

Listens(j) == ls[j].ignore \/ ls[j].fd \in open

(* A function that runs has not returned; while conn_listening_open runs,  *)
(* failed says whether a listener it has passed does not listen, and after *)
(* FAST_OK all do.                                                         *)
Told ==
  /\ work.at # "idle" => work.ret = "none"
  /\ work.at = "open" =>
       work.i >= 1 /\ (work.failed <=> \E j \in DOMAIN ls : j < work.i /\ ~Listens(j))
  /\ work.ret = "ok" => \A j \in DOMAIN ls : Listens(j)

FirstRegistered == ls[1].fd \in DOMAIN registered /\ registered[ls[1].fd] = 1

(* Every connection made is of the first listener's socket, or was made    *)
(* before it had one: the call can only succeed for one listener.          *)
OneServed ==
  /\ \A j \in DOMAIN ls : ls[j].conn \in {NULL, NoSocket, ls[1].fd}
  /\ work.at = "add" =>
       ls # << >> /\ work.i \in {1, 2} /\ (work.i = 2 => FirstRegistered)
  /\ work.ret = "served" => Len(ls) = 1 /\ FirstRegistered

LIInv == LITyped /\ LI!NoSocketLost /\ Told /\ OneServed

LEMMA LIInvInit == LI!ListenInit => LIInv
<1> SUFFICES ASSUME LI!ListenInit PROVE LIInv
  OBVIOUS
<1>1. ls = << >> /\ DOMAIN ls = {} /\ open = {} /\ ls \in Seq(Listener)
  BY DEF LI!ListenInit
<1>2. work \in [at : {"idle", "open", "add"}, i : Nat, tries : Int, failed : BOOLEAN,
                ret : {"none", "ok", "error", "served", "deleted"}]
      /\ work.at = "idle" /\ work.ret = "none"
  BY DEF LI!ListenInit, LI!Idle
<1> QED
  BY <1>1, <1>2 DEF LIInv, LITyped, LI!NoSocketLost, Told, OneServed

LEMMA LIProves == LIInv => ListenersTrue
<1> SUFFICES ASSUME LIInv PROVE ListenersTrue
  OBVIOUS
<1>0. DOMAIN ls = 1 .. Len(ls) /\ Len(ls) \in Nat
  BY DEF LIInv, LITyped
<1>1. LI!OpenTrue
  <2>1. work.at = "open" /\ work.i \notin DOMAIN ls => \A j \in DOMAIN ls : j < work.i
    BY <1>0 DEF LIInv, LITyped, Told
  <2> QED
    BY <2>1 DEF LIInv, Told, Listens, LI!OpenTrue
<1>2. LI!AddedIsServed
  BY <1>0 DEF LIInv, OneServed, FirstRegistered, LI!AddedIsServed
<1> QED
  BY <1>1, <1>2 DEF LIInv, ListenersTrue

(* A function that returns, or the program doing something else, leaves    *)
(* a call's result that means nothing.                                     *)
LEMMA LIRest ==
  ASSUME LIInv, UNCHANGED <<ls, open>>,
         NEW ret \in {"none", "error", "deleted"}, LI!Return(ret)
  PROVE  LIInv'
<1>1. work' \in [at : {"idle", "open", "add"}, i : Nat, tries : Int, failed : BOOLEAN,
                 ret : {"none", "ok", "error", "served", "deleted"}]
      /\ work'.at = "idle" /\ work'.ret = ret
  <2>1. work' = [at |-> "idle", i |-> 0, tries |-> 0, failed |-> FALSE, ret |-> ret]
    BY DEF LI!Return, LI!Idle
  <2> QED
    BY <2>1
<1>2. LITyped' /\ LI!NoSocketLost'
  BY <1>1 DEF LIInv, LITyped, LI!NoSocketLost
<1>3. Told' /\ OneServed'
  BY <1>1 DEF LIInv, Told, OneServed
<1> QED
  BY <1>2, <1>3 DEF LIInv

LEMMA LIAdd == ASSUME LIInv, LI!ListeningAdd PROVE LIInv'
<1>1. PICK addr \in Addresses, ignore \in BOOLEAN :
        /\ work.at = "idle" /\ work' = LI!Idle /\ UNCHANGED <<open, used, registered>>
        /\ ls' = Append(ls, [addr |-> addr, ignore |-> ignore, fd |-> NoSocket, conn |-> NULL])
  BY DEF LI!ListeningAdd
<1>2. PICK l \in Listener : l.fd = NoSocket /\ l.conn = NULL /\ ls' = Append(ls, l)
  BY <1>1 DEF Listener
<1>3. /\ ls \in Seq(Listener) /\ Len(ls) \in Nat /\ ls' \in Seq(Listener)
      /\ DOMAIN ls = 1 .. Len(ls) /\ DOMAIN ls' = 1 .. Len(ls) + 1
      /\ \A j \in 1 .. Len(ls) : ls'[j] = ls[j]
      /\ ls'[Len(ls) + 1] = l
  BY <1>2 DEF LIInv, LITyped
<1>4. work' \in [at : {"idle", "open", "add"}, i : Nat, tries : Int, failed : BOOLEAN,
                 ret : {"none", "ok", "error", "served", "deleted"}]
      /\ work'.at = "idle" /\ work'.ret = "none"
  BY <1>1 DEF LI!Idle
<1>5. LITyped' /\ Told'
  BY <1>1, <1>3, <1>4 DEF LIInv, LITyped, Told
<1>6. \A j \in DOMAIN ls' : j \in DOMAIN ls \/ j = Len(ls) + 1
  BY <1>3
<1>7. LI!NoSocketLost'
  <2>1. {ls'[j].fd : j \in DOMAIN ls'} \ {NoSocket} = {ls[j].fd : j \in DOMAIN ls} \ {NoSocket}
    BY <1>2, <1>3
  <2>2. \A i, j \in DOMAIN ls' : i # j /\ ls'[i].fd # NoSocket => ls'[i].fd # ls'[j].fd
    BY <1>2, <1>3, <1>6 DEF LIInv, LI!NoSocketLost
  <2> QED
    BY <2>1, <2>2, <1>1 DEF LIInv, LI!NoSocketLost
<1>8. OneServed'
  <2>1. ASSUME NEW j \in DOMAIN ls' PROVE ls'[j].conn \in {NULL, NoSocket, ls'[1].fd}
    <3>1. CASE j = Len(ls) + 1
      BY <3>1, <1>2, <1>3
    <3>2. CASE j \in DOMAIN ls
      <4>1. 1 \in 1 .. Len(ls)
        BY <3>2, <1>3
      <4> QED
        BY <4>1, <3>2, <1>3 DEF LIInv, OneServed
    <3> QED
      BY <3>1, <3>2, <1>6
  <2> QED
    BY <2>1, <1>4 DEF OneServed
<1> QED
  BY <1>5, <1>7, <1>8 DEF LIInv

(* The passing of conn_listening_open over one listener.                   *)
LEMMA LIPass ==
  ASSUME LIInv, work.at = "open", work.i \in DOMAIN ls, NEW failed \in BOOLEAN,
         UNCHANGED <<ls, open>>,
         work' = [work EXCEPT !.i = @ + 1, !.failed = failed],
         failed <=> work.failed \/ ~Listens(work.i)
  PROVE  LIInv'
<1>0. DOMAIN ls = 1 .. Len(ls) /\ Len(ls) \in Nat /\ work.i \in Nat
  BY DEF LIInv, LITyped
<1>1. work' \in [at : {"idle", "open", "add"}, i : Nat, tries : Int, failed : BOOLEAN,
                 ret : {"none", "ok", "error", "served", "deleted"}]
      /\ work'.at = "open" /\ work'.i = work.i + 1 /\ work'.failed = failed /\ work'.ret = "none"
  <2>1. work.at = "open" /\ work.ret = "none"
    BY DEF LIInv, Told
  <2>2. work \in [at : {"idle", "open", "add"}, i : Nat, tries : Int, failed : BOOLEAN,
                  ret : {"none", "ok", "error", "served", "deleted"}]
    BY DEF LIInv, LITyped
  <2>3. work' = [at |-> work.at, i |-> work.i + 1, tries |-> work.tries, failed |-> failed,
                 ret |-> work.ret]
    BY <2>2
  <2> QED
    BY <2>1, <2>2, <2>3, <1>0
<1>2. LITyped' /\ LI!NoSocketLost' /\ OneServed'
  BY <1>1 DEF LIInv, LITyped, LI!NoSocketLost, OneServed
<1>3. \A j \in DOMAIN ls : Listens(j)' <=> Listens(j)
  BY DEF Listens
<1>4. \A j \in DOMAIN ls : j < work.i + 1 <=> j < work.i \/ j = work.i
  BY <1>0
<1>5. Told'
  <2>1. failed <=> \E j \in DOMAIN ls : j < work.i + 1 /\ ~Listens(j)
    BY <1>4 DEF LIInv, Told
  <2>2. work.i + 1 >= 1
    BY <1>0
  <2> QED
    BY <2>1, <2>2, <1>1, <1>3 DEF Told
<1> QED
  BY <1>2, <1>5 DEF LIInv

LEMMA LIListens == ASSUME LIInv, LI!OpenListens PROVE LIInv'
<1>0. PICK n : n = work.i
  OBVIOUS
<1>1. PICK s \in Sockets \ open :
        /\ work.at = "open" /\ n \in DOMAIN ls /\ ~ls[n].ignore /\ ls[n].fd = NoSocket
        /\ ls' = [ls EXCEPT ![n].fd = s] /\ open' = open \cup {s}
        /\ work' = [work EXCEPT !.i = @ + 1] /\ UNCHANGED registered
  BY <1>0 DEF LI!OpenListens, LI!Opening, LI!Skipped
<1>2. NoSocket \notin Sockets /\ NULL \notin Sockets \cup {NoSocket}
  BY SyncAssumption DEF LI!ListenAssumption
<1>3. /\ ls \in Seq(Listener) /\ Len(ls) \in Nat /\ DOMAIN ls = 1 .. Len(ls)
      /\ \A j \in DOMAIN ls : ls[j] \in Listener
      /\ n \in Nat
  BY <1>0 DEF LIInv, LITyped
<1>4. PICK l \in Listener :
        /\ l = [ls[n] EXCEPT !.fd = s] /\ l.fd = s /\ l.conn = ls[n].conn /\ l.ignore = ls[n].ignore
        /\ ls' = [ls EXCEPT ![n] = l]
  BY <1>1, <1>3 DEF Listener
<1>5. /\ ls' \in Seq(Listener) /\ DOMAIN ls' = DOMAIN ls /\ Len(ls') = Len(ls)
      /\ ls'[n] = l /\ \A j \in DOMAIN ls : j # n => ls'[j] = ls[j]
  BY <1>1, <1>3, <1>4
<1>6. work' \in [at : {"idle", "open", "add"}, i : Nat, tries : Int, failed : BOOLEAN,
                 ret : {"none", "ok", "error", "served", "deleted"}]
      /\ work'.at = "open" /\ work'.i = n + 1 /\ work'.failed = work.failed /\ work'.ret = "none"
  BY <1>0, <1>1 DEF LIInv, LITyped, Told
<1>7. LITyped'
  BY <1>1, <1>5, <1>6 DEF LIInv, LITyped
<1>8. \A j \in DOMAIN ls : ls[j].fd # s
  BY <1>1, <1>2 DEF LIInv, LI!NoSocketLost
<1>9. LI!NoSocketLost'
  <2>1. open' = {ls'[j].fd : j \in DOMAIN ls'} \ {NoSocket}
    <3>1. \A x \in open : \E j \in DOMAIN ls : ls[j].fd = x /\ x # NoSocket
      BY DEF LIInv, LI!NoSocketLost
    <3>2. \A j \in DOMAIN ls : ls[j].fd # NoSocket => ls[j].fd \in open
      BY DEF LIInv, LI!NoSocketLost
    <3>3. \A x \in open' : \E j \in DOMAIN ls' : ls'[j].fd = x /\ x # NoSocket
      BY <3>1, <1>1, <1>2, <1>4, <1>5
    <3>4. \A j \in DOMAIN ls' : ls'[j].fd # NoSocket => ls'[j].fd \in open'
      BY <3>2, <1>1, <1>4, <1>5
    <3> QED
      BY <3>3, <3>4
  <2>2. \A i, j \in DOMAIN ls' : i # j /\ ls'[i].fd # NoSocket => ls'[i].fd # ls'[j].fd
    BY <1>4, <1>5, <1>8 DEF LIInv, LI!NoSocketLost
  <2> QED
    BY <2>1, <2>2 DEF LI!NoSocketLost
<1>10. Told'
  <2>1. \A j \in DOMAIN ls : j # n => (Listens(j)' <=> Listens(j))
    <3> SUFFICES ASSUME NEW j \in DOMAIN ls, j # n PROVE Listens(j)' <=> Listens(j)
      OBVIOUS
    <3> QED
      BY <1>1, <1>5, <1>8 DEF Listens
  <2>2. Listens(n)'
    BY <1>1, <1>4, <1>5 DEF Listens
  <2>3. \A j \in DOMAIN ls : j < n + 1 <=> j < n \/ j = n
    BY <1>3
  <2>4. \A j \in DOMAIN ls : j < n => j # n
    BY <1>3
  <2>5. work.failed <=> \E j \in DOMAIN ls : j < n /\ ~Listens(j)
    BY <1>0, <1>1 DEF LIInv, Told
  <2>6. work'.failed <=> \E j \in DOMAIN ls' : j < n + 1 /\ ~Listens(j)'
    BY <2>1, <2>2, <2>3, <2>4, <2>5, <1>5, <1>6
  <2>7. n + 1 >= 1
    BY <1>3
  <2> QED
    BY <2>6, <2>7, <1>6 DEF Told
<1>11. OneServed'
  <2>1. ASSUME NEW j \in DOMAIN ls' PROVE ls'[j].conn \in {NULL, NoSocket, ls'[1].fd}
    <3>1. 1 \in DOMAIN ls /\ ls'[j].conn = ls[j].conn
      BY <1>1, <1>3, <1>4, <1>5
    <3>2. ls[j].conn \in {NULL, NoSocket, ls[1].fd}
      BY <1>5 DEF LIInv, OneServed
    <3>3. ls[1].fd = NoSocket \/ ls'[1].fd = ls[1].fd
      BY <3>1, <1>1, <1>4, <1>5
    <3> QED
      BY <3>1, <3>2, <3>3
  <2> QED
    BY <2>1, <1>6 DEF OneServed
<1> QED
  BY <1>7, <1>9, <1>10, <1>11 DEF LIInv

(* epoll takes the first listener's socket once: a second element's        *)
(* connection, which is of that socket too, ends the call.                 *)
LEMMA LIAddEvent == ASSUME LIInv, LI!AddEvent PROVE LIInv'
<1>0. PICK n : n = work.i
  OBVIOUS
<1>1. PICK s : s = LI!ConnOf(n)
  OBVIOUS
<1>2. /\ work.at = "add" /\ n \in DOMAIN ls /\ ls' = [ls EXCEPT ![n].conn = s]
      /\ UNCHANGED <<open, used>>
      /\ IF s \in open /\ s \notin DOMAIN registered
         THEN /\ registered' = [r \in DOMAIN registered \cup {s} |-> IF r = s THEN n ELSE registered[r]]
              /\ work' = [work EXCEPT !.i = @ + 1]
         ELSE LI!Return("error") /\ UNCHANGED registered
  BY <1>0, <1>1 DEF LI!AddEvent
<1>3. /\ ls \in Seq(Listener) /\ Len(ls) \in Nat /\ DOMAIN ls = 1 .. Len(ls)
      /\ \A j \in DOMAIN ls : ls[j] \in Listener
      /\ open \subseteq Sockets /\ NoSocket \notin Sockets /\ n \in {1, 2} /\ 1 \in DOMAIN ls
  <2>1. /\ ls \in Seq(Listener) /\ Len(ls) \in Nat /\ DOMAIN ls = 1 .. Len(ls)
        /\ \A j \in DOMAIN ls : ls[j] \in Listener /\ open \subseteq Sockets
    BY DEF LIInv, LITyped
  <2>2. NoSocket \notin Sockets
    BY SyncAssumption DEF LI!ListenAssumption
  <2>3. n \in {1, 2}
    BY <1>0, <1>2 DEF LIInv, OneServed
  <2> QED
    BY <2>1, <2>2, <2>3, <1>2
<1>4. s \in {NoSocket, ls[1].fd}
  BY <1>1, <1>2 DEF LI!ConnOf, LIInv, OneServed
<1>5. PICK l \in Listener :
        /\ l.fd = ls[n].fd /\ l.conn = s /\ l.ignore = ls[n].ignore
        /\ ls' = [ls EXCEPT ![n] = l]
  <2>1. s \in Sockets \cup {NoSocket}
    BY <1>3, <1>4 DEF Listener
  <2> DEFINE m == [ls[n] EXCEPT !.conn = s]
  <2>2. m \in Listener /\ m.fd = ls[n].fd /\ m.conn = s /\ m.ignore = ls[n].ignore
    BY <2>1, <1>2, <1>3 DEF Listener
  <2>3. ls' = [ls EXCEPT ![n] = m]
    BY <1>2
  <2> QED
    BY <2>2, <2>3
<1>6. /\ ls' \in Seq(Listener) /\ DOMAIN ls' = DOMAIN ls /\ Len(ls') = Len(ls)
      /\ ls'[n] = l /\ \A j \in DOMAIN ls : j # n => ls'[j] = ls[j]
  BY <1>2, <1>3, <1>5
<1>7. \A j \in DOMAIN ls : ls'[j].fd = ls[j].fd /\ ls'[j].ignore = ls[j].ignore
  BY <1>5, <1>6
<1>8. /\ work' \in [at : {"idle", "open", "add"}, i : Nat, tries : Int, failed : BOOLEAN,
                    ret : {"none", "ok", "error", "served", "deleted"}]
      /\ \/ /\ work'.at = "add" /\ work'.i = n + 1 /\ work'.ret = "none"
            /\ s \in open /\ s \notin DOMAIN registered
         \/ work'.at = "idle" /\ work'.ret = "error"
  <2>1. work \in [at : {"idle", "open", "add"}, i : Nat, tries : Int, failed : BOOLEAN,
                  ret : {"none", "ok", "error", "served", "deleted"}]
        /\ work.ret = "none"
    BY <1>2 DEF LIInv, LITyped, Told
  <2>2. CASE s \in open /\ s \notin DOMAIN registered
    <3>1. work' = [at |-> "add", i |-> n + 1, tries |-> work.tries, failed |-> work.failed,
                   ret |-> "none"]
      BY <2>1, <2>2, <1>0, <1>2
    <3>2. n + 1 \in Nat /\ work.tries \in Int /\ work.failed \in BOOLEAN
      BY <2>1, <1>3
    <3> QED
      BY <3>1, <3>2, <2>2
  <2>3. CASE ~(s \in open /\ s \notin DOMAIN registered)
    <3>1. work' = [at |-> "idle", i |-> 0, tries |-> 0, failed |-> FALSE, ret |-> "error"]
      BY <2>3, <1>2 DEF LI!Return, LI!Idle
    <3> QED
      BY <3>1
  <2> QED
    BY <2>2, <2>3
<1>9. LITyped' /\ Told'
  BY <1>2, <1>6, <1>8 DEF LIInv, LITyped, Told
<1>10. LI!NoSocketLost'
  <2>1. {ls'[j].fd : j \in DOMAIN ls'} = {ls[j].fd : j \in DOMAIN ls}
    BY <1>6, <1>7
  <2>2. \A i, j \in DOMAIN ls' : i # j /\ ls'[i].fd # NoSocket => ls'[i].fd # ls'[j].fd
    BY <1>6, <1>7 DEF LIInv, LI!NoSocketLost
  <2> QED
    BY <2>1, <2>2, <1>2 DEF LIInv, LI!NoSocketLost
<1>11. OneServed'
  <2>1. ASSUME NEW j \in DOMAIN ls' PROVE ls'[j].conn \in {NULL, NoSocket, ls'[1].fd}
    <3>1. ls'[1].fd = ls[1].fd
      BY <1>3, <1>7
    <3>2. CASE j = n
      BY <3>1, <3>2, <1>4, <1>5, <1>6
    <3>3. CASE j # n
      BY <3>1, <3>3, <1>6 DEF LIInv, OneServed
    <3> QED
      BY <3>2, <3>3
  <2>2. CASE work'.at = "idle" /\ work'.ret = "error"
    BY <2>1, <2>2 DEF OneServed
  <2>3. CASE work'.at = "add" /\ work'.i = n + 1 /\ work'.ret = "none" /\ s \in open /\ s \notin DOMAIN registered
    <3>1. s = ls[1].fd /\ s = ls'[1].fd
      BY <2>3, <1>3, <1>4, <1>7
    <3>2. n = 1
      BY <2>3, <3>1, <1>0, <1>2, <1>3 DEF LIInv, OneServed, FirstRegistered
    <3>3. registered' = [r \in DOMAIN registered \cup {s} |-> IF r = s THEN n ELSE registered[r]]
      BY <2>3, <1>2
    <3>4. FirstRegistered'
      BY <3>1, <3>2, <3>3 DEF FirstRegistered
    <3>5. ls' # << >> /\ work'.i = 2
      BY <2>3, <3>2, <1>3, <1>6
    <3> QED
      BY <2>1, <2>3, <3>4, <3>5 DEF OneServed
  <2> QED
    BY <2>2, <2>3, <1>8
<1> QED
  BY <1>9, <1>10, <1>11 DEF LIInv

LEMMA LINext == LIInv /\ [LI!ListenNext]_LI!listening_vars => LIInv'
<1> SUFFICES ASSUME LIInv, [LI!ListenNext]_LI!listening_vars PROVE LIInv'
  OBVIOUS
<1>0. /\ DOMAIN ls = 1 .. Len(ls) /\ Len(ls) \in Nat /\ work.i \in Nat
      /\ work \in [at : {"idle", "open", "add"}, i : Nat, tries : Int, failed : BOOLEAN,
                  ret : {"none", "ok", "error", "served", "deleted"}]
      /\ MaxTries \in Int
  BY SyncAssumption DEF LIInv, LITyped, LI!ListenAssumption
<1>1. CASE LI!ListeningAdd
  BY <1>1, LIAdd
<1>2. CASE LI!OpenBegin
  <2>1. work' = [at |-> "open", i |-> 1, tries |-> MaxTries, failed |-> FALSE, ret |-> "none"]
    BY <1>2 DEF LI!OpenBegin, LI!Idle
  <2>0. UNCHANGED <<ls, open, registered>>
    BY <1>2 DEF LI!OpenBegin
  <2>2. LITyped' /\ LI!NoSocketLost' /\ OneServed'
    BY <2>0, <2>1, <1>0 DEF LIInv, LITyped, LI!NoSocketLost, OneServed
  <2>3. Told'
    BY <2>0, <2>1, <1>0 DEF Told
  <2> QED
    BY <2>2, <2>3 DEF LIInv
<1>3. CASE LI!OpenSkip
  <2>1. Listens(work.i)
    BY <1>3 DEF LI!OpenSkip, LI!Opening, LI!Skipped, LIInv, LI!NoSocketLost, Listens
  <2>2. work' = [work EXCEPT !.i = @ + 1, !.failed = work.failed]
    BY <1>3, <1>0 DEF LI!OpenSkip
  <2>3. work.failed \in BOOLEAN
    BY <1>0
  <2> QED
    BY <1>3, <2>1, <2>2, <2>3, LIPass DEF LI!OpenSkip, LI!Opening
<1>4. CASE LI!OpenListens
  BY <1>4, LIListens
<1>5. CASE LI!OpenInUse
  <2>1. ~Listens(work.i)
    <3>1. NoSocket \notin open
      BY DEF LIInv, LI!NoSocketLost
    <3> QED
      BY <1>5, <3>1 DEF LI!OpenInUse, LI!Opening, LI!Skipped, Listens
  <2> QED
    BY <1>5, <2>1, LIPass DEF LI!OpenInUse, LI!Opening
<1>6. CASE LI!OpenFails
  BY <1>6, LIRest DEF LI!OpenFails
<1>7. CASE LI!OpenPass
  <2>1. work.failed <=> \E j \in DOMAIN ls : ~Listens(j)
    BY <1>7, <1>0 DEF LI!OpenPass, LIInv, Told
  <2>2. CASE work.failed /\ work.tries > 1
    <3>1. work' = [at |-> "open", i |-> 1, tries |-> work.tries - 1, failed |-> FALSE, ret |-> "none"]
      BY <1>7, <2>2, <1>0 DEF LI!OpenPass, LIInv, Told
    <3>2. LITyped' /\ LI!NoSocketLost' /\ OneServed'
      BY <1>7, <3>1, <1>0 DEF LI!OpenPass, LIInv, LITyped, LI!NoSocketLost, OneServed
    <3>3. Told'
      BY <1>7, <3>1, <1>0 DEF LI!OpenPass, Told
    <3> QED
      BY <3>2, <3>3 DEF LIInv
  <2>3. CASE ~(work.failed /\ work.tries > 1) /\ work.failed
    BY <1>7, <2>3, LIRest DEF LI!OpenPass
  <2>4. CASE ~work.failed
    <3>1. work' = [at |-> "idle", i |-> 0, tries |-> 0, failed |-> FALSE, ret |-> "ok"]
      BY <1>7, <2>4 DEF LI!OpenPass, LI!Return, LI!Idle
    <3>2. LITyped' /\ LI!NoSocketLost' /\ OneServed'
      BY <1>7, <3>1, <1>0 DEF LI!OpenPass, LIInv, LITyped, LI!NoSocketLost, OneServed
    <3>3. Told'
      BY <1>7, <3>1, <2>1, <2>4 DEF LI!OpenPass, Told, Listens
    <3> QED
      BY <3>2, <3>3 DEF LIInv
  <2> QED
    BY <2>2, <2>3, <2>4
<1>8. CASE LI!AddEventBegin
  <2>1. work' = [at |-> "add", i |-> 1, tries |-> 0, failed |-> FALSE, ret |-> "none"]
    BY <1>8 DEF LI!AddEventBegin, LI!Idle
  <2>0. UNCHANGED <<ls, open, registered>> /\ ls # << >>
    BY <1>8 DEF LI!AddEventBegin
  <2>2. LITyped' /\ LI!NoSocketLost' /\ Told'
    BY <2>0, <2>1, <1>0 DEF LIInv, LITyped, LI!NoSocketLost, Told
  <2>3. OneServed'
    BY <2>0, <2>1 DEF LIInv, OneServed
  <2> QED
    BY <2>2, <2>3 DEF LIInv
<1>9. CASE LI!AddEvent
  BY <1>9, LIAddEvent
<1>10. CASE LI!AddEventFails
  BY <1>10, LIRest DEF LI!AddEventFails
<1>11. CASE LI!AddEventDone
  <2>1. work' = [at |-> "idle", i |-> 0, tries |-> 0, failed |-> FALSE, ret |-> "served"]
    BY <1>11 DEF LI!AddEventDone, LI!Return, LI!Idle
  <2>2. LITyped' /\ LI!NoSocketLost' /\ Told'
    BY <1>11, <2>1, <1>0 DEF LI!AddEventDone, LIInv, LITyped, LI!NoSocketLost, Told
  <2>3. Len(ls) = 1 /\ FirstRegistered
    <3>1. ls # << >> /\ work.i \in {1, 2} /\ work.i \notin DOMAIN ls
      BY <1>11 DEF LI!AddEventDone, LIInv, OneServed
    <3>2. Len(ls) # 0
      BY <3>1 DEF LIInv, LITyped
    <3>3. Len(ls) = 1 /\ work.i = 2
      BY <3>1, <3>2, <1>0
    <3> QED
      BY <3>3, <1>11 DEF LI!AddEventDone, LIInv, OneServed
  <2>4. OneServed'
    BY <1>11, <2>1, <2>3 DEF LI!AddEventDone, LIInv, OneServed, FirstRegistered
  <2> QED
    BY <2>2, <2>4 DEF LIInv
<1>12. CASE LI!DelEvent
  <2>1. UNCHANGED <<ls, open>> /\ \E ret \in {"deleted", "error"} : LI!Return(ret)
    BY <1>12 DEF LI!DelEvent
  <2> QED
    BY <2>1, LIRest
<1>13. CASE LI!Others
  <2>1. UNCHANGED <<ls, open, registered>> /\ work' = IF work.at = "idle" THEN LI!Idle ELSE work
    BY <1>13 DEF LI!Others
  <2>2. CASE work.at = "idle"
    <3>1. LI!Return("none")
      BY <2>1, <2>2 DEF LI!Return, LI!Idle
    <3> QED
      BY <2>1, <3>1, LIRest
  <2>3. CASE work.at # "idle"
    BY <2>1, <2>3 DEF LIInv, LITyped, LI!NoSocketLost, Told, OneServed, Listens, FirstRegistered
  <2> QED
    BY <2>2, <2>3
<1>14. CASE UNCHANGED LI!listening_vars
  BY <1>14 DEF LI!listening_vars, LIInv, LITyped, LI!NoSocketLost, Told, OneServed, Listens, FirstRegistered
<1> QED
  BY <1>1, <1>2, <1>3, <1>4, <1>5, <1>6, <1>7, <1>8, <1>9, <1>10, <1>11, <1>12, <1>13, <1>14
     DEF LI!ListenNext

-----------------------------------------------------------------------------
(* The parts together. *)

(* A step of SyncSpec is a step of one part, and the others stay.          *)
LEMMA StepOfEach ==
  [SyncNext]_all_vars =>
    /\ [Next]_vars
    /\ [RW!Next]_RW!rw_vars
    /\ [MB!Next]_MB!mb_vars
    /\ [NT!Next]_NT!notice_vars
    /\ [LI!ListenNext]_LI!listening_vars
<1> SUFFICES ASSUME [SyncNext]_all_vars
             PROVE  /\ [Next]_vars
                    /\ [RW!Next]_RW!rw_vars
                    /\ [MB!Next]_MB!mb_vars
                    /\ [NT!Next]_NT!notice_vars
                    /\ [LI!ListenNext]_LI!listening_vars
  OBVIOUS
<1> USE DEF all_vars, vars, rw_vars, mb_vars, notice_vars, listening_vars,
        RW!rw_vars, MB!mb_vars, NT!notice_vars, LI!listening_vars
<1>1. CASE Mutex
  BY <1>1 DEF Mutex
<1>2. CASE RWLock
  BY <1>2 DEF RWLock
<1>3. CASE MBlocks
  BY <1>3 DEF MBlocks
<1>4. CASE Wakes
  BY <1>4 DEF Wakes
<1>5. CASE Servers
  BY <1>5 DEF Servers
<1> QED
  BY <1>1, <1>2, <1>3, <1>4, <1>5 DEF SyncNext

(* Side by side, the process lock, the read-write lock, the memory blocks  *)
(* and the notices behave as each of them does alone.                      *)
THEOREM PartsKeepSpecs == SyncSpec => Spec /\ RW!Spec /\ MB!Spec /\ NT!Spec
<1>1. SyncInit => Init /\ RW!Init /\ MB!Init /\ NT!Init
  BY DEF SyncInit
<1> QED
  BY <1>1, StepOfEach, PTL DEF SyncSpec, Spec, RW!Spec, MB!Spec, NT!Spec

(* The two locks of fast_lock.c exclude and protect.                       *)
THEOREM SyncLocksExclude ==
  SyncSpec => [](MutualExclusion /\ HolderProtected /\ WriterAlone)
<1>1. RW!RWAssumption
  BY SyncAssumption
<1>2. RW!Spec => []WriterAlone
  BY <1>1, WriterExcludes DEF WriterAlone
<1> QED
  BY PartsKeepSpecs, LockExcludes, ProtectedInside, <1>2, PTL

(* Readers and writers with one mask have their signals blocked inside,    *)
(* and their own mask outside, whatever the shared word went through.      *)
THEOREM SyncReadersProtected ==
  ASSUME OneMask
  PROVE  SyncSpec => []ReadersProtected
<1>1. RW!RWAssumption
  BY SyncAssumption
<1>2. RW!Spec => []RW!TypeOK /\ []RW!InsideProtected /\ []RW!MasksKept
  BY <1>1, RWTypeCorrect, RWProtected, RWMasksKept
<1>3. RW!TypeOK /\ RW!InsideProtected /\ RW!MasksKept => ReadersProtected
  BY DEF ReadersProtected
<1> QED
  BY PartsKeepSpecs, <1>2, <1>3, PTL

(* The memory blocks are lent to one thread at a time, and the list is     *)
(* exactly the others.                                                     *)
THEOREM SyncBlocksLent == SyncSpec => BlocksLent
<1>1. count \in Nat
  BY SyncAssumption
<1>2. MB!Spec => MB!Lending!Spec
  BY <1>1, BlocksImplementLoans
<1> QED
  BY PartsKeepSpecs, <1>2, ListStaysExact, PTL DEF BlocksLent

(* The safety half of WokenUp: no wake-up is lost.                         *)
THEOREM SyncWakeUpKept == SyncSpec => [](NT!TypeOK /\ NT!NoLostWakeUp)
<1>1. NT!NoticeAssumption
  BY SyncAssumption
<1>2. NTInv => NT!TypeOK /\ NT!NoLostWakeUp
  BY DEF NTInv
<1> QED
  BY PartsKeepSpecs, NTInvInit, NTInvNext, <1>1, <1>2, PTL DEF NT!Spec

(* conn_listening_open loses no socket and tells the truth of what         *)
(* listens, through any tries and failures; conn_listening_add_event gives *)
(* FAST_OK only when each listener is registered with its own socket.      *)
THEOREM SyncListenersTrue == SyncSpec => []ListenersTrue
<1>1. SyncInit => LI!ListenInit
  BY DEF SyncInit
<1> QED
  BY <1>1, LIInvInit, LINext, LIProves, StepOfEach, PTL DEF SyncSpec
=============================================================================
