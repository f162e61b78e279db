--------------------------- MODULE ConnPoolProofs ---------------------------
(***************************************************************************)
(* Theorems about ConnPool, for any finite set of workers and any pool     *)
(* sizes.  The inductive invariant is the type invariant, mutual exclusion *)
(* on the common list, what each worker's locals say while it is inside a  *)
(* call, and the balance of the books.  A second invariant, OwnInv, says   *)
(* where every connection is: a function P from connections to places that *)
(* agrees with every list and set.  It gives BooksExact and the refinement *)
(* of ConnOwnership.                                                       *)
(***************************************************************************)
EXTENDS ConnPool, FiniteSetTheorems, FunctionTheorems, SequenceTheorems, TLAPS

(* What a worker that is inside a call knows. *)
LocalInv(w) ==
  /\ pc[w] \in GetPc => want[w] > 0 /\ want[w] <= -change_n[w]
  /\ pc[w] = "get_cut" => seen[w] = comm /\ comm_n # 0
  /\ Chained(w) => Len(seen[w]) = want[w]
  /\ pc[w] \in {"put_lock", "put_count", "put_link"} => arg[w] \in Conns
  /\ pc[w] = "put_link" => seen[w] = comm

CommCount == comm_n = Len(comm) + (IF \E w \in Workers : pc[w] = "put_link" THEN 1 ELSE 0)

IInv ==
  /\ TypeOK
  /\ MutualExclusion
  /\ PoolBalance
  /\ CommCount
  /\ \A w \in Workers : LocalInv(w)

-----------------------------------------------------------------------------
(* The connections are finitely many, so that a hand-over has a size. *)
LEMMA ConnsFinite == IsFiniteSet(Conns)
<1>1. ASSUME NEW w \in Workers
      PROVE  IsFiniteSet({w} \X (1 .. connection_n[w]))
  <2>1. IsFiniteSet({w})
    BY FS_Singleton
  <2>2. connection_n[w] \in Nat
    BY PoolAssumption
  <2>3. IsFiniteSet(1 .. connection_n[w])
    BY <2>2, FS_Interval
  <2> QED
    BY <2>1, <2>3, FS_Product
<1>2. IsFiniteSet({{w} \X (1 .. connection_n[w]) : w \in Workers})
  <2> DEFINE T == {{w} \X (1 .. connection_n[w]) : w \in Workers}
             f == [w \in Workers |-> {w} \X (1 .. connection_n[w])]
  <2>1. f \in Surjection(Workers, T)
    BY DEF Surjection
  <2>2. IsFiniteSet(Workers)
    BY PoolAssumption
  <2> HIDE DEF T, f
  <2>3. IsFiniteSet(T)
    BY <2>1, <2>2, FS_Surjection
  <2> QED
    BY <2>3 DEF T
<1> QED
  BY <1>1, <1>2, FS_UNION DEF Conns

LEMMA SubsetSize ==
  ASSUME NEW S \in SUBSET Conns
  PROVE  Cardinality(S) \in Nat
BY ConnsFinite, FS_Subset, FS_CardinalityType
-----------------------------------------------------------------------------
(* The initial state satisfies the invariant. *)
LEMMA InitIInv == Init => IInv
<1> SUFFICES ASSUME Init PROVE IInv
  OBVIOUS
<1> USE PoolAssumption DEF Init, AtomicLockInit, FAST_LOCK_OFF, FAST_LOCK_ON
<1>1. ASSUME NEW w \in Workers
      PROVE  [i \in 1 .. connection_n[w] |-> <<w, i>>] \in Seq(Conns)
  <2>1. connection_n[w] \in Nat
    OBVIOUS
  <2>2. \A i \in 1 .. connection_n[w] : <<w, i>> \in Conns
    BY DEF Conns
  <2> QED
    BY <2>1, <2>2, IsASeq
<1>2. TypeOK
  <2>1. free \in [Workers -> Seq(Conns)]
    BY <1>1
  <2>2. <<>> \in Seq(Conns) /\ Conns \in SUBSET Conns
    BY EmptySeq
  <2> QED
    BY <2>1, <2>2 DEF TypeOK
<1>3. MutualExclusion
  BY DEF MutualExclusion, InCritical, CriticalPc
<1>4. PoolBalance
  BY DEF PoolBalance, InPut, PutPc
<1>5. CommCount
  BY DEF CommCount
<1>6. \A w \in Workers : LocalInv(w)
  BY DEF LocalInv, Chained, GetPc
<1> QED
  BY <1>2, <1>3, <1>4, <1>5, <1>6 DEF IInv

-----------------------------------------------------------------------------
(* A worker in the critical section that is not linking a connection finds *)
(* the common count exact: nobody else is in the middle of a put.          *)
LEMMA CommCountInside ==
  ASSUME IInv, NEW w \in Workers, InCritical(w), pc[w] # "put_link"
  PROVE  comm_n = Len(comm)
<1>1. \A v \in Workers : pc[v] # "put_link"
  BY DEF IInv, MutualExclusion, InCritical, CriticalPc
<1> QED
  BY <1>1 DEF IInv, CommCount, TypeOK

(* Every step preserves the types.  The list operations stay within the    *)
(* sequences of connections because a list is popped only when non-empty.  *)
LEMMA TypeStep ==
  ASSUME IInv, NEW w \in Workers, Step(w)
  PROVE  TypeOK'
<1> USE DEF IInv, TypeOK, Goto, counters, locals, GetPc, PutPc
<1>1. CASE Continue(w)
  <2> USE DEF AtomicLockOn, AtomicLockOff, CAS, FAST_LOCK_OFF, FAST_LOCK_ON
  <2>1. CASE GetLock(w) \/ PutLock(w)
    BY <2>1 DEF GetLock, PutLock
  <2>2. CASE GetNone(w)
    BY <2>2 DEF GetNone
  <2>3. CASE GetReturnNull(w) \/ GetUnlock(w) \/ PutUnlock(w)
    BY <2>3 DEF GetReturnNull, GetUnlock, PutUnlock
  <2>4. CASE GetRead(w)
    BY <2>4 DEF GetRead
  <2>5. CASE GetCut(w)
    <3> DEFINE n == IF want[w] >= comm_n THEN comm_n ELSE want[w]
    <3>0. comm_n = Len(comm) /\ seen[w] = comm /\ want[w] > 0
      BY <2>5, CommCountInside DEF GetCut, LocalInv, InCritical, CriticalPc
    <3>1. n \in Nat /\ n <= Len(seen[w])
      BY <3>0
    <3>2. SubSeq(seen[w], 1, n) \in Seq(Conns) /\ SubSeq(seen[w], n + 1, Len(seen[w])) \in Seq(Conns)
      BY <3>1, SubSeqProperties
    <3>3. /\ seen' = [seen EXCEPT ![w] = SubSeq(seen[w], 1, n)]
          /\ comm' = SubSeq(seen[w], n + 1, Len(seen[w]))
          /\ comm_n' = comm_n - n
          /\ want' = [want EXCEPT ![w] = n]
      BY <2>5 DEF GetCut
    <3> HIDE DEF n
    <3>4. seen' \in [Workers -> Seq(Conns)] /\ comm' \in Seq(Conns)
      BY <3>2, <3>3
    <3>5. comm_n' \in Int /\ want' \in [Workers -> Nat]
      BY <3>1, <3>3
    <3> QED
      BY <2>5, <3>4, <3>5 DEF GetCut
  <2>6. CASE GetRefill(w)
    <3>1. Len(seen[w]) = want[w] /\ want[w] > 0
      BY <2>6 DEF GetRefill, LocalInv, Chained
    <3>2. seen[w] # <<>> /\ seen[w] \in Seq(Conns)
      BY <3>1
    <3>3. Tail(seen[w]) \in Seq(Conns) /\ Head(seen[w]) \in Conns
      BY <3>2, HeadTailProperties
    <3>4. free' \in [Workers -> Seq(Conns)] /\ seen' \in [Workers -> Seq(Conns)]
      BY <2>6, <3>3, EmptySeq DEF GetRefill
    <3>5. free_n' \in [Workers -> Int] /\ used_n' \in [Workers -> Int] /\ change_n' \in [Workers -> Int]
      BY <2>6 DEF GetRefill
    <3>6. held' \in [Workers -> SUBSET Conns]
      BY <2>6, <3>3 DEF GetRefill
    <3> QED
      BY <2>6, <3>4, <3>5, <3>6 DEF GetRefill
  <2>7. CASE PutCount(w)
    BY <2>7 DEF PutCount
  <2>8. CASE PutLink(w)
    <3>1. <<arg[w]>> \o seen[w] \in Seq(Conns)
      BY <2>8 DEF PutLink, LocalInv
    <3> QED
      BY <2>8, <3>1, EmptySeq DEF PutLink
  <2>9. CASE PutDone(w)
    BY <2>9 DEF PutDone
  <2> QED
    BY <1>1, <2>1, <2>2, <2>3, <2>4, <2>5, <2>6, <2>7, <2>8, <2>9 DEF Continue
<1>2. CASE GetOwn(w)
  <2>1. Tail(free[w]) \in Seq(Conns) /\ Head(free[w]) \in Conns
    BY <1>2, HeadTailProperties DEF GetOwn
  <2> QED
    BY <1>2, <2>1 DEF GetOwn
<1>3. CASE GetCommon(w)
  BY <1>3 DEF GetCommon
<1>4. ASSUME NEW c \in held[w], FreeOwn(w, c) PROVE TypeOK'
  <2>1. <<c>> \o free[w] \in Seq(Conns)
    OBVIOUS
  <2> QED
    BY <1>4, <2>1 DEF FreeOwn
<1>5. ASSUME NEW c \in held[w], FreeCommon(w, c) PROVE TypeOK'
  BY <1>5 DEF FreeCommon
<1>6. ASSUME NEW v \in Workers, NEW S \in SUBSET held[w], Out(w, v, S) PROVE TypeOK'
  <2>1. Cardinality(S) \in Nat
    BY SubsetSize
  <2>2. change_n' \in [Workers -> Int] /\ used_n' \in [Workers -> Int]
    BY <1>6, <2>1 DEF Out
  <2>3. held' \in [Workers -> SUBSET Conns] /\ transit' \in [Workers -> SUBSET Conns]
    BY <1>6 DEF Out
  <2> QED
    BY <1>6, <2>2, <2>3 DEF Out
<1>7. ASSUME NEW S \in SUBSET transit[w], In(w, S) PROVE TypeOK'
  <2>1. Cardinality(S) \in Nat
    BY SubsetSize
  <2>2. change_n' \in [Workers -> Int] /\ used_n' \in [Workers -> Int]
    BY <1>7, <2>1 DEF In
  <2>3. held' \in [Workers -> SUBSET Conns] /\ transit' \in [Workers -> SUBSET Conns]
    BY <1>7 DEF In
  <2> QED
    BY <1>7, <2>2, <2>3 DEF In
<1> QED
  BY <1>1, <1>2, <1>3, <1>4, <1>5, <1>6, <1>7 DEF Step
(* Every step preserves mutual exclusion: the lock is taken by a swap from *)
(* off, and turned off only by the worker that is in the critical section. *)
LEMMA MutexStep ==
  ASSUME IInv, NEW w \in Workers, Step(w)
  PROVE  MutualExclusion'
<1> USE DEF IInv, TypeOK, MutualExclusion, InCritical, CriticalPc, Goto,
            FAST_LOCK_OFF, FAST_LOCK_ON
<1>1. CASE GetLock(w) \/ PutLock(w)
  <2>1. lock = 0 /\ lock' = 1 /\ \A v \in Workers : ~ InCritical(v)
    BY <1>1 DEF GetLock, PutLock, AtomicLockOn, CAS
  <2>2. \A v \in Workers : InCritical(v)' <=> v = w
    BY <1>1, <2>1 DEF GetLock, PutLock
  <2>3. \A u, v \in Workers : InCritical(u)' /\ InCritical(v)' => u = v
    BY <2>2
  <2>4. InCritical(w)'
    BY <2>2
  <2> QED
    BY <2>1, <2>3, <2>4
<1>2. CASE GetReturnNull(w) \/ GetUnlock(w) \/ PutUnlock(w)
  <2>1. lock' = 0
    BY <1>2 DEF GetReturnNull, GetUnlock, PutUnlock, AtomicLockOff, CAS
  <2>2. \A v \in Workers : ~ InCritical(v)'
    BY <1>2 DEF GetReturnNull, GetUnlock, PutUnlock
  <2>3. ~ (\E v \in Workers : InCritical(v)')
    BY <2>2
  <2>4. \A u, v \in Workers : InCritical(u)' /\ InCritical(v)' => u = v
    BY <2>2
  <2> QED
    BY <2>1, <2>3, <2>4
<1>3. CASE GetNone(w) \/ GetRead(w) \/ GetCut(w) \/ PutCount(w) \/ PutLink(w)
  <2>1. lock' = lock /\ \A v \in Workers : InCritical(v)' <=> InCritical(v)
    BY <1>3 DEF GetNone, GetRead, GetCut, PutCount, PutLink
  <2> QED
    BY <2>1
<1>4. CASE GetRefill(w) \/ PutDone(w) \/ GetOwn(w) \/ GetCommon(w)
  <2>1. lock' = lock /\ \A v \in Workers : InCritical(v)' <=> InCritical(v)
    BY <1>4 DEF GetRefill, PutDone, GetOwn, GetCommon
  <2> QED
    BY <2>1
<1>5. ASSUME NEW c \in held[w], FreeOwn(w, c) \/ FreeCommon(w, c) PROVE MutualExclusion'
  <2>1. lock' = lock /\ \A v \in Workers : InCritical(v)' <=> InCritical(v)
    BY <1>5 DEF FreeOwn, FreeCommon
  <2> QED
    BY <2>1
<1>6. ASSUME lock' = lock, pc' = pc PROVE MutualExclusion'
  BY <1>6
<1>7. ASSUME NEW v \in Workers, NEW S \in SUBSET held[w], Out(w, v, S) PROVE MutualExclusion'
  BY <1>6, <1>7 DEF Out
<1>8. ASSUME NEW S \in SUBSET transit[w], In(w, S) PROVE MutualExclusion'
  BY <1>6, <1>8 DEF In
<1> QED
  BY <1>1, <1>2, <1>3, <1>4, <1>5, <1>7, <1>8 DEF Step, Continue

(* Every step preserves the balance: the counters of a pool move together, *)
(* a put apart, which takes from used_n first and from change_n last.      *)
LEMMA BalanceStep ==
  ASSUME IInv, NEW w \in Workers, Step(w)
  PROVE  PoolBalance'
<1> DEFINE Books(v) == free_n[v] + used_n[v] - change_n[v] + InPut(v)
<1> USE DEF IInv, TypeOK, Goto, counters
<1>0. /\ \A v \in Workers : free_n[v] \in Int /\ used_n[v] \in Int /\ change_n[v] \in Int
      /\ \A v \in Workers : pc[v] \in {"idle"} \cup GetPc \cup PutPc
  OBVIOUS
<1>1. ASSUME \A v \in Workers \ {w} :
               /\ free_n'[v] = free_n[v] /\ used_n'[v] = used_n[v]
               /\ change_n'[v] = change_n[v] /\ pc'[v] = pc[v],
             Books(w)' = Books(w)
      PROVE  PoolBalance'
  <2>1. \A v \in Workers \ {w} : Books(v)' = Books(v)
    BY <1>1 DEF InPut
  <2>2. \A v \in Workers : Books(v)' = Books(v)
    BY <1>1, <2>1
  <2>3. \A v \in Workers : Books(v) = connection_n[v]
    BY DEF PoolBalance
  <2> QED
    BY <2>2, <2>3 DEF PoolBalance
<1> USE DEF InPut, PutPc, GetPc
<1>2. CASE GetRefill(w)
  <2>1. /\ free_n'[w] = free_n[w] + want[w] - 1 /\ used_n'[w] = used_n[w] + 1
        /\ change_n'[w] = change_n[w] + want[w] /\ InPut(w)' = 0 /\ InPut(w) = 0
    BY <1>2 DEF GetRefill
  <2>2. Books(w)' = Books(w)
    BY <1>0, <2>1
  <2> QED
    BY <1>1, <1>2, <2>2 DEF GetRefill
<1>3. CASE PutDone(w)
  <2>1. /\ free_n'[w] = free_n[w] /\ used_n'[w] = used_n[w]
        /\ change_n'[w] = change_n[w] - 1 /\ InPut(w)' = 0 /\ InPut(w) = 1
    BY <1>3 DEF PutDone
  <2>2. Books(w)' = Books(w)
    BY <1>0, <2>1
  <2> QED
    BY <1>1, <1>3, <2>2 DEF PutDone
<1>4. CASE \/ GetLock(w) \/ GetNone(w) \/ GetReturnNull(w) \/ GetRead(w) \/ GetCut(w)
           \/ GetUnlock(w) \/ GetCommon(w)
  BY <1>1, <1>4 DEF GetLock, GetNone, GetReturnNull, GetRead, GetCut, GetUnlock, GetCommon
<1>5. CASE PutLock(w) \/ PutCount(w) \/ PutLink(w) \/ PutUnlock(w)
  BY <1>1, <1>5 DEF PutLock, PutCount, PutLink, PutUnlock
<1>6. CASE GetOwn(w)
  <2>1. /\ free_n'[w] = free_n[w] - 1 /\ used_n'[w] = used_n[w] + 1
        /\ change_n' = change_n /\ pc' = pc
    BY <1>6 DEF GetOwn
  <2> QED
    BY <1>0, <1>1, <1>6, <2>1 DEF GetOwn
<1>7. ASSUME NEW c \in held[w], FreeOwn(w, c) PROVE PoolBalance'
  <2>1. /\ free_n'[w] = free_n[w] + 1 /\ used_n'[w] = used_n[w] - 1
        /\ change_n' = change_n /\ pc' = pc
    BY <1>7 DEF FreeOwn
  <2> QED
    BY <1>0, <1>1, <1>7, <2>1 DEF FreeOwn
<1>8. ASSUME NEW c \in held[w], FreeCommon(w, c) PROVE PoolBalance'
  <2>1. /\ free_n' = free_n /\ used_n'[w] = used_n[w] - 1
        /\ change_n' = change_n /\ InPut(w) = 0 /\ InPut(w)' = 1
    BY <1>8 DEF FreeCommon
  <2> QED
    BY <1>0, <1>1, <1>8, <2>1 DEF FreeCommon
<1>9. ASSUME NEW v \in Workers, NEW S \in SUBSET held[w], Out(w, v, S) PROVE PoolBalance'
  <2>1. Cardinality(S) \in Nat
    BY SubsetSize
  <2>2. /\ free_n' = free_n /\ used_n'[w] = used_n[w] - Cardinality(S)
        /\ change_n'[w] = change_n[w] - Cardinality(S) /\ pc' = pc
    BY <1>9 DEF Out
  <2> QED
    BY <1>0, <1>1, <1>9, <2>1, <2>2 DEF Out
<1>10. ASSUME NEW S \in SUBSET transit[w], In(w, S) PROVE PoolBalance'
  <2>1. Cardinality(S) \in Nat
    BY SubsetSize
  <2>2. /\ free_n' = free_n /\ used_n'[w] = used_n[w] + Cardinality(S)
        /\ change_n'[w] = change_n[w] + Cardinality(S) /\ pc' = pc
    BY <1>10 DEF In
  <2> QED
    BY <1>0, <1>1, <1>10, <2>1, <2>2 DEF In
<1> QED
  BY <1>2, <1>3, <1>4, <1>5, <1>6, <1>7, <1>8, <1>9, <1>10 DEF Step, Continue
(* Every step preserves the common count: the store of a put and the cut   *)
(* of a get keep it equal to the length of the list, since only the worker *)
(* in the critical section touches either.                                 *)
LEMMA CommCountStep ==
  ASSUME IInv, NEW w \in Workers, Step(w)
  PROVE  CommCount'
<1> DEFINE Linking == \E v \in Workers : pc[v] = "put_link"
<1> USE DEF Goto, counters, locals
<1>0. pc \in [Workers -> {"idle"} \cup GetPc \cup PutPc] /\ comm \in Seq(Conns)
  BY DEF IInv, TypeOK
<1>1. ASSUME comm' = comm, comm_n' = comm_n, Linking' <=> Linking PROVE CommCount'
  BY <1>1 DEF CommCount, IInv
<1>2. CASE GetCut(w)
  <2> DEFINE n == IF want[w] >= comm_n THEN comm_n ELSE want[w]
  <2>1. comm_n = Len(comm) /\ seen[w] = comm /\ want[w] > 0 /\ want[w] \in Nat
    <3>1. InCritical(w) /\ pc[w] = "get_cut"
      BY <1>2 DEF GetCut, InCritical, CriticalPc
    <3>2. LocalInv(w) /\ want[w] \in Nat
      BY DEF IInv, TypeOK
    <3> QED
      BY <3>1, <3>2, CommCountInside DEF LocalInv, GetPc
  <2>2. n \in Nat /\ n <= Len(comm)
    BY <1>0, <2>1
  <2>3. comm' = SubSeq(comm, n + 1, Len(comm)) /\ comm_n' = comm_n - n
    BY <1>2, <2>1 DEF GetCut
  <2> HIDE DEF n
  <2>4. Len(comm') = Len(comm) - n
    BY <1>0, <2>2, <2>3
  <2>5. ~ Linking'
    BY <1>0, <1>2 DEF GetCut, IInv, MutualExclusion, InCritical, CriticalPc
  <2>6. comm_n' = Len(comm')
    BY <2>1, <2>3, <2>4
  <2>7. Len(comm') \in Nat
    BY <1>0, <2>1, <2>2, <2>4
  <2> QED
    BY <2>5, <2>6, <2>7 DEF CommCount
<1>3. CASE PutCount(w)
  <2>1. comm_n = Len(comm)
    BY <1>3, CommCountInside DEF PutCount, InCritical, CriticalPc
  <2>2. Linking'
    BY <1>0, <1>3 DEF PutCount
  <2> QED
    BY <1>3, <2>1, <2>2 DEF PutCount, CommCount
<1>4. CASE PutLink(w)
  <2>1. comm_n = Len(comm) + 1
    BY <1>4 DEF PutLink, IInv, CommCount
  <2>2. ~ Linking'
    BY <1>0, <1>4 DEF PutLink, IInv, MutualExclusion, InCritical, CriticalPc
  <2>3. comm' = <<arg[w]>> \o comm /\ arg[w] \in Conns
    BY <1>4 DEF PutLink, IInv, LocalInv
  <2>4. Len(comm') = Len(comm) + 1
    BY <1>0, <2>3
  <2> QED
    BY <1>4, <2>1, <2>2, <2>4 DEF PutLink, CommCount
<1>5. CASE GetLock(w) \/ GetNone(w) \/ GetReturnNull(w) \/ GetRead(w) \/ GetUnlock(w) \/ GetRefill(w)
  BY <1>0, <1>1, <1>5 DEF GetLock, GetNone, GetReturnNull, GetRead, GetUnlock, GetRefill
<1>6. CASE PutLock(w) \/ PutUnlock(w) \/ PutDone(w) \/ GetOwn(w) \/ GetCommon(w)
  BY <1>0, <1>1, <1>6 DEF PutLock, PutUnlock, PutDone, GetOwn, GetCommon
<1>7. ASSUME NEW c \in held[w], FreeOwn(w, c) \/ FreeCommon(w, c) PROVE CommCount'
  BY <1>0, <1>1, <1>7 DEF FreeOwn, FreeCommon
<1>8. ASSUME NEW v \in Workers, NEW S \in SUBSET held[w], Out(w, v, S) PROVE CommCount'
  BY <1>1, <1>8 DEF Out
<1>9. ASSUME NEW S \in SUBSET transit[w], In(w, S) PROVE CommCount'
  BY <1>1, <1>9 DEF In
<1> QED
  BY <1>2, <1>3, <1>4, <1>5, <1>6, <1>7, <1>8, <1>9 DEF Step, Continue

(* Every step preserves what the workers inside a call know: the worker's  *)
(* own steps establish it, and the other workers leave it alone - the      *)
(* common list by mutual exclusion, the rest because it is their own.      *)
LEMMA LocalStep ==
  ASSUME IInv, NEW w \in Workers, Step(w)
  PROVE  \A u \in Workers : LocalInv(u)'
<1> USE DEF Goto, counters, locals
<1>0. TypeOK /\ \A u \in Workers : LocalInv(u)
  BY DEF IInv
<1>1. ASSUME NEW u \in Workers \ {w} PROVE LocalInv(u)'
  <2>1. /\ pc'[u] = pc[u] /\ want'[u] = want[u] /\ change_n'[u] = change_n[u]
        /\ seen'[u] = seen[u] /\ arg'[u] = arg[u]
    BY <1>0 DEF TypeOK, Step, Continue, GetLock, GetNone, GetReturnNull, GetRead, GetCut,
                GetUnlock, GetRefill, PutLock, PutCount, PutLink, PutUnlock, PutDone,
                GetOwn, GetCommon, FreeOwn, FreeCommon, Out, In
  <2>2. pc[u] \in {"get_cut", "put_link"} => comm' = comm /\ comm_n' = comm_n
    <3>1. pc[u] \in {"get_cut", "put_link"} => ~ InCritical(w)
      BY DEF IInv, MutualExclusion, InCritical, CriticalPc
    <3>2. ~ InCritical(w) => comm' = comm /\ comm_n' = comm_n
      BY DEF InCritical, CriticalPc, Step, Continue, GetLock, GetNone, GetReturnNull, GetRead,
             GetCut, GetUnlock, GetRefill, PutLock, PutCount, PutLink, PutUnlock, PutDone,
             GetOwn, GetCommon, FreeOwn, FreeCommon, Out, In
    <3> QED
      BY <3>1, <3>2
  <2>3. LocalInv(u)
    BY <1>0
  <2> QED
    BY <2>1, <2>2, <2>3 DEF LocalInv, Chained
<1>2. LocalInv(w)'
  <2> USE <1>0 DEF TypeOK, LocalInv, Chained, GetPc, PutPc
  <2>1. CASE GetCommon(w)
    BY <2>1 DEF GetCommon
  <2>2. CASE GetLock(w) \/ GetNone(w) \/ GetReturnNull(w) \/ GetUnlock(w)
    BY <2>2 DEF GetLock, GetNone, GetReturnNull, GetUnlock
  <2>3. CASE GetRead(w)
    BY <2>3 DEF GetRead
  <2>4. CASE GetCut(w)
    <3> DEFINE n == IF want[w] >= comm_n THEN comm_n ELSE want[w]
    <3>1. comm_n = Len(comm) /\ seen[w] = comm /\ want[w] > 0 /\ comm_n # 0
      BY <2>4, CommCountInside DEF GetCut, InCritical, CriticalPc
    <3>2. n \in Nat /\ n > 0 /\ n <= Len(comm) /\ n <= want[w]
      BY <3>1
    <3>3. seen'[w] = SubSeq(comm, 1, n) /\ want'[w] = n /\ change_n' = change_n /\ pc'[w] = "get_unlock"
      BY <2>4, <3>1 DEF GetCut
    <3> HIDE DEF n
    <3>4. Len(SubSeq(comm, 1, n)) = n
      BY <3>2
    <3>5. want[w] <= -change_n[w]
      BY <2>4 DEF GetCut
    <3> QED
      BY <3>2, <3>3, <3>4, <3>5
  <2>5. CASE GetRefill(w) \/ PutDone(w) \/ PutUnlock(w)
    BY <2>5 DEF GetRefill, PutDone, PutUnlock
  <2>6. CASE PutLock(w) \/ PutCount(w) \/ PutLink(w)
    BY <2>6 DEF PutLock, PutCount, PutLink
  <2>7. CASE GetOwn(w)
    BY <2>7 DEF GetOwn
  <2>8. ASSUME NEW c \in held[w], FreeOwn(w, c) \/ FreeCommon(w, c) PROVE LocalInv(w)'
    BY <2>8 DEF FreeOwn, FreeCommon
  <2>9. ASSUME NEW v \in Workers, NEW S \in SUBSET held[w], Out(w, v, S) PROVE LocalInv(w)'
    BY <2>9 DEF Out
  <2>10. ASSUME NEW S \in SUBSET transit[w], In(w, S) PROVE LocalInv(w)'
    BY <2>10 DEF In
  <2> QED
    BY <2>1, <2>2, <2>3, <2>4, <2>5, <2>6, <2>7, <2>8, <2>9, <2>10 DEF Step, Continue
<1> QED
  BY <1>1, <1>2

-----------------------------------------------------------------------------
(* The inductive invariant holds in every reachable state: initially, and  *)
(* after every step of every worker.                                       *)
THEOREM Invariance == Spec => []IInv
<1>1. IInv /\ [Next]_vars => IInv'
  <2> SUFFICES ASSUME IInv, [Next]_vars PROVE IInv'
    OBVIOUS
  <2>1. CASE Next
    BY <2>1, TypeStep, MutexStep, BalanceStep, CommCountStep, LocalStep DEF Next, IInv
  <2>2. CASE UNCHANGED vars
    BY <2>2 DEF vars, IInv, TypeOK, MutualExclusion, InCritical, PoolBalance, InPut, CommCount,
                LocalInv, Chained
  <2> QED
    BY <2>1, <2>2
<1> QED
  BY <1>1, InitIInv, PTL DEF Spec

(* Type correctness: every variable of the pools keeps its type, whatever  *)
(* the workers do; in particular no list operation of fast_conn_pool.c     *)
(* leaves the sequences of connections (no head or tail of an empty list). *)
THEOREM TypeCorrect == Spec => []TypeOK
<1>1. IInv => TypeOK
  BY DEF IInv
<1> QED
  BY <1>1, Invariance, PTL

(* comm_conn_lock excludes: never two workers in put_comm_conn or          *)
(* get_comm_conn at once, and the word is on exactly while one is.         *)
THEOREM LockExcludes == Spec => []MutualExclusion
<1>1. IInv => MutualExclusion
  BY DEF IInv
<1> QED
  BY <1>1, Invariance, PTL

(* The books of every pool balance in every reachable state: free + used   *)
(* - change (+ 1 inside a put) is the size the pool was initialised with.  *)
THEOREM BooksBalance == Spec => []PoolBalance
<1>1. IInv => PoolBalance
  BY DEF IInv
<1> QED
  BY <1>1, Invariance, PTL

(* A refill never takes more from the common list than the pool is owed:   *)
(* no step but the receipt of a hand-over turns a pool that is owed into   *)
(* one that owes, although the amount was computed before the lock.        *)
THEOREM NoOverdraft == Spec => NeverOverdraws
<1>1. IInv /\ [Next]_vars =>
        [\A w \in Workers : change_n[w] < 0 /\ change_n'[w] > 0 => transit' # transit]_vars
  <2> SUFFICES ASSUME IInv, NEW v \in Workers, Step(v), NEW w \in Workers,
                      change_n[w] < 0, change_n'[w] > 0
               PROVE  transit' # transit
    BY DEF Next
  <2> USE DEF Goto, counters, IInv, TypeOK
  <2>1. change_n \in [Workers -> Int]
    OBVIOUS
  <2>2. CASE GetRefill(v)
    <3>1. want[v] <= -change_n[v] /\ want[v] \in Nat
      BY <2>2 DEF GetRefill, LocalInv, GetPc
    <3>2. change_n' = [change_n EXCEPT ![v] = change_n[v] + want[v]]
      BY <2>2 DEF GetRefill
    <3> QED
      BY <2>1, <3>1, <3>2
  <2>3. CASE PutDone(v)
    BY <2>1, <2>3 DEF PutDone
  <2>4. ASSUME NEW u \in Workers, NEW S \in SUBSET held[v], Out(v, u, S) PROVE transit' # transit
    <3>1. Cardinality(S) \in Nat
      BY SubsetSize
    <3>2. change_n' = [change_n EXCEPT ![v] = change_n[v] - Cardinality(S)]
      BY <2>4 DEF Out
    <3>3. change_n'[w] = change_n[w] \/ change_n'[w] = change_n[w] - Cardinality(S)
      BY <2>1, <3>2
    <3>4. change_n[w] \in Int
      BY <2>1
    <3>5. \A a \in Int, k \in Nat : a < 0 => ~ (a > 0) /\ ~ (a - k > 0)
      OBVIOUS
    <3>6. ~ (change_n[w] > 0) /\ ~ (change_n[w] - Cardinality(S) > 0)
      BY <3>1, <3>4, <3>5
    <3>7. ~ (change_n'[w] > 0)
      BY <3>3, <3>6
    <3> QED
      BY <3>7
  <2>5. ASSUME NEW S \in SUBSET transit[v], In(v, S) PROVE transit' # transit
    <3>1. transit'[v] = transit[v] \ S
      BY <2>5 DEF In
    <3> QED
      BY <2>5, <3>1 DEF In
  <2>6. CASE change_n' = change_n
    BY <2>1, <2>6
  <2> QED
    BY <2>2, <2>3, <2>4, <2>5, <2>6 DEF Step, Continue, GetLock, GetNone, GetReturnNull, GetRead,
       GetCut, GetUnlock, PutLock, PutCount, PutLink, PutUnlock, GetOwn, GetCommon, FreeOwn, FreeCommon
<1> QED
  BY <1>1, Invariance, PTL DEF Spec, NeverOverdraws

-----------------------------------------------------------------------------
(* What the operations do to a list without duplicates.                    *)
LEMMA PopList ==
  ASSUME NEW S, NEW s \in Seq(S), s # <<>>, IsInjective(s)
  PROVE  /\ IsInjective(Tail(s)) /\ Tail(s) \in Seq(S) /\ Head(s) \in S
         /\ Len(Tail(s)) = Len(s) - 1
         /\ Head(s) \in Range(s)
         /\ \A x : x \in Range(Tail(s)) <=> x \in Range(s) /\ x # Head(s)
<1> DEFINE t == Tail(s)
<1>1. /\ Len(s) \in Nat /\ Len(s) > 0 /\ DOMAIN s = 1 .. Len(s) /\ Head(s) = s[1]
  BY EmptySeq, LenProperties
<1>2. /\ t \in Seq(S) /\ Len(t) = Len(s) - 1 /\ DOMAIN t = 1 .. Len(t) /\ Head(s) \in S
      /\ \A i \in 1 .. Len(t) : t[i] = s[i + 1]
  BY HeadTailProperties, LenProperties
<1> HIDE DEF t
<1>3. IsInjective(t)
  <2> SUFFICES ASSUME NEW i \in 1 .. Len(t), NEW j \in 1 .. Len(t), t[i] = t[j] PROVE i = j
    BY <1>2 DEF IsInjective
  <2>1. i + 1 \in DOMAIN s /\ j + 1 \in DOMAIN s /\ s[i + 1] = s[j + 1]
    BY <1>1, <1>2
  <2>2. i + 1 = j + 1
    BY <2>1 DEF IsInjective
  <2> QED
    BY <2>2, <1>1, <1>2
<1>4. Head(s) \in Range(s)
  BY <1>1 DEF Range
<1>5. ASSUME NEW x, x \in Range(t) PROVE x \in Range(s) /\ x # Head(s)
  <2>1. PICK i \in 1 .. Len(t) : x = t[i]
    BY <1>5, <1>2 DEF Range
  <2>2. i + 1 \in DOMAIN s /\ x = s[i + 1] /\ 1 \in DOMAIN s /\ i + 1 # 1
    BY <2>1, <1>1, <1>2
  <2> QED
    BY <2>2, <1>1 DEF IsInjective, Range
<1>6. ASSUME NEW x, x \in Range(s), x # Head(s) PROVE x \in Range(t)
  <2>1. PICK i \in 1 .. Len(s) : x = s[i]
    BY <1>6, <1>1 DEF Range
  <2>2. i - 1 \in 1 .. Len(t) /\ (i - 1) + 1 = i
    BY <2>1, <1>1, <1>2, <1>6
  <2>3. x = t[i - 1]
    BY <2>1, <2>2, <1>2
  <2> QED
    BY <2>2, <2>3, <1>2 DEF Range
<1> QED
  BY <1>2, <1>3, <1>4, <1>5, <1>6 DEF t

LEMMA PushList ==
  ASSUME NEW S, NEW s \in Seq(S), NEW c \in S, c \notin Range(s), IsInjective(s)
  PROVE  /\ IsInjective(<<c>> \o s) /\ <<c>> \o s \in Seq(S)
         /\ Len(<<c>> \o s) = Len(s) + 1
         /\ \A x : x \in Range(<<c>> \o s) <=> x = c \/ x \in Range(s)
<1> DEFINE t == <<c>> \o s
<1>1. /\ Len(s) \in Nat /\ DOMAIN s = 1 .. Len(s)
  BY LenProperties
<1>2. /\ t \in Seq(S) /\ Len(t) = Len(s) + 1 /\ DOMAIN t = 1 .. Len(t)
      /\ \A i \in 1 .. Len(t) : t[i] = IF i <= 1 THEN c ELSE s[i - 1]
  <2>1. <<c>> \in Seq(S) /\ Len(<<c>>) = 1 /\ <<c>>[1] = c
    OBVIOUS
  <2> QED
    BY <1>1, <2>1, ConcatProperties, LenProperties
<1> HIDE DEF t
<1>3. \A i \in 1 .. Len(t) : i # 1 => i - 1 \in DOMAIN s /\ t[i] = s[i - 1] /\ t[i] # c
  BY <1>1, <1>2 DEF Range
<1>4. 1 \in 1 .. Len(t) /\ t[1] = c
  BY <1>1, <1>2
<1>5. IsInjective(t)
  <2> SUFFICES ASSUME NEW i \in 1 .. Len(t), NEW j \in 1 .. Len(t), t[i] = t[j] PROVE i = j
    BY <1>2 DEF IsInjective
  <2>1. CASE i = 1 \/ j = 1
    BY <2>1, <1>3, <1>4
  <2>2. CASE i # 1 /\ j # 1
    <3>1. i - 1 = j - 1
      BY <2>2, <1>3 DEF IsInjective
    <3> QED
      BY <3>1, <1>2, <1>1
  <2> QED
    BY <2>1, <2>2
<1>6. ASSUME NEW x, x \in Range(t) PROVE x = c \/ x \in Range(s)
  BY <1>6, <1>2, <1>3, <1>4 DEF Range
<1>7. ASSUME NEW x, x \in Range(s) PROVE x \in Range(t)
  <2>1. PICK i \in DOMAIN s : x = s[i]
    BY <1>7 DEF Range
  <2>2. i + 1 \in 1 .. Len(t) /\ i + 1 # 1 /\ (i + 1) - 1 = i
    BY <1>1, <1>2
  <2>3. t[i + 1] = x
    BY <2>1, <2>2, <1>3
  <2> QED
    BY <2>2, <2>3, <1>2 DEF Range
<1>8. c \in Range(t)
  BY <1>2, <1>4 DEF Range
<1> QED
  BY <1>2, <1>5, <1>6, <1>7, <1>8 DEF t

LEMMA CutList ==
  ASSUME NEW S, NEW s \in Seq(S), NEW n \in Nat, n <= Len(s), IsInjective(s)
  PROVE  /\ IsInjective(SubSeq(s, 1, n)) /\ IsInjective(SubSeq(s, n + 1, Len(s)))
         /\ SubSeq(s, 1, n) \in Seq(S) /\ SubSeq(s, n + 1, Len(s)) \in Seq(S)
         /\ Len(SubSeq(s, 1, n)) = n /\ Len(SubSeq(s, n + 1, Len(s))) = Len(s) - n
         /\ \A x : ~ (x \in Range(SubSeq(s, 1, n)) /\ x \in Range(SubSeq(s, n + 1, Len(s))))
         /\ \A x : x \in Range(s) <=>
                     x \in Range(SubSeq(s, 1, n)) \/ x \in Range(SubSeq(s, n + 1, Len(s)))
<1> DEFINE a == SubSeq(s, 1, n)
           b == SubSeq(s, n + 1, Len(s))
<1>0. Len(s) \in Nat
  BY LenProperties
<1>1. /\ Len(s) \in Nat /\ DOMAIN s = 1 .. Len(s) /\ \A i \in 1 .. Len(s) : s[i] \in S
  BY LenProperties
<1>2. /\ a \in Seq(S) /\ Len(a) = n /\ DOMAIN a = 1 .. n /\ \A i \in 1 .. n : a[i] = s[i]
  <2>1. \A i \in 1 .. n : s[i] \in S
    BY <1>1
  <2>2. a \in Seq(S) /\ Len(a) = (IF 1 <= n THEN n - 1 + 1 ELSE 0)
        /\ \A i \in 1 .. n - 1 + 1 : a[i] = s[1 + i - 1]
    BY <2>1, SubSeqProperties
  <2>3. Len(a) = n /\ n - 1 + 1 = n /\ \A i \in 1 .. n : 1 + i - 1 = i
    BY <2>2
  <2> HIDE DEF a
  <2> QED
    BY <2>2, <2>3, LenProperties
<1>3. /\ b \in Seq(S) /\ Len(b) = Len(s) - n /\ DOMAIN b = 1 .. Len(s) - n
      /\ \A i \in 1 .. Len(s) - n : b[i] = s[n + i]
  <2>1. \A i \in n + 1 .. Len(s) : s[i] \in S
    BY <1>1
  <2>2. b \in Seq(S) /\ Len(b) = (IF n + 1 <= Len(s) THEN Len(s) - (n + 1) + 1 ELSE 0)
        /\ \A i \in 1 .. Len(s) - (n + 1) + 1 : b[i] = s[(n + 1) + i - 1]
    BY <2>1, <1>1, SubSeqProperties
  <2> HIDE DEF b
  <2>3. Len(b) = Len(s) - n
    BY <2>2, <1>0
  <2>4. Len(s) - (n + 1) + 1 = Len(s) - n /\ \A i \in 1 .. Len(s) - n : (n + 1) + i - 1 = n + i
    BY <1>1
  <2> QED
    BY <2>2, <2>3, <2>4, LenProperties
<1> HIDE DEF a, b
<1>4. IsInjective(a)
  <2>1. \A i \in 1 .. n : i \in DOMAIN s
    BY <1>1
  <2> QED
    BY <1>2, <2>1 DEF IsInjective
<1>5. IsInjective(b)
  <2> SUFFICES ASSUME NEW i \in 1 .. Len(s) - n, NEW j \in 1 .. Len(s) - n, b[i] = b[j] PROVE i = j
    BY <1>3 DEF IsInjective
  <2>1. n + i \in DOMAIN s /\ n + j \in DOMAIN s /\ s[n + i] = s[n + j]
    BY <1>1, <1>3
  <2>2. n + i = n + j
    BY <2>1 DEF IsInjective
  <2> QED
    BY <2>2, <1>1
<1>6. ASSUME NEW x, x \in Range(a), x \in Range(b) PROVE FALSE
  <2>1. PICK i \in 1 .. n : x = s[i]
    BY <1>6, <1>2 DEF Range
  <2>2. PICK j \in 1 .. Len(s) - n : x = s[n + j]
    BY <1>6, <1>3 DEF Range
  <2>3. i \in DOMAIN s /\ n + j \in DOMAIN s /\ i # n + j
    BY <1>1
  <2> QED
    BY <2>1, <2>2, <2>3 DEF IsInjective
<1>7. ASSUME NEW x, x \in Range(s) PROVE x \in Range(a) \/ x \in Range(b)
  <2>1. PICK i \in 1 .. Len(s) : x = s[i]
    BY <1>7, <1>1 DEF Range
  <2>2. CASE i <= n
    <3>1. i \in 1 .. n
      BY <2>2, <1>1
    <3> QED
      BY <2>1, <3>1, <1>2 DEF Range
  <2>3. CASE ~ (i <= n)
    <3>1. i - n \in 1 .. Len(s) - n /\ n + (i - n) = i
      BY <2>3, <1>1
    <3>2. b[i - n] = x
      BY <2>1, <3>1, <1>3
    <3> QED
      BY <3>1, <3>2, <1>3 DEF Range
  <2> QED
    BY <2>2, <2>3
<1>8. ASSUME NEW x, x \in Range(a) \/ x \in Range(b) PROVE x \in Range(s)
  <2>1. CASE x \in Range(a)
    BY <2>1, <1>1, <1>2 DEF Range
  <2>2. CASE x \in Range(b)
    <3>1. PICK j \in 1 .. Len(s) - n : x = s[n + j]
      BY <2>2, <1>3 DEF Range
    <3>2. n + j \in DOMAIN s
      BY <1>1
    <3> QED
      BY <3>1, <3>2 DEF Range
  <2> QED
    BY <1>8, <2>1, <2>2
<1> QED
  BY <1>2, <1>3, <1>4, <1>5, <1>6, <1>7, <1>8 DEF a, b

-----------------------------------------------------------------------------
(* A place is a kind and a worker, or the common list.  P gives each       *)
(* connection its place.                                                   *)
Kinds == {"free", "held", "transit", "returning", "refill"}
At(k, w) == <<k, w>>
Common == <<"common">>
Places == {At(k, w) : k \in Kinds, w \in Workers} \cup {Common}

(* The connections at places of kind k are those F says, worker by worker. *)
Holds(P, k, F) == \A w \in Workers, c \in Conns : P[c] = At(k, w) <=> c \in F[w]

FreeSets  == [w \in Workers |-> Range(free[w])]
ArgSets   == [w \in Workers |-> {arg[w]}]
ChainSets == [w \in Workers |-> IF Chained(w) THEN Range(seen[w]) ELSE {}]

(* No list has a connection twice.                                         *)
NoDups ==
  /\ IsInjective(comm)
  /\ \A w \in Workers : IsInjective(free[w])
  /\ \A w \in Workers : Chained(w) => IsInjective(seen[w])

(* P is the whole truth: a connection is where P says and nowhere else.    *)
Owned(P) ==
  /\ P \in [Conns -> Places]
  /\ Holds(P, "free", FreeSets)
  /\ Holds(P, "held", held)
  /\ Holds(P, "transit", transit)
  /\ Holds(P, "returning", ArgSets)
  /\ Holds(P, "refill", ChainSets)
  /\ \A c \in Conns : P[c] = Common <=> c \in Range(comm)
  /\ NoDups

(* A connection is being returned only by the code of put_comm_conn.       *)
ArgClear == \A w \in Workers :
  pc[w] \notin {"put_lock", "put_count", "put_link"} => arg[w] = NoConn

(* The connections of S move from p to q, and the others stay.             *)
Moved(P, Q, S, p, q) ==
  /\ S \subseteq Conns
  /\ \A c \in S : P[c] = p
  /\ Q = [c \in Conns |-> IF c \in S THEN q ELSE P[c]]

LEMMA Apart ==
  /\ Common \in Places
  /\ \A k \in Kinds, w \in Workers : At(k, w) \in Places /\ At(k, w) # Common
  /\ \A k, l \in Kinds, v, w \in Workers : At(k, v) = At(l, w) => k = l /\ v = w
<1>1. \A k \in Kinds, w \in Workers : At(k, w) # Common
  BY DEF At, Common
<1>2. \A k, l \in Kinds, v, w \in Workers : At(k, v) = At(l, w) => k = l /\ v = w
  BY DEF At
<1> QED
  BY <1>1, <1>2 DEF Places

LEMMA ConnIsSome == NoConn \notin Conns
<1> SUFFICES ASSUME NEW w \in Workers, NoConn \in {w} \X (1 .. connection_n[w]) PROVE FALSE
  BY DEF Conns
<1> QED
  BY DEF NoConn

(* A move and the kinds it does not touch, the kind it starts from, and    *)
(* the kind it ends at.                                                    *)
LEMMA MoveKeeps ==
  ASSUME NEW P, NEW Q, NEW S, NEW p, NEW q, Moved(P, Q, S, p, q),
         NEW m \in Kinds, \A u \in Workers : p # At(m, u) /\ q # At(m, u),
         NEW F, Holds(P, m, F)
  PROVE  Holds(Q, m, F)
BY DEF Moved, Holds

LEMMA MoveFrom ==
  ASSUME NEW P, NEW Q, NEW S, NEW m \in Kinds, NEW w \in Workers, NEW q,
         Moved(P, Q, S, At(m, w), q), \A u \in Workers : q # At(m, u),
         NEW F, NEW G, Holds(P, m, F),
         \A u \in Workers \ {w} : G[u] = F[u],
         \A c \in Conns : c \in G[w] <=> c \in F[w] /\ c \notin S
  PROVE  Holds(Q, m, G)
<1> SUFFICES ASSUME NEW u \in Workers, NEW c \in Conns PROVE Q[c] = At(m, u) <=> c \in G[u]
  BY DEF Holds
<1>1. CASE u = w
  BY <1>1 DEF Moved, Holds
<1>2. CASE u # w
  BY <1>2, Apart DEF Moved, Holds
<1> QED
  BY <1>1, <1>2

LEMMA MoveTo ==
  ASSUME NEW P, NEW Q, NEW S, NEW m \in Kinds, NEW w \in Workers, NEW p,
         Moved(P, Q, S, p, At(m, w)), \A u \in Workers : p # At(m, u),
         NEW F, NEW G, Holds(P, m, F),
         \A u \in Workers \ {w} : G[u] = F[u],
         \A c \in Conns : c \in G[w] <=> c \in F[w] \/ c \in S
  PROVE  Holds(Q, m, G)
<1> SUFFICES ASSUME NEW u \in Workers, NEW c \in Conns PROVE Q[c] = At(m, u) <=> c \in G[u]
  BY DEF Holds
<1>1. CASE u = w
  BY <1>1 DEF Moved, Holds
<1>2. CASE u # w
  BY <1>2, Apart DEF Moved, Holds
<1> QED
  BY <1>1, <1>2

(* A move between workers' places keeps the common list; a move to or from *)
(* it does not change the others' view.                                    *)
LEMMA MoveCommon ==
  ASSUME NEW P \in [Conns -> Places], NEW Q, NEW S, NEW p \in Places, NEW q \in Places,
         Moved(P, Q, S, p, q), p # q
  PROVE  /\ Q \in [Conns -> Places]
         /\ p # Common /\ q # Common => \A c \in Conns : Q[c] = Common <=> P[c] = Common
         /\ p = Common => \A c \in Conns : Q[c] = Common <=> P[c] = Common /\ c \notin S
         /\ q = Common => \A c \in Conns : Q[c] = Common <=> P[c] = Common \/ c \in S
BY DEF Moved

-----------------------------------------------------------------------------
(* The steps of ConnOwnership, of a place function.                        *)
GetMove(P, Q, w)      == \E c \in Conns : Moved(P, Q, {c}, At("free", w), At("held", w))
FreeMove(P, Q, w)     == \E c \in Conns : Moved(P, Q, {c}, At("held", w), At("free", w))
ReturnMove(P, Q, w)   == \E c \in Conns : Moved(P, Q, {c}, At("held", w), At("returning", w))
ReturnedMove(P, Q, w) == \E c \in Conns : Moved(P, Q, {c}, At("returning", w), Common)
FetchMove(P, Q, w)    == \E S \in SUBSET Conns :
  S # {} /\ Moved(P, Q, S, Common, At("refill", w))
OutMove(P, Q, w)      == \E v \in Workers \ {w}, S \in SUBSET Conns :
  S # {} /\ Moved(P, Q, S, At("held", w), At("transit", v))
InMove(P, Q, w)       == \E S \in SUBSET Conns :
  S # {} /\ Moved(P, Q, S, At("transit", w), At("held", w))
RefillMove(P, Q, w)   == \E c \in Conns :
  /\ P[c] = At("refill", w)
  /\ Q = [d \in Conns |-> IF d = c THEN At("held", w)
                          ELSE IF P[d] = At("refill", w) THEN At("free", w) ELSE P[d]]

Moves(P, Q, w) ==
  \/ GetMove(P, Q, w) \/ FreeMove(P, Q, w) \/ ReturnMove(P, Q, w) \/ ReturnedMove(P, Q, w)
  \/ FetchMove(P, Q, w) \/ OutMove(P, Q, w) \/ InMove(P, Q, w) \/ RefillMove(P, Q, w)

(* Two different kinds of place are never the same place.                  *)
LEMMA KindsApart ==
  /\ \A k, l \in Kinds, v, w \in Workers : k # l => At(k, v) # At(l, w)
  /\ \A k \in Kinds, w \in Workers : At(k, w) # Common /\ At(k, w) \in Places
  /\ Common \in Places
BY Apart

LEMMA FiveKinds ==
  /\ "free" \in Kinds /\ "held" \in Kinds /\ "transit" \in Kinds
  /\ "returning" \in Kinds /\ "refill" \in Kinds
BY DEF Kinds

(* GetOwn: the head of the own list is now used.                           *)
LEMMA GetOwnMoves ==
  ASSUME IInv, NEW P, Owned(P), NEW w \in Workers, GetOwn(w)
  PROVE  \E Q : Owned(Q)' /\ GetMove(P, Q, w)
<1>1. /\ free[w] \in Seq(Conns) /\ free[w] # <<>> /\ IsInjective(free[w])
      /\ free \in [Workers -> Seq(Conns)] /\ held \in [Workers -> SUBSET Conns]
  BY DEF IInv, TypeOK, Owned, NoDups, GetOwn
<1>2. PICK c \in Conns : c = Head(free[w])
  BY <1>1, PopList
<1>3. /\ IsInjective(Tail(free[w])) /\ c \in Range(free[w])
      /\ \A x : x \in Range(Tail(free[w])) <=> x \in Range(free[w]) /\ x # c
  BY <1>1, <1>2, PopList
<1>4. /\ free' = [free EXCEPT ![w] = Tail(free[w])] /\ held' = [held EXCEPT ![w] = @ \cup {c}]
      /\ UNCHANGED <<comm, pc, seen, arg, transit>>
  BY <1>2 DEF GetOwn, locals
<1>5. PICK Q : Q = [d \in Conns |-> IF d \in {c} THEN At("held", w) ELSE P[d]]
  OBVIOUS
<1>6. Moved(P, Q, {c}, At("free", w), At("held", w))
  BY <1>3, <1>5, FiveKinds DEF Moved, Owned, Holds, FreeSets
<1>7. Holds(Q, "free", FreeSets)'
  <2>1. /\ \A u \in Workers \ {w} : FreeSets'[u] = FreeSets[u]
        /\ \A d \in Conns : d \in FreeSets'[w] <=> d \in FreeSets[w] /\ d \notin {c}
    BY <1>1, <1>3, <1>4 DEF FreeSets
  <2>2. Holds(Q, "free", FreeSets')
    BY <2>1, <1>6, MoveFrom, KindsApart, FiveKinds DEF Owned
  <2> QED
    BY <2>2
<1>8. Holds(Q, "held", held)'
  <2>1. /\ \A u \in Workers \ {w} : held'[u] = held[u]
        /\ \A d \in Conns : d \in held'[w] <=> d \in held[w] \/ d \in {c}
    BY <1>1, <1>4
  <2> QED
    BY <2>1, <1>6, MoveTo, KindsApart, FiveKinds DEF Owned
<1>9. Holds(Q, "transit", transit)' /\ Holds(Q, "returning", ArgSets)' /\ Holds(Q, "refill", ChainSets)'
  <2>1. transit' = transit /\ ArgSets' = ArgSets /\ ChainSets' = ChainSets
    BY <1>4 DEF ArgSets, ChainSets, Chained
  <2>2. Holds(Q, "transit", transit) /\ Holds(Q, "returning", ArgSets) /\ Holds(Q, "refill", ChainSets)
    BY <1>6, MoveKeeps, KindsApart, FiveKinds DEF Owned
  <2> QED
    BY <2>1, <2>2
<1>10. Q \in [Conns -> Places] /\ \A d \in Conns : Q[d] = Common <=> d \in Range(comm')
  BY <1>4, <1>6, MoveCommon, KindsApart, FiveKinds DEF Owned
<1>12. NoDups'
  BY <1>1, <1>3, <1>4 DEF NoDups, Owned, Chained
<1>13. Owned(Q)'
  BY <1>7, <1>8, <1>9, <1>10, <1>12 DEF Owned
<1> QED
  BY <1>6, <1>13 DEF GetMove

(* FreeOwn: a connection in use goes to the head of the own list.          *)
LEMMA FreeOwnMoves ==
  ASSUME IInv, NEW P, Owned(P), NEW w \in Workers, NEW c \in held[w], FreeOwn(w, c)
  PROVE  \E Q : Owned(Q)' /\ FreeMove(P, Q, w)
<1>1. /\ free[w] \in Seq(Conns) /\ IsInjective(free[w]) /\ c \in Conns
      /\ free \in [Workers -> Seq(Conns)] /\ held \in [Workers -> SUBSET Conns]
  BY DEF IInv, TypeOK, Owned, NoDups
<1>2. P[c] = At("held", w)
  BY <1>1 DEF Owned, Holds
<1>3. c \notin Range(free[w])
  BY <1>1, <1>2, KindsApart, FiveKinds DEF Owned, Holds, FreeSets
<1>4. /\ IsInjective(<<c>> \o free[w])
      /\ \A x : x \in Range(<<c>> \o free[w]) <=> x \in Range(free[w]) \/ x = c
  BY <1>1, <1>3, PushList
<1>5. /\ free' = [free EXCEPT ![w] = <<c>> \o free[w]] /\ held' = [held EXCEPT ![w] = @ \ {c}]
      /\ UNCHANGED <<comm, pc, seen, arg, transit>>
  BY DEF FreeOwn, locals
<1>6. PICK Q : Q = [d \in Conns |-> IF d \in {c} THEN At("free", w) ELSE P[d]]
  OBVIOUS
<1>7. Moved(P, Q, {c}, At("held", w), At("free", w))
  BY <1>1, <1>2, <1>6 DEF Moved
<1>8. Holds(Q, "free", FreeSets)'
  <2>1. /\ \A u \in Workers \ {w} : FreeSets'[u] = FreeSets[u]
        /\ \A d \in Conns : d \in FreeSets'[w] <=> d \in FreeSets[w] \/ d \in {c}
    BY <1>1, <1>4, <1>5 DEF FreeSets
  <2>2. Holds(Q, "free", FreeSets')
    BY <2>1, <1>7, MoveTo, KindsApart, FiveKinds DEF Owned
  <2> QED
    BY <2>2
<1>9. Holds(Q, "held", held)'
  <2>1. /\ \A u \in Workers \ {w} : held'[u] = held[u]
        /\ \A d \in Conns : d \in held'[w] <=> d \in held[w] /\ d \notin {c}
    BY <1>1, <1>5
  <2> QED
    BY <2>1, <1>7, MoveFrom, KindsApart, FiveKinds DEF Owned
<1>10. Holds(Q, "transit", transit)' /\ Holds(Q, "returning", ArgSets)' /\ Holds(Q, "refill", ChainSets)'
  <2>1. transit' = transit /\ ArgSets' = ArgSets /\ ChainSets' = ChainSets
    BY <1>5 DEF ArgSets, ChainSets, Chained
  <2>2. Holds(Q, "transit", transit) /\ Holds(Q, "returning", ArgSets) /\ Holds(Q, "refill", ChainSets)
    BY <1>7, MoveKeeps, KindsApart, FiveKinds DEF Owned
  <2> QED
    BY <2>1, <2>2
<1>11. Q \in [Conns -> Places] /\ \A d \in Conns : Q[d] = Common <=> d \in Range(comm')
  BY <1>5, <1>7, MoveCommon, KindsApart, FiveKinds DEF Owned
<1>12. NoDups'
  BY <1>1, <1>4, <1>5 DEF NoDups, Owned, Chained
<1>13. Owned(Q)'
  BY <1>8, <1>9, <1>10, <1>11, <1>12 DEF Owned
<1> QED
  BY <1>1, <1>7, <1>13 DEF FreeMove

(* FreeCommon: a connection in use is in the hands of put_comm_conn.       *)
LEMMA FreeCommonMoves ==
  ASSUME IInv, ArgClear, NEW P, Owned(P), NEW w \in Workers, NEW c \in held[w], FreeCommon(w, c)
  PROVE  \E Q : Owned(Q)' /\ ReturnMove(P, Q, w)
<1>1. /\ c \in Conns /\ held \in [Workers -> SUBSET Conns] /\ pc[w] = "idle" /\ arg[w] = NoConn
      /\ pc \in [Workers -> {"idle"} \cup GetPc \cup PutPc] /\ arg \in [Workers -> Conns \cup {NoConn}]
  BY DEF IInv, TypeOK, FreeCommon, Goto, ArgClear
<1>2. P[c] = At("held", w)
  BY <1>1 DEF Owned, Holds
<1>3. /\ held' = [held EXCEPT ![w] = @ \ {c}] /\ arg' = [arg EXCEPT ![w] = c]
      /\ pc' = [pc EXCEPT ![w] = "put_lock"]
      /\ UNCHANGED <<free, comm, seen, transit>>
  BY DEF FreeCommon, Goto
<1>4. PICK Q : Q = [d \in Conns |-> IF d \in {c} THEN At("returning", w) ELSE P[d]]
  OBVIOUS
<1>5. Moved(P, Q, {c}, At("held", w), At("returning", w))
  BY <1>1, <1>2, <1>4 DEF Moved
<1>6. Holds(Q, "returning", ArgSets)'
  <2>1. /\ \A u \in Workers \ {w} : ArgSets'[u] = ArgSets[u]
        /\ \A d \in Conns : d \in ArgSets'[w] <=> d \in ArgSets[w] \/ d \in {c}
    BY <1>1, <1>3, ConnIsSome DEF ArgSets
  <2>2. Holds(Q, "returning", ArgSets')
    BY <2>1, <1>5, MoveTo, KindsApart, FiveKinds DEF Owned
  <2> QED
    BY <2>2
<1>7. Holds(Q, "held", held)'
  <2>1. /\ \A u \in Workers \ {w} : held'[u] = held[u]
        /\ \A d \in Conns : d \in held'[w] <=> d \in held[w] /\ d \notin {c}
    BY <1>1, <1>3
  <2> QED
    BY <2>1, <1>5, MoveFrom, KindsApart, FiveKinds DEF Owned
<1>8. \A u \in Workers : Chained(u)' <=> Chained(u)
  BY <1>1, <1>3 DEF Chained
<1>9. Holds(Q, "free", FreeSets)' /\ Holds(Q, "transit", transit)' /\ Holds(Q, "refill", ChainSets)'
  <2>1. transit' = transit /\ FreeSets' = FreeSets /\ ChainSets' = ChainSets
    BY <1>3, <1>8 DEF FreeSets, ChainSets
  <2>2. Holds(Q, "transit", transit) /\ Holds(Q, "free", FreeSets) /\ Holds(Q, "refill", ChainSets)
    BY <1>5, MoveKeeps, KindsApart, FiveKinds DEF Owned
  <2> QED
    BY <2>1, <2>2
<1>10. Q \in [Conns -> Places] /\ \A d \in Conns : Q[d] = Common <=> d \in Range(comm')
  BY <1>3, <1>5, MoveCommon, KindsApart, FiveKinds DEF Owned
<1>11. NoDups'
  BY <1>3, <1>8 DEF NoDups, Owned
<1>12. Owned(Q)'
  BY <1>6, <1>7, <1>9, <1>10, <1>11 DEF Owned
<1> QED
  BY <1>1, <1>5, <1>12 DEF ReturnMove

(* PutLink: the connection in the hands of a put heads the common list.    *)
LEMMA PutLinkMoves ==
  ASSUME IInv, NEW P, Owned(P), NEW w \in Workers, PutLink(w)
  PROVE  \E Q : Owned(Q)' /\ ReturnedMove(P, Q, w)
<1>1. /\ arg[w] \in Conns /\ pc[w] = "put_link" /\ seen[w] = comm /\ comm \in Seq(Conns)
      /\ pc \in [Workers -> {"idle"} \cup GetPc \cup PutPc] /\ arg \in [Workers -> Conns \cup {NoConn}]
      /\ seen \in [Workers -> Seq(Conns)] /\ IsInjective(comm)
  BY DEF IInv, TypeOK, LocalInv, PutLink, Goto, Owned, NoDups
<1>2. PICK c \in Conns : c = arg[w]
  BY <1>1
<1>3. P[c] = At("returning", w)
  BY <1>2 DEF Owned, Holds, ArgSets
<1>4. c \notin Range(comm)
  BY <1>3, KindsApart, FiveKinds DEF Owned
<1>5. /\ IsInjective(<<c>> \o comm)
      /\ \A x : x \in Range(<<c>> \o comm) <=> x = c \/ x \in Range(comm)
  BY <1>1, <1>4, PushList
<1>6. /\ comm' = <<c>> \o comm /\ seen' = [seen EXCEPT ![w] = <<>>]
      /\ arg' = [arg EXCEPT ![w] = NoConn] /\ pc' = [pc EXCEPT ![w] = "put_unlock"]
      /\ UNCHANGED <<free, held, transit>>
  BY <1>1, <1>2 DEF PutLink, Goto
<1>7. PICK Q : Q = [d \in Conns |-> IF d \in {c} THEN Common ELSE P[d]]
  OBVIOUS
<1>8. Moved(P, Q, {c}, At("returning", w), Common)
  BY <1>3, <1>7 DEF Moved
<1>9. Holds(Q, "returning", ArgSets)'
  <2>1. /\ \A u \in Workers \ {w} : ArgSets'[u] = ArgSets[u]
        /\ \A d \in Conns : d \in ArgSets'[w] <=> d \in ArgSets[w] /\ d \notin {c}
    BY <1>1, <1>2, <1>6, ConnIsSome DEF ArgSets
  <2>2. Holds(Q, "returning", ArgSets')
    BY <2>1, <1>8, MoveFrom, KindsApart, FiveKinds DEF Owned
  <2> QED
    BY <2>2
<1>10. \A u \in Workers : (Chained(u)' <=> Chained(u)) /\ (Chained(u) => seen'[u] = seen[u])
  BY <1>1, <1>6 DEF Chained
<1>11. Holds(Q, "free", FreeSets)' /\ Holds(Q, "transit", transit)' /\ Holds(Q, "refill", ChainSets)'
       /\ Holds(Q, "held", held)'
  <2>1. transit' = transit /\ FreeSets' = FreeSets /\ held' = held
    BY <1>6 DEF FreeSets
  <2>2. ChainSets' = ChainSets
    BY <1>10 DEF ChainSets
  <2>3. Holds(Q, "transit", transit) /\ Holds(Q, "free", FreeSets) /\ Holds(Q, "refill", ChainSets)
        /\ Holds(Q, "held", held)
    BY <1>8, MoveKeeps, KindsApart, FiveKinds DEF Owned
  <2> QED
    BY <2>1, <2>2, <2>3
<1>12. Q \in [Conns -> Places] /\ \A d \in Conns : Q[d] = Common <=> d \in Range(comm')
  <2>1. /\ Q \in [Conns -> Places] /\ \A d \in Conns : Q[d] = Common <=> P[d] = Common \/ d \in {c}
    BY <1>8, MoveCommon, KindsApart, FiveKinds DEF Owned
  <2> QED
    BY <2>1, <1>5, <1>6 DEF Owned
<1>13. NoDups'
  BY <1>5, <1>6, <1>10 DEF NoDups, Owned
<1>14. Owned(Q)'
  BY <1>9, <1>11, <1>12, <1>13 DEF Owned
<1> QED
  BY <1>8, <1>14 DEF ReturnedMove

-----------------------------------------------------------------------------
(* Out: the connections of S are on their way to worker v.                 *)
LEMMA OutMoves ==
  ASSUME IInv, NEW P, Owned(P), NEW w \in Workers, NEW v \in Workers, NEW S \in SUBSET held[w],
         Out(w, v, S)
  PROVE  \E Q : Owned(Q)' /\ OutMove(P, Q, w)
<1>1. /\ held \in [Workers -> SUBSET Conns] /\ transit \in [Workers -> SUBSET Conns]
      /\ S \in SUBSET Conns /\ S # {} /\ w # v
  BY DEF IInv, TypeOK, Out
<1>2. \A c \in S : P[c] = At("held", w)
  BY <1>1 DEF Owned, Holds
<1>3. /\ held' = [held EXCEPT ![w] = @ \ S] /\ transit' = [transit EXCEPT ![v] = @ \cup S]
      /\ UNCHANGED <<free, comm, pc, seen, arg>>
  BY DEF Out, locals
<1>4. PICK Q : Q = [d \in Conns |-> IF d \in S THEN At("transit", v) ELSE P[d]]
  OBVIOUS
<1>5. Moved(P, Q, S, At("held", w), At("transit", v))
  BY <1>1, <1>2, <1>4 DEF Moved
<1>6. Holds(Q, "held", held)'
  <2>1. /\ \A u \in Workers \ {w} : held'[u] = held[u]
        /\ \A d \in Conns : d \in held'[w] <=> d \in held[w] /\ d \notin S
    BY <1>1, <1>3
  <2> QED
    BY <2>1, <1>5, MoveFrom, KindsApart, FiveKinds DEF Owned
<1>7. Holds(Q, "transit", transit)'
  <2>1. /\ \A u \in Workers \ {v} : transit'[u] = transit[u]
        /\ \A d \in Conns : d \in transit'[v] <=> d \in transit[v] \/ d \in S
    BY <1>1, <1>3
  <2> QED
    BY <2>1, <1>5, MoveTo, KindsApart, FiveKinds DEF Owned
<1>8. Holds(Q, "free", FreeSets)' /\ Holds(Q, "returning", ArgSets)' /\ Holds(Q, "refill", ChainSets)'
  <2>1. FreeSets' = FreeSets /\ ArgSets' = ArgSets /\ ChainSets' = ChainSets
    BY <1>3 DEF FreeSets, ArgSets, ChainSets, Chained
  <2>2. Holds(Q, "free", FreeSets) /\ Holds(Q, "returning", ArgSets) /\ Holds(Q, "refill", ChainSets)
    BY <1>5, MoveKeeps, KindsApart, FiveKinds DEF Owned
  <2> QED
    BY <2>1, <2>2
<1>9. Q \in [Conns -> Places] /\ \A d \in Conns : Q[d] = Common <=> d \in Range(comm')
  BY <1>3, <1>5, MoveCommon, KindsApart, FiveKinds DEF Owned
<1>10. NoDups'
  BY <1>3 DEF NoDups, Owned, Chained
<1>11. Owned(Q)'
  BY <1>6, <1>7, <1>8, <1>9, <1>10 DEF Owned
<1> QED
  BY <1>1, <1>5, <1>11 DEF OutMove

(* In: the connections of S are in use by the worker they were passed to.  *)
LEMMA InMoves ==
  ASSUME IInv, NEW P, Owned(P), NEW w \in Workers, NEW S \in SUBSET transit[w], In(w, S)
  PROVE  \E Q : Owned(Q)' /\ InMove(P, Q, w)
<1>1. /\ held \in [Workers -> SUBSET Conns] /\ transit \in [Workers -> SUBSET Conns]
      /\ S \in SUBSET Conns /\ S # {}
  BY DEF IInv, TypeOK, In
<1>2. \A c \in S : P[c] = At("transit", w)
  BY <1>1 DEF Owned, Holds
<1>3. /\ held' = [held EXCEPT ![w] = @ \cup S] /\ transit' = [transit EXCEPT ![w] = @ \ S]
      /\ UNCHANGED <<free, comm, pc, seen, arg>>
  BY DEF In, locals
<1>4. PICK Q : Q = [d \in Conns |-> IF d \in S THEN At("held", w) ELSE P[d]]
  OBVIOUS
<1>5. Moved(P, Q, S, At("transit", w), At("held", w))
  BY <1>1, <1>2, <1>4 DEF Moved
<1>6. Holds(Q, "held", held)'
  <2>1. /\ \A u \in Workers \ {w} : held'[u] = held[u]
        /\ \A d \in Conns : d \in held'[w] <=> d \in held[w] \/ d \in S
    BY <1>1, <1>3
  <2> QED
    BY <2>1, <1>5, MoveTo, KindsApart, FiveKinds DEF Owned
<1>7. Holds(Q, "transit", transit)'
  <2>1. /\ \A u \in Workers \ {w} : transit'[u] = transit[u]
        /\ \A d \in Conns : d \in transit'[w] <=> d \in transit[w] /\ d \notin S
    BY <1>1, <1>3
  <2> QED
    BY <2>1, <1>5, MoveFrom, KindsApart, FiveKinds DEF Owned
<1>8. Holds(Q, "free", FreeSets)' /\ Holds(Q, "returning", ArgSets)' /\ Holds(Q, "refill", ChainSets)'
  <2>1. FreeSets' = FreeSets /\ ArgSets' = ArgSets /\ ChainSets' = ChainSets
    BY <1>3 DEF FreeSets, ArgSets, ChainSets, Chained
  <2>2. Holds(Q, "free", FreeSets) /\ Holds(Q, "returning", ArgSets) /\ Holds(Q, "refill", ChainSets)
    BY <1>5, MoveKeeps, KindsApart, FiveKinds DEF Owned
  <2> QED
    BY <2>1, <2>2
<1>9. Q \in [Conns -> Places] /\ \A d \in Conns : Q[d] = Common <=> d \in Range(comm')
  BY <1>3, <1>5, MoveCommon, KindsApart, FiveKinds DEF Owned
<1>10. NoDups'
  BY <1>3 DEF NoDups, Owned, Chained
<1>11. Owned(Q)'
  BY <1>6, <1>7, <1>8, <1>9, <1>10 DEF Owned
<1> QED
  BY <1>1, <1>5, <1>11 DEF InMove

(* GetCut: the first n connections of the common list are a chain.         *)
LEMMA GetCutMoves ==
  ASSUME IInv, NEW P, Owned(P), NEW w \in Workers, GetCut(w)
  PROVE  \E Q : Owned(Q)' /\ FetchMove(P, Q, w)
<1>1. /\ comm_n = Len(comm) /\ seen[w] = comm /\ want[w] > 0 /\ want[w] \in Nat /\ comm_n # 0
      /\ comm \in Seq(Conns) /\ IsInjective(comm) /\ pc[w] = "get_cut"
      /\ pc \in [Workers -> {"idle"} \cup GetPc \cup PutPc] /\ seen \in [Workers -> Seq(Conns)]
  <2>1. InCritical(w) /\ pc[w] = "get_cut"
    BY DEF GetCut, Goto, InCritical, CriticalPc
  <2> QED
    BY <2>1, CommCountInside DEF IInv, TypeOK, LocalInv, GetPc, Owned, NoDups
<1>2. Len(comm) \in Nat
  BY <1>1
<1>3. PICK n \in Nat : n = IF want[w] >= comm_n THEN comm_n ELSE want[w]
  BY <1>1, <1>2
<1>4. n > 0 /\ n <= Len(comm)
  BY <1>1, <1>2, <1>3
<1>5. PICK S : S = Range(SubSeq(comm, 1, n))
  OBVIOUS
<1>6. /\ IsInjective(SubSeq(comm, 1, n)) /\ IsInjective(SubSeq(comm, n + 1, Len(comm)))
      /\ S \subseteq Range(comm)
      /\ \A x : x \in Range(SubSeq(comm, n + 1, Len(comm))) <=> x \in Range(comm) /\ x \notin S
      /\ SubSeq(comm, 1, n) \in Seq(Conns) /\ Len(SubSeq(comm, 1, n)) = n
  BY <1>1, <1>4, <1>5, CutList
<1>7. S # {}
  <2>1. 1 \in DOMAIN SubSeq(comm, 1, n)
    BY <1>4, <1>6, LenProperties
  <2> QED
    BY <2>1, <1>5 DEF Range
<1>8. /\ seen' = [seen EXCEPT ![w] = SubSeq(comm, 1, n)] /\ comm' = SubSeq(comm, n + 1, Len(comm))
      /\ pc' = [pc EXCEPT ![w] = "get_unlock"]
      /\ UNCHANGED <<free, held, transit, arg>>
  BY <1>1, <1>3 DEF GetCut, Goto
<1>9. PICK Q : Q = [d \in Conns |-> IF d \in S THEN At("refill", w) ELSE P[d]]
  OBVIOUS
<1>10. S \in SUBSET Conns /\ \A c \in S : P[c] = Common
  <2>1. Range(comm) \subseteq Conns
    BY <1>1, LenProperties DEF Range
  <2> QED
    BY <2>1, <1>6 DEF Owned
<1>11. Moved(P, Q, S, Common, At("refill", w))
  BY <1>9, <1>10 DEF Moved
<1>12. Holds(Q, "refill", ChainSets)'
  <2>1. \A u \in Workers \ {w} : (Chained(u)' <=> Chained(u)) /\ seen'[u] = seen[u]
    BY <1>1, <1>8 DEF Chained
  <2>2. Chained(w)' /\ ~ Chained(w) /\ seen'[w] = SubSeq(comm, 1, n)
    BY <1>1, <1>8 DEF Chained
  <2>3. ChainSets'[w] = S /\ ChainSets[w] = {} /\ \A u \in Workers \ {w} : ChainSets'[u] = ChainSets[u]
    BY <1>5, <2>1, <2>2 DEF ChainSets
  <2>4. Holds(Q, "refill", ChainSets')
    BY <2>3, <1>11, MoveTo, KindsApart, FiveKinds DEF Owned
  <2> QED
    BY <2>4
<1>13. Holds(Q, "free", FreeSets)' /\ Holds(Q, "transit", transit)' /\ Holds(Q, "returning", ArgSets)'
       /\ Holds(Q, "held", held)'
  <2>1. transit' = transit /\ FreeSets' = FreeSets /\ held' = held /\ ArgSets' = ArgSets
    BY <1>8 DEF FreeSets, ArgSets
  <2>2. Holds(Q, "transit", transit) /\ Holds(Q, "free", FreeSets) /\ Holds(Q, "returning", ArgSets)
        /\ Holds(Q, "held", held)
    BY <1>11, MoveKeeps, KindsApart, FiveKinds DEF Owned
  <2> QED
    BY <2>1, <2>2
<1>14. Q \in [Conns -> Places] /\ \A d \in Conns : Q[d] = Common <=> d \in Range(comm')
  <2>1. /\ Q \in [Conns -> Places] /\ \A d \in Conns : Q[d] = Common <=> P[d] = Common /\ d \notin S
    BY <1>11, MoveCommon, KindsApart, FiveKinds DEF Owned
  <2> QED
    BY <2>1, <1>6, <1>8 DEF Owned
<1>15. NoDups'
  <2>1. \A u \in Workers \ {w} : (Chained(u)' <=> Chained(u)) /\ seen'[u] = seen[u]
    BY <1>1, <1>8 DEF Chained
  <2>2. seen'[w] = SubSeq(comm, 1, n)
    BY <1>1, <1>8
  <2> QED
    BY <2>1, <2>2, <1>6, <1>8 DEF NoDups, Owned
<1>16. Owned(Q)'
  BY <1>12, <1>13, <1>14, <1>15 DEF Owned
<1> QED
  BY <1>7, <1>10, <1>11, <1>16 DEF FetchMove

(* GetRefill: the head of the chain is used, the rest is the own list,     *)
(* which was empty.                                                        *)
LEMMA GetRefillMoves ==
  ASSUME IInv, NEW P, Owned(P), NEW w \in Workers, GetRefill(w), free[w] = <<>>
  PROVE  \E Q : Owned(Q)' /\ RefillMove(P, Q, w)
<1>1. /\ seen[w] \in Seq(Conns) /\ Chained(w) /\ pc[w] = "get_refill" /\ seen[w] # <<>> /\ IsInjective(seen[w])
      /\ pc \in [Workers -> {"idle"} \cup GetPc \cup PutPc] /\ seen \in [Workers -> Seq(Conns)]
      /\ free \in [Workers -> Seq(Conns)] /\ held \in [Workers -> SUBSET Conns]
  <2>1. Chained(w) /\ pc[w] = "get_refill"
    BY DEF GetRefill, Goto, Chained
  <2>2. Len(seen[w]) = want[w] /\ want[w] > 0
    BY <2>1 DEF IInv, LocalInv, GetPc
  <2> QED
    BY <2>1, <2>2 DEF IInv, TypeOK, Owned, NoDups
<1>2. PICK c \in Conns : c = Head(seen[w])
  BY <1>1, PopList
<1>3. PICK R : R = Range(Tail(seen[w]))
  OBVIOUS
<1>4. /\ IsInjective(Tail(seen[w])) /\ c \in Range(seen[w])
      /\ \A x : x \in R <=> x \in Range(seen[w]) /\ x # c
  BY <1>1, <1>2, <1>3, PopList
<1>5. /\ free' = [free EXCEPT ![w] = Tail(seen[w])] /\ held' = [held EXCEPT ![w] = @ \cup {c}]
      /\ seen' = [seen EXCEPT ![w] = <<>>] /\ pc' = [pc EXCEPT ![w] = "idle"]
      /\ UNCHANGED <<comm, arg, transit>>
  BY <1>2 DEF GetRefill, Goto
<1>6. \A d \in Conns : P[d] = At("refill", w) <=> d = c \/ d \in R
  BY <1>1, <1>4, FiveKinds DEF Owned, Holds, ChainSets
<1>7. R \subseteq Conns /\ c \notin R
  <2>1. Range(seen[w]) \subseteq Conns
    BY <1>1, LenProperties DEF Range
  <2> QED
    BY <2>1, <1>4
<1>8. PICK M : M = [d \in Conns |-> IF d \in R THEN At("free", w) ELSE P[d]]
  OBVIOUS
<1>9. PICK Q : Q = [d \in Conns |-> IF d \in {c} THEN At("held", w) ELSE M[d]]
  OBVIOUS
<1>10. Moved(P, M, R, At("refill", w), At("free", w))
  BY <1>6, <1>7, <1>8 DEF Moved
<1>11. Moved(M, Q, {c}, At("refill", w), At("held", w))
  BY <1>6, <1>7, <1>8, <1>9 DEF Moved
<1>12. Q = [d \in Conns |-> IF d = c THEN At("held", w)
                           ELSE IF P[d] = At("refill", w) THEN At("free", w) ELSE P[d]]
  BY <1>6, <1>7, <1>8, <1>9
<1>13. \A u \in Workers \ {w} : (Chained(u)' <=> Chained(u)) /\ seen'[u] = seen[u]
  BY <1>1, <1>5 DEF Chained
<1>14. ~ Chained(w)'
  BY <1>1, <1>5 DEF Chained
<1>15. Holds(Q, "refill", ChainSets)'
  <2> DEFINE F == [ChainSets EXCEPT ![w] = {c}]
  <2>1. /\ ChainSets[w] = R \cup {c} /\ ChainSets'[w] = {}
        /\ \A u \in Workers \ {w} : ChainSets'[u] = ChainSets[u]
    BY <1>1, <1>4, <1>13, <1>14 DEF ChainSets
  <2>2. /\ \A u \in Workers \ {w} : F[u] = ChainSets[u]
        /\ \A d \in Conns : d \in F[w] <=> d \in ChainSets[w] /\ d \notin R
        /\ \A u \in Workers \ {w} : ChainSets'[u] = F[u]
        /\ \A d \in Conns : d \in ChainSets'[w] <=> d \in F[w] /\ d \notin {c}
    <3>1. F[w] = {c} /\ \A u \in Workers \ {w} : F[u] = ChainSets[u]
      BY DEF ChainSets
    <3> QED
      BY <3>1, <2>1, <1>7
  <2> HIDE DEF F
  <2>3. Holds(M, "refill", F)
    BY <2>2, <1>10, MoveFrom, KindsApart, FiveKinds DEF Owned
  <2>4. Holds(Q, "refill", ChainSets')
    BY <2>2, <2>3, <1>11, MoveFrom, KindsApart, FiveKinds
  <2> QED
    BY <2>4
<1>16. Holds(Q, "free", FreeSets)'
  <2>1. /\ \A u \in Workers \ {w} : FreeSets'[u] = FreeSets[u]
        /\ \A d \in Conns : d \in FreeSets'[w] <=> d \in FreeSets[w] \/ d \in R
    <3>1. FreeSets[w] = {}
      BY DEF FreeSets, Range
    <3>2. FreeSets'[w] = R
      BY <1>1, <1>3, <1>5 DEF FreeSets
    <3> QED
      BY <3>1, <3>2, <1>1, <1>5 DEF FreeSets
  <2>2. Holds(M, "free", FreeSets')
    BY <2>1, <1>10, MoveTo, KindsApart, FiveKinds DEF Owned
  <2>3. Holds(Q, "free", FreeSets')
    BY <2>2, <1>11, MoveKeeps, KindsApart, FiveKinds
  <2> QED
    BY <2>3
<1>17. Holds(Q, "held", held)'
  <2>1. /\ \A u \in Workers \ {w} : held'[u] = held[u]
        /\ \A d \in Conns : d \in held'[w] <=> d \in held[w] \/ d \in {c}
    BY <1>1, <1>5
  <2>2. Holds(M, "held", held)
    BY <1>10, MoveKeeps, KindsApart, FiveKinds DEF Owned
  <2> QED
    BY <2>1, <2>2, <1>11, MoveTo, KindsApart, FiveKinds
<1>18. Holds(Q, "transit", transit)' /\ Holds(Q, "returning", ArgSets)'
  <2>1. transit' = transit /\ ArgSets' = ArgSets
    BY <1>5 DEF ArgSets
  <2>2. Holds(M, "transit", transit) /\ Holds(M, "returning", ArgSets)
    BY <1>10, MoveKeeps, KindsApart, FiveKinds DEF Owned
  <2>3. Holds(Q, "transit", transit) /\ Holds(Q, "returning", ArgSets)
    BY <2>2, <1>11, MoveKeeps, KindsApart, FiveKinds
  <2> QED
    BY <2>1, <2>3
<1>19. Q \in [Conns -> Places] /\ \A d \in Conns : Q[d] = Common <=> d \in Range(comm')
  <2>1. M \in [Conns -> Places] /\ \A d \in Conns : M[d] = Common <=> P[d] = Common
    BY <1>10, MoveCommon, KindsApart, FiveKinds DEF Owned
  <2>2. Q \in [Conns -> Places] /\ \A d \in Conns : Q[d] = Common <=> M[d] = Common
    BY <2>1, <1>11, MoveCommon, KindsApart, FiveKinds
  <2> QED
    BY <2>1, <2>2, <1>5 DEF Owned
<1>20. NoDups'
  BY <1>1, <1>4, <1>5, <1>13, <1>14 DEF NoDups, Owned
<1>21. Owned(Q)'
  BY <1>15, <1>16, <1>17, <1>18, <1>19, <1>20 DEF Owned
<1> QED
  BY <1>6, <1>12, <1>21 DEF RefillMove

-----------------------------------------------------------------------------
(* The counters of a pool count its list and what its worker uses.         *)
PoolCounts == \A w \in Workers : free_n[w] = Len(free[w]) /\ used_n[w] = Cardinality(held[w])

(* A pool asks the common list only when its own list is empty.            *)
AsksWhenEmpty == \A w \in Workers : pc[w] \in GetPc => free[w] = <<>>

(* What is true of the pools besides IInv.                                 *)
OwnInv ==
  /\ ArgClear
  /\ AsksWhenEmpty
  /\ PoolCounts
  /\ NoHoarding
  /\ \E P : Owned(P)

(* The steps that leave every connection where it is.                      *)
LEMMA OthersStay ==
  ASSUME IInv, NEW P, Owned(P), NEW w \in Workers,
         \/ GetLock(w) \/ GetNone(w) \/ GetReturnNull(w) \/ GetRead(w) \/ GetUnlock(w)
         \/ GetCommon(w) \/ PutLock(w) \/ PutCount(w) \/ PutUnlock(w) \/ PutDone(w)
  PROVE  Owned(P)'
<1> USE DEF Goto, counters, locals
<1>1. UNCHANGED <<free, comm, held, transit, arg>>
  BY DEF GetLock, GetNone, GetReturnNull, GetRead, GetUnlock, GetCommon, PutLock, PutCount, PutUnlock, PutDone
<1>2. \A u \in Workers : (Chained(u)' <=> Chained(u)) /\ (Chained(u) => seen'[u] = seen[u])
  BY DEF Chained, GetLock, GetNone, GetReturnNull, GetRead, GetUnlock, GetCommon, PutLock, PutCount,
         PutUnlock, PutDone, IInv, TypeOK
<1>3. FreeSets' = FreeSets /\ ArgSets' = ArgSets /\ ChainSets' = ChainSets
  BY <1>1, <1>2 DEF FreeSets, ArgSets, ChainSets
<1>4. NoDups'
  BY <1>1, <1>2 DEF NoDups, Owned
<1> QED
  BY <1>1, <1>3, <1>4 DEF Owned

(* Every step of a worker moves connections as ConnOwnership says, or      *)
(* leaves them all in place.                                               *)
LEMMA OwnedStep ==
  ASSUME IInv, ArgClear, AsksWhenEmpty, NEW P, Owned(P), NEW w \in Workers, Step(w)
  PROVE  \E Q : Owned(Q)' /\ (Q = P \/ Moves(P, Q, w))
<1> USE DEF Moves
<1>1. CASE GetOwn(w)
  BY <1>1, GetOwnMoves
<1>2. CASE GetCut(w)
  BY <1>2, GetCutMoves
<1>3. CASE GetRefill(w)
  <2>1. free[w] = <<>>
    BY <1>3 DEF GetRefill, Goto, AsksWhenEmpty, GetPc
  <2> QED
    BY <1>3, <2>1, GetRefillMoves
<1>4. CASE PutLink(w)
  BY <1>4, PutLinkMoves
<1>5. ASSUME NEW c \in held[w], FreeOwn(w, c) PROVE \E Q : Owned(Q)' /\ Moves(P, Q, w)
  BY <1>5, FreeOwnMoves
<1>6. ASSUME NEW c \in held[w], FreeCommon(w, c) PROVE \E Q : Owned(Q)' /\ Moves(P, Q, w)
  BY <1>6, FreeCommonMoves
<1>7. ASSUME NEW v \in Workers, NEW S \in SUBSET held[w], Out(w, v, S) PROVE \E Q : Owned(Q)' /\ Moves(P, Q, w)
  BY <1>7, OutMoves
<1>8. ASSUME NEW S \in SUBSET transit[w], In(w, S) PROVE \E Q : Owned(Q)' /\ Moves(P, Q, w)
  BY <1>8, InMoves
<1>9. CASE \/ GetLock(w) \/ GetNone(w) \/ GetReturnNull(w) \/ GetRead(w) \/ GetUnlock(w)
           \/ GetCommon(w) \/ PutLock(w) \/ PutCount(w) \/ PutUnlock(w) \/ PutDone(w)
  BY <1>9, OthersStay
<1> QED
  BY <1>1, <1>2, <1>3, <1>4, <1>5, <1>6, <1>7, <1>8, <1>9 DEF Step, Continue

LEMMA ArgClearStep ==
  ASSUME IInv, ArgClear, NEW w \in Workers, Step(w)
  PROVE  ArgClear'
<1> USE DEF IInv, TypeOK, ArgClear, Goto, counters, locals
<1>1. CASE Continue(w)
  BY <1>1 DEF Continue, GetLock, GetNone, GetReturnNull, GetRead, GetCut, GetUnlock, GetRefill,
              PutLock, PutCount, PutLink, PutUnlock, PutDone
<1>2. CASE GetOwn(w) \/ GetCommon(w)
  BY <1>2 DEF GetOwn, GetCommon
<1>3. ASSUME NEW c \in held[w], FreeOwn(w, c) \/ FreeCommon(w, c) PROVE ArgClear'
  BY <1>3 DEF FreeOwn, FreeCommon
<1>4. ASSUME NEW v \in Workers, NEW S \in SUBSET held[w], Out(w, v, S) PROVE ArgClear'
  BY <1>4 DEF Out
<1>5. ASSUME NEW S \in SUBSET transit[w], In(w, S) PROVE ArgClear'
  BY <1>5 DEF In
<1> QED
  BY <1>1, <1>2, <1>3, <1>4, <1>5 DEF Step

LEMMA AsksStep ==
  ASSUME IInv, AsksWhenEmpty, NEW w \in Workers, Step(w)
  PROVE  AsksWhenEmpty'
<1> USE DEF IInv, TypeOK, AsksWhenEmpty, GetPc, Goto, counters, locals
<1>1. CASE Continue(w)
  BY <1>1 DEF Continue, GetLock, GetNone, GetReturnNull, GetRead, GetCut, GetUnlock, GetRefill,
              PutLock, PutCount, PutLink, PutUnlock, PutDone
<1>2. CASE GetOwn(w) \/ GetCommon(w)
  BY <1>2 DEF GetOwn, GetCommon
<1>3. ASSUME NEW c \in held[w], FreeOwn(w, c) \/ FreeCommon(w, c) PROVE AsksWhenEmpty'
  BY <1>3 DEF FreeOwn, FreeCommon
<1>4. ASSUME NEW v \in Workers, NEW S \in SUBSET held[w], Out(w, v, S) PROVE AsksWhenEmpty'
  BY <1>4 DEF Out
<1>5. ASSUME NEW S \in SUBSET transit[w], In(w, S) PROVE AsksWhenEmpty'
  BY <1>5 DEF In
<1> QED
  BY <1>1, <1>2, <1>3, <1>4, <1>5 DEF Step

(* Every step preserves the counts.  A connection that a pool takes from a *)
(* list was not in use, so that used_n and the set grow together.          *)
LEMMA CountsStep ==
  ASSUME IInv, PoolCounts, AsksWhenEmpty, NEW P, Owned(P), NEW w \in Workers, Step(w)
  PROVE  PoolCounts'
<1> USE DEF Goto, counters, locals
<1>0. /\ free \in [Workers -> Seq(Conns)] /\ held \in [Workers -> SUBSET Conns]
      /\ transit \in [Workers -> SUBSET Conns] /\ seen \in [Workers -> Seq(Conns)]
      /\ free_n \in [Workers -> Int] /\ used_n \in [Workers -> Int]
      /\ \A u \in Workers : IsFiniteSet(held[u]) /\ Len(free[u]) \in Nat /\ Cardinality(held[u]) \in Nat
  <2>1. \A u \in Workers : IsFiniteSet(held[u])
    BY ConnsFinite, FS_Subset DEF IInv, TypeOK
  <2>2. \A u \in Workers : Cardinality(held[u]) \in Nat
    BY <2>1, FS_CardinalityType
  <2> QED
    BY <2>1, <2>2 DEF IInv, TypeOK
<1>1. ASSUME \A u \in Workers \ {w} :
               free'[u] = free[u] /\ held'[u] = held[u] /\ free_n'[u] = free_n[u] /\ used_n'[u] = used_n[u],
             free_n'[w] = Len(free'[w]), used_n'[w] = Cardinality(held'[w])
      PROVE  PoolCounts'
  BY <1>1 DEF PoolCounts
<1>2. free_n[w] = Len(free[w]) /\ used_n[w] = Cardinality(held[w])
  BY DEF PoolCounts
<1>3. ASSUME NEW c \in Conns, c \notin held[w] PROVE Cardinality(held[w] \cup {c}) = Cardinality(held[w]) + 1
  BY <1>0, <1>3, FS_AddElement
<1>4. ASSUME NEW c \in held[w] PROVE Cardinality(held[w] \ {c}) = Cardinality(held[w]) - 1
  BY <1>0, FS_RemoveElement
<1>5. CASE GetOwn(w)
  <2>1. /\ free[w] \in Seq(Conns) /\ free[w] # <<>> /\ IsInjective(free[w])
    BY <1>0, <1>5 DEF Owned, NoDups, GetOwn
  <2>2. PICK c \in Conns : c = Head(free[w])
    BY <2>1, PopList
  <2>3. c \in Range(free[w]) /\ Len(Tail(free[w])) = Len(free[w]) - 1
    BY <2>1, <2>2, PopList
  <2>4. c \notin held[w]
    BY <2>3, KindsApart, FiveKinds DEF Owned, Holds, FreeSets
  <2>5. /\ free'[w] = Tail(free[w]) /\ held'[w] = held[w] \cup {c}
        /\ free_n'[w] = free_n[w] - 1 /\ used_n'[w] = used_n[w] + 1
    BY <1>0, <1>5, <2>2 DEF GetOwn
  <2>6. free_n'[w] = Len(free'[w]) /\ used_n'[w] = Cardinality(held'[w])
    BY <1>2, <1>3, <2>3, <2>4, <2>5
  <2> QED
    BY <1>0, <1>1, <1>5, <2>6 DEF GetOwn
<1>6. CASE GetRefill(w)
  <2>1. /\ free[w] = <<>> /\ Chained(w) /\ Len(seen[w]) = want[w] /\ want[w] > 0 /\ want[w] \in Nat
    BY <1>6 DEF GetRefill, AsksWhenEmpty, GetPc, IInv, LocalInv, Chained, TypeOK
  <2>2. seen[w] \in Seq(Conns) /\ seen[w] # <<>> /\ IsInjective(seen[w])
    BY <1>0, <2>1 DEF Owned, NoDups
  <2>3. PICK c \in Conns : c = Head(seen[w])
    BY <2>2, PopList
  <2>4. c \in Range(seen[w]) /\ Len(Tail(seen[w])) = Len(seen[w]) - 1
    BY <2>2, <2>3, PopList
  <2>5. c \notin held[w]
    BY <2>1, <2>4, KindsApart, FiveKinds DEF Owned, Holds, ChainSets
  <2>6. /\ free'[w] = Tail(seen[w]) /\ held'[w] = held[w] \cup {c}
        /\ free_n'[w] = free_n[w] + want[w] - 1 /\ used_n'[w] = used_n[w] + 1
    BY <1>0, <1>6, <2>3 DEF GetRefill
  <2>7. free_n[w] = 0
    BY <1>2, <2>1
  <2>8. free_n'[w] = Len(free'[w]) /\ used_n'[w] = Cardinality(held'[w])
    BY <1>2, <1>3, <2>1, <2>4, <2>5, <2>6, <2>7
  <2> QED
    BY <1>0, <1>1, <1>6, <2>8 DEF GetRefill
<1>7. ASSUME NEW c \in held[w], FreeOwn(w, c) PROVE PoolCounts'
  <2>1. c \in Conns /\ free[w] \in Seq(Conns) /\ IsInjective(free[w])
    BY <1>0 DEF Owned, NoDups
  <2>2. c \notin Range(free[w])
    BY <2>1, KindsApart, FiveKinds DEF Owned, Holds, FreeSets
  <2>3. Len(<<c>> \o free[w]) = Len(free[w]) + 1
    BY <2>1, <2>2, PushList
  <2>4. /\ free'[w] = <<c>> \o free[w] /\ held'[w] = held[w] \ {c}
        /\ free_n'[w] = free_n[w] + 1 /\ used_n'[w] = used_n[w] - 1
    BY <1>0, <1>7 DEF FreeOwn
  <2>5. free_n'[w] = Len(free'[w]) /\ used_n'[w] = Cardinality(held'[w])
    BY <1>2, <1>4, <2>3, <2>4
  <2> QED
    BY <1>0, <1>1, <1>7, <2>5 DEF FreeOwn
<1>8. ASSUME NEW c \in held[w], FreeCommon(w, c) PROVE PoolCounts'
  <2>1. held'[w] = held[w] \ {c} /\ used_n'[w] = used_n[w] - 1 /\ free' = free /\ free_n' = free_n
    BY <1>0, <1>8 DEF FreeCommon
  <2>2. free_n'[w] = Len(free'[w]) /\ used_n'[w] = Cardinality(held'[w])
    BY <1>2, <1>4, <2>1
  <2> QED
    BY <1>0, <1>1, <1>8, <2>1, <2>2 DEF FreeCommon
<1>9. ASSUME NEW v \in Workers, NEW S \in SUBSET held[w], Out(w, v, S) PROVE PoolCounts'
  <2>1. Cardinality(held[w] \ S) = Cardinality(held[w]) - Cardinality(held[w] \cap S)
    BY <1>0, FS_Difference
  <2>2. held[w] \cap S = S
    OBVIOUS
  <2>3. held'[w] = held[w] \ S /\ used_n'[w] = used_n[w] - Cardinality(S) /\ free' = free /\ free_n' = free_n
    BY <1>0, <1>9 DEF Out
  <2>4. free_n'[w] = Len(free'[w]) /\ used_n'[w] = Cardinality(held'[w])
    BY <1>2, <2>1, <2>2, <2>3
  <2> QED
    BY <1>0, <1>1, <1>9, <2>3, <2>4 DEF Out
<1>10. ASSUME NEW S \in SUBSET transit[w], In(w, S) PROVE PoolCounts'
  <2>1. S \in SUBSET Conns /\ IsFiniteSet(S)
    BY <1>0, ConnsFinite, FS_Subset
  <2>2. held[w] \cap S = {}
    BY <1>0, <2>1, KindsApart, FiveKinds DEF Owned, Holds
  <2>3. Cardinality(held[w] \cup S) = Cardinality(held[w]) + Cardinality(S)
    <3>1. Cardinality(held[w] \cup S) = Cardinality(held[w]) + Cardinality(S) - Cardinality(held[w] \cap S)
      BY <1>0, <2>1, FS_Union
    <3>2. Cardinality(held[w] \cap S) = 0
      BY <2>2, FS_EmptySet
    <3>3. Cardinality(S) \in Nat
      BY <2>1, FS_CardinalityType
    <3> QED
      BY <3>1, <3>2, <3>3, <1>0
  <2>4. held'[w] = held[w] \cup S /\ used_n'[w] = used_n[w] + Cardinality(S) /\ free' = free /\ free_n' = free_n
    BY <1>0, <1>10 DEF In
  <2>5. free_n'[w] = Len(free'[w]) /\ used_n'[w] = Cardinality(held'[w])
    BY <1>2, <2>3, <2>4
  <2> QED
    BY <1>0, <1>1, <1>10, <2>4, <2>5 DEF In
<1>11. CASE \/ GetLock(w) \/ GetNone(w) \/ GetReturnNull(w) \/ GetRead(w) \/ GetUnlock(w) \/ GetCut(w)
            \/ GetCommon(w) \/ PutLock(w) \/ PutCount(w) \/ PutLink(w) \/ PutUnlock(w) \/ PutDone(w)
  BY <1>11 DEF PoolCounts, GetLock, GetNone, GetReturnNull, GetRead, GetUnlock, GetCut, GetCommon,
     PutLock, PutCount, PutLink, PutUnlock, PutDone
<1> QED
  BY <1>5, <1>6, <1>7, <1>8, <1>9, <1>10, <1>11 DEF Step, Continue

(* A list grows by a free when nothing is owed, or by a refill of what is  *)
(* owed: the balance of the books bounds it then.                          *)
LEMMA HoardingStep ==
  ASSUME IInv, PoolBalance', PoolCounts', TypeOK', NoHoarding, NEW w \in Workers, Step(w)
  PROVE  NoHoarding'
<1> USE DEF Goto, counters, locals
<1>0. /\ free_n \in [Workers -> Int] /\ change_n \in [Workers -> Int] /\ want \in [Workers -> Nat]
      /\ pc \in [Workers -> {"idle"} \cup GetPc \cup PutPc]
  BY DEF IInv, TypeOK
<1>1. ASSUME change_n'[w] <= 0, pc'[w] = "idle", \A u \in Workers \ {w} : free_n'[u] = free_n[u]
      PROVE  NoHoarding'
  <2>1. free_n'[w] + used_n'[w] - change_n'[w] + InPut(w)' = connection_n[w]
    BY DEF PoolBalance
  <2>2. InPut(w)' = 0
    BY <1>1 DEF InPut, PutPc
  <2>3. used_n'[w] \in Nat
    <3>1. held'[w] \in SUBSET Conns
      BY DEF TypeOK
    <3> QED
      BY <3>1, SubsetSize DEF PoolCounts
  <2>4. free_n'[w] \in Int /\ change_n'[w] \in Int /\ connection_n[w] \in Int
    BY PoolAssumption DEF TypeOK
  <2>5. free_n'[w] <= connection_n[w]
    BY <1>1, <2>1, <2>2, <2>3, <2>4
  <2> QED
    BY <1>1, <2>5 DEF NoHoarding
<1>2. CASE GetRefill(w)
  <2>1. want[w] <= -change_n[w] /\ change_n'[w] = change_n[w] + want[w] /\ pc'[w] = "idle"
    BY <1>0, <1>2 DEF GetRefill, IInv, LocalInv, GetPc
  <2>2. change_n'[w] <= 0
    BY <1>0, <2>1
  <2> QED
    BY <1>0, <1>1, <1>2, <2>1, <2>2 DEF GetRefill
<1>3. ASSUME NEW c \in held[w], FreeOwn(w, c) PROVE NoHoarding'
  BY <1>0, <1>1, <1>3 DEF FreeOwn
<1>4. CASE GetOwn(w)
  <2>1. free_n'[w] <= connection_n[w]
    <3>1. free_n'[w] = free_n[w] - 1 /\ free_n[w] \in Int
      BY <1>0, <1>4 DEF GetOwn
    <3>2. free_n[w] <= connection_n[w] /\ connection_n[w] \in Nat
      BY PoolAssumption DEF NoHoarding
    <3> QED
      BY <3>1, <3>2
  <2> QED
    BY <1>0, <1>4, <2>1 DEF GetOwn, NoHoarding
<1>5. CASE free_n' = free_n
  BY <1>5 DEF NoHoarding
<1>6. free_n' = free_n \/ GetRefill(w) \/ GetOwn(w) \/ \E c \in held[w] : FreeOwn(w, c)
  BY DEF Step, Continue, GetLock, GetNone, GetReturnNull, GetRead, GetCut,
         GetUnlock, PutLock, PutCount, PutLink, PutUnlock, PutDone, GetCommon, FreeCommon, Out, In
<1> QED
  BY <1>2, <1>3, <1>4, <1>5, <1>6

LEMMA InitOwnInv == Init => OwnInv
<1> SUFFICES ASSUME Init PROVE OwnInv
  OBVIOUS
<1> USE PoolAssumption DEF Init
<1>1. ArgClear /\ AsksWhenEmpty
  BY DEF ArgClear, AsksWhenEmpty, GetPc
<1>2. PoolCounts
  <2>1. Cardinality({}) = 0
    BY FS_EmptySet
  <2>2. \A w \in Workers : Len(free[w]) = connection_n[w]
    <3>1. TAKE w \in Workers
    <3>2. free[w] \in Seq(Conns) /\ connection_n[w] \in Nat
      BY InitIInv DEF IInv, TypeOK
    <3>3. DOMAIN free[w] = 1 .. connection_n[w] /\ DOMAIN free[w] = 1 .. Len(free[w]) /\ Len(free[w]) \in Nat
      BY <3>2, LenProperties
    <3> QED
      BY <3>2, <3>3
  <2> QED
    BY <2>1, <2>2 DEF PoolCounts
<1>3. NoHoarding
  BY DEF NoHoarding
<1>4. PICK P : P = [c \in Conns |-> At("free", c[1])]
  OBVIOUS
<1>5. \A c \in Conns : c[1] \in Workers /\ c[2] \in 1 .. connection_n[c[1]] /\ c = <<c[1], c[2]>>
  BY DEF Conns
<1>6. \A w \in Workers, c \in Conns : P[c] = At("free", w) <=> c[1] = w
  BY <1>4, <1>5, Apart, FiveKinds
<1>7. \A w \in Workers, c \in Conns : c[1] = w <=> c \in Range(free[w])
  <2> SUFFICES ASSUME NEW w \in Workers, NEW c \in Conns PROVE c[1] = w <=> c \in Range(free[w])
    OBVIOUS
  <2>1. DOMAIN free[w] = 1 .. connection_n[w] /\ \A i \in 1 .. connection_n[w] : free[w][i] = <<w, i>>
    OBVIOUS
  <2>2. c[1] = w => c \in Range(free[w])
    BY <2>1, <1>5 DEF Range
  <2>3. c \in Range(free[w]) => c[1] = w
    <3>1. c \in Range(free[w]) => \E i \in 1 .. connection_n[w] : c = <<w, i>>
      BY <2>1 DEF Range
    <3> QED
      BY <3>1
  <2> QED
    BY <2>2, <2>3
<1>8. Holds(P, "free", FreeSets)
  BY <1>6, <1>7 DEF Holds, FreeSets
<1>9. \A k \in Kinds, w \in Workers, c \in Conns : k # "free" => P[c] # At(k, w)
  BY <1>4, <1>5, KindsApart, FiveKinds
<1>10. Holds(P, "held", held) /\ Holds(P, "transit", transit)
  BY <1>9, FiveKinds DEF Holds
<1>11. Holds(P, "returning", ArgSets) /\ Holds(P, "refill", ChainSets)
  BY <1>9, FiveKinds, ConnIsSome DEF Holds, ArgSets, ChainSets, Chained
<1>12. P \in [Conns -> Places] /\ \A c \in Conns : P[c] = Common <=> c \in Range(comm)
  BY <1>4, <1>5, KindsApart, FiveKinds DEF Range
<1>13. NoDups
  <2>1. \A w \in Workers : IsInjective(free[w])
    BY DEF IsInjective
  <2>2. IsInjective(comm)
    BY DEF IsInjective
  <2> QED
    BY <2>1, <2>2 DEF NoDups, Chained
<1> QED
  BY <1>1, <1>2, <1>3, <1>8, <1>10, <1>11, <1>12, <1>13 DEF OwnInv, Owned

(* The second invariant holds in every reachable state.                    *)
THEOREM OwnInvariance == Spec => [](IInv /\ OwnInv)
<1>1. IInv /\ IInv' /\ OwnInv /\ [Next]_vars => OwnInv'
  <2> SUFFICES ASSUME IInv, IInv', OwnInv, [Next]_vars PROVE OwnInv'
    OBVIOUS
  <2>1. ASSUME NEW w \in Workers, Step(w) PROVE OwnInv'
    <3>1. PICK P : Owned(P)
      BY DEF OwnInv
    <3>2. \E Q : Owned(Q)'
      BY <2>1, <3>1, OwnedStep DEF OwnInv
    <3>3. ArgClear' /\ AsksWhenEmpty'
      BY <2>1, ArgClearStep, AsksStep DEF OwnInv
    <3>4. PoolCounts'
      BY <2>1, <3>1, CountsStep DEF OwnInv
    <3>5. NoHoarding'
      BY <2>1, <3>4, HoardingStep DEF OwnInv, IInv
    <3> QED
      BY <3>2, <3>3, <3>4, <3>5 DEF OwnInv
  <2>2. CASE UNCHANGED vars
    BY <2>2 DEF vars, OwnInv, ArgClear, AsksWhenEmpty, PoolCounts, NoHoarding, Owned, Holds, FreeSets,
                ArgSets, ChainSets, Chained, NoDups
  <2> QED
    BY <2>1, <2>2 DEF Next
<1> QED
  BY <1>1, Invariance, InitOwnInv, PTL DEF Spec

-----------------------------------------------------------------------------
(* A connection has one spot: the place it has tells the list or the set   *)
(* that has it, and no list has it twice.                                  *)
LEMMA OwnedSpots ==
  ASSUME NEW P, Owned(P), NEW c \in Conns
  PROVE  \E s : Spots(c) = {s}
<1> DEFINE F == UNION {{<<"free", w, i>> : i \in {j \in DOMAIN free[w] : free[w][j] = c}} : w \in Workers}
           C == {<<"comm", i>> : i \in {j \in DOMAIN comm : comm[j] = c}}
           R == UNION {{<<"chain", w, i>> : i \in {j \in DOMAIN seen[w] : seen[w][j] = c}}
                       : w \in {v \in Workers : Chained(v)}}
           H == {<<"held", w>> : w \in {v \in Workers : c \in held[v]}}
           T == {<<"transit", w>> : w \in {v \in Workers : c \in transit[v]}}
           A == {<<"put", w>> : w \in {v \in Workers : arg[v] = c}}
<1>1. Spots(c) = F \cup C \cup R \cup H \cup T \cup A
  BY DEF Spots
<1>2. /\ \A w \in Workers : P[c] = At("free", w) <=> c \in Range(free[w])
      /\ \A w \in Workers : P[c] = At("held", w) <=> c \in held[w]
      /\ \A w \in Workers : P[c] = At("transit", w) <=> c \in transit[w]
      /\ \A w \in Workers : P[c] = At("returning", w) <=> c = arg[w]
      /\ \A w \in Workers : P[c] = At("refill", w) <=> Chained(w) /\ c \in Range(seen[w])
      /\ P[c] = Common <=> c \in Range(comm)
  BY DEF Owned, Holds, FreeSets, ArgSets, ChainSets
<1>3. (\A w \in Workers : P[c] # At("free", w)) => F = {}
  BY <1>2 DEF Range
<1>4. P[c] # Common => C = {}
  BY <1>2 DEF Range
<1>5. (\A w \in Workers : P[c] # At("refill", w)) => R = {}
  BY <1>2 DEF Range
<1>6. (\A w \in Workers : P[c] # At("held", w)) => H = {}
  BY <1>2
<1>7. (\A w \in Workers : P[c] # At("transit", w)) => T = {}
  BY <1>2
<1>8. (\A w \in Workers : P[c] # At("returning", w)) => A = {}
  BY <1>2
<1>9. ASSUME NEW w \in Workers, P[c] = At("free", w) PROVE \E s : F = {s}
  <2>1. \A v \in Workers : c \in Range(free[v]) <=> v = w
    BY <1>2, <1>9, Apart, FiveKinds
  <2>2. PICK i \in DOMAIN free[w] : free[w][i] = c
    BY <2>1 DEF Range
  <2>3. \A j \in DOMAIN free[w] : free[w][j] = c <=> j = i
    BY <2>2 DEF Owned, NoDups, IsInjective
  <2>4. \A v \in Workers : \A j \in DOMAIN free[v] : free[v][j] = c => v = w
    BY <2>1 DEF Range
  <2>5. F = {<<"free", w, i>>}
    BY <2>2, <2>3, <2>4
  <2> QED
    BY <2>5
<1>10. ASSUME P[c] = Common PROVE \E s : C = {s}
  <2>1. PICK i \in DOMAIN comm : comm[i] = c
    BY <1>2, <1>10 DEF Range
  <2>2. \A j \in DOMAIN comm : comm[j] = c <=> j = i
    BY <2>1 DEF Owned, NoDups, IsInjective
  <2>3. C = {<<"comm", i>>}
    BY <2>1, <2>2
  <2> QED
    BY <2>3
<1>11. ASSUME NEW w \in Workers, P[c] = At("refill", w) PROVE \E s : R = {s}
  <2>1. \A v \in Workers : Chained(v) /\ c \in Range(seen[v]) <=> v = w
    BY <1>2, <1>11, Apart, FiveKinds
  <2>2. PICK i \in DOMAIN seen[w] : seen[w][i] = c
    BY <2>1 DEF Range
  <2>3. \A j \in DOMAIN seen[w] : seen[w][j] = c <=> j = i
    BY <2>1, <2>2 DEF Owned, NoDups, IsInjective
  <2>4. \A v \in Workers : \A j \in DOMAIN seen[v] : Chained(v) /\ seen[v][j] = c => v = w
    BY <2>1 DEF Range
  <2>5. Chained(w)
    BY <2>1
  <2> HIDE DEF Chained
  <2>6. R = {<<"chain", w, i>>}
    BY <2>2, <2>3, <2>4, <2>5
  <2> QED
    BY <2>6
<1>12. ASSUME NEW w \in Workers, P[c] = At("held", w) PROVE \E s : H = {s}
  <2>1. \A v \in Workers : c \in held[v] <=> v = w
    BY <1>2, <1>12, Apart, FiveKinds
  <2>2. H = {<<"held", w>>}
    BY <2>1
  <2> QED
    BY <2>2
<1>13. ASSUME NEW w \in Workers, P[c] = At("transit", w) PROVE \E s : T = {s}
  <2>1. \A v \in Workers : c \in transit[v] <=> v = w
    BY <1>2, <1>13, Apart, FiveKinds
  <2>2. T = {<<"transit", w>>}
    BY <2>1
  <2> QED
    BY <2>2
<1>14. ASSUME NEW w \in Workers, P[c] = At("returning", w) PROVE \E s : A = {s}
  <2>1. \A v \in Workers : arg[v] = c <=> v = w
    BY <1>2, <1>14, Apart, FiveKinds
  <2>2. A = {<<"put", w>>}
    BY <2>1
  <2> QED
    BY <2>2
<1> HIDE DEF F, C, R, H, T, A
<1>15. P[c] = Common \/ \E k \in Kinds, w \in Workers : P[c] = At(k, w)
  BY DEF Owned, Places
<1>16. CASE P[c] = Common
  BY <1>1, <1>3, <1>5, <1>6, <1>7, <1>8, <1>10, <1>16, KindsApart, FiveKinds
<1>17. ASSUME NEW w \in Workers, P[c] = At("free", w) PROVE \E s : Spots(c) = {s}
  <2>1. C = {} /\ R = {} /\ H = {} /\ T = {} /\ A = {}
    BY <1>4, <1>5, <1>6, <1>7, <1>8, <1>17, KindsApart, FiveKinds
  <2> QED
    BY <1>1, <1>9, <1>17, <2>1
<1>18. ASSUME NEW w \in Workers, P[c] = At("held", w) PROVE \E s : Spots(c) = {s}
  <2>1. C = {} /\ R = {} /\ F = {} /\ T = {} /\ A = {}
    BY <1>3, <1>4, <1>5, <1>7, <1>8, <1>18, KindsApart, FiveKinds
  <2> QED
    BY <1>1, <1>12, <1>18, <2>1
<1>19. ASSUME NEW w \in Workers, P[c] = At("transit", w) PROVE \E s : Spots(c) = {s}
  <2>1. C = {} /\ R = {} /\ F = {} /\ H = {} /\ A = {}
    BY <1>3, <1>4, <1>5, <1>6, <1>8, <1>19, KindsApart, FiveKinds
  <2> QED
    BY <1>1, <1>13, <1>19, <2>1
<1>20. ASSUME NEW w \in Workers, P[c] = At("returning", w) PROVE \E s : Spots(c) = {s}
  <2>1. C = {} /\ R = {} /\ F = {} /\ H = {} /\ T = {}
    BY <1>3, <1>4, <1>5, <1>6, <1>7, <1>20, KindsApart, FiveKinds
  <2> QED
    BY <1>1, <1>14, <1>20, <2>1
<1>21. ASSUME NEW w \in Workers, P[c] = At("refill", w) PROVE \E s : Spots(c) = {s}
  <2>1. C = {} /\ A = {} /\ F = {} /\ H = {} /\ T = {}
    BY <1>3, <1>4, <1>6, <1>7, <1>8, <1>21, KindsApart, FiveKinds
  <2> QED
    BY <1>1, <1>11, <1>21, <2>1
<1> QED
  BY <1>15, <1>16, <1>17, <1>18, <1>19, <1>20, <1>21 DEF Kinds

LEMMA OwnedOneSpot == OwnInv => OneSpot
<1> SUFFICES ASSUME OwnInv, NEW c \in Conns PROVE Cardinality(Spots(c)) = 1
  BY DEF OneSpot
<1>1. PICK s : Spots(c) = {s}
  BY OwnedSpots DEF OwnInv
<1> QED
  BY <1>1, FS_Singleton

-----------------------------------------------------------------------------
(* A connection's place is the place Owned gives it.                       *)
LEMMA PlaceOfOwned ==
  ASSUME NEW P, Owned(P), NEW c \in Conns
  PROVE  PlaceOf(c) = P[c]
<1>2. /\ \A w \in Workers : P[c] = At("free", w) <=> c \in Range(free[w])
      /\ \A w \in Workers : P[c] = At("held", w) <=> c \in held[w]
      /\ \A w \in Workers : P[c] = At("transit", w) <=> c \in transit[w]
      /\ \A w \in Workers : P[c] = At("returning", w) <=> arg[w] = c
      /\ \A w \in Workers : P[c] = At("refill", w) <=> Chained(w) /\ c \in Range(seen[w])
      /\ P[c] = Common <=> c \in Range(comm)
  BY DEF Owned, Holds, FreeSets, ArgSets, ChainSets
<1>3. P[c] = Common \/ \E k \in Kinds, w \in Workers : P[c] = At(k, w)
  BY DEF Owned, Places
<1>4. CASE P[c] = Common
  BY <1>2, <1>4, KindsApart, FiveKinds DEF PlaceOf, Common
<1>5. ASSUME NEW w \in Workers, P[c] = At("held", w) PROVE PlaceOf(c) = P[c]
  <2>1. \A v \in Workers : c \in held[v] <=> v = w
    BY <1>2, <1>5, Apart, FiveKinds
  <2>2. (CHOOSE v \in Workers : c \in held[v]) = w
    BY <2>1
  <2> QED
    BY <1>5, <2>1, <2>2 DEF PlaceOf, At
<1>6. ASSUME NEW w \in Workers, P[c] = At("transit", w) PROVE PlaceOf(c) = P[c]
  <2>1. \A v \in Workers : c \in transit[v] <=> v = w
    BY <1>2, <1>6, Apart, FiveKinds
  <2>2. (CHOOSE v \in Workers : c \in transit[v]) = w
    BY <2>1
  <2>3. \A v \in Workers : c \notin held[v]
    BY <1>2, <1>6, KindsApart, FiveKinds
  <2> QED
    BY <1>6, <2>1, <2>2, <2>3 DEF PlaceOf, At
<1>7. ASSUME NEW w \in Workers, P[c] = At("returning", w) PROVE PlaceOf(c) = P[c]
  <2>1. \A v \in Workers : arg[v] = c <=> v = w
    BY <1>2, <1>7, Apart, FiveKinds
  <2>2. (CHOOSE v \in Workers : arg[v] = c) = w
    BY <2>1
  <2>3. \A v \in Workers : c \notin held[v] /\ c \notin transit[v]
    BY <1>2, <1>7, KindsApart, FiveKinds
  <2> QED
    BY <1>7, <2>1, <2>2, <2>3 DEF PlaceOf, At
<1>8. ASSUME NEW w \in Workers, P[c] = At("refill", w) PROVE PlaceOf(c) = P[c]
  <2>1. \A v \in Workers : Chained(v) /\ c \in Range(seen[v]) <=> v = w
    BY <1>2, <1>8, Apart, FiveKinds
  <2>2. (CHOOSE v \in Workers : Chained(v) /\ c \in Range(seen[v])) = w
    BY <2>1
  <2>3. \A v \in Workers : c \notin held[v] /\ c \notin transit[v] /\ arg[v] # c
    BY <1>2, <1>8, KindsApart, FiveKinds
  <2> QED
    BY <1>8, <2>1, <2>2, <2>3 DEF PlaceOf, At
<1>9. ASSUME NEW w \in Workers, P[c] = At("free", w) PROVE PlaceOf(c) = P[c]
  <2>1. \A v \in Workers : c \in Range(free[v]) <=> v = w
    BY <1>2, <1>9, Apart, FiveKinds
  <2>2. (CHOOSE v \in Workers : c \in Range(free[v])) = w
    BY <2>1
  <2>3. \A v \in Workers : c \notin held[v] /\ c \notin transit[v] /\ arg[v] # c
                           /\ ~ (Chained(v) /\ c \in Range(seen[v]))
    BY <1>2, <1>9, KindsApart, FiveKinds
  <2> QED
    BY <1>9, <2>1, <2>2, <2>3 DEF PlaceOf, At
<1> QED
  BY <1>3, <1>4, <1>5, <1>6, <1>7, <1>8, <1>9 DEF Kinds

(* The place function of the refinement mapping is the one of Owned.       *)
LEMMA PlacesOwned ==
  ASSUME NEW P, Owned(P)
  PROVE  [c \in Conns |-> PlaceOf(c)] = P
BY PlaceOfOwned DEF Owned

LEMMA PlacesOwnedNext == (\A P : Owned(P) => [c \in Conns |-> PlaceOf(c)] = P)'
<1>1. \A P : Owned(P) => [c \in Conns |-> PlaceOf(c)] = P
  BY PlacesOwned
<1> QED
  BY <1>1, PTL

(* The pools implement the abstract hand-over of connections: every step   *)
(* of every worker moves connections along one step of ConnOwnership, or   *)
(* moves none, whatever the threads' order.                                *)
THEOREM PoolsImplementOwnership == Spec => ImplementsOwnership
<1> DEFINE place == [c \in Conns |-> PlaceOf(c)]
<1>1. Init => Ownership!Init
  <2> SUFFICES ASSUME Init PROVE place = [c \in Conns |-> <<"free", [d \in Conns |-> d[1]][c]>>]
    BY DEF Ownership!Init
  <2>1. ASSUME NEW c \in Conns PROVE PlaceOf(c) = <<"free", c[1]>>
    <3>1. PICK P : Owned(P)
      BY InitOwnInv DEF OwnInv
    <3>2. c[1] \in Workers /\ c[2] \in 1 .. connection_n[c[1]] /\ c = <<c[1], c[2]>>
      BY DEF Conns
    <3>3. c \in Range(free[c[1]])
      <4>1. free[c[1]] = [i \in 1 .. connection_n[c[1]] |-> <<c[1], i>>]
        BY <3>2 DEF Init
      <4> QED
        BY <3>2, <4>1 DEF Range
    <3>4. P[c] = At("free", c[1])
      BY <3>1, <3>2, <3>3 DEF Owned, Holds, FreeSets
    <3> QED
      BY <3>1, <3>4, PlaceOfOwned DEF At
  <2> QED
    BY <2>1
<1>2. IInv /\ OwnInv /\ [Next]_vars => [Ownership!Next]_place
  <2> SUFFICES ASSUME IInv, OwnInv, [Next]_vars PROVE Ownership!Next \/ place' = place
    OBVIOUS
  <2>1. ASSUME NEW w \in Workers, Step(w) PROVE Ownership!Next \/ place' = place
    <3>1. PICK P : Owned(P)
      BY DEF OwnInv
    <3>2. PICK Q : Owned(Q)' /\ (Q = P \/ Moves(P, Q, w))
      BY <2>1, <3>1, OwnedStep DEF OwnInv
    <3>3. place = P
      BY <3>1, PlacesOwned
    <3>4. place' = Q
      BY <3>2, PlacesOwnedNext
    <3>5. CASE Q = P
      BY <3>3, <3>4, <3>5
    <3>6. CASE Moves(P, Q, w)
      <4> HIDE DEF place
      <4>1. ASSUME NEW S, NEW p, NEW q, S # {}, Moved(P, Q, S, p, q)
            PROVE  Ownership!Move(S, p, q)
        BY <4>1, <3>3, <3>4 DEF Moved, Ownership!Move, place
      <4>2. CASE GetMove(P, Q, w)
        <5>1. PICK c \in Conns : Moved(P, Q, {c}, At("free", w), At("held", w))
          BY <4>2 DEF GetMove
        <5> QED
          BY <4>1, <5>1 DEF At, Ownership!Next, Ownership!Get
      <4>3. CASE FreeMove(P, Q, w)
        <5>1. PICK c \in Conns : Moved(P, Q, {c}, At("held", w), At("free", w))
          BY <4>3 DEF FreeMove
        <5> QED
          BY <4>1, <5>1 DEF At, Ownership!Next, Ownership!Free
      <4>4. CASE ReturnMove(P, Q, w)
        <5>1. PICK c \in Conns : Moved(P, Q, {c}, At("held", w), At("returning", w))
          BY <4>4 DEF ReturnMove
        <5> QED
          BY <4>1, <5>1 DEF At, Ownership!Next, Ownership!Return
      <4>5. CASE ReturnedMove(P, Q, w)
        <5>1. PICK c \in Conns : Moved(P, Q, {c}, At("returning", w), Common)
          BY <4>5 DEF ReturnedMove
        <5> QED
          BY <4>1, <5>1 DEF At, Common, Ownership!Next, Ownership!Returned
      <4>6. CASE FetchMove(P, Q, w)
        <5>1. PICK S \in SUBSET Conns : S # {} /\ Moved(P, Q, S, Common, At("refill", w))
          BY <4>6 DEF FetchMove
        <5> QED
          BY <4>1, <5>1 DEF At, Common, Ownership!Next, Ownership!Fetch
      <4>7. CASE OutMove(P, Q, w)
        <5>1. PICK v \in Workers \ {w}, S \in SUBSET Conns :
                     S # {} /\ Moved(P, Q, S, At("held", w), At("transit", v))
          BY <4>7 DEF OutMove
        <5> QED
          BY <4>1, <5>1 DEF At, Ownership!Next, Ownership!Out
      <4>8. CASE InMove(P, Q, w)
        <5>1. PICK S \in SUBSET Conns : S # {} /\ Moved(P, Q, S, At("transit", w), At("held", w))
          BY <4>8 DEF InMove
        <5> QED
          BY <4>1, <5>1 DEF At, Ownership!Next, Ownership!In
      <4>9. CASE RefillMove(P, Q, w)
        BY <4>9, <3>3, <3>4 DEF RefillMove, place, At, Ownership!Next, Ownership!Refill
      <4> QED
        BY <3>6, <4>2, <4>3, <4>4, <4>5, <4>6, <4>7, <4>8, <4>9 DEF Moves
    <3> QED
      BY <3>2, <3>5, <3>6
  <2>2. CASE UNCHANGED vars
    BY <2>2 DEF vars, PlaceOf, Chained
  <2> QED
    BY <2>1, <2>2 DEF Next
<1> QED
  BY <1>1, <1>2, OwnInvariance, PTL DEF Spec, ImplementsOwnership, Ownership!Spec

-----------------------------------------------------------------------------
(* A set of at most m elements can be numbered within 1 .. m.              *)
LEMMA Numbering ==
  ASSUME NEW S, IsFiniteSet(S), NEW m \in Nat, Cardinality(S) <= m
  PROVE  \E f \in [S -> 1 .. m] : \A a, b \in S : f[a] = f[b] => a = b
<1>1. Cardinality(S) \in Nat /\ ExistsBijection(S, 1 .. Cardinality(S))
  BY FS_CardinalityType, Fun_ExistsBijSymmetric
<1>2. PICK f \in Bijection(S, 1 .. Cardinality(S)) : TRUE
  BY <1>1, Fun_ExistsBij
<1>3. f \in [S -> 1 .. Cardinality(S)] /\ \A a, b \in S : f[a] = f[b] => a = b
  BY <1>2 DEF Bijection, Injection, IsInjective
<1>4. 1 .. Cardinality(S) \subseteq 1 .. m
  BY <1>1
<1>5. f \in [S -> 1 .. m]
  BY <1>3, <1>4
<1> QED
  BY <1>3, <1>5

(* A list without duplicates has as many elements as its length.           *)
LEMMA RangeSize ==
  ASSUME NEW S, NEW s \in Seq(S), IsInjective(s)
  PROVE  IsFiniteSet(Range(s)) /\ Cardinality(Range(s)) = Len(s)
<1>1. Len(s) \in Nat /\ DOMAIN s = 1 .. Len(s) /\ s \in [1 .. Len(s) -> S]
  BY LenProperties
<1>2. s \in Injection(1 .. Len(s), S)
  BY <1>1, Fun_IsInj DEF IsInjective
<1>3. s \in Bijection(1 .. Len(s), Range(s))
  BY <1>2, Fun_InjMeansBijImage
<1>4. IsFiniteSet(1 .. Len(s)) /\ Cardinality(1 .. Len(s)) = Len(s)
  <2>1. Len(s) \in Nat
    BY <1>1
  <2> QED
    BY <2>1, FS_Interval
<1> QED
  BY <1>3, <1>4, FS_Bijection, Fun_ExistsBij

(* What is owed is in the common list: with nothing on its way, every      *)
(* connection is free, in use or in the common list.  A pool that owes     *)
(* nothing has at most as many of them as it was initialised with, and the *)
(* pool w has fewer by what it is owed: so many are in the common list.    *)
LEMMA OwedMet ==
  ASSUME IInv, OwnInv
  PROVE  OwedIsThere
<1> SUFFICES ASSUME \A v \in Workers : pc[v] = "idle" /\ transit[v] = {} /\ change_n[v] <= 0,
                    NEW w \in Workers
             PROVE  -change_n[w] <= Len(comm)
  BY DEF OwedIsThere
<1>1. PICK P : Owned(P)
  BY DEF OwnInv
<1>2. PICK U : U = [v \in Workers |-> Range(free[v]) \cup held[v]]
  OBVIOUS
<1>3. PICK m : m = [v \in Workers |-> connection_n[v] + change_n[v]]
  OBVIOUS
<1>4. ASSUME NEW v \in Workers
      PROVE  IsFiniteSet(U[v]) /\ Cardinality(U[v]) = m[v] /\ m[v] \in Nat /\ m[v] <= connection_n[v]
             /\ U[v] \subseteq Conns
  <2>1. /\ IsFiniteSet(Range(free[v])) /\ Cardinality(Range(free[v])) = Len(free[v])
        /\ Range(free[v]) \subseteq Conns
    <3>1. free[v] \in Seq(Conns) /\ IsInjective(free[v])
      BY <1>1 DEF IInv, TypeOK, Owned, NoDups
    <3>2. Range(free[v]) \subseteq Conns
      BY <3>1, LenProperties DEF Range
    <3> QED
      BY <3>1, <3>2, RangeSize
  <2>2. IsFiniteSet(held[v]) /\ held[v] \subseteq Conns /\ Cardinality(held[v]) \in Nat
    BY ConnsFinite, FS_Subset, SubsetSize DEF IInv, TypeOK
  <2>3. Range(free[v]) \cap held[v] = {}
    BY <1>1, <2>2, KindsApart, FiveKinds DEF Owned, Holds, FreeSets
  <2>4. IsFiniteSet(U[v]) /\ Cardinality(U[v]) = Len(free[v]) + Cardinality(held[v])
    <3>1. /\ IsFiniteSet(U[v])
          /\ Cardinality(U[v]) = Cardinality(Range(free[v])) + Cardinality(held[v])
                                 - Cardinality(Range(free[v]) \cap held[v])
      BY <1>2, <2>1, <2>2, FS_Union
    <3>2. Cardinality(Range(free[v]) \cap held[v]) = 0
      BY <2>3, FS_EmptySet
    <3>3. Cardinality(Range(free[v])) \in Nat
      BY <2>1, FS_CardinalityType
    <3> QED
      BY <2>1, <2>2, <3>1, <3>2, <3>3
  <2>5. free_n[v] + used_n[v] - change_n[v] + 0 = connection_n[v]
    BY DEF IInv, PoolBalance, InPut, PutPc
  <2>6. free_n[v] = Len(free[v]) /\ used_n[v] = Cardinality(held[v])
    BY DEF OwnInv, PoolCounts
  <2>7. change_n[v] \in Int /\ change_n[v] <= 0 /\ connection_n[v] \in Nat /\ Len(free[v]) \in Nat
    BY PoolAssumption DEF IInv, TypeOK
  <2>8. m[v] = connection_n[v] + change_n[v]
    BY <1>3
  <2>9. m[v] = Len(free[v]) + Cardinality(held[v])
    BY <2>2, <2>5, <2>6, <2>7, <2>8
  <2> QED
    BY <1>2, <2>1, <2>2, <2>4, <2>7, <2>8, <2>9
<1>5. PICK g : g = [v \in Workers |-> CHOOSE f \in [U[v] -> 1 .. m[v]] :
                                         \A a, b \in U[v] : f[a] = f[b] => a = b]
  OBVIOUS
<1>6. ASSUME NEW v \in Workers
      PROVE  g[v] \in [U[v] -> 1 .. m[v]] /\ \A a, b \in U[v] : g[v][a] = g[v][b] => a = b
  <2>1. \E f \in [U[v] -> 1 .. m[v]] : \A a, b \in U[v] : f[a] = f[b] => a = b
    <3>1. IsFiniteSet(U[v]) /\ m[v] \in Nat /\ Cardinality(U[v]) <= m[v]
      BY <1>4
    <3> QED
      BY <3>1, Numbering
  <2> QED
    BY <1>5, <2>1
<1>7. PICK X : X = Conns \ Range(comm)
  OBVIOUS
<1>8. ASSUME NEW c \in X PROVE \E v \in Workers : c \in U[v]
  <2>1. P[c] # Common /\ c \in Conns
    BY <1>1, <1>7 DEF Owned
  <2>2. PICK k \in Kinds, v \in Workers : P[c] = At(k, v)
    BY <1>1, <2>1 DEF Owned, Places
  <2>3. k # "transit"
    BY <1>1, <2>1, <2>2 DEF Owned, Holds
  <2>4. k # "returning"
    <3>1. arg[v] = NoConn
      BY DEF OwnInv, ArgClear
    <3> QED
      BY <1>1, <2>1, <2>2, <3>1, ConnIsSome DEF Owned, Holds, ArgSets
  <2>5. k # "refill"
    <3>1. ~ Chained(v)
      BY DEF Chained
    <3> QED
      BY <1>1, <2>1, <2>2, <3>1 DEF Owned, Holds, ChainSets
  <2>6. c \in Range(free[v]) \/ c \in held[v]
    BY <1>1, <2>1, <2>2, <2>3, <2>4, <2>5 DEF Owned, Holds, FreeSets, Kinds
  <2> QED
    BY <1>2, <2>6
<1>9. PICK D : D = {w} \X (m[w] + 1 .. connection_n[w])
  OBVIOUS
<1>10. /\ D \subseteq Conns /\ IsFiniteSet(D) /\ Cardinality(D) = -change_n[w]
  <2>1. m[w] = connection_n[w] + change_n[w] /\ m[w] \in Nat /\ connection_n[w] \in Nat
        /\ change_n[w] \in Int /\ change_n[w] <= 0
    BY <1>3, <1>4, PoolAssumption DEF IInv, TypeOK
  <2>2. /\ IsFiniteSet(m[w] + 1 .. connection_n[w])
        /\ Cardinality(m[w] + 1 .. connection_n[w]) = -change_n[w]
    <3>1. /\ IsFiniteSet(m[w] + 1 .. connection_n[w])
          /\ Cardinality(m[w] + 1 .. connection_n[w])
               = IF m[w] + 1 > connection_n[w] THEN 0 ELSE connection_n[w] - (m[w] + 1) + 1
      <4>1. m[w] + 1 \in Int /\ connection_n[w] \in Int
        BY <2>1
      <4> QED
        BY <4>1, FS_Interval
    <3> QED
      BY <2>1, <3>1
  <2>3. IsFiniteSet({w}) /\ Cardinality({w}) = 1
    BY FS_Singleton
  <2>4. IsFiniteSet(D) /\ Cardinality(D) = 1 * (-change_n[w])
    <3>1. /\ IsFiniteSet({w} \X (m[w] + 1 .. connection_n[w]))
          /\ Cardinality({w} \X (m[w] + 1 .. connection_n[w]))
               = Cardinality({w}) * Cardinality(m[w] + 1 .. connection_n[w])
      BY <2>2, <2>3, FS_Product
    <3> QED
      BY <1>9, <2>2, <2>3, <3>1
  <2>5. m[w] + 1 .. connection_n[w] \subseteq 1 .. connection_n[w]
    BY <2>1
  <2>6. D \subseteq Conns
    BY <1>9, <2>5 DEF Conns
  <2> QED
    BY <2>1, <2>4, <2>6
<1>11. PICK h : h = [c \in X |-> LET v == CHOOSE v \in Workers : c \in U[v] IN <<v, g[v][c]>>]
  OBVIOUS
<1>12. ASSUME NEW c \in X
       PROVE  \E v \in Workers : c \in U[v] /\ h[c] = <<v, g[v][c]>>
  BY <1>8, <1>11
<1>13. h \in [X -> Conns \ D]
  <2>1. ASSUME NEW c \in X PROVE h[c] \in Conns \ D
    <3>1. PICK v \in Workers : c \in U[v] /\ h[c] = <<v, g[v][c]>>
      BY <1>12
    <3>2. g[v][c] \in 1 .. m[v] /\ m[v] \in Nat /\ m[v] <= connection_n[v] /\ connection_n[v] \in Nat
      BY <1>4, <1>6, <3>1, PoolAssumption
    <3>3. g[v][c] \in 1 .. connection_n[v] /\ g[v][c] \notin m[v] + 1 .. connection_n[v]
      BY <3>2
    <3>4. h[c] \in Conns
      BY <3>1, <3>3 DEF Conns
    <3>5. h[c] \notin D
      BY <1>9, <3>1, <3>3
    <3> QED
      BY <3>4, <3>5
  <2> QED
    BY <1>11, <2>1
<1>14. h \in Injection(X, Conns \ D)
  <2>1. ASSUME NEW a \in X, NEW b \in X, h[a] = h[b] PROVE a = b
    <3>1. PICK u \in Workers : a \in U[u] /\ h[a] = <<u, g[u][a]>>
      BY <1>12
    <3>2. PICK v \in Workers : b \in U[v] /\ h[b] = <<v, g[v][b]>>
      BY <1>12
    <3>3. <<u, g[u][a]>> = <<v, g[v][b]>>
      BY <2>1, <3>1, <3>2
    <3>4. u = v /\ g[u][a] = g[v][b]
      BY <3>3
    <3> QED
      BY <1>6, <3>1, <3>2, <3>4
  <2> QED
    BY <1>13, <2>1, Fun_IsInj
<1>15. Cardinality(X) = Cardinality(Conns) - Len(comm)
  <2>1. comm \in Seq(Conns) /\ IsInjective(comm)
    BY <1>1 DEF IInv, TypeOK, Owned, NoDups
  <2>2. Cardinality(Range(comm)) = Len(comm) /\ Range(comm) \subseteq Conns
    <3>1. Range(comm) \subseteq Conns
      BY <2>1, LenProperties DEF Range
    <3> QED
      BY <2>1, <3>1, RangeSize
  <2>3. Conns \cap Range(comm) = Range(comm)
    BY <2>2
  <2>4. Cardinality(Conns \ Range(comm)) = Cardinality(Conns) - Cardinality(Conns \cap Range(comm))
    BY ConnsFinite, FS_Difference
  <2> QED
    BY <1>7, <2>2, <2>3, <2>4
<1>16. IsFiniteSet(Conns \ D) /\ Cardinality(Conns \ D) = Cardinality(Conns) - (-change_n[w])
  <2>1. Conns \cap D = D
    BY <1>10
  <2>2. /\ IsFiniteSet(Conns \ D)
        /\ Cardinality(Conns \ D) = Cardinality(Conns) - Cardinality(Conns \cap D)
    BY ConnsFinite, FS_Difference
  <2> QED
    BY <1>10, <2>1, <2>2
<1>17. Cardinality(X) <= Cardinality(Conns \ D)
  BY <1>14, <1>16, FS_Injection
<1>18. Cardinality(Conns) \in Nat /\ Len(comm) \in Nat /\ change_n[w] \in Int
  BY ConnsFinite, FS_CardinalityType DEF IInv, TypeOK
<1> QED
  BY <1>15, <1>16, <1>17, <1>18

(* The books are exact in every reachable state: no order of the threads'  *)
(* steps loses a connection or gives it to two of them, the counters count *)
(* what they say, a pool that is owed connections finds them in the common *)
(* list once nothing is on its way, and no pool hoards.                    *)
THEOREM BooksAreExact == Spec => []BooksExact
<1>1. IInv /\ OwnInv => BooksExact
  <2> SUFFICES ASSUME IInv, OwnInv PROVE BooksExact
    OBVIOUS
  <2>1. OneSpot
    BY OwnedOneSpot
  <2>2. CountsExact
    BY DEF IInv, CommCount, OwnInv, PoolCounts, CountsExact
  <2>3. OwedIsThere /\ NoHoarding
    BY OwedMet DEF OwnInv
  <2> QED
    BY <2>1, <2>2, <2>3 DEF BooksExact
<1> QED
  BY <1>1, OwnInvariance, PTL
=============================================================================
