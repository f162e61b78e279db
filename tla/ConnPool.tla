------------------------------ MODULE ConnPool ------------------------------
(***************************************************************************)
(* fast_conn_pool.c: every worker thread owns a pool of connections with   *)
(* a private free list; the process owns one common list, under            *)
(* comm_conn_lock.  A worker hands connections it uses over to another one *)
(* (conn_pool_out by the giver, conn_pool_in by the receiver): the giver's *)
(* change_n goes down, the receiver's goes up.  A pool whose change_n is   *)
(* positive frees into the common list until the debt is settled; a pool   *)
(* whose change_n is negative and whose own list is empty takes back from  *)
(* the common list what it is owed, at most.                               *)
(*                                                                         *)
(* A free list is the sequence of the connections reached from its head.   *)
(* The accesses of the common list are separate steps: the head is read    *)
(* into the local "seen" and stored from it, so that two threads in the    *)
(* critical section at once would lose connections.                        *)
(***************************************************************************)
EXTENDS AtomicLock, Sequences, FiniteSets, Functions

CONSTANTS
  Workers,        \* the worker threads; each owns one conn_pool_t
  connection_n    \* the size each pool is initialised with

ASSUME PoolAssumption ==
  /\ IsFiniteSet(Workers)
  /\ connection_n \in [Workers -> Nat \ {0}]

(* conn_t objects: pool w's array connections[0 .. connection_n - 1] *)
Conns == UNION {{w} \X (1 .. connection_n[w]) : w \in Workers}

NoConn == <<>>

VARIABLES
  free,           \* pool -> the list free_connections
  free_n,         \* pool -> free_connection_n
  used_n,         \* pool -> used_n
  change_n,       \* pool -> change_n
  comm,           \* comm_conn_pool.free_connections
  comm_n,         \* comm_conn_pool.free_connection_n
  pc,             \* where each worker is in get_connection/free_connection
  seen,           \* local: the common list as the worker read it
  want,           \* local n of get_comm_conn, then *num
  arg,            \* the connection being put
  held,           \* the connections the worker's code uses
  transit         \* worker -> connections handed over to it, not taken yet

counters == <<free_n, used_n, change_n>>
locals   == <<seen, want, arg>>
vars == <<lock, free, free_n, used_n, change_n, comm, comm_n, pc, seen, want,
          arg, held, transit>>

-----------------------------------------------------------------------------
PutPc == {"put_lock", "put_count", "put_link", "put_unlock", "put_done"}
GetPc == {"get_lock", "get_read", "get_cut", "get_empty", "get_unlock", "get_refill"}

(* The points between fast_atomic_lock_on and fast_atomic_lock_off. *)
CriticalPc == {"put_count", "put_link", "put_unlock",
               "get_read", "get_cut", "get_empty", "get_unlock"}
InCritical(w) == pc[w] \in CriticalPc

Goto(w, from, to) ==
  /\ pc[w] = from
  /\ pc' = [pc EXCEPT ![w] = to]

(* conn_pool_init for every pool (on zeroed pools) and                     *)
(* conn_pool_common_init: each list links its array in order.              *)
Init ==
  /\ AtomicLockInit
  /\ free = [w \in Workers |-> [i \in 1 .. connection_n[w] |-> <<w, i>>]]
  /\ free_n = connection_n
  /\ used_n = [w \in Workers |-> 0]
  /\ change_n = [w \in Workers |-> 0]
  /\ comm = <<>>
  /\ comm_n = 0
  /\ pc = [w \in Workers |-> "idle"]
  /\ seen = [w \in Workers |-> <<>>]
  /\ want = [w \in Workers |-> 0]
  /\ arg = [w \in Workers |-> NoConn]
  /\ held = [w \in Workers |-> {}]
  /\ transit = [w \in Workers |-> {}]

-----------------------------------------------------------------------------
(* conn_pool_get_connection, own list not empty: pop its head. *)
GetOwn(w) ==
  /\ pc[w] = "idle"
  /\ free[w] # <<>>
  /\ held' = [held EXCEPT ![w] = @ \cup {Head(free[w])}]
  /\ free' = [free EXCEPT ![w] = Tail(@)]
  /\ free_n' = [free_n EXCEPT ![w] = @ - 1]
  /\ used_n' = [used_n EXCEPT ![w] = @ + 1]
  /\ UNCHANGED <<lock, change_n, comm, comm_n, pc, locals, transit>>

(* Own list empty and the pool is owed connections: ask the common list    *)
(* for as many.  (With change_n >= 0 the call returns NULL.)               *)
GetCommon(w) ==
  /\ Goto(w, "idle", "get_lock")
  /\ free[w] = <<>>
  /\ change_n[w] < 0
  /\ want' = [want EXCEPT ![w] = -change_n[w]]
  /\ UNCHANGED <<lock, free, counters, comm, comm_n, seen, arg, held, transit>>

GetLock(w) ==
  /\ Goto(w, "get_lock", "get_read")
  /\ AtomicLockOn
  /\ UNCHANGED <<free, counters, comm, comm_n, locals, held, transit>>

(* get_comm_conn: an empty common list ends the call with NULL. *)
GetNone(w) ==
  /\ Goto(w, "get_read", "get_empty")
  /\ comm_n = 0
  /\ UNCHANGED <<lock, free, counters, comm, comm_n, locals, held, transit>>

GetReturnNull(w) ==
  /\ Goto(w, "get_empty", "idle")
  /\ AtomicLockOff
  /\ UNCHANGED <<free, counters, comm, comm_n, locals, held, transit>>

GetRead(w) ==
  /\ Goto(w, "get_read", "get_cut")
  /\ comm_n # 0
  /\ seen' = [seen EXCEPT ![w] = comm]
  /\ UNCHANGED <<lock, free, counters, comm, comm_n, want, arg, held, transit>>

(* Mutated forms: a cut of one connection more than the pool is owed, one  *)
(* that leaves the head in place.                                          *)
GetCut_OneMore(w) ==
  /\ Goto(w, "get_cut", "get_unlock")
  /\ LET n == IF want[w] + 1 >= comm_n THEN comm_n ELSE want[w] + 1 IN
     /\ seen' = [seen EXCEPT ![w] = SubSeq(@, 1, n)]
     /\ comm' = SubSeq(seen[w], n + 1, Len(seen[w]))
     /\ comm_n' = comm_n - n
     /\ want' = [want EXCEPT ![w] = n]
  /\ UNCHANGED <<lock, free, counters, arg, held, transit>>

GetCut_KeepHead(w) ==
  /\ Goto(w, "get_cut", "get_unlock")
  /\ LET n == IF want[w] >= comm_n THEN comm_n ELSE want[w] IN
     /\ seen' = [seen EXCEPT ![w] = SubSeq(@, 1, n)]
     /\ want' = [want EXCEPT ![w] = n]
  /\ UNCHANGED <<lock, free, counters, comm, comm_n, arg, held, transit>>

(* The whole list when n >= its count, else its first n: the walk stops at *)
(* plast, the head moves to p, plast->next = NULL; *num is what was taken. *)
GetCut(w) ==
  /\ Goto(w, "get_cut", "get_unlock")
  /\ LET n == IF want[w] >= comm_n THEN comm_n ELSE want[w] IN
     /\ seen' = [seen EXCEPT ![w] = SubSeq(@, 1, n)]
     /\ comm' = SubSeq(seen[w], n + 1, Len(seen[w]))
     /\ comm_n' = comm_n - n
     /\ want' = [want EXCEPT ![w] = n]
  /\ UNCHANGED <<lock, free, counters, arg, held, transit>>

GetUnlock(w) ==
  /\ Goto(w, "get_unlock", "get_refill")
  /\ AtomicLockOff
  /\ UNCHANGED <<free, counters, comm, comm_n, locals, held, transit>>

(* Mutated form: a refill that forgets to settle change_n. *)
GetRefill_NoChange(w) ==
  /\ Goto(w, "get_refill", "idle")
  /\ free' = [free EXCEPT ![w] = Tail(seen[w])]
  /\ free_n' = [free_n EXCEPT ![w] = @ + want[w] - 1]
  /\ used_n' = [used_n EXCEPT ![w] = @ + 1]
  /\ held' = [held EXCEPT ![w] = @ \cup {Head(seen[w])}]
  /\ seen' = [seen EXCEPT ![w] = <<>>]
  /\ UNCHANGED <<lock, change_n, comm, comm_n, want, arg, transit>>

(* Back in conn_pool_get_connection: the chain becomes the own list, the   *)
(* counters move, and the head is popped (label out_conn).                 *)
GetRefill(w) ==
  /\ Goto(w, "get_refill", "idle")
  /\ free' = [free EXCEPT ![w] = Tail(seen[w])]
  /\ free_n' = [free_n EXCEPT ![w] = @ + want[w] - 1]
  /\ change_n' = [change_n EXCEPT ![w] = @ + want[w]]
  /\ used_n' = [used_n EXCEPT ![w] = @ + 1]
  /\ held' = [held EXCEPT ![w] = @ \cup {Head(seen[w])}]
  /\ seen' = [seen EXCEPT ![w] = <<>>]
  /\ UNCHANGED <<lock, comm, comm_n, want, arg, transit>>

-----------------------------------------------------------------------------
(* Mutated form: a free that keeps the connection whatever the pool owes. *)
FreeOwn_AnyDebt(w, c) ==
  /\ pc[w] = "idle"
  /\ c \in held[w]
  /\ free' = [free EXCEPT ![w] = <<c>> \o @]
  /\ free_n' = [free_n EXCEPT ![w] = @ + 1]
  /\ used_n' = [used_n EXCEPT ![w] = @ - 1]
  /\ held' = [held EXCEPT ![w] = @ \ {c}]
  /\ UNCHANGED <<lock, change_n, comm, comm_n, pc, locals, transit>>

(* conn_pool_free_connection, nothing owed: push on the own list. *)
FreeOwn(w, c) ==
  /\ pc[w] = "idle"
  /\ c \in held[w]
  /\ change_n[w] <= 0
  /\ free' = [free EXCEPT ![w] = <<c>> \o @]
  /\ free_n' = [free_n EXCEPT ![w] = @ + 1]
  /\ used_n' = [used_n EXCEPT ![w] = @ - 1]
  /\ held' = [held EXCEPT ![w] = @ \ {c}]
  /\ UNCHANGED <<lock, change_n, comm, comm_n, pc, locals, transit>>

(* conn_pool_free_connection, change_n > 0: to the common list. *)
FreeCommon(w, c) ==
  /\ Goto(w, "idle", "put_lock")
  /\ c \in held[w]
  /\ change_n[w] > 0
  /\ used_n' = [used_n EXCEPT ![w] = @ - 1]
  /\ held' = [held EXCEPT ![w] = @ \ {c}]
  /\ arg' = [arg EXCEPT ![w] = c]
  /\ UNCHANGED <<lock, free, free_n, change_n, comm, comm_n, seen, want, transit>>

PutLock(w) ==
  /\ Goto(w, "put_lock", "put_count")
  /\ AtomicLockOn
  /\ UNCHANGED <<free, counters, comm, comm_n, locals, held, transit>>

(* put_comm_conn: count, and c->next = the head read. *)
PutCount(w) ==
  /\ Goto(w, "put_count", "put_link")
  /\ comm_n' = comm_n + 1
  /\ seen' = [seen EXCEPT ![w] = comm]
  /\ UNCHANGED <<lock, free, counters, comm, want, arg, held, transit>>

(* head = c *)
PutLink(w) ==
  /\ Goto(w, "put_link", "put_unlock")
  /\ comm' = <<arg[w]>> \o seen[w]
  /\ seen' = [seen EXCEPT ![w] = <<>>]
  /\ arg' = [arg EXCEPT ![w] = NoConn]
  /\ UNCHANGED <<lock, free, counters, comm_n, want, held, transit>>

(* Mutated form: a put that returns with the lock on. *)
PutUnlock_KeepLock(w) ==
  /\ Goto(w, "put_unlock", "put_done")
  /\ UNCHANGED <<lock, free, counters, comm, comm_n, locals, held, transit>>

PutUnlock(w) ==
  /\ Goto(w, "put_unlock", "put_done")
  /\ AtomicLockOff
  /\ UNCHANGED <<free, counters, comm, comm_n, locals, held, transit>>

PutDone(w) ==
  /\ Goto(w, "put_done", "idle")
  /\ change_n' = [change_n EXCEPT ![w] = @ - 1]
  /\ UNCHANGED <<lock, free, free_n, used_n, comm, comm_n, locals, held, transit>>

-----------------------------------------------------------------------------
(* The giver passes the connections S it uses to worker v and calls        *)
(* conn_pool_out(pool, n) with their number.                               *)
Out(w, v, S) ==
  /\ pc[w] = "idle"
  /\ w # v
  /\ S # {} /\ S \subseteq held[w]
  /\ change_n' = [change_n EXCEPT ![w] = @ - Cardinality(S)]
  /\ used_n' = [used_n EXCEPT ![w] = @ - Cardinality(S)]
  /\ held' = [held EXCEPT ![w] = @ \ S]
  /\ transit' = [transit EXCEPT ![v] = @ \cup S]
  /\ UNCHANGED <<lock, free, free_n, comm, comm_n, pc, locals>>

(* The receiver takes S and calls conn_pool_in(pool, n). *)
In(w, S) ==
  /\ pc[w] = "idle"
  /\ S # {} /\ S \subseteq transit[w]
  /\ change_n' = [change_n EXCEPT ![w] = @ + Cardinality(S)]
  /\ used_n' = [used_n EXCEPT ![w] = @ + Cardinality(S)]
  /\ held' = [held EXCEPT ![w] = @ \cup S]
  /\ transit' = [transit EXCEPT ![w] = @ \ S]
  /\ UNCHANGED <<lock, free, free_n, comm, comm_n, pc, locals>>

-----------------------------------------------------------------------------
(* The steps inside a call; a thread in a call goes on, so these are fair. *)
Continue(w) ==
  \/ GetLock(w) \/ GetNone(w) \/ GetReturnNull(w) \/ GetRead(w) \/ GetCut(w)
  \/ GetUnlock(w) \/ GetRefill(w)
  \/ PutLock(w) \/ PutCount(w) \/ PutLink(w) \/ PutUnlock(w) \/ PutDone(w)

(* What worker w may do next: go on inside a call, or start one. *)
Step(w) ==
  \/ Continue(w)
  \/ GetOwn(w)
  \/ GetCommon(w)
  \/ \E c \in held[w] : FreeOwn(w, c) \/ FreeCommon(w, c)
  \/ \E v \in Workers, S \in SUBSET held[w] : Out(w, v, S)
  \/ \E S \in SUBSET transit[w] : In(w, S)

Next == \E w \in Workers : Step(w)

Spec == Init /\ [][Next]_vars

(* Each thread keeps running while it is inside a call. *)
FairSpec == Spec /\ \A w \in Workers : WF_vars(Continue(w))

-----------------------------------------------------------------------------
(* Where a connection is: all the spots that hold it. *)
Chained(w) == pc[w] \in {"get_unlock", "get_refill"}     \* cut off, not refilled yet
Spots(c) ==
  LET OnFree  == UNION {{<<"free", w, i>> : i \in {j \in DOMAIN free[w] : free[w][j] = c}}
                        : w \in Workers}
      OnComm  == {<<"comm", i>> : i \in {j \in DOMAIN comm : comm[j] = c}}
      OnChain == UNION {{<<"chain", w, i>> : i \in {j \in DOMAIN seen[w] : seen[w][j] = c}}
                        : w \in {v \in Workers : Chained(v)}}
  IN
  OnFree \cup OnComm \cup OnChain
  \cup {<<"held", w>> : w \in {v \in Workers : c \in held[v]}}
  \cup {<<"transit", w>> : w \in {v \in Workers : c \in transit[v]}}
  \cup {<<"put", w>> : w \in {v \in Workers : arg[v] = c}}

-----------------------------------------------------------------------------
(* Every variable has its type.  That the counters the code declares       *)
(* unsigned never go below zero is part of CountsExact.                    *)
TypeOK ==
  /\ lock \in {FAST_LOCK_OFF, FAST_LOCK_ON}
  /\ free \in [Workers -> Seq(Conns)]
  /\ free_n \in [Workers -> Int]
  /\ used_n \in [Workers -> Int]
  /\ change_n \in [Workers -> Int]
  /\ comm \in Seq(Conns)
  /\ comm_n \in Int
  /\ pc \in [Workers -> {"idle"} \cup GetPc \cup PutPc]
  /\ seen \in [Workers -> Seq(Conns)]
  /\ want \in [Workers -> Nat]
  /\ arg \in [Workers -> Conns \cup {NoConn}]
  /\ held \in [Workers -> SUBSET Conns]
  /\ transit \in [Workers -> SUBSET Conns]

(* The lock word is on exactly while some thread is between                *)
(* fast_atomic_lock_on and fast_atomic_lock_off of comm_conn_lock, and     *)
(* never two threads are.                                                  *)
MutualExclusion ==
  /\ (lock = FAST_LOCK_ON) <=> \E w \in Workers : InCritical(w)
  /\ \A v, w \in Workers : InCritical(v) /\ InCritical(w) => v = w

(* A connection is in exactly one spot of one list, in one worker's use,   *)
(* on its way to one worker, or in the hands of one put: no interleaving   *)
(* of the threads loses a connection or gives it to two of them.           *)
OneSpot == \A c \in Conns : Cardinality(Spots(c)) = 1

(* What conn_pool_free_connection has taken off used_n and not yet off     *)
(* change_n.                                                               *)
InPut(w) == IF pc[w] \in PutPc THEN 1 ELSE 0

(* The books of a pool balance: what is free plus what is used, less what  *)
(* it received over what it gave, is what it was initialised with,         *)
(* through every hand-over, refill and common free.                        *)
PoolBalance == \A w \in Workers :
  free_n[w] + used_n[w] - change_n[w] + InPut(w) = connection_n[w]

(* The counters count: free_connection_n is the length of the own list,    *)
(* the common count the length of the common list (one ahead while a put   *)
(* is between its two stores), used_n the connections in use.              *)
CountsExact ==
  /\ \A w \in Workers : free_n[w] = Len(free[w]) /\ used_n[w] = Cardinality(held[w])
  /\ comm_n = Len(comm) + (IF \E w \in Workers : pc[w] = "put_link" THEN 1 ELSE 0)

(* No pool hoards: whatever was handed to it, its own list never grows     *)
(* beyond the size it was initialised with, the surplus goes to the common *)
(* list.                                                                   *)
NoHoarding == \A w \in Workers : free_n[w] <= connection_n[w]

(* A pool that is owed connections can be refilled in full as soon as no   *)
(* other pool owes any, nothing is on its way and no call is in progress:  *)
(* the common list then has them.                                          *)
OwedIsThere ==
  (\A v \in Workers : pc[v] = "idle" /\ transit[v] = {} /\ change_n[v] <= 0)
    => \A w \in Workers : -change_n[w] <= Len(comm)

(* The books are exact: no interleaving of the threads loses a connection  *)
(* or gives it twice, the counters count, a pool that is owed connections  *)
(* finds them, and none hoards.                                            *)
BooksExact == OneSpot /\ CountsExact /\ OwedIsThere /\ NoHoarding

(* get_comm_conn takes at most what the pool is owed: only receiving a     *)
(* hand-over turns a pool that is owed into one that owes.                 *)
NeverOverdraws ==
  [][\A w \in Workers : change_n[w] < 0 /\ change_n'[w] > 0 => transit' # transit]_vars

(* comm_conn_lock does not stay on: a thread that holds it lets it go.     *)
LockReleased == (lock = FAST_LOCK_ON) ~> (lock = FAST_LOCK_OFF)

-----------------------------------------------------------------------------
(* The abstract view: each connection has one place. *)
PlaceOf(c) ==
  IF \E w \in Workers : c \in held[w]
    THEN <<"held", CHOOSE w \in Workers : c \in held[w]>>
  ELSE IF \E w \in Workers : c \in transit[w]
    THEN <<"transit", CHOOSE w \in Workers : c \in transit[w]>>
  ELSE IF \E w \in Workers : arg[w] = c
    THEN <<"returning", CHOOSE w \in Workers : arg[w] = c>>
  ELSE IF \E w \in Workers : Chained(w) /\ c \in Range(seen[w])
    THEN <<"refill", CHOOSE w \in Workers : Chained(w) /\ c \in Range(seen[w])>>
  ELSE IF \E w \in Workers : c \in Range(free[w])
    THEN <<"free", CHOOSE w \in Workers : c \in Range(free[w])>>
  ELSE <<"common">>

Ownership == INSTANCE ConnOwnership WITH
  Home <- [c \in Conns |-> c[1]],
  place <- [c \in Conns |-> PlaceOf(c)]

(* The pools implement the abstract hand-over of connections: a connection *)
(* reaches another worker's use only through a hand-over or through the    *)
(* common list.                                                            *)
ImplementsOwnership == Ownership!Spec
=============================================================================
