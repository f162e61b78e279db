-------------------------- MODULE EventLoopProofs --------------------------
(***************************************************************************)
(* What EventLoop keeps in step for any connections.  First whatever the   *)
(* handlers do and however the program reuses its connections (for every   *)
(* value of Calls and Reuses): epoll's registrations, the active flags,    *)
(* the timer tree and timer_set; none of it depends on the batch or the    *)
(* queues.  Then, for programs that take no liberty of Reuses, that stale  *)
(* events of the batch and of the queues never reach a handler.            *)
(***************************************************************************)
EXTENDS EventLoop, FiniteSetTheorems, TLAPS

ConnTypes ==
  /\ open \subseteq Conns /\ Listeners \subseteq open
  /\ instance \in [Conns -> 0..1]
  /\ active \in [Conns -> SUBSET Sides]
  /\ timer_set \in [Conns -> SUBSET Sides]
  /\ interest \in [Conns -> [events : SUBSET Sides, instance : 0..1]]
  /\ tree \subseteq Events

RInv == ConnTypes /\ RegistrationExact /\ ClosedLeavesNothing /\ TimersExact

LEMMA OtherSide ==
  ASSUME NEW s \in Sides
  PROVE  Other(s) \in Sides /\ Other(s) # s /\ Sides = {s, Other(s)}
<1>1. \E t \in Sides : t # s
  BY DEF Sides
<1>2. Other(s) \in Sides /\ Other(s) # s
  BY <1>1 DEF Other
<1> QED BY <1>2 DEF Sides

LEMMA RInvInit == Init => RInv
<1> SUFFICES ASSUME Init PROVE RInv
  OBVIOUS
<1> USE LoopAssumption
<1>1. ConnTypes
  BY DEF Init, ConnTypes, Sides, NotInEpoll
<1>2. RegistrationExact
  BY DEF Init, RegistrationExact, NotInEpoll
<1>3. ClosedLeavesNothing
  BY DEF Init, ClosedLeavesNothing, NotInEpoll
<1>4. TimersExact
  BY DEF Init, TimersExact, Events
<1> QED BY <1>1, <1>2, <1>3, <1>4 DEF RInv

(* event_handle_read and event_handle_write: with the flags exact, neither *)
(* EPOLL_CTL_ADD nor EPOLL_CTL_MOD fails.                                  *)
LEMMA AddEventKeeps ==
  ASSUME RInv, NEW c \in open, NEW s \in Sides, s \notin active[c],
         EpollAddEvent(c, s), UNCHANGED <<open, instance, timer_set, tree>>
  PROVE  RInv'
<1> DEFINE events == IF Other(s) \in active[c] THEN Sides ELSE {s}
<1>1. c \in Conns
  BY DEF RInv, ConnTypes
<1>2. (Other(s) \in active[c]) <=> interest[c].events # {}
  BY <1>1, OtherSide DEF RInv, ConnTypes, RegistrationExact
<1>3. /\ interest' = [interest EXCEPT ![c] = [events |-> events, instance |-> instance[c]]]
      /\ active' = [active EXCEPT ![c] = @ \cup {s}]
  BY <1>2, Zenon DEF EpollAddEvent
<1>4. events = active[c] \cup {s} /\ events \in SUBSET Sides
  BY <1>1, OtherSide DEF RInv, ConnTypes
<1> HIDE DEF events
<1>5. ConnTypes'
  BY <1>1, <1>3, <1>4 DEF RInv, ConnTypes
<1>6. RegistrationExact'
  BY <1>1, <1>3, <1>4 DEF RInv, ConnTypes, RegistrationExact
<1>7. ClosedLeavesNothing'
  BY <1>1, <1>3 DEF RInv, ConnTypes, ClosedLeavesNothing
<1>8. TimersExact'
  BY DEF RInv, TimersExact
<1> QED BY <1>5, <1>6, <1>7, <1>8 DEF RInv

LEMMA DelEventKeeps ==
  ASSUME RInv, NEW c \in open, NEW s \in Sides,
         EpollDelEvent(c, s), UNCHANGED <<open, instance, timer_set, tree>>
  PROVE  RInv'
<1>1. c \in Conns
  BY DEF RInv, ConnTypes
<1>2. CASE interest[c].events = {}
  <2>1. UNCHANGED <<interest, active>>
    BY <1>2 DEF EpollDelEvent
  <2> QED BY <2>1 DEF RInv, ConnTypes, RegistrationExact, ClosedLeavesNothing, TimersExact
<1>3. CASE interest[c].events # {}
  <2> DEFINE left == IF Other(s) \in active[c]
                     THEN [events |-> {Other(s)}, instance |-> instance[c]] ELSE NotInEpoll
  <2>1. /\ interest' = [interest EXCEPT ![c] = left]
        /\ active' = [active EXCEPT ![c] = @ \ {s}]
    BY <1>3, Zenon DEF EpollDelEvent
  <2>2. /\ left \in [events : SUBSET Sides, instance : 0..1]
        /\ left.events = active[c] \ {s}
        /\ active[c] \ {s} # {} => left.instance = instance[c]
    BY <1>1, OtherSide DEF RInv, ConnTypes, NotInEpoll
  <2> HIDE DEF left
  <2>3. ConnTypes'
    BY <1>1, <2>1, <2>2 DEF RInv, ConnTypes
  <2>4. RegistrationExact'
    BY <1>1, <2>1, <2>2 DEF RInv, ConnTypes, RegistrationExact
  <2>5. ClosedLeavesNothing'
    BY <1>1, <2>1 DEF RInv, ConnTypes, ClosedLeavesNothing
  <2>6. TimersExact'
    BY DEF RInv, TimersExact
  <2> QED BY <2>3, <2>4, <2>5, <2>6 DEF RInv
<1> QED BY <1>2, <1>3

LEMMA AddConnectionKeeps ==
  ASSUME RInv, NEW c \in Conns, EpollAddConnection(c), c \in open',
         open' = open \cup {c}, UNCHANGED <<instance, timer_set, tree>>
  PROVE  RInv'
<1>1. /\ interest' = [interest EXCEPT ![c] = [events |-> Sides, instance |-> instance[c]]]
      /\ active' = [active EXCEPT ![c] = Sides]
  BY DEF EpollAddConnection
<1> QED
  BY <1>1 DEF RInv, ConnTypes, RegistrationExact, ClosedLeavesNothing, TimersExact

LEMMA CloseKeeps ==
  ASSUME RInv, NEW c \in Conns, Close(c)
  PROVE  RInv'
<1>1. /\ c \in open \ Listeners /\ open' = open \ {c}
      /\ interest' = [interest EXCEPT ![c] = NotInEpoll]
      /\ tree' = tree \ {<<c, s>> : s \in timer_set[c]}
      /\ timer_set' = [timer_set EXCEPT ![c] = {}]
      /\ active' = [active EXCEPT ![c] = {}]
      /\ instance' = instance
  BY DEF Close
<1>2. ConnTypes'
  BY <1>1 DEF RInv, ConnTypes, NotInEpoll
<1>3. RegistrationExact'
  BY <1>1 DEF RInv, ConnTypes, RegistrationExact, NotInEpoll
<1>4. \A d \in Conns, s \in Sides : <<d, s>> \in tree' <=> d # c /\ <<d, s>> \in tree
  BY <1>1 DEF RInv, ConnTypes, TimersExact, Events
<1>5. TimersExact'
  BY <1>1, <1>4 DEF RInv, ConnTypes, TimersExact, Events
<1>6. ClosedLeavesNothing'
  BY <1>1, <1>4 DEF RInv, ConnTypes, ClosedLeavesNothing, NotInEpoll
<1> QED BY <1>2, <1>3, <1>5, <1>6 DEF RInv

LEMMA SetDefaultKeeps ==
  ASSUME RInv, NEW c \in Conns, SetDefault(c)
  PROVE  RInv'
<1>1. /\ c \notin open /\ (open' = open \/ open' = open \cup {c})
      /\ instance' = [instance EXCEPT ![c] = 1 - @]
      /\ active' = [active EXCEPT ![c] = {}]
      /\ timer_set' = [timer_set EXCEPT ![c] = {}]
      /\ interest' = interest /\ tree' = tree
  BY DEF SetDefault, kernel
<1>2. active[c] = {} /\ interest[c].events = {} /\ \A s \in Sides : <<c, s>> \notin tree
  BY <1>1 DEF RInv, ClosedLeavesNothing
<1>3. ConnTypes'
  <2>1. 1 - instance[c] \in 0..1
    BY DEF RInv, ConnTypes
  <2> QED BY <1>1, <2>1 DEF RInv, ConnTypes
<1>4. RegistrationExact'
  BY <1>1, <1>2 DEF RInv, ConnTypes, RegistrationExact
<1>5. ClosedLeavesNothing'
  BY <1>1, <1>2 DEF RInv, ConnTypes, ClosedLeavesNothing
<1>6. TimersExact'
  BY <1>1, <1>2 DEF RInv, ConnTypes, TimersExact, Events
<1> QED BY <1>3, <1>4, <1>5, <1>6 DEF RInv

(* One timer in or out of the tree, with its flag.                         *)
LEMMA TimerKeeps ==
  ASSUME RInv, NEW c \in Conns, NEW s \in Sides,
         \/ TimerAdd(c, s) /\ c \in open
         \/ tree' = tree \ {<<c, s>>} /\ timer_set' = [timer_set EXCEPT ![c] = @ \ {s}],
         UNCHANGED <<open, instance, active, interest>>
  PROVE  RInv'
<1>1. ConnTypes' /\ RegistrationExact'
  BY DEF RInv, ConnTypes, RegistrationExact, TimerAdd, Events
<1>2. ClosedLeavesNothing'
  BY DEF RInv, ConnTypes, ClosedLeavesNothing, TimerAdd
<1>3. TimersExact'
  BY DEF RInv, ConnTypes, TimersExact, TimerAdd, Events
<1> QED BY <1>1, <1>2, <1>3 DEF RInv

LEMMA RInvNext == RInv /\ [Next]_vars => RInv'
<1> SUFFICES ASSUME RInv, [Next]_vars PROVE RInv'
  OBVIOUS
<1> DEFINE kept == <<open, instance, active, timer_set, interest, tree>>
<1>0. UNCHANGED kept => RInv'
  BY DEF RInv, ConnTypes, RegistrationExact, ClosedLeavesNothing, TimersExact
<1>1. ASSUME NEW c \in Conns, NEW s \in Sides, HandleSide(c, s) PROVE RInv'
  BY <1>1, AddEventKeeps DEF HandleSide
<1>2. ASSUME NEW c \in Conns, NEW s \in Sides, DelSide(c, s) PROVE RInv'
  BY <1>2, DelEventKeeps DEF DelSide
<1>3. ASSUME NEW c \in Conns, AddConn(c) PROVE RInv'
  BY <1>3, AddConnectionKeeps DEF AddConn
<1>4. ASSUME NEW c \in Conns, DelConn(c) PROVE RInv'
  BY <1>4 DEF DelConn, RInv, ConnTypes, RegistrationExact, ClosedLeavesNothing, TimersExact, NotInEpoll
<1>5. ASSUME NEW c \in Conns, Send(c) PROVE RInv'
  BY <1>5, <1>0 DEF Send, kernel
<1>6. ASSUME NEW c \in Conns, NEW s \in Sides, SetTimer(c, s) PROVE RInv'
  BY <1>6, TimerKeeps DEF SetTimer
<1>7. ASSUME NEW c \in Conns, NEW s \in Sides, DropTimer(c, s) PROVE RInv'
  BY <1>7, TimerKeeps DEF DropTimer, TimerDel
<1>8. ASSUME NEW c \in Conns, SetDefault(c) PROVE RInv'
  BY <1>8, SetDefaultKeeps
<1>9. ASSUME NEW c \in Conns, Connect(c) PROVE RInv'
  BY <1>9, AddConnectionKeeps DEF Connect
<1>10. ASSUME NEW c \in Conns, Close(c) PROVE RInv'
  BY <1>10, CloseKeeps
<1>11. CASE Loop
  <2>1. ASSUME NEW c \in Conns, NEW s \in Sides, RunTimer(c, s) PROVE RInv'
    BY <2>1, TimerKeeps DEF RunTimer
  <2>2. CASE Wait \/ TimersExpire \/ TimersDone \/ \E q \in Queues : ProcessPosted(q)
    BY <2>2, <1>0 DEF Wait, TimersExpire, TimersDone, ProcessPosted, conns, kernel
  <2>3. CASE Dispatch
    BY <2>3, <1>0 DEF Dispatch, SkipEntry, ReadSide, NoReadSide, WriteSide, BatchDone,
       RunPosted, PostedDone, conns, kernel
  <2> QED BY <1>11, <2>1, <2>2, <2>3 DEF Loop
<1>12. CASE Return
  BY <1>12, <1>0 DEF Return, conns, kernel
<1>13. CASE UNCHANGED vars
  BY <1>13, <1>0 DEF vars, conns, kernel
<1> QED
  BY <1>1, <1>2, <1>3, <1>4, <1>5, <1>6, <1>7, <1>8, <1>9, <1>10, <1>11, <1>12, <1>13
     DEF Next, Program

LEMMA Invariance == Spec => []RInv
BY RInvInit, RInvNext, PTL DEF Spec

(* epoll watches exactly the sides whose active flag is set, under the     *)
(* connection's present instance.                                          *)
THEOREM Registered == Spec => []RegistrationExact
<1>1. RInv => RegistrationExact
  BY DEF RInv
<1> QED BY <1>1, Invariance, PTL

(* conn_close leaves nothing of a connection in epoll or the timer tree.   *)
THEOREM ClosedClean == Spec => []ClosedLeavesNothing
<1>1. RInv => ClosedLeavesNothing
  BY DEF RInv
<1> QED BY <1>1, Invariance, PTL

(* timer_set and the tree agree, also across conn_set_default, which zeroes *)
(* the flag.                                                               *)
THEOREM TimersMatch == Spec => []TimersExact
<1>1. RInv => TimersExact
  BY DEF RInv
<1> QED BY <1>1, Invariance, PTL

-----------------------------------------------------------------------------
(* Stale events.  An entry of the batch that is not stale describes its    *)
(* connection; a stale one's connection is either closed since, or was set *)
(* anew once since, and then its instance is the other one.                *)
EntryInv(e) ==
  /\ ~e.stale => e.conn \in open \ reused /\ instance[e.conn] = e.instance
  /\ e.stale =>
       \/ e.conn \notin open \cup fresh \cup reused /\ instance[e.conn] = e.instance
       \/ e.conn \in reused /\ instance[e.conn] # e.instance

(* Between the two sides of an entry its connection is only closed.        *)
HeadInv ==
  loop = "write" /\ Head(batch).stale /\ "write" \in Got(Head(batch))
    => Head(batch).conn \notin open \cup fresh

(* A posted event that is stale has a closed connection.                   *)
PostedInv(p) == p.stale => p.event[1] \notin open \cup fresh

BatchEntry == [conn : Conns, instance : 0..1,
               events : SUBSET (Sides \cup {"err"}), stale : BOOLEAN]
PostedEntry == [event : Events, stale : BOOLEAN, wiped : BOOLEAN]

PassTypes ==
  /\ fresh \subseteq Conns /\ reused \subseteq Conns
  /\ ready \in [Conns -> SUBSET Sides]
  /\ batch \in Seq(BatchEntry)
  /\ posting \in BOOLEAN
  /\ queue \in [Queues -> Seq(PostedEntry)]
  /\ loop \in {"idle", "read", "write", "timers"} \cup Queues
  /\ running \in [event : Events, stale : BOOLEAN] \cup {NoEvent}
  /\ loop = "write" => batch # <<>>

(* Marking entries keeps a sequence what it is.                            *)
LEMMA StaleSeq ==
  ASSUME NEW s \in Seq(BatchEntry), NEW c \in Conns
  PROVE  /\ Stale(s, c) \in Seq(BatchEntry) /\ Len(Stale(s, c)) = Len(s)
         /\ \A i \in 1..Len(s) : Stale(s, c)[i] =
              IF s[i].conn = c THEN [s[i] EXCEPT !.stale = TRUE] ELSE s[i]
<1> DEFINE F(i) == IF s[i].conn = c THEN [s[i] EXCEPT !.stale = TRUE] ELSE s[i]
<1>1. ASSUME NEW i \in 1..Len(s) PROVE F(i) \in BatchEntry
  <2>1. s[i] \in BatchEntry
    OBVIOUS
  <2> QED BY <2>1 DEF BatchEntry
<1>2. Stale(s, c) = [i \in 1..Len(s) |-> F(i)]
  BY DEF Stale
<1> HIDE DEF F
<1>3. Stale(s, c) \in Seq(BatchEntry) /\ Len(Stale(s, c)) = Len(s)
      /\ \A i \in 1..Len(s) : Stale(s, c)[i] = F(i)
  BY <1>1, <1>2
<1> QED BY <1>3 DEF F

LEMMA StaleEventsSeq ==
  ASSUME NEW s \in Seq(PostedEntry), NEW c \in Conns
  PROVE  /\ StaleEvents(s, c) \in Seq(PostedEntry) /\ Len(StaleEvents(s, c)) = Len(s)
         /\ \A i \in 1..Len(s) : StaleEvents(s, c)[i] =
              IF s[i].event[1] = c THEN [s[i] EXCEPT !.stale = TRUE] ELSE s[i]
<1> DEFINE F(i) == IF s[i].event[1] = c THEN [s[i] EXCEPT !.stale = TRUE] ELSE s[i]
<1>1. ASSUME NEW i \in 1..Len(s) PROVE F(i) \in PostedEntry
  <2>1. s[i] \in PostedEntry
    OBVIOUS
  <2> QED BY <2>1 DEF PostedEntry
<1>2. StaleEvents(s, c) = [i \in 1..Len(s) |-> F(i)]
  BY DEF StaleEvents
<1> HIDE DEF F
<1>3. StaleEvents(s, c) \in Seq(PostedEntry) /\ Len(StaleEvents(s, c)) = Len(s)
      /\ \A i \in 1..Len(s) : StaleEvents(s, c)[i] = F(i)
  BY <1>1, <1>2
<1> QED BY <1>3 DEF F

LEMMA WipedSeq ==
  ASSUME NEW s \in Seq(PostedEntry), NEW c \in Conns
  PROVE  /\ Wiped(s, c) \in Seq(PostedEntry) /\ Len(Wiped(s, c)) = Len(s)
         /\ \A i \in 1..Len(s) :
              /\ Wiped(s, c)[i].stale = s[i].stale
              /\ Wiped(s, c)[i].event = s[i].event
<1> DEFINE F(i) == IF s[i].event[1] = c THEN [s[i] EXCEPT !.wiped = TRUE] ELSE s[i]
<1>1. ASSUME NEW i \in 1..Len(s)
      PROVE F(i) \in PostedEntry /\ F(i).stale = s[i].stale /\ F(i).event = s[i].event
  <2>1. s[i] \in PostedEntry
    OBVIOUS
  <2> QED BY <2>1 DEF PostedEntry
<1>2. Wiped(s, c) = [i \in 1..Len(s) |-> F(i)]
  BY DEF Wiped
<1> HIDE DEF F
<1> QED BY <1>1, <1>2

BatchInv == \A i \in 1..Len(batch) : EntryInv(batch[i])
QueuesInv == \A q \in Queues : \A i \in 1..Len(queue[q]) : PostedInv(queue[q][i])

StInv == PassTypes /\ StaleNeverHandled /\ BatchInv /\ HeadInv /\ QueuesInv

LEMMA StInvInit == Init => StInv
<1> SUFFICES ASSUME Init PROVE StInv
  OBVIOUS
<1>1. PassTypes
  <2>1. <<>> \in Seq(BatchEntry) /\ <<>> \in Seq(PostedEntry)
    OBVIOUS
  <2>2. queue \in [Queues -> Seq(PostedEntry)]
    BY <2>1 DEF Init
  <2> QED
    BY <2>1, <2>2, LoopAssumption DEF Init, PassTypes
<1>2. Len(batch) = 0 /\ \A q \in Queues : Len(queue[q]) = 0
  BY DEF Init
<1> QED
  BY <1>1, <1>2 DEF Init, StInv, StaleNeverHandled, BatchInv, HeadInv, QueuesInv

(* Steps that change flags, registrations and timers only.                 *)
LEMMA FlagSteps ==
  ASSUME StInv, ready' \in [Conns -> SUBSET Sides], UNCHANGED <<open, instance, fresh, pass>>
  PROVE  StInv'
BY DEF StInv, pass, PassTypes, StaleNeverHandled, BatchInv, EntryInv, HeadInv, Got, QueuesInv, PostedInv

LEMMA CloseStale ==
  ASSUME RInv, StInv, NEW c \in Conns, Close(c)
  PROVE  StInv'
<1>1. /\ c \in open /\ open' = open \ {c} /\ fresh' = fresh \ {c}
      /\ batch' = Stale(batch, c)
      /\ queue' = [q \in Queues |-> StaleEvents(queue[q], c)]
      /\ UNCHANGED <<instance, ready, posting, loop, running, reused>>
  BY DEF Close
<1>2. batch \in Seq(BatchEntry) /\ queue \in [Queues -> Seq(PostedEntry)]
  BY DEF StInv, PassTypes
<1>3. /\ batch' \in Seq(BatchEntry) /\ Len(batch') = Len(batch)
      /\ \A i \in 1..Len(batch) :
           batch'[i] = IF batch[i].conn = c THEN [batch[i] EXCEPT !.stale = TRUE] ELSE batch[i]
  BY <1>1, <1>2, StaleSeq
<1>4. \A q \in Queues :
        /\ queue'[q] \in Seq(PostedEntry) /\ Len(queue'[q]) = Len(queue[q])
        /\ \A i \in 1..Len(queue[q]) :
             queue'[q][i] = IF queue[q][i].event[1] = c
                            THEN [queue[q][i] EXCEPT !.stale = TRUE] ELSE queue[q][i]
  BY <1>1, <1>2, StaleEventsSeq
<1>5. PassTypes'
  BY <1>1, <1>3, <1>4 DEF StInv, PassTypes
<1>6. BatchInv'
  <2> SUFFICES ASSUME NEW i \in 1..Len(batch) PROVE EntryInv(batch[i])'
    BY <1>3 DEF BatchInv
  <2>1. EntryInv(batch[i]) /\ batch[i] \in BatchEntry
    BY <1>2 DEF StInv, BatchInv
  <2>2. CASE batch[i].conn = c
    <3>1. batch'[i] = [batch[i] EXCEPT !.stale = TRUE]
      BY <1>3, <2>2
    <3>2. batch'[i].conn = c /\ batch'[i].stale /\ batch'[i].instance = batch[i].instance
      BY <2>1, <2>2, <3>1 DEF BatchEntry
    <3> QED BY <1>1, <2>1, <2>2, <3>2 DEF EntryInv
  <2>3. CASE batch[i].conn # c
    <3>1. batch'[i] = batch[i]
      BY <1>3, <2>3
    <3> QED BY <1>1, <2>1, <2>3, <3>1 DEF EntryInv
  <2> QED BY <2>2, <2>3
<1>7. QueuesInv'
  <2> SUFFICES ASSUME NEW q \in Queues, NEW i \in 1..Len(queue[q]) PROVE PostedInv(queue[q][i])'
    BY <1>4 DEF QueuesInv
  <2>1. PostedInv(queue[q][i]) /\ queue[q][i] \in PostedEntry
    BY <1>2 DEF StInv, QueuesInv
  <2>2. queue'[q][i].event = queue[q][i].event
        /\ (queue'[q][i].stale => queue[q][i].stale \/ queue[q][i].event[1] = c)
    BY <1>4, <2>1 DEF PostedEntry
  <2> QED BY <1>1, <2>1, <2>2 DEF PostedInv
<1>8. HeadInv'
  <2> SUFFICES ASSUME loop = "write", Head(batch').stale, "write" \in Got(Head(batch'))
               PROVE  Head(batch').conn \notin open' \cup fresh'
    BY <1>1 DEF HeadInv
  <2>1. batch # <<>> /\ Len(batch) \in Nat /\ Len(batch) >= 1
    BY <1>2 DEF StInv, PassTypes
  <2>2. batch[1] \in BatchEntry /\ Head(batch) = batch[1] /\ Head(batch') = batch'[1]
    BY <1>2, <1>3, <2>1
  <2>3. batch'[1] = IF batch[1].conn = c THEN [batch[1] EXCEPT !.stale = TRUE] ELSE batch[1]
    BY <1>3, <2>1
  <2> QED
    BY <1>1, <2>2, <2>3 DEF StInv, HeadInv, Got, BatchEntry
<1> QED
  BY <1>1, <1>5, <1>6, <1>7, <1>8 DEF StInv, StaleNeverHandled

LEMMA SetDefaultStale ==
  ASSUME Reuses = {}, RInv, StInv, NEW c \in Conns, SetDefault(c)
  PROVE  StInv'
<1>1. /\ c \notin open /\ c \notin reused /\ ~WriteToCome(c) /\ ~InQueues(c)
      /\ open' \subseteq open \cup {c} /\ open \subseteq open'
      /\ instance' = [instance EXCEPT ![c] = 1 - @]
      /\ ready' = [ready EXCEPT ![c] = {}]
      /\ fresh' = fresh \cup {c}
      /\ queue' = [q \in Queues |-> Wiped(queue[q], c)]
      /\ reused' = IF InBatch(c) THEN reused \cup {c} ELSE reused
      /\ UNCHANGED <<batch, posting, loop, running>>
  BY DEF SetDefault, MayReuse
<1>2. /\ batch \in Seq(BatchEntry) /\ queue \in [Queues -> Seq(PostedEntry)]
      /\ instance \in [Conns -> 0..1]
  BY DEF StInv, PassTypes, RInv, ConnTypes
<1>3. \A q \in Queues :
        /\ queue'[q] \in Seq(PostedEntry) /\ Len(queue'[q]) = Len(queue[q])
        /\ \A i \in 1..Len(queue[q]) :
             /\ queue'[q][i].stale = queue[q][i].stale
             /\ queue'[q][i].event = queue[q][i].event
  BY <1>1, <1>2, WipedSeq
<1>4. PassTypes'
  BY <1>1, <1>3 DEF StInv, PassTypes
<1>5. BatchInv'
  <2> SUFFICES ASSUME NEW i \in 1..Len(batch) PROVE EntryInv(batch[i])'
    BY <1>1 DEF BatchInv
  <2>1. EntryInv(batch[i]) /\ batch[i] \in BatchEntry
    BY <1>2 DEF StInv, BatchInv
  <2>2. CASE batch[i].conn = c
    <3>1. InBatch(c)
      BY <2>2 DEF InBatch
    <3>2. batch[i].stale /\ instance[c] = batch[i].instance
      BY <1>1, <2>1, <2>2 DEF EntryInv, BatchEntry
    <3>3. instance'[c] # batch[i].instance /\ c \in reused'
      BY <1>1, <1>2, <3>1, <3>2
    <3> QED BY <1>1, <2>2, <3>2, <3>3 DEF EntryInv
  <2>3. CASE batch[i].conn # c
    BY <1>1, <1>2, <2>1, <2>3 DEF EntryInv, BatchEntry
  <2> QED BY <2>2, <2>3
<1>6. QueuesInv'
  <2> SUFFICES ASSUME NEW q \in Queues, NEW i \in 1..Len(queue[q]) PROVE PostedInv(queue[q][i])'
    BY <1>3 DEF QueuesInv
  <2>1. queue[q][i].event[1] # c
    BY <1>1 DEF InQueues
  <2>2. PostedInv(queue[q][i])
    BY DEF StInv, QueuesInv
  <2> QED BY <1>1, <1>3, <2>1, <2>2 DEF PostedInv
<1>7. HeadInv'
  BY <1>1 DEF StInv, HeadInv, WriteToCome
<1> QED
  BY <1>1, <1>4, <1>5, <1>6, <1>7 DEF StInv, StaleNeverHandled

LEMMA ConnectStale ==
  ASSUME Reuses = {}, RInv, StInv, NEW c \in Conns, Connect(c)
  PROVE  StInv'
<1>1. /\ c \in fresh /\ c \notin open /\ open' = open \cup {c}
      /\ ready' \in [Conns -> SUBSET Sides]
      /\ UNCHANGED <<instance, fresh, batch, posting, queue, loop, running, reused>>
  BY DEF Connect, pass, StInv, PassTypes, Sides
<1>2. batch \in Seq(BatchEntry) /\ queue \in [Queues -> Seq(PostedEntry)]
  BY DEF StInv, PassTypes
<1>3. PassTypes'
  BY <1>1 DEF StInv, PassTypes
<1>4. BatchInv'
  BY <1>1, <1>2 DEF StInv, BatchInv, EntryInv, BatchEntry
<1>5. QueuesInv' /\ HeadInv'
  BY <1>1 DEF StInv, QueuesInv, PostedInv, HeadInv, Got
<1> QED
  BY <1>1, <1>3, <1>4, <1>5 DEF StInv, StaleNeverHandled

(* Steps of the loop that leave connections, batch and queues alone.       *)
LEMMA PlainSteps ==
  ASSUME StInv, UNCHANGED <<open, instance, ready, fresh, batch, posting, queue, reused>>,
         loop' \in {"idle", "timers"} \cup Queues \/ UNCHANGED loop,
         running' = NoEvent \/ UNCHANGED running
  PROVE  StInv'
<1>1. loop' = "write" => loop = "write"
  BY DEF Queues
<1>2. PassTypes'
  BY <1>1 DEF StInv, PassTypes
<1> QED
  BY <1>1, <1>2 DEF StInv, StaleNeverHandled, BatchInv, EntryInv, HeadInv, Got, QueuesInv, PostedInv

(* A harvested event is of a registered descriptor, so of an open          *)
(* connection and with its instance.                                       *)
LEMMA WaitStale ==
  ASSUME RInv, StInv, Wait
  PROVE  StInv'
<1>1. PICK S \in SUBSET {c \in Conns : interest[c].events # {}} :
        \E order \in Orders(S) :
          \E got \in [S -> UNION {Harvest(c) : c \in S}] :
            /\ \A c \in S : got[c] \in Harvest(c)
            /\ batch' = [i \in 1..Cardinality(S) |-> got[order[i]]]
  BY DEF Wait
<1>2. PICK order \in Orders(S) : \E got \in [S -> UNION {Harvest(c) : c \in S}] :
        /\ \A c \in S : got[c] \in Harvest(c)
        /\ batch' = [i \in 1..Cardinality(S) |-> got[order[i]]]
  BY <1>1
<1>3. PICK got \in [S -> UNION {Harvest(c) : c \in S}] :
        /\ \A c \in S : got[c] \in Harvest(c)
        /\ batch' = [i \in 1..Cardinality(S) |-> got[order[i]]]
  BY <1>2
<1>4. /\ UNCHANGED <<open, instance, ready, fresh, queue, running>>
      /\ posting' \in BOOLEAN /\ loop' = "read" /\ reused' = {}
  BY DEF Wait, conns
<1>5. Cardinality(S) \in Nat
  BY FS_Subset, FS_CardinalityType, LoopAssumption
<1>6. ASSUME NEW c \in S, NEW e \in Harvest(c)
      PROVE  e \in BatchEntry /\ ~e.stale /\ e.conn \in open /\ instance[e.conn] = e.instance
  <2>1. c \in Conns /\ interest[c] \in [events : SUBSET Sides, instance : 0..1]
        /\ interest[c].events # {}
    BY DEF RInv, ConnTypes
  <2>2. c \in open /\ interest[c].instance = instance[c]
    BY <2>1 DEF RInv, RegistrationExact, ClosedLeavesNothing
  <2>3. PICK E \in (SUBSET interest[c].events \ {{}}) \cup {{"err"}} :
          e = [conn |-> c, instance |-> interest[c].instance, events |-> E, stale |-> FALSE]
    BY DEF Harvest
  <2>4. E \in SUBSET (Sides \cup {"err"})
    BY <2>1, <2>3
  <2> QED
    BY <2>1, <2>2, <2>3, <2>4 DEF BatchEntry
<1>7. ASSUME NEW i \in 1..Cardinality(S) PROVE order[i] \in S
  BY <1>7, <1>2 DEF Orders
<1>8. ASSUME NEW i \in 1..Cardinality(S)
      PROVE  /\ got[order[i]] \in BatchEntry /\ ~got[order[i]].stale
             /\ got[order[i]].conn \in open
             /\ instance[got[order[i]].conn] = got[order[i]].instance
  BY <1>3, <1>6, <1>7
<1>9. /\ batch' \in Seq(BatchEntry) /\ Len(batch') = Cardinality(S)
      /\ \A i \in 1..Cardinality(S) : batch'[i] = got[order[i]]
  BY <1>3, <1>5, <1>8
<1>10. PassTypes'
  BY <1>4, <1>9 DEF StInv, PassTypes
<1>11. BatchInv'
  BY <1>4, <1>8, <1>9 DEF BatchInv, EntryInv
<1> QED
  BY <1>4, <1>10, <1>11 DEF StInv, StaleNeverHandled, HeadInv, QueuesInv, PostedInv

LEMMA HeadOfBatch ==
  ASSUME RInv, StInv, batch # <<>>
  PROVE  /\ Head(batch) \in BatchEntry /\ EntryInv(Head(batch))
         /\ Tail(batch) \in Seq(BatchEntry)
         /\ \A i \in 1..Len(Tail(batch)) : EntryInv(Tail(batch)[i])
<1>1. batch \in Seq(BatchEntry) /\ \A i \in 1..Len(batch) : EntryInv(batch[i])
  BY DEF StInv, PassTypes, BatchInv
<1>2. Head(batch) = batch[1] /\ 1 \in 1..Len(batch) /\ Tail(batch) \in Seq(BatchEntry)
  BY <1>1
<1>3. \A i \in 1..Len(Tail(batch)) : i + 1 \in 1..Len(batch) /\ Tail(batch)[i] = batch[i + 1]
  BY <1>1
<1> QED BY <1>1, <1>2, <1>3

LEMMA Delivered ==
  ASSUME StInv, NEW e \in BatchEntry, ~e.stale, NEW s \in Sides, NEW q \in Queues,
         Deliver(e, s, q), UNCHANGED <<open, fresh>>
  PROVE  /\ ready' \in [Conns -> SUBSET Sides]
         /\ queue' \in [Queues -> Seq(PostedEntry)] /\ QueuesInv'
         /\ running' \in [event : Events, stale : BOOLEAN] \cup {NoEvent}
         /\ StaleNeverHandled'
<1>1. e.conn \in Conns /\ e.stale = FALSE /\ <<e.conn, s>> \in Events
  BY DEF BatchEntry, Events
<1>2. ready' \in [Conns -> SUBSET Sides]
  BY <1>1 DEF StInv, PassTypes, Deliver
<1>3. CASE UNCHANGED queue
  <2>1. queue' \in [Queues -> Seq(PostedEntry)] /\ QueuesInv'
    BY <1>3 DEF StInv, PassTypes, QueuesInv, PostedInv
  <2>2. running' = running \/ running' = [event |-> <<e.conn, s>>, stale |-> e.stale]
    BY <1>3 DEF Deliver
  <2>3. CASE running' = running
    BY <1>2, <2>1, <2>3 DEF StInv, PassTypes, StaleNeverHandled
  <2>4. CASE running' = [event |-> <<e.conn, s>>, stale |-> e.stale]
    <3>1. running' \in [event : Events, stale : BOOLEAN] /\ running'.stale = FALSE
      BY <1>1, <2>4
    <3> QED BY <1>2, <2>1, <3>1 DEF StaleNeverHandled
  <2> QED BY <2>2, <2>3, <2>4
<1>4. CASE ~UNCHANGED queue
  <2> DEFINE p == [event |-> <<e.conn, s>>, stale |-> e.stale, wiped |-> FALSE]
  <2>1. queue' = [queue EXCEPT ![q] = Append(@, p)] /\ running' = running
    BY <1>4 DEF Deliver
  <2>2. p \in PostedEntry /\ ~p.stale
    BY <1>1 DEF PostedEntry
  <2> HIDE DEF p
  <2>3. queue \in [Queues -> Seq(PostedEntry)]
    BY DEF StInv, PassTypes
  <2>4. queue'[q] = Append(queue[q], p) /\ \A r \in Queues : r # q => queue'[r] = queue[r]
    BY <2>1, <2>3
  <2>5. queue' \in [Queues -> Seq(PostedEntry)]
    BY <2>1, <2>2, <2>3
  <2>6. ASSUME NEW i \in 1..Len(queue[q]) + 1
        PROVE  Append(queue[q], p)[i].stale => i \in 1..Len(queue[q])
                  /\ Append(queue[q], p)[i] = queue[q][i]
    BY <2>2, <2>3
  <2>7. QueuesInv'
    <3> SUFFICES ASSUME NEW r \in Queues, NEW i \in 1..Len(queue'[r]), queue'[r][i].stale
                 PROVE  queue'[r][i].event[1] \notin open \cup fresh
      BY DEF QueuesInv, PostedInv
    <3>1. i \in 1..Len(queue[r]) /\ queue'[r][i] = queue[r][i]
      <4>1. CASE r = q
        BY <2>3, <2>4, <2>6, <4>1
      <4>2. CASE r # q
        BY <2>4, <4>2
      <4> QED BY <4>1, <4>2
    <3> QED BY <3>1 DEF StInv, QueuesInv, PostedInv
  <2> QED BY <1>2, <2>1, <2>5, <2>7 DEF StInv, PassTypes, StaleNeverHandled
<1> QED BY <1>3, <1>4

LEMMA SkipEntryStale ==
  ASSUME RInv, StInv, SkipEntry
  PROVE  StInv'
<1>1. /\ batch # <<>> /\ batch' = Tail(batch) /\ loop = "read"
      /\ UNCHANGED <<open, instance, ready, fresh, posting, queue, loop, running, reused>>
  BY DEF SkipEntry, conns
<1>2. batch' \in Seq(BatchEntry) /\ BatchInv'
  BY <1>1, HeadOfBatch DEF BatchInv, EntryInv
<1> QED
  BY <1>1, <1>2 DEF StInv, PassTypes, StaleNeverHandled, HeadInv, QueuesInv, PostedInv

(* What passes the check of the instance is not stale.                     *)
LEMMA ReadSideStale ==
  ASSUME RInv, StInv, ReadSide
  PROVE  StInv'
<1> DEFINE e == Head(batch)
           q == IF e.conn \in Listeners THEN "accept" ELSE "posted"
<1>1. /\ loop = "read" /\ batch # <<>> /\ ~EntryStale(e) /\ Deliver(e, "read", q)
      /\ \/ batch' = Tail(batch) /\ loop' = "read"
         \/ batch' = batch /\ loop' = "write"
      /\ UNCHANGED <<open, instance, fresh, posting, reused>>
  BY DEF ReadSide
<1>2. e \in BatchEntry /\ EntryInv(e)
  BY <1>1, HeadOfBatch
<1>3. ~e.stale
  BY <1>1, <1>2 DEF EntryInv, EntryStale
<1>4. q \in Queues /\ "read" \in Sides
  BY DEF Queues, Sides
<1>5. /\ ready' \in [Conns -> SUBSET Sides]
      /\ queue' \in [Queues -> Seq(PostedEntry)] /\ QueuesInv'
      /\ running' \in [event : Events, stale : BOOLEAN] \cup {NoEvent}
      /\ StaleNeverHandled'
  <2> HIDE DEF e, q
  <2> QED BY <1>1, <1>2, <1>3, <1>4, Delivered
<1>6. batch' \in Seq(BatchEntry) /\ BatchInv'
  <2>1. CASE batch' = batch
    BY <1>1, <2>1 DEF StInv, PassTypes, BatchInv, EntryInv
  <2>2. CASE batch' = Tail(batch)
    BY <1>1, <2>2, HeadOfBatch DEF BatchInv, EntryInv
  <2> QED BY <1>1, <2>1, <2>2
<1>7. HeadInv'
  BY <1>1, <1>3 DEF HeadInv
<1>8. PassTypes'
  BY <1>1, <1>5, <1>6 DEF StInv, PassTypes
<1> QED
  BY <1>5, <1>6, <1>7, <1>8 DEF StInv

LEMMA NoReadSideStale ==
  ASSUME RInv, StInv, NoReadSide
  PROVE  StInv'
<1>1. /\ loop = "read" /\ loop' = "write" /\ batch # <<>> /\ ~EntryStale(Head(batch))
      /\ UNCHANGED <<open, instance, ready, fresh, batch, posting, queue, running, reused>>
  BY DEF NoReadSide, conns
<1>2. ~Head(batch).stale
  BY <1>1, HeadOfBatch DEF EntryInv, EntryStale
<1> QED
  BY <1>1, <1>2 DEF StInv, PassTypes, StaleNeverHandled, BatchInv, EntryInv, HeadInv, QueuesInv, PostedInv

(* The write side looks at active only: of a stale entry the connection is *)
(* closed, and a closed one has no active event.                           *)
LEMMA WriteSideStale ==
  ASSUME RInv, StInv, WriteSide
  PROVE  StInv'
<1> DEFINE e == Head(batch)
<1>1. /\ loop = "write" /\ loop' = "read" /\ batch' = Tail(batch)
      /\ UNCHANGED <<open, instance, active, fresh, posting, reused>>
      /\ \/ "write" \in Got(e) \cap active[e.conn] /\ Deliver(e, "write", "posted")
         \/ UNCHANGED <<ready, queue, running>>
  BY DEF WriteSide
<1>2. batch # <<>> /\ e \in BatchEntry
  BY <1>1, HeadOfBatch DEF StInv, PassTypes
<1>3. /\ ready' \in [Conns -> SUBSET Sides]
      /\ queue' \in [Queues -> Seq(PostedEntry)] /\ QueuesInv'
      /\ running' \in [event : Events, stale : BOOLEAN] \cup {NoEvent}
      /\ StaleNeverHandled'
  <2>1. CASE "write" \in Got(e) \cap active[e.conn] /\ Deliver(e, "write", "posted")
    <3>1. e.conn \in Conns
      BY <1>2 DEF BatchEntry
    <3>2. e.conn \in open
      BY <2>1, <3>1 DEF RInv, ClosedLeavesNothing
    <3>3. ~e.stale
      BY <1>1, <2>1, <3>2 DEF StInv, HeadInv
    <3>4. "posted" \in Queues /\ "write" \in Sides
      BY DEF Queues, Sides
    <3> HIDE DEF e
    <3> QED BY <1>1, <1>2, <2>1, <3>3, <3>4, Delivered
  <2>2. CASE UNCHANGED <<ready, queue, running>>
    BY <1>1, <2>2 DEF StInv, PassTypes, QueuesInv, PostedInv, StaleNeverHandled
  <2> QED BY <1>1, <2>1, <2>2
<1>4. batch' \in Seq(BatchEntry) /\ BatchInv'
  BY <1>1, <1>2, HeadOfBatch DEF BatchInv, EntryInv
<1> QED
  BY <1>1, <1>3, <1>4 DEF StInv, PassTypes, HeadInv

LEMMA RunPostedStale ==
  ASSUME RInv, StInv, NEW q \in Queues, RunPosted(q)
  PROVE  StInv'
<1> DEFINE p == Head(queue[q])
<1>1. /\ loop = q /\ queue[q] # <<>> /\ queue' = [queue EXCEPT ![q] = Tail(@)]
      /\ running' = IF p.event[1] \in open THEN [event |-> p.event, stale |-> p.stale] ELSE NoEvent
      /\ UNCHANGED <<open, instance, ready, fresh, batch, posting, loop, reused>>
  BY DEF RunPosted, conns
<1>2. queue \in [Queues -> Seq(PostedEntry)] /\ queue[q] \in Seq(PostedEntry)
  BY DEF StInv, PassTypes
<1>3. p = queue[q][1] /\ 1 \in 1..Len(queue[q]) /\ p \in PostedEntry
  BY <1>1, <1>2
<1>4. PostedInv(p)
  BY <1>3 DEF StInv, QueuesInv
<1>5. running' \in [event : Events, stale : BOOLEAN] \cup {NoEvent} /\ StaleNeverHandled'
  BY <1>1, <1>3, <1>4 DEF PostedInv, PostedEntry, StaleNeverHandled
<1>6. queue' \in [Queues -> Seq(PostedEntry)]
  BY <1>1, <1>2
<1>7. QueuesInv'
  <2> SUFFICES ASSUME NEW r \in Queues, NEW i \in 1..Len(queue'[r])
               PROVE  \E j \in 1..Len(queue[r]) : queue'[r][i] = queue[r][j]
    BY <1>1 DEF StInv, QueuesInv, PostedInv
  <2>1. CASE r = q
    <3>1. queue'[r] = Tail(queue[q]) /\ i + 1 \in 1..Len(queue[q]) /\ Tail(queue[q])[i] = queue[q][i + 1]
      BY <1>1, <1>2, <2>1
    <3> QED BY <2>1, <3>1
  <2>2. CASE r # q
    <3>1. queue'[r] = queue[r]
      BY <1>1, <1>2, <2>2
    <3> QED BY <3>1
  <2> QED BY <2>1, <2>2
<1>8. PassTypes' /\ BatchInv' /\ HeadInv'
  BY <1>1, <1>5, <1>6 DEF StInv, PassTypes, BatchInv, EntryInv, HeadInv, Got
<1> QED BY <1>5, <1>7, <1>8 DEF StInv

LEMMA RunTimerStale ==
  ASSUME RInv, StInv, NEW c \in Conns, NEW s \in Sides, RunTimer(c, s)
  PROVE  StInv'
<1>1. c \in open
  BY DEF RunTimer, RInv, ClosedLeavesNothing
<1>2. running' = [event |-> <<c, s>>, stale |-> FALSE]
      /\ UNCHANGED <<open, instance, ready, fresh, batch, posting, queue, loop, reused>>
  BY <1>1 DEF RunTimer
<1>3. running' \in [event : Events, stale : BOOLEAN] /\ ~running'.stale
  BY <1>2 DEF Events
<1> QED
  BY <1>2, <1>3 DEF StInv, PassTypes, StaleNeverHandled, BatchInv, EntryInv, HeadInv, Got, QueuesInv, PostedInv

LEMMA ProgramStale ==
  ASSUME Reuses = {}, RInv, StInv, Program
  PROVE  StInv'
<1>1. PICK c \in Conns :
        \/ AddConn(c) \/ DelConn(c)
        \/ Send(c)
        \/ SetDefault(c) \/ Connect(c) \/ Close(c)
        \/ \E s \in Sides : HandleSide(c, s) \/ DelSide(c, s) \/ SetTimer(c, s) \/ DropTimer(c, s)
  BY DEF Program
<1>2. ready \in [Conns -> SUBSET Sides]
  BY DEF StInv, PassTypes
<1>3. CASE AddConn(c) \/ DelConn(c)
  BY <1>2, <1>3, FlagSteps DEF AddConn, DelConn
<1>4. CASE Send(c)
  BY <1>2, <1>4, FlagSteps DEF Send
<1>5. CASE \E s \in Sides : HandleSide(c, s) \/ DelSide(c, s) \/ SetTimer(c, s) \/ DropTimer(c, s)
  BY <1>2, <1>5, FlagSteps DEF HandleSide, DelSide, SetTimer, DropTimer
<1> QED
  BY <1>1, <1>3, <1>4, <1>5, SetDefaultStale, ConnectStale, CloseStale

LEMMA StInvStep ==
  ASSUME Reuses = {}, RInv, StInv, [Next]_vars
  PROVE  StInv'
<1>1. CASE Program
  BY <1>1, ProgramStale
<1>2. CASE \E q \in Queues : ProcessPosted(q) \/ PostedDone(q)
  BY <1>2, PlainSteps DEF ProcessPosted, PostedDone, conns
<1>3. CASE BatchDone \/ TimersExpire \/ TimersDone \/ Return
  BY <1>3, PlainSteps DEF BatchDone, TimersExpire, TimersDone, Return, conns
<1>4. CASE UNCHANGED vars
  BY <1>4, PlainSteps DEF vars, conns, pass
<1> QED
  BY <1>1, <1>2, <1>3, <1>4, WaitStale, SkipEntryStale, ReadSideStale, NoReadSideStale,
     WriteSideStale, RunPostedStale, RunTimerStale DEF Next, Loop, Dispatch

LEMMA StaleInvariance ==
  ASSUME Reuses = {}
  PROVE  Spec => [](RInv /\ StInv)
<1>1. Init => StInv
  BY StInvInit
<1>2. RInv /\ StInv /\ [Next]_vars => StInv'
  BY StInvStep
<1> QED BY <1>1, <1>2, Invariance, PTL DEF Spec

(* The stale check of epoll_process_events, the check of event_process_posted *)
(* and conn_close keep every event of a closed descriptor from the handlers, *)
(* as long as the program takes none of the liberties of Reuses: it sets no *)
(* connection anew twice in an iteration, none in its own read handler with *)
(* a write event to come, none with posted events, and connects none that  *)
(* was closed without setting it anew.                                     *)
THEOREM StaleEventsDropped ==
  ASSUME Reuses = {}
  PROVE  Spec => []StaleNeverHandled
<1>1. StInv => StaleNeverHandled
  BY DEF StInv
<1> QED BY <1>1, StaleInvariance, PTL

(* Every variable of the loop keeps its type.                              *)
THEOREM LoopTypes ==
  ASSUME Reuses = {}
  PROVE  Spec => []TypeOK
<1>1. RInv /\ StInv => TypeOK
  BY DEF RInv, ConnTypes, StInv, PassTypes, BatchEntry, PostedEntry, TypeOK
<1> QED BY <1>1, StaleInvariance, PTL
=============================================================================
