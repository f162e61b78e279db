----------------------------- MODULE EventLoop -----------------------------
(***************************************************************************)
(* One thread's event loop: connections (fast_conn.c), their registration  *)
(* in epoll and the batch of events it returns (fast_epoll.c), the posted  *)
(* queues (fast_event.c) and the timers of connections (fast_event_timer.c *)
(* - here the set of events in the tree; EventTimer has the keys).         *)
(*                                                                         *)
(* A handler runs in the middle of a batch, of a posted queue or of the    *)
(* expiry of timers, and may do to any connection what the program may do  *)
(* between two iterations: close it, set it anew for another descriptor,   *)
(* register it, delete it.  What was harvested before is then stale.       *)
(*                                                                         *)
(* A descriptor belongs to one connection from its opening to its close,   *)
(* so epoll's interest in a descriptor is indexed by the connection.       *)
(*                                                                         *)
(* The callers' contract: connections have ev_base and ev_timer set; a     *)
(* connection is closed before conn_set_default; timers are added to open  *)
(* connections; both posted queues are processed before the next wait.     *)
(* Reuses names the further liberties the program takes with connections   *)
(* that still have events under way.                                       *)
(***************************************************************************)
EXTENDS Sequences, FiniteSets, Naturals

CONSTANTS
  Conns,      \* connections
  Listeners,  \* those of listening sockets: read->accepted, never closed here
  Unhandled,  \* <<conn, side>> whose handler is NULL
  Calls,      \* which of "close", "write", "conn", "timer", "connect", "post" the program uses
  Reuses,     \* subset of {"own", "twice", "reconnect", "posted"}
  NoEvent

Sides == {"read", "write"}
Events == Conns \X Sides
Queues == {"accept", "posted"}

ASSUME LoopAssumption ==
  /\ IsFiniteSet(Conns)
  /\ Listeners \subseteq Conns
  /\ Unhandled \subseteq Events
  /\ Calls \subseteq {"close", "write", "conn", "timer", "connect", "post"}
  /\ Reuses \subseteq {"own", "twice", "reconnect", "posted"}
  /\ NoEvent \notin [event : Events, stale : BOOLEAN]

VARIABLES
  open,       \* connections whose fd is not FAST_INVALID_FILE
  instance,   \* conn -> the bit of its two events
  active,     \* conn -> sides with active set
  ready,      \* conn -> sides with ready set
  timer_set,  \* conn -> sides with timer_set set
  fresh,      \* connections set by conn_set_default since their last close
  interest,   \* kernel: conn -> what epoll has for its descriptor
  tree,       \* events in the timer tree
  batch,      \* what epoll_wait returned and is not processed yet
  posting,    \* EVENT_POST_EVENTS of this epoll_process_events
  queue,      \* the two posted queues
  loop,       \* what the loop is doing
  running,    \* the event whose handler runs
  reused      \* connections set anew while an older event of theirs is in batch

conns  == <<open, instance, active, ready, timer_set, fresh>>
kernel == <<interest, tree>>
pass   == <<batch, posting, queue, loop, running, reused>>
vars   == <<conns, kernel, pass>>

NotInEpoll == [events |-> {}, instance |-> 0]

(* Listening connections are registered for reading; the others are        *)
(* closed, used before or not.                                             *)
Init ==
  /\ open = Listeners
  /\ instance = [c \in Conns |-> 1]
  /\ active = [c \in Conns |-> IF c \in Listeners THEN {"read"} ELSE {}]
  /\ ready = [c \in Conns |-> {}]
  /\ timer_set = [c \in Conns |-> {}]
  /\ fresh = Listeners
  /\ interest = [c \in Conns |->
       IF c \in Listeners THEN [events |-> {"read"}, instance |-> 1] ELSE NotInEpoll]
  /\ tree = {}
  /\ batch = <<>> /\ posting = FALSE
  /\ queue = [q \in Queues |-> <<>>]
  /\ loop = "idle" /\ running = NoEvent
  /\ reused = {}

Other(s) == CHOOSE t \in Sides : t # s

(* The program runs: between two calls of the loop, or in a handler.       *)
InProgram == loop = "idle" \/ running # NoEvent

(* EPOLLERR or EPOLLHUP alone count as both.                               *)
Got(e) == IF e.events = {"err"} THEN Sides ELSE e.events

(* Events of c harvested and not dispatched yet.                           *)
InBatch(c) == \E i \in 1..Len(batch) : batch[i].conn = c
InQueues(c) == \E q \in Queues : \E i \in 1..Len(queue[q]) : queue[q][i].event[1] = c

(* The read handler of c runs, and its entry still has a write event.      *)
WriteToCome(c) ==
  /\ loop = "write"
  /\ Head(batch).conn = c
  /\ "write" \in Got(Head(batch))

-----------------------------------------------------------------------------
(* epoll: epoll_ctl fails to ADD what it has, to MOD or DEL what it has not. *)
EpollAddEvent(c, s) ==
  LET mod == Other(s) \in active[c]
      done == mod <=> interest[c].events # {}
      events == IF mod THEN Sides ELSE {s}
  IN /\ interest' = IF done
                    THEN [interest EXCEPT ![c] = [events |-> events, instance |-> instance[c]]]
                    ELSE interest
     /\ active' = [active EXCEPT ![c] = IF done THEN @ \cup {s} ELSE @ \ {s}]

(* Mutated form: the other event is forgotten, the descriptor deleted.     *)
EpollDelEvent_Forget(c, s) ==
  /\ interest[c].events # {}
  /\ interest' = [interest EXCEPT ![c] = NotInEpoll]
  /\ active' = [active EXCEPT ![c] = @ \ {s}]

EpollDelEvent(c, s) ==
  LET mod == Other(s) \in active[c]
      done == interest[c].events # {}
      left == IF mod THEN [events |-> {Other(s)}, instance |-> instance[c]] ELSE NotInEpoll
  IN /\ interest' = IF done THEN [interest EXCEPT ![c] = left] ELSE interest
     /\ active' = IF done THEN [active EXCEPT ![c] = @ \ {s}] ELSE active

EpollAddConnection(c) ==
  /\ interest[c].events = {}
  /\ interest' = [interest EXCEPT ![c] = [events |-> Sides, instance |-> instance[c]]]
  /\ active' = [active EXCEPT ![c] = Sides]

(* event_timer_add, event_timer_del *)
TimerAdd(c, s) ==
  /\ tree' = tree \cup {<<c, s>>}
  /\ timer_set' = [timer_set EXCEPT ![c] = @ \cup {s}]

TimerDel(c, s) ==
  /\ s \in timer_set[c]
  /\ tree' = tree \ {<<c, s>>}
  /\ timer_set' = [timer_set EXCEPT ![c] = @ \ {s}]

-----------------------------------------------------------------------------
(* What the program does to connections.                                   *)

(* event_handle_read, event_handle_write *)
HandleSide(c, s) ==
  /\ InProgram /\ c \in open
  /\ s = "write" => "write" \in Calls /\ c \notin Listeners
  /\ s \notin active[c] /\ s \notin ready[c]
  /\ EpollAddEvent(c, s)
  /\ UNCHANGED <<open, instance, ready, timer_set, fresh, tree, pass>>

(* event_del_read, event_del_write *)
DelSide(c, s) ==
  /\ InProgram /\ c \in open
  /\ s = "write" => "write" \in Calls /\ c \notin Listeners
  /\ ready' = [ready EXCEPT ![c] = @ \ {s}]
  /\ EpollDelEvent(c, s)
  /\ UNCHANGED <<open, instance, timer_set, fresh, tree, pass>>

AddConn(c) ==
  /\ InProgram /\ c \in open \ Listeners /\ "conn" \in Calls
  /\ EpollAddConnection(c)
  /\ UNCHANGED <<open, instance, ready, timer_set, fresh, tree, pass>>

(* epoll_del_connection without EVENT_CLOSE_EVENT *)
DelConn(c) ==
  /\ InProgram /\ c \in open \ Listeners /\ "conn" \in Calls
  /\ interest[c].events # {}
  /\ interest' = [interest EXCEPT ![c] = NotInEpoll]
  /\ active' = [active EXCEPT ![c] = {}]
  /\ UNCHANGED <<open, instance, ready, timer_set, fresh, tree, pass>>

(* sysio_unix_send, when the socket takes no more *)
Send(c) ==
  /\ InProgram /\ c \in open /\ "write" \in ready[c]
  /\ ready' = [ready EXCEPT ![c] = @ \ {"write"}]
  /\ UNCHANGED <<open, instance, active, timer_set, fresh, kernel, pass>>

SetTimer(c, s) ==
  /\ InProgram /\ c \in open \ Listeners /\ "timer" \in Calls
  /\ TimerAdd(c, s)
  /\ UNCHANGED <<open, instance, active, ready, fresh, interest, pass>>

DropTimer(c, s) ==
  /\ InProgram
  /\ TimerDel(c, s)
  /\ UNCHANGED <<open, instance, active, ready, fresh, interest, pass>>

(* conn_set_default(c, s): s a descriptor (accepted, socket()) or none.    *)
(* memory_zero of the two events drops their post_queue links as well.     *)
Wiped(s, c) == [i \in 1..Len(s) |->
  IF s[i].event[1] = c THEN [s[i] EXCEPT !.wiped = TRUE] ELSE s[i]]

MayReuse(c) ==
  /\ c \in reused => "twice" \in Reuses
  /\ WriteToCome(c) => "own" \in Reuses
  /\ InQueues(c) => "posted" \in Reuses

SetDefault(c) ==
  /\ InProgram /\ c \notin open
  /\ MayReuse(c)
  /\ \/ open' = open \cup {c}
     \/ "connect" \in Calls /\ open' = open
  /\ instance' = [instance EXCEPT ![c] = 1 - @]
  /\ active' = [active EXCEPT ![c] = {}]
  /\ ready' = [ready EXCEPT ![c] = {}]
  /\ timer_set' = [timer_set EXCEPT ![c] = {}]
  /\ fresh' = fresh \cup {c}
  /\ queue' = [q \in Queues |-> Wiped(queue[q], c)]
  /\ reused' = IF InBatch(c) THEN reused \cup {c} ELSE reused
  /\ UNCHANGED <<kernel, batch, posting, loop, running>>

(* conn_connect_peer on a connection without descriptor: socket(), both    *)
(* sides registered, connect() in progress or done at once.                *)
Connect(c) ==
  /\ InProgram /\ c \notin open /\ "connect" \in Calls
  /\ c \notin fresh => "reconnect" \in Reuses /\ ~WriteToCome(c)
  /\ open' = open \cup {c}
  /\ EpollAddConnection(c)
  /\ ready' \in {ready, [ready EXCEPT ![c] = @ \cup {"write"}]}
  /\ UNCHANGED <<instance, timer_set, fresh, tree, pass>>

(* conn_close: close(fd), its timers, epoll_del_connection with            *)
(* EVENT_CLOSE_EVENT.  The harvested and the posted events stay.           *)
Stale(s, c) == [i \in 1..Len(s) |->
  IF s[i].conn = c THEN [s[i] EXCEPT !.stale = TRUE] ELSE s[i]]
StaleEvents(s, c) == [i \in 1..Len(s) |->
  IF s[i].event[1] = c THEN [s[i] EXCEPT !.stale = TRUE] ELSE s[i]]

(* Mutated form: the timer of the write event is kept. *)
Close_KeepWriteTimer(c) ==
  /\ InProgram /\ c \in open \ Listeners /\ "close" \in Calls
  /\ open' = open \ {c}
  /\ fresh' = fresh \ {c}
  /\ interest' = [interest EXCEPT ![c] = NotInEpoll]
  /\ tree' = tree \ {<<c, "read">>}
  /\ timer_set' = [timer_set EXCEPT ![c] = @ \ {"read"}]
  /\ active' = [active EXCEPT ![c] = {}]
  /\ batch' = Stale(batch, c)
  /\ queue' = [q \in Queues |-> StaleEvents(queue[q], c)]
  /\ UNCHANGED <<instance, ready, posting, loop, running, reused>>

Close(c) ==
  /\ InProgram /\ c \in open \ Listeners /\ "close" \in Calls
  /\ open' = open \ {c}
  /\ fresh' = fresh \ {c}
  /\ interest' = [interest EXCEPT ![c] = NotInEpoll]
  /\ tree' = tree \ {<<c, s>> : s \in timer_set[c]}
  /\ timer_set' = [timer_set EXCEPT ![c] = {}]
  /\ active' = [active EXCEPT ![c] = {}]
  /\ batch' = Stale(batch, c)
  /\ queue' = [q \in Queues |-> StaleEvents(queue[q], c)]
  /\ UNCHANGED <<instance, ready, posting, loop, running, reused>>

-----------------------------------------------------------------------------
(* The loop.                                                               *)

(* epoll_wait: for some registered descriptors, in any order, some of the  *)
(* events they are registered for, or an error.                            *)
Harvest(c) ==
  { [conn |-> c, instance |-> interest[c].instance, events |-> E, stale |-> FALSE] :
      E \in (SUBSET interest[c].events \ {{}}) \cup {{"err"}} }

Orders(S) == { f \in [1..Cardinality(S) -> S] : \A i, j \in DOMAIN f : f[i] = f[j] => i = j }

Wait ==
  /\ loop = "idle"
  /\ \A q \in Queues : queue[q] = <<>>
  /\ \E S \in SUBSET {c \in Conns : interest[c].events # {}} :
       /\ S # {}
       /\ \E order \in Orders(S) :
          \E got \in [S -> UNION {Harvest(c) : c \in S}] :
            /\ \A c \in S : got[c] \in Harvest(c)
            /\ batch' = [i \in 1..Cardinality(S) |-> got[order[i]]]
  /\ posting' \in IF "post" \in Calls THEN BOOLEAN ELSE {FALSE}
  /\ loop' = "read"
  /\ reused' = {}
  /\ UNCHANGED <<conns, kernel, queue, running>>

(* One side of the entry e of the batch is ready: posted, or handled now.  *)
Deliver(e, s, q) ==
  /\ ready' = [ready EXCEPT ![e.conn] = @ \cup {s}]
  /\ IF <<e.conn, s>> \in Unhandled THEN UNCHANGED <<queue, running>>
     ELSE IF posting
     THEN /\ queue' = [queue EXCEPT ![q] =
               Append(@, [event |-> <<e.conn, s>>, stale |-> e.stale, wiped |-> FALSE])]
          /\ UNCHANGED running
     ELSE /\ running' = [event |-> <<e.conn, s>>, stale |-> e.stale]
          /\ UNCHANGED queue

(* Mutated form: only the descriptor is looked at. *)
EntryStale_FdOnly(e) == e.conn \notin open

(* The stale check, and the read side of the first entry.                  *)
EntryStale(e) == e.conn \notin open \/ instance[e.conn] # e.instance

(* An entry is done: stale, or a read event without handler ("continue").  *)
SkipEntry ==
  /\ loop = "read" /\ running = NoEvent /\ batch # <<>>
  /\ EntryStale(Head(batch))
  /\ batch' = Tail(batch)
  /\ UNCHANGED <<conns, kernel, posting, queue, loop, running, reused>>

ReadSide ==
  LET e == Head(batch)
      q == IF e.conn \in Listeners THEN "accept" ELSE "posted"
      skip == <<e.conn, "read">> \in Unhandled
  IN /\ loop = "read" /\ running = NoEvent /\ batch # <<>>
     /\ ~EntryStale(e)
     /\ "read" \in Got(e) \cap active[e.conn]
     /\ Deliver(e, "read", q)
     /\ batch' = IF skip THEN Tail(batch) ELSE batch
     /\ loop' = IF skip THEN "read" ELSE "write"
     /\ UNCHANGED <<open, instance, active, timer_set, fresh, kernel, posting, reused>>

NoReadSide ==
  LET e == Head(batch) IN
  /\ loop = "read" /\ running = NoEvent /\ batch # <<>>
  /\ ~EntryStale(e)
  /\ "read" \notin Got(e) \cap active[e.conn]
  /\ loop' = "write"
  /\ UNCHANGED <<conns, kernel, batch, posting, queue, running, reused>>

(* The write side, after the read handler: nothing is looked at again but  *)
(* the active flag.                                                        *)
WriteSide ==
  LET e == Head(batch) IN
  /\ loop = "write" /\ running = NoEvent
  /\ IF "write" \in Got(e) \cap active[e.conn]
     THEN Deliver(e, "write", "posted")
     ELSE UNCHANGED <<ready, queue, running>>
  /\ batch' = Tail(batch)
  /\ loop' = "read"
  /\ UNCHANGED <<open, instance, active, timer_set, fresh, kernel, posting, reused>>

BatchDone ==
  /\ loop = "read" /\ running = NoEvent /\ batch = <<>>
  /\ loop' = "idle"
  /\ UNCHANGED <<conns, kernel, batch, posting, queue, running, reused>>

(* event_process_posted: until the queue is empty, the first event is      *)
(* taken off and handled, if its connection is open.                       *)
ProcessPosted(q) ==
  /\ loop = "idle" /\ queue[q] # <<>>
  /\ loop' = q
  /\ UNCHANGED <<conns, kernel, batch, posting, queue, running, reused>>

(* Mutated form: an event is left on the queue.                            *)
RunPosted_Keep(q) ==
  LET p == Head(queue[q]) IN
  /\ loop = q /\ running = NoEvent
  /\ queue[q] # <<>> /\ ~p.wiped
  /\ running' = IF p.event[1] \in open THEN [event |-> p.event, stale |-> p.stale] ELSE NoEvent
  /\ UNCHANGED <<conns, kernel, queue, batch, posting, loop, reused>>

RunPosted(q) ==
  LET p == Head(queue[q]) IN
  /\ loop = q /\ running = NoEvent
  /\ queue[q] # <<>> /\ ~p.wiped
  /\ queue' = [queue EXCEPT ![q] = Tail(@)]
  /\ running' = IF p.event[1] \in open THEN [event |-> p.event, stale |-> p.stale] ELSE NoEvent
  /\ UNCHANGED <<conns, kernel, batch, posting, loop, reused>>

PostedDone(q) ==
  /\ loop = q /\ running = NoEvent /\ queue[q] = <<>>
  /\ loop' = "idle"
  /\ UNCHANGED <<conns, kernel, batch, posting, queue, running, reused>>

(* event_timers_expire: as long as the earliest timer is due, it is taken  *)
(* out of the tree and its event handled.                                  *)
TimersExpire ==
  /\ loop = "idle" /\ tree # {}
  /\ loop' = "timers"
  /\ UNCHANGED <<conns, kernel, batch, posting, queue, running, reused>>

(* Mutated form: timer_set is left set. *)
RunTimer_KeepSet(c, s) ==
  /\ loop = "timers" /\ running = NoEvent
  /\ <<c, s>> \in tree
  /\ tree' = tree \ {<<c, s>>}
  /\ running' = [event |-> <<c, s>>, stale |-> c \notin open]
  /\ UNCHANGED <<conns, interest, batch, posting, queue, loop, reused>>

RunTimer(c, s) ==
  /\ loop = "timers" /\ running = NoEvent
  /\ <<c, s>> \in tree
  /\ tree' = tree \ {<<c, s>>}
  /\ timer_set' = [timer_set EXCEPT ![c] = @ \ {s}]
  /\ running' = [event |-> <<c, s>>, stale |-> c \notin open]
  /\ UNCHANGED <<open, instance, active, ready, fresh, interest, batch, posting, queue, loop, reused>>

TimersDone ==
  /\ loop = "timers" /\ running = NoEvent
  /\ loop' = "idle"
  /\ UNCHANGED <<conns, kernel, batch, posting, queue, running, reused>>

(* A handler returns. *)
Return ==
  /\ running # NoEvent
  /\ running' = NoEvent
  /\ UNCHANGED <<conns, kernel, batch, posting, queue, loop, reused>>

-----------------------------------------------------------------------------
Program == \E c \in Conns :
  \/ AddConn(c) \/ DelConn(c)
  \/ Send(c)
  \/ SetDefault(c) \/ Connect(c) \/ Close(c)
  \/ \E s \in Sides : HandleSide(c, s) \/ DelSide(c, s) \/ SetTimer(c, s) \/ DropTimer(c, s)

(* The steps of the loop inside a call. *)
Dispatch ==
  \/ SkipEntry \/ ReadSide \/ NoReadSide \/ WriteSide \/ BatchDone
  \/ \E q \in Queues : RunPosted(q) \/ PostedDone(q)

Loop ==
  \/ Wait \/ Dispatch
  \/ \E q \in Queues : ProcessPosted(q)
  \/ TimersExpire \/ TimersDone
  \/ \E c \in Conns, s \in Sides : RunTimer(c, s)

Next == Program \/ Loop \/ Return

Spec == Init /\ [][Next]_vars

(* The loop goes on when no handler runs, and handlers return.             *)
FairSpec == Spec /\ WF_vars(Dispatch) /\ WF_vars(Return)

-----------------------------------------------------------------------------
TypeOK ==
  /\ open \subseteq Conns /\ fresh \subseteq Conns /\ reused \subseteq Conns
  /\ instance \in [Conns -> 0..1]
  /\ active \in [Conns -> SUBSET Sides]
  /\ ready \in [Conns -> SUBSET Sides]
  /\ timer_set \in [Conns -> SUBSET Sides]
  /\ interest \in [Conns -> [events : SUBSET Sides, instance : 0..1]]
  /\ tree \subseteq Events
  /\ batch \in Seq([conn : Conns, instance : 0..1,
                    events : SUBSET (Sides \cup {"err"}), stale : BOOLEAN])
  /\ posting \in BOOLEAN
  /\ queue \in [Queues -> Seq([event : Events, stale : BOOLEAN, wiped : BOOLEAN])]
  /\ loop \in {"idle", "read", "write", "timers"} \cup Queues
  /\ running \in [event : Events, stale : BOOLEAN] \cup {NoEvent}
  /\ loop = "write" => batch # <<>>

(* An event of a descriptor that was closed after epoll reported it is     *)
(* never handled, neither from the batch nor from a posted queue, even     *)
(* when its connection was set anew for another descriptor meanwhile; and  *)
(* no timer fires on a closed connection.                                  *)
StaleNeverHandled == running # NoEvent => ~running.stale

(* epoll watches a descriptor for exactly the sides whose events are       *)
(* active, under the connection's present instance, through every order of *)
(* adding and deleting sides and whole connections.                        *)
RegistrationExact == \A c \in Conns :
  /\ interest[c].events = active[c]
  /\ active[c] # {} => interest[c].instance = instance[c]

(* A closed connection has left epoll and the timer tree.                  *)
ClosedLeavesNothing == \A c \in Conns \ open :
  /\ active[c] = {} /\ interest[c].events = {}
  /\ \A s \in Sides : <<c, s>> \notin tree

(* timer_set is set exactly for the events in the tree: a set one is never *)
(* inserted twice, an unset one never deleted.                             *)
TimersExact == tree = {e \in Events : e[2] \in timer_set[e[1]]}

(* No event is zeroed while a posted queue links it.                       *)
PostedLinked == \A q \in Queues : \A i \in 1..Len(queue[q]) : ~queue[q][i].wiped

(* A call of epoll_process_events or event_process_posted comes to its end,*)
(* whatever the handlers do.                                               *)
CallEnds == loop \in {"read", "write", "accept", "posted"} ~> loop = "idle"
=============================================================================
