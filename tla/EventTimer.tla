---------------------------- MODULE EventTimer -----------------------------
(***************************************************************************)
(* The timers of fast_event_timer.c.  The red-black tree is the set of its *)
(* events, ordered by their keys (milliseconds of time_handler's clock).   *)
(* The program sets and deletes timers between calls and in the handlers   *)
(* event_timers_expire runs; its loop sleeps in epoll_wait for as long as  *)
(* event_find_timer says.                                                  *)
(*                                                                         *)
(* time_handler is the program's: its clock either stands still between    *)
(* two sleeps (a time cached by time_update) or runs all the time.         *)
(***************************************************************************)
EXTENDS Integers, FiniteSets

CONSTANTS
  Events,
  Delays,                   \* the values the program passes as timer
  EVENT_TIMER_LAZY_DELAY,
  IntRange,                 \* an int holds -IntRange .. IntRange - 1
  MaxTime,                  \* bound: the clock stops there
  Clocks,                   \* how the program's clock goes: "runs", "still"
  NoEvent

ASSUME TimerAssumption ==
  /\ IsFiniteSet(Events) /\ NoEvent \notin Events
  /\ Delays \subseteq Nat
  /\ EVENT_TIMER_LAZY_DELAY \in Nat \ {0}
  /\ IntRange \in Nat \ {0}
  /\ MaxTime \in Nat
  /\ Clocks \subseteq {"runs", "still"}

VARIABLES
  clock,      \* does time_handler's clock run while the program does
  now,        \* what time_handler returns
  key,        \* event -> timer.key
  timer_set,  \* events with timer_set set
  tree,       \* events in timer_rbtree
  expiring,   \* inside event_timers_expire
  running,    \* the event whose handler runs
  asked       \* ghost: event -> the time its timer was last asked for

vars == <<clock, now, key, timer_set, tree, expiring, running, asked>>

Init ==
  /\ clock \in Clocks
  /\ now = 0
  /\ key = [e \in Events |-> 0]
  /\ timer_set = {} /\ tree = {}
  /\ expiring = FALSE /\ running = NoEvent
  /\ asked = [e \in Events |-> 0]

(* A 64-bit value passed as an int.                                        *)
ToInt(x) == ((x + IntRange) % (2 * IntRange)) - IntRange

(* abs() of an int: the smallest int has no positive counterpart.          *)
Abs(i) == IF i < 0 /\ i # -IntRange THEN -i ELSE i

Earliest(e) == e \in tree /\ \A f \in tree : key[e] <= key[f]

InProgram == ~expiring \/ running # NoEvent

-----------------------------------------------------------------------------
(* event_timer_add: an old key that is near enough stays.                  *)

(* Mutated form: the difference is compared without abs. *)
Lazy_NoAbs(e, k) == e \in timer_set /\ ToInt(k - key[e]) < EVENT_TIMER_LAZY_DELAY

Lazy(e, k) == e \in timer_set /\ Abs(ToInt(k - key[e])) < EVENT_TIMER_LAZY_DELAY

EventTimerAdd(e, timer) ==
  LET k == now + timer IN
  /\ InProgram
  /\ asked' = [asked EXCEPT ![e] = k]
  /\ IF Lazy(e, k)
     THEN UNCHANGED <<clock, key, timer_set, tree>>
     ELSE /\ key' = [key EXCEPT ![e] = k]
          /\ tree' = tree \cup {e}
          /\ timer_set' = timer_set \cup {e}
  /\ UNCHANGED <<clock, now, expiring, running>>

EventTimerDel(e) ==
  /\ InProgram
  /\ e \in timer_set
  /\ tree' = tree \ {e}
  /\ timer_set' = timer_set \ {e}
  /\ UNCHANGED <<clock, now, key, expiring, running, asked>>

(* event_timers_expire: the earliest event is taken off, and its handler   *)
(* run, again and again while it is due.                                   *)
Expire ==
  /\ ~expiring /\ running = NoEvent
  /\ tree # {}
  /\ expiring' = TRUE
  /\ UNCHANGED <<clock, now, key, timer_set, tree, running, asked>>

(* Mutated form: near enough is due.                                       *)
Due_Lazy(e) == key[e] < now + EVENT_TIMER_LAZY_DELAY

Due(e) == key[e] <= now

Fire(e) ==
  /\ expiring /\ running = NoEvent
  /\ Earliest(e) /\ Due(e)
  /\ tree' = tree \ {e}
  /\ timer_set' = timer_set \ {e}
  /\ running' = e
  /\ UNCHANGED <<clock, now, key, expiring, asked>>

Return ==
  /\ running # NoEvent
  /\ running' = NoEvent
  /\ UNCHANGED <<clock, now, key, timer_set, tree, expiring, asked>>

(* Mutated form: an event that is not due yet does not end the expiry.     *)
ExpireDone_Empty ==
  /\ expiring /\ running = NoEvent
  /\ tree = {}
  /\ expiring' = FALSE
  /\ UNCHANGED <<clock, now, key, timer_set, tree, running, asked>>

ExpireDone ==
  /\ expiring /\ running = NoEvent
  /\ \A e \in tree : ~Due(e)
  /\ expiring' = FALSE
  /\ UNCHANGED <<clock, now, key, timer_set, tree, running, asked>>

(* event_find_timer                                                        *)
EVENT_TIMER_INFINITE == -1

(* Mutated form: an overdue timer's negative distance is returned.         *)
FindTimer_NoClamp ==
  IF tree = {} THEN EVENT_TIMER_INFINITE
  ELSE key[CHOOSE e \in tree : Earliest(e)] - now

FindTimer ==
  IF tree = {} THEN EVENT_TIMER_INFINITE
  ELSE LET timer == key[CHOOSE e \in tree : Earliest(e)] - now
       IN IF timer > 0 THEN timer ELSE 0

(* epoll_wait(timer), a negative timer meaning for ever; an event on a     *)
(* descriptor ends it earlier.                                             *)
Sleep ==
  LET timer == ToInt(FindTimer) IN
  /\ ~expiring /\ running = NoEvent
  /\ now' \in now .. MaxTime
  /\ timer >= 0 => now' <= now + timer
  /\ UNCHANGED <<clock, key, timer_set, tree, expiring, running, asked>>

TimePasses ==
  /\ clock = "runs" /\ now < MaxTime
  /\ now' = now + 1
  /\ UNCHANGED <<clock, key, timer_set, tree, expiring, running, asked>>

Next ==
  \/ \E e \in Events : \/ \E timer \in Delays : EventTimerAdd(e, timer)
                       \/ EventTimerDel(e) \/ Fire(e)
  \/ Expire \/ Return \/ ExpireDone
  \/ Sleep \/ TimePasses

Spec == Init /\ [][Next]_vars

(* event_timers_expire goes on, handlers return, and the program's loop    *)
(* calls it again and again.                                               *)
FairSpec ==
  /\ Spec
  /\ WF_vars(\E e \in Events : Fire(e)) /\ WF_vars(ExpireDone)
  /\ WF_vars(Return) /\ WF_vars(Expire)

-----------------------------------------------------------------------------
TypeOK ==
  /\ clock \in Clocks
  /\ now \in 0 .. MaxTime
  /\ key \in [Events -> Nat]
  /\ \A e \in Events : \E d \in Delays \cup {0} : key[e] <= MaxTime + d
  /\ timer_set \subseteq Events /\ tree \subseteq Events
  /\ expiring \in BOOLEAN
  /\ running \in Events \cup {NoEvent}
  /\ asked \in [Events -> Nat]

(* timer_set is set for exactly the events in the tree, also while a       *)
(* handler sets its own timer again.                                       *)
TimersExact == timer_set = tree

(* However often a timer is set again, its key is within the lazy delay of *)
(* the time it was last asked for: the differences do not add up, and a    *)
(* much shorter timer is not ignored.                                      *)
KeyNearAsked == \A e \in tree :
  /\ asked[e] - key[e] < EVENT_TIMER_LAZY_DELAY
  /\ key[e] - asked[e] < EVENT_TIMER_LAZY_DELAY

(* A handler runs no earlier than the lazy delay before the time its timer *)
(* was last asked for.                                                     *)
NeverEarly == [][\A e \in Events :
  running = NoEvent /\ running' = e => asked[e] - now < EVENT_TIMER_LAZY_DELAY]_vars

(* A sleep for what event_find_timer returned wakes up no later than the   *)
(* earliest timer is due; with an overdue one it does not sleep.           *)
NeverOversleeps == [][
  Sleep => \A e \in tree : now' = now \/ now' <= key[e]]_vars

(* With a clock that stands still until the next sleep,                    *)
(* event_timers_expire returns, although handlers set timers again.        *)
ExpireEnds == clock = "still" /\ expiring ~> ~expiring

(* With such a clock a due timer fires, is deleted or set anew for later.  *)
DueFires == \A e \in Events :
  (clock = "still" /\ e \in tree /\ Due(e)) ~> ~(e \in tree /\ Due(e))

(* The expiry serves the timers: it gets to each due one, and to its end,  *)
(* though handlers set timers while it runs.                               *)
ExpiryServes == ExpireEnds /\ DueFires
=============================================================================
