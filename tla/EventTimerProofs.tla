------------------------- MODULE EventTimerProofs --------------------------
(***************************************************************************)
(* The timers of EventTimer for any events, delays and lazy delay, as long *)
(* as no clock value or delay leaves the int that event_timer_add and      *)
(* epoll_wait put their differences into: NoOverflow.                      *)
(***************************************************************************)
EXTENDS EventTimer, WellFoundedInduction, TLAPS

NoOverflow == MaxTime < IntRange /\ \A d \in Delays : MaxTime + d < IntRange

(* Where a key or an asked time can be.                                    *)
Within(k) == k \in Nat /\ (k <= MaxTime \/ \E d \in Delays : k <= MaxTime + d)

KeysWithin == \A e \in Events : Within(key[e]) /\ Within(asked[e])

IInv == TypeOK /\ TimersExact /\ KeysWithin /\ KeyNearAsked

LEMMA IntExact == ASSUME NEW x \in Int, -IntRange <= x, x < IntRange PROVE ToInt(x) = x
<1> DEFINE a == x + IntRange
           n == 2 * IntRange
<1>1. a \in Int /\ n \in Nat /\ n > 0 /\ 0 <= a /\ a < n
  BY TimerAssumption
<1>2. a % n = a
  <2> HIDE DEF a, n
  <2> QED BY <1>1
<1> QED BY <1>1, <1>2, TimerAssumption DEF ToInt

LEMMA NatMin ==
  ASSUME NEW T \in SUBSET Nat, T # {}
  PROVE  \E x \in T : \A y \in T : x <= y
<1>1. PICK x \in T : \A y \in T : ~(<<y, x>> \in OpToRel(<, Nat))
  BY NatLessThanWellFounded, WFMin
<1>2. \A y \in T : x <= y
  <2> SUFFICES ASSUME NEW y \in T PROVE x <= y
    OBVIOUS
  <2>1. y < x => <<y, x>> \in OpToRel(<, Nat)
    BY Zenon DEF OpToRel
  <2>2. ~(y < x)
    BY <1>1, <2>1, Zenon
  <2> QED BY <2>2
<1> QED BY <1>2

(* event_timer_add keeps a key only when it is near the new time.          *)
LEMMA LazyNear ==
  ASSUME NEW e \in Events, key[e] \in Nat, key[e] < IntRange,
         NEW k \in Nat, k < IntRange, Lazy(e, k)
  PROVE  /\ k - key[e] < EVENT_TIMER_LAZY_DELAY
         /\ key[e] - k < EVENT_TIMER_LAZY_DELAY
<1>1. k - key[e] \in Int /\ -IntRange < k - key[e] /\ k - key[e] < IntRange
      /\ EVENT_TIMER_LAZY_DELAY \in Nat /\ IntRange \in Nat
  BY TimerAssumption
<1>2. ToInt(k - key[e]) = k - key[e]
  BY <1>1, IntExact
<1>3. Abs(k - key[e]) < EVENT_TIMER_LAZY_DELAY
  BY <1>1, <1>2 DEF Lazy
<1> QED BY <1>1, <1>3 DEF Abs

LEMMA IInvInit == Init => IInv
<1> SUFFICES ASSUME Init PROVE IInv
  OBVIOUS
<1>1. \A e \in Events : key[e] = 0 /\ asked[e] = 0
  BY DEF Init
<1>2. TypeOK
  <2>1. \A e \in Events : \E d \in Delays \cup {0} : key[e] <= MaxTime + d
    <3> SUFFICES ASSUME NEW e \in Events PROVE key[e] <= MaxTime + 0
      OBVIOUS
    <3> QED BY <1>1, TimerAssumption
  <2>2. key \in [Events -> Nat] /\ asked \in [Events -> Nat] /\ now \in 0 .. MaxTime
    BY TimerAssumption DEF Init
  <2> QED BY <2>1, <2>2 DEF Init, TypeOK
<1> QED
  BY <1>1, <1>2, TimerAssumption DEF Init, IInv, TimersExact, KeysWithin, Within, KeyNearAsked

LEMMA AddKeeps ==
  ASSUME NoOverflow, IInv, NEW e \in Events, NEW d \in Delays, EventTimerAdd(e, d)
  PROVE  IInv'
<1> DEFINE k == now + d
<1>1. now \in Nat /\ now <= MaxTime /\ d \in Nat /\ MaxTime \in Nat /\ k \in Nat /\ k <= MaxTime + d
      /\ EVENT_TIMER_LAZY_DELAY \in Nat /\ EVENT_TIMER_LAZY_DELAY > 0
  BY TimerAssumption DEF IInv, TypeOK
<1>2. Within(k)
  BY <1>1 DEF Within
<1>3. k < IntRange /\ key[e] \in Nat /\ key[e] < IntRange
  BY <1>1, TimerAssumption DEF IInv, TypeOK, KeysWithin, Within, NoOverflow
<1>6. asked' = [asked EXCEPT ![e] = k] /\ UNCHANGED <<clock, now, expiring, running>>
  BY DEF EventTimerAdd
<1>4. CASE Lazy(e, k)
  <2>1. UNCHANGED <<key, timer_set, tree>>
    BY <1>4 DEF EventTimerAdd
  <2>2. k - key[e] < EVENT_TIMER_LAZY_DELAY /\ key[e] - k < EVENT_TIMER_LAZY_DELAY
    <3> HIDE DEF k
    <3> QED BY <1>1, <1>3, <1>4, LazyNear
  <2> QED
    BY <1>1, <1>2, <1>6, <2>1, <2>2 DEF IInv, TypeOK, TimersExact, KeysWithin, KeyNearAsked, Within
<1>5. CASE ~Lazy(e, k)
  <2>1. /\ key' = [key EXCEPT ![e] = k]
        /\ tree' = tree \cup {e} /\ timer_set' = timer_set \cup {e}
    BY <1>5 DEF EventTimerAdd
  <2> QED
    BY <1>1, <1>2, <1>6, <2>1 DEF IInv, TypeOK, TimersExact, KeysWithin, KeyNearAsked, Within
<1> QED BY <1>4, <1>5

LEMMA IInvNext == NoOverflow /\ IInv /\ [Next]_vars => IInv'
<1> SUFFICES ASSUME NoOverflow, IInv, [Next]_vars PROVE IInv'
  OBVIOUS
<1> USE TimerAssumption DEF IInv, TypeOK, TimersExact, KeysWithin, KeyNearAsked, Within
<1>1. ASSUME NEW e \in Events, NEW d \in Delays, EventTimerAdd(e, d) PROVE IInv'
  BY <1>1, AddKeeps
<1>2. ASSUME NEW e \in Events, EventTimerDel(e) PROVE IInv'
  BY <1>2 DEF EventTimerDel
<1>3. ASSUME NEW e \in Events, Fire(e) PROVE IInv'
  BY <1>3 DEF Fire, Earliest
<1>4. CASE Expire
  BY <1>4 DEF Expire
<1>5. CASE Return
  BY <1>5 DEF Return
<1>6. CASE ExpireDone
  BY <1>6 DEF ExpireDone
<1>7. CASE Sleep
  BY <1>7 DEF Sleep
<1>8. CASE TimePasses
  BY <1>8 DEF TimePasses
<1>9. CASE UNCHANGED vars
  BY <1>9 DEF vars
<1> QED
  BY <1>1, <1>2, <1>3, <1>4, <1>5, <1>6, <1>7, <1>8, <1>9 DEF Next

LEMMA Invariance == ASSUME NoOverflow PROVE Spec => []IInv
<1>1. IInv /\ [Next]_vars => IInv'
  BY IInvNext
<1> QED BY <1>1, IInvInit, PTL DEF Spec

(* Every variable keeps its type, and no key or asked time leaves the      *)
(* range that the clock and the delays give.                               *)
THEOREM TypeCorrect == ASSUME NoOverflow PROVE Spec => []TypeOK
<1>1. IInv => TypeOK
  BY DEF IInv
<1> QED BY <1>1, Invariance, PTL

(* timer_set says exactly which events are in the tree: event_timer_del    *)
(* never takes out what is not there, event_timer_add never inserts twice. *)
THEOREM TreeMatches == ASSUME NoOverflow PROVE Spec => []TimersExact
<1>1. IInv => TimersExact
  BY DEF IInv
<1> QED BY <1>1, Invariance, PTL

(* The lazy comparison of event_timer_add never lets a key drift: however  *)
(* often a timer is set anew, it stays within the lazy delay of what was   *)
(* last asked for.                                                         *)
THEOREM NoDrift == ASSUME NoOverflow PROVE Spec => []KeyNearAsked
<1>1. IInv => KeyNearAsked
  BY DEF IInv
<1> QED BY <1>1, Invariance, PTL

(* event_timers_expire runs no handler earlier than the lazy delay before  *)
(* the time asked for.                                                     *)
THEOREM FiresInTime == ASSUME NoOverflow PROVE Spec => NeverEarly
<1> DEFINE Early == \A e \in Events :
      running = NoEvent /\ running' = e => asked[e] - now < EVENT_TIMER_LAZY_DELAY
<1>1. IInv /\ [Next]_vars => [Early]_vars
  <2> SUFFICES ASSUME IInv, Next, NEW e \in Events, running = NoEvent, running' = e
               PROVE  asked[e] - now < EVENT_TIMER_LAZY_DELAY
    BY DEF vars
  <2>1. e # NoEvent
    BY TimerAssumption
  <2>2. Fire(e)
    BY <2>1 DEF Next, EventTimerAdd, EventTimerDel, Expire, Return, ExpireDone, Sleep, TimePasses, Fire
  <2>3. e \in tree /\ key[e] <= now
    BY <2>2 DEF Fire, Earliest, Due
  <2> QED
    BY <2>3, TimerAssumption DEF IInv, TypeOK, KeyNearAsked
<1> QED BY <1>1, Invariance, PTL DEF Spec, NeverEarly

(* With event_find_timer's value for epoll_wait, the loop never sleeps     *)
(* past the earliest timer, and not at all when one is overdue.            *)
THEOREM WakesInTime == ASSUME NoOverflow PROVE Spec => NeverOversleeps
<1> DEFINE InTime == Sleep => \A e \in tree : now' = now \/ now' <= key[e]
<1>1. IInv /\ [Next]_vars => [InTime]_vars
  <2> SUFFICES ASSUME IInv, Sleep, NEW e \in tree PROVE now' = now \/ now' <= key[e]
    OBVIOUS
  <2> DEFINE first == CHOOSE f \in tree : Earliest(f)
             timer == key[first] - now
  <2>1. now \in Nat /\ now <= MaxTime /\ MaxTime \in Nat /\ IntRange \in Nat \ {0}
        /\ key \in [Events -> Nat] /\ tree \subseteq Events
    BY TimerAssumption DEF IInv, TypeOK
  <2>2. first \in tree /\ Earliest(first)
    <3> DEFINE Keys == {key[f] : f \in tree}
    <3>1. Keys \in SUBSET Nat /\ Keys # {}
      BY <2>1
    <3>2. PICK k \in Keys : \A l \in Keys : k <= l
      BY <3>1, NatMin
    <3>3. \E f \in tree : Earliest(f)
      BY <3>2 DEF Earliest
    <3> QED BY <3>3
  <2>3. key[first] <= key[e] /\ key[first] \in Nat /\ key[e] \in Nat
    BY <2>1, <2>2 DEF Earliest
  <2>4. key[first] < IntRange
    BY <2>1, <2>2, TimerAssumption DEF IInv, KeysWithin, Within, NoOverflow
  <2>5. FindTimer = IF timer > 0 THEN timer ELSE 0
    BY DEF FindTimer
  <2> HIDE DEF first
  <2>6. FindTimer \in Int /\ 0 <= FindTimer /\ FindTimer < IntRange
    BY <2>1, <2>3, <2>4, <2>5
  <2>7. ToInt(FindTimer) = FindTimer
    BY <2>1, <2>6, IntExact
  <2>8. now' \in now .. MaxTime /\ now' <= now + FindTimer
    BY <2>6, <2>7 DEF Sleep
  <2> QED
    BY <2>1, <2>3, <2>5, <2>8
<1> QED BY <1>1, Invariance, PTL DEF Spec, NeverOversleeps
=============================================================================
