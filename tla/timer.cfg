SPECIFICATION FairSpec
CONSTANTS
  e1 = e1
  e2 = e2
  e3 = e3
  NoEvent = NoEvent
  Events = {e1, e2, e3}
  Delays = {1, 3}
  EVENT_TIMER_LAZY_DELAY = 2
  IntRange = 16
  MaxTime = 4
  Clocks = {"runs", "still"}
INVARIANTS
  KeyNearAsked
PROPERTIES
  NeverEarly
  NeverOversleeps
  ExpiryServes
CHECK_DEADLOCK FALSE
