SPECIFICATION FairSpec
CONSTANTS
  c1 = c1
  c2 = c2
  ls = ls
  NoEvent = NoEvent
  Conns = {c1, ls}
  Listeners = {ls}
  Unhandled <- WriteOnly
  Calls = {"close", "write", "conn", "timer", "connect", "post"}
  Reuses = {}
PROPERTIES
  CallEnds
CHECK_DEADLOCK FALSE
