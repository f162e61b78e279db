SPECIFICATION Spec
CONSTANTS
  c1 = c1
  c2 = c2
  ls = ls
  NoEvent = NoEvent
  Conns = {c1, c2}
  Listeners = {}
  Unhandled <- NoneUnhandled
  Calls = {"close", "post"}
  Reuses = {"posted"}
INVARIANTS
  PostedLinked
CHECK_DEADLOCK FALSE
