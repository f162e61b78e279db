SPECIFICATION Spec
CONSTANTS
  c1 = c1
  c2 = c2
  ls = ls
  NoEvent = NoEvent
  Conns = {c1, c2}
  Listeners = {}
  Unhandled <- NoneUnhandled
  Calls = {"close", "write", "timer", "post"}
  Reuses = {}
INVARIANTS
  StaleNeverHandled
  RegistrationExact
  ClosedLeavesNothing
  TimersExact
SYMMETRY Symmetry
CHECK_DEADLOCK FALSE
