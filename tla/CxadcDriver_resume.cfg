SPECIFICATION Spec
CONSTANTS
  Procs = {p1}
  p1 = p1
  NoProc = NoProc
  MaxWant = 1
  SharedLine = FALSE
  Events = {"suspend"}
INVARIANT SessionArmed
\* the machine stops when a probe has failed
CHECK_DEADLOCK FALSE
