SPECIFICATION Spec
CONSTANTS
  Procs = {p1}
  p1 = p1
  NoProc = NoProc
  MaxWant = 1
  SharedLine = FALSE
  Events = {"remove"}
INVARIANT CtdOutlivesRelease
\* the machine stops when the card is removed or shut down
CHECK_DEADLOCK FALSE
