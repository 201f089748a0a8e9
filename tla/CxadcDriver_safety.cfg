SPECIFICATION Spec
CONSTANTS
  Procs = {p1, p2}
  p1 = p1
  p2 = p2
  NoProc = NoProc
  MaxWant = 1
  SharedLine = TRUE
  Events = {"remove", "aer", "dead", "suspend", "shutdown", "signal", "fault", "sysfs"}
SYMMETRY ProcSymmetry
INVARIANT TypeOK
INVARIANT NoUseAfterFree
INVARIANT SingleOwner
INVARIANT NoDmaIntoFreedMemory
INVARIANT UnwindExact
PROPERTY ClaimOnlyPublished
\* the machine stops when the card is removed or shut down
CHECK_DEADLOCK FALSE
