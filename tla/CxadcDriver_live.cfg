SPECIFICATION FairSpec
CONSTANTS
  Procs = {p1, p2}
  p1 = p1
  p2 = p2
  NoProc = NoProc
  MaxWant = 1
  SharedLine = FALSE
  Events = {"remove", "aer", "dead", "shutdown"}
INVARIANT SessionArmed
PROPERTY DisconnectReleases
PROPERTY RemoveCompletes
PROPERTY CallsReturn
\* the machine stops when the card is removed or shut down
CHECK_DEADLOCK FALSE
