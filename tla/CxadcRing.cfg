SPECIFICATION Spec
CONSTANTS
  N = 6
  P = 2
  MaxUnseen = 1
  MaxFilled = 13
  MaxRead = 2
  MaxOpens = 2
  MaxOverruns = 1
  SharedLine = TRUE
  CanDie = TRUE
INVARIANT RingTypeOK
INVARIANT NoEarlyPage
PROPERTY NoFalsePositive
PROPERTY LossIsNoticed
\* the bounds on pages and sessions stop the model
CHECK_DEADLOCK FALSE
VIEW View
