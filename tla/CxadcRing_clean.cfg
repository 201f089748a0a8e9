SPECIFICATION Spec
CONSTANTS
  N = 4
  P = 2
  MaxUnseen = 1
  MaxFilled = 14
  MaxRead = 2
  MaxOpens = 1
  MaxOverruns = 1
  SharedLine = FALSE
  CanDie = FALSE
INVARIANT CleanIsContinuous
\* the bounds on pages and sessions stop the model
CHECK_DEADLOCK FALSE
