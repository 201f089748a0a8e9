SPECIFICATION FairSpec
CONSTANTS
  old = old
  new = new
  Kernels = {k1, k2}
  Releases <- MCReleases
  Plans <- MCPlans
  MaxFaults = 1
  MaxChanges = 0
  Redeploys = TRUE
INVARIANT StampIsTrue
\* once the plan is deployed a host may have nothing left to do
CHECK_DEADLOCK FALSE
