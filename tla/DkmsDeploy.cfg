SPECIFICATION FairSpec
CONSTANTS
  old = old
  new = new
  Kernels = {k1, k2}
  Releases <- MCReleases
  Plans <- MCPlans
  MaxFaults = 2
  MaxChanges = 2
  Redeploys = FALSE
INVARIANTS DeployTypeOK OldDriverKept StampIsTrue OneVersionLeft
PROPERTY RetryConverges
\* once the plan is deployed a host may have nothing left to do
CHECK_DEADLOCK FALSE
