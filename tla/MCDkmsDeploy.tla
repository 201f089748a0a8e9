---------------------------- MODULE MCDkmsDeploy ----------------------------
(* Two revisions of one version and a third of another, on two kernels.    *)
EXTENDS DkmsDeploy, TLC

CONSTANTS old, new

Plan(ci, all, prune, dry) == [ci |-> ci, all |-> all, prune |-> prune, dry |-> dry]

MCReleases == <<old, old, new>>
MCPlans ==
  {Plan(TRUE, TRUE, TRUE, FALSE), Plan(TRUE, TRUE, FALSE, FALSE), Plan(FALSE, TRUE, TRUE, TRUE)}
=============================================================================
