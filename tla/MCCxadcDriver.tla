--------------------------- MODULE MCCxadcDriver ---------------------------
(***************************************************************************)
(* Small instances of CxadcDriver.  The processes are interchangeable in   *)
(* every action and every safety property, so they are a symmetry set.     *)
(***************************************************************************)
EXTENDS CxadcDriver, TLC

ProcSymmetry == Permutations(Procs)
=============================================================================
