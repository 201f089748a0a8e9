---------------------------- MODULE MCCxadcRing ----------------------------
(***************************************************************************)
(* States of CxadcRing that differ only in what neither a guard nor a      *)
(* safety property of the run reads are one: what the memory holds, and on *)
(* a dead card also the page numbers, as every property is about a card    *)
(* that answers.                                                           *)
(***************************************************************************)
EXTENDS CxadcRing

Seen == <<link, pending, unseen, pciMsk, hpc, hgp, hlaps, laps, last, total, lg,
          initial, base, overruns, pc, off, gp, want, noted, opens, late>>

View == IF link THEN <<Seen, filled, habs, labs, tabs, start, anchor>> ELSE Seen
=============================================================================
