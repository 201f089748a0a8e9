----------------------------- MODULE MCCxTools -----------------------------
(***************************************************************************)
(* Small instances of CxTools.  A signal with a window that fits, one with *)
(* none (it clips badly above), and one that clips at every level; and, for*)
(* the offset, centres at and near both limits, between two offsets, below *)
(* and above the start, the steepest slope Steerable allows, and starts    *)
(* from which it does not steer.                                           *)
(***************************************************************************)
EXTENDS CxTools

Window  == [fill |-> 10, clip |-> 12, severe |-> 14, dc |-> 0, slope |-> 64]
Narrow  == [fill |-> 6, clip |-> 6, severe |-> 6, dc |-> 1020, slope |-> 60]
TooLoud == [fill |-> 0, clip |-> 0, severe |-> 1, dc |-> 400, slope |-> 16]

At(lvl, off) == [level |-> lvl, offset |-> off]
Tuned(dc, slope) == [fill |-> 8, clip |-> 10, severe |-> 12, dc |-> dc, slope |-> slope]

(* The offset controller: the start, the error at offset 0, the slope.     *)
OffsetCases == {
  <<0, 0, 80>>, <<1, 0, 80>>, <<0, 20400, 80>>, <<254, 20400, 80>>, <<254, 20319, 79>>,
  <<0, 1000, 80>>, <<40, 1000, 80>>, <<254, 17000, 80>>, <<20, 615, 70>>,
  <<254, 3060, 16>>, <<0, 3060, 16>>, <<90, 81, 1>>, <<200, 4120, 20>>,
  <<255, 1000, 16>>, <<255, 0, 80>>, <<254, 0, 80>>, <<3, 500, 200>> }

MCSetups ==
  { [auto |-> TRUE, monitor |-> "none", leveladj |-> TRUE, signal |-> Window,
     start |-> At(9, 2)] } \cup
  { [auto |-> u, monitor |-> "none", leveladj |-> ~u, signal |-> s, start |-> At(9, 2)] :
      u \in BOOLEAN, s \in {Window, Narrow, TooLoud} } \cup
  { [auto |-> FALSE, monitor |-> "none", leveladj |-> TRUE, signal |-> Window,
     start |-> At(12, 2)],
    [auto |-> FALSE, monitor |-> "none", leveladj |-> TRUE, signal |-> Narrow,
     start |-> At(11, 2)] } \cup
  { [auto |-> FALSE, monitor |-> m, leveladj |-> FALSE, signal |-> Narrow,
     start |-> At(9, 2)] : m \in {"serve", "connect"} } \cup
  { [auto |-> TRUE, monitor |-> "none", leveladj |-> FALSE, signal |-> Tuned(c[2], c[3]),
     start |-> At(8, c[1])] : c \in OffsetCases }
MCLevels == {-1, 8}
=============================================================================
