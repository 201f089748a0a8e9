------------------------------ MODULE CxTools ------------------------------
(***************************************************************************)
(* The capture tools on one card: one run of cx-capture (src/src/tools/    *)
(* cx-capture/cx-capture.c) and one run of leveladj (src/src/tools/leveladj*)
(* /leveladj.c), with the level and offset controllers they share          *)
(* (src/src/tools/common/cx_analyze.c).  The card is what the tools see of *)
(* the driver: one opener at a time, a count of overruns that every open   *)
(* resets, parameters that anyone may write, and an unbind that takes the  *)
(* parameters away first and waits for the opener.                         *)
(*                                                                         *)
(* Simplifications.  The capture has one lossless output, and after it at  *)
(* most one best-effort one, whose write never waits.  A signal before     *)
(* its handler is installed kills the program, which is no step here.  A   *)
(* regular output file takes every write in the end.  A block is two units,*)
(* so that write() can be short.  The overrun count is "zero or not".  What*)
(* cx_analyze measures depends on a signal that stays the same for the     *)
(* whole run.  Every block is followed by an adjustment: the blocks between*)
(* two are alike.  A bound card delivers (CxadcDriver!CallsReturn), so     *)
(* read() returns.                                                         *)
(***************************************************************************)
EXTENDS Integers, FiniteSets

CONSTANTS
  Setups,      \* --auto_adjust, the best-effort output, whether leveladj runs, the
               \* signal, and the parameters the card has at the start
  Levels       \* the --level options of an instance; -1 is none

(* A signal under-fills the range below level fill, clips from level clip  *)
(* on, badly from severe on.  Its DC error, in 1/4096 of half the range, is *)
(* dc at offset 0 and falls by slope per step of the offset: it is zero at *)
(* dc / slope, which need be neither a whole number nor an offset at all.  *)
Signal == [fill : 0..32, clip : 0..32, severe : 0..33, dc : Int, slope : 1..4096]

Params == [level : 0..31, offset : 0..255]

(* No best-effort output; one that waits for clients (--listen, --fifo);   *)
(* one that connects once (--tcp).                                         *)
Monitors == {"none", "serve", "connect"}

ASSUME ToolsAssumption ==
  /\ Setups \subseteq [auto : BOOLEAN, monitor : Monitors, leveladj : BOOLEAN,
                        signal : Signal, start : Params]
  /\ \A u \in Setups : u.signal.fill <= u.signal.clip /\ u.signal.clip <= u.signal.severe
  /\ Levels \subseteq -1..31

VARIABLES
  signal,
  card,        \* "bound", "leaving" (remove waits for the opener) or "gone"
  holder,      \* who has the device open
  counted,     \* overrun_count is not zero
  level, offset,   \* the card's parameters
  (* cx-capture *)
  cpc, ret,
  auto,        \* --auto_adjust
  monitor,     \* the best-effort output
  client,      \* its peer: "none" without a descriptor, "here", "left" when
               \* it has gone, "reset" when the next write will be told
  stop,        \* g_stop
  intr,        \* a signal has arrived during the current system call
  left,        \* units of the block the output file does not have yet
  clevel, coffset,   \* its copies of the parameters
  octl,        \* cx_offset_ctl
  lost,        \* history: overruns were counted in its session
  ioError,     \* history: a read or a write of its session failed
  blind,       \* history: since its close the count was reset or vanished
  (* leveladj *)
  apc, aret, alevel, best, visited,
  heard,       \* what cx_analyze says of the last block
  disturbed    \* history: others changed the level since leveladj started

cardVars == <<card, holder, counted, level, offset>>
ctlVars  == <<clevel, coffset, octl>>
capVars  == <<cpc, ret, auto, monitor, client, stop, intr, left, ctlVars, lost, ioError, blind>>
adjVars  == <<apc, aret, alevel, best, visited, heard, disturbed>>
vars == <<signal, cardVars, capVars, adjVars>>

Clamp(v, hi) == IF v < 0 THEN 0 ELSE IF v > hi THEN hi ELSE v

(***************************************************************************)
(* cx_analyze.c.                                                           *)
(***************************************************************************)
Verdict(s, lvl) ==
  IF lvl >= s.severe THEN "severe"
  ELSE IF lvl >= s.clip THEN "clips"
  ELSE IF lvl < s.fill THEN "headroom" ELSE "fits"

Clips(verdict) == verdict \in {"clips", "severe"}

LevelStep == [severe |-> -2, clips |-> -1, headroom |-> 1, fits |-> 0]
(* Mutant: no clamp.                                                       *)
SuggestUnclamped(verdict, lvl) == lvl + LevelStep[verdict]

SuggestLevel(verdict, lvl) == Clamp(lvl + LevelStep[verdict], 31)

(* |dc_error|, which is at most 1: the middle of the samples stays in their*)
(* range.  The dead band is 0.01.                                          *)
DcError(s, o) ==
  LET away == s.dc - s.slope * o
      size == IF away < 0 THEN -away ELSE away
  IN  IF size > 4096 THEN 4096 ELSE size
Deadband == 40
Centred(err) == err <= Deadband

(* Mutant: never reverses.                                                 *)
OffsetDirNever(err) == octl.dir

OffsetDir(err) == IF octl.known /\ err > octl.err THEN -octl.dir ELSE octl.dir

OffsetSize(err) ==
  LET step == (err * 32) \div 4096
  IN  IF step < 1 THEN 1 ELSE IF step > 8 THEN 8 ELSE step

OffsetStep(err) ==
  IF Centred(err) THEN coffset ELSE Clamp(coffset + OffsetDir(err) * OffsetSize(err), 255)

OffsetCtl(err) == [known |-> TRUE, err |-> err,
                   dir |-> IF Centred(err) THEN octl.dir ELSE OffsetDir(err)]

NoCtl == [known |-> FALSE, err |-> 0, dir |-> 1]

(***************************************************************************)
(* cx-capture.                                                             *)
(***************************************************************************)
CapSame == UNCHANGED <<signal, auto, monitor, adjVars>>

Exit(code) == cpc' = "exit" /\ ret' = code

(* Options, sinks, name resolution: 2 for usage and for a name that does   *)
(* not resolve, 1 for a sink that cannot be opened or a node that is gone. *)
(* --tcp has its peer from the start, --fifo perhaps a reader.             *)
CapStart ==
  /\ cpc = "start"
  /\ \/ /\ card = "bound" /\ cpc' = "params" /\ UNCHANGED ret
        /\ client' \in CASE monitor = "connect" -> {"here"}
                         [] monitor = "serve"   -> {"none", "here"}
                         [] OTHER               -> {"none"}
     \/ \E code \in {1, 2} : Exit(code) /\ UNCHANGED client
  /\ CapSame
  /\ UNCHANGED <<cardVars, stop, intr, left, ctlVars, lost, ioError, blind>>

(* The parameters asked for are written before the device is opened; a     *)
(* write that fails ends the program.                                      *)
CapParams ==
  /\ cpc = "params"
  /\ \/ \E l \in Levels :
          /\ card = "bound" \/ l = -1
          /\ level' = IF l = -1 THEN level ELSE l
          /\ disturbed' = (disturbed \/ l # -1)
          /\ cpc' = "readback" /\ UNCHANGED ret
     \/ card # "bound" /\ Exit(1) /\ UNCHANGED <<level, disturbed>>
  /\ UNCHANGED <<signal, auto, monitor, client, card, holder, counted, offset, stop, intr, left,
                 ctlVars, lost, ioError, blind,
                 apc, aret, alevel, best, visited, heard>>

(* Its copies of level and offset; a read that fails leaves the defaults.  *)
CapReadBack ==
  /\ cpc = "readback"
  /\ clevel' = IF card = "bound" THEN level ELSE 16
  /\ coffset' = IF card = "bound" THEN offset ELSE 2
  /\ cpc' = "open"
  /\ CapSame
  /\ UNCHANGED <<client, cardVars, ret, stop, intr, left, octl, lost, ioError, blind>>

(* EBUSY while another program has the device; EINTR when the signal came  *)
(* in its wait for the card, after the count was reset.                    *)
CapOpen ==
  /\ cpc = "open"
  /\ \/ /\ card = "bound" /\ holder = "none"
        /\ holder' = "capture" /\ counted' = FALSE
        /\ cpc' = "test" /\ UNCHANGED ret
     \/ /\ card = "bound" /\ holder = "none" /\ intr
        /\ counted' = FALSE
        /\ Exit(1) /\ UNCHANGED holder
     \/ /\ card # "bound" \/ holder # "none"
        /\ Exit(1)
        /\ UNCHANGED <<holder, counted>>
  /\ octl' = NoCtl
  /\ CapSame
  /\ UNCHANGED <<client, card, level, offset, stop, intr, left, clevel, coffset,
                 lost, ioError, blind>>

(* Mutant: only the duration ends the loop.                                *)
CapTestDuration ==
  /\ cpc = "test"
  /\ cpc' \in {"close", "read"}
  /\ intr' = FALSE
  /\ CapSame
  /\ UNCHANGED <<client, cardVars, ret, stop, left, ctlVars, lost, ioError, blind>>

(* The head of the loop: g_stop, and the duration, which may have passed.  *)
CapTest ==
  /\ cpc = "test"
  /\ \/ cpc' = "close"
     \/ ~stop /\ cpc' = "read"
  /\ intr' = FALSE
  /\ CapSame
  /\ UNCHANGED <<client, cardVars, ret, stop, left, ctlVars, lost, ioError, blind>>

ReadSame ==
  /\ CapSame
  /\ UNCHANGED <<client, card, holder, level, offset, stop, ctlVars, blind>>

(* Mutant: a failed read() is tried again, whatever the error.             *)
CapReadAgain ==
  /\ cpc = "read"
  /\ cpc' = IF card = "bound" THEN "copying" ELSE "test"
  /\ UNCHANGED <<ret, ioError, intr, left, counted, lost>> /\ ReadSame

(* read() is refused on a card that is leaving, and after a PCI error.     *)
CapRead ==
  /\ cpc = "read"
  /\ \/ card = "bound" /\ cpc' = "copying" /\ UNCHANGED <<ret, ioError, intr>>
     \/ cpc' = "close" /\ ret' = 1 /\ ioError' = TRUE /\ intr' = FALSE
  /\ UNCHANGED <<left, counted, lost>> /\ ReadSame

(* It returns what it has copied, a short block when a signal or a removal *)
(* cut it off; with nothing copied, EINTR or the error.                    *)
CapData ==
  /\ cpc = "copying"
  /\ \/ /\ left' \in IF intr \/ card # "bound" THEN 1..2 ELSE {2}
        /\ \E loss \in BOOLEAN :
             counted' = (counted \/ loss) /\ lost' = (lost \/ loss)
        /\ cpc' = "poll"
        /\ UNCHANGED <<ret, ioError>>
     \/ /\ intr
        /\ cpc' = "test"
        /\ UNCHANGED <<ret, left, counted, lost, ioError>>
     \/ /\ cpc' = "close" /\ ret' = 1 /\ ioError' = TRUE
        /\ UNCHANGED <<left, counted, lost>>
  /\ intr' = FALSE /\ ReadSame

(* A waiting client, or a reader of the pipe, is taken in.                 *)
CapPoll ==
  /\ cpc = "poll"
  /\ client' \in IF monitor = "serve" /\ client = "none" THEN {"none", "here"} ELSE {client}
  /\ cpc' = "write"
  /\ CapSame
  /\ UNCHANGED <<cardVars, ret, stop, intr, left, ctlVars, lost, ioError, blind>>

(* Mutant: a short write() is taken for a whole one.                       *)
CapWriteOnce ==
  /\ cpc = "write"
  /\ \E n \in 1..left : left' = left - n
  /\ cpc' = "monitor"
  /\ CapSame
  /\ UNCHANGED <<client, cardVars, ret, stop, intr, ctlVars, lost, ioError, blind>>

(* write_all: short writes go on, EINTR is retried, any other error skips  *)
(* the outputs that follow and ends the loop after this round.             *)
CapWrite ==
  /\ cpc = "write"
  /\ \/ /\ \E n \in 1..left : left' = left - n
        /\ cpc' = IF left' = 0 THEN "monitor" ELSE "write"
        /\ UNCHANGED <<ret, stop, intr, ioError>>
     \/ /\ intr
        /\ intr' = FALSE
        /\ UNCHANGED <<cpc, ret, stop, left, ioError>>
     \/ /\ ret' = 1 /\ stop' = TRUE /\ ioError' = TRUE
        /\ cpc' = "adjust"
        /\ UNCHANGED <<intr, left>>
  /\ CapSame
  /\ UNCHANGED <<client, cardVars, ctlVars, lost, blind>>

MonitorSame ==
  /\ cpc = "monitor"
  /\ cpc' = "adjust"
  /\ CapSame
  /\ UNCHANGED <<cardVars, ret, stop, intr, left, ctlVars, lost, ioError, blind>>

(* Mutant: an error of the write leaves the descriptor open.               *)
CapMonitorKeeps ==
  /\ client' = IF client = "left" THEN "reset" ELSE client
  /\ MonitorSame

(* write_monitor: what does not fit is dropped.  The first write to a peer *)
(* that has left may still go through; EPIPE or ECONNRESET closes it.      *)
CapMonitor ==
  /\ client' \in CASE client = "left"  -> {"reset", "none"}
                   [] client = "reset" -> {"none"}
                   [] OTHER            -> {client}
  /\ MonitorSame

(* Writes the level and the offset the controllers suggest, and remembers  *)
(* what it managed to write.                                               *)
CapAdjust ==
  /\ cpc = "adjust"
  /\ cpc' = "test"
  /\ IF auto
     THEN LET nl == SuggestLevel(Verdict(signal, level), clevel)
              err == DcError(signal, offset)
              no == OffsetStep(err)
          IN /\ octl' = OffsetCtl(err)
             /\ IF card = "bound"
                THEN /\ clevel' = nl /\ coffset' = no
                     /\ level' = IF nl # clevel THEN nl ELSE level
                     /\ offset' = IF no # coffset THEN no ELSE offset
                     /\ disturbed' = (disturbed \/ nl # clevel)
                ELSE UNCHANGED <<clevel, coffset, level, offset, disturbed>>
     ELSE UNCHANGED <<ctlVars, level, offset, disturbed>>
  /\ UNCHANGED <<signal, auto, monitor, client, card, holder, counted, ret, stop, intr, left,
                 lost, ioError, blind,
                 apc, aret, alevel, best, visited, heard>>

CapClose ==
  /\ cpc = "close"
  /\ cpc' = "report"
  /\ holder' = "none"
  /\ octl' = NoCtl
  /\ CapSame
  /\ UNCHANGED <<client, card, counted, level, offset, ret, stop, intr, left,
                 clevel, coffset, lost, ioError, blind>>

(* Mutant: the overruns are reported over the error.                       *)
CapReportOver ==
  /\ cpc = "report"
  /\ Exit(IF card = "bound" /\ counted THEN 3 ELSE ret)
  /\ blind' = (blind \/ card # "bound")
  /\ CapSame
  /\ UNCHANGED <<client, cardVars, stop, intr, left, ctlVars, lost, ioError>>

(* overrun_count, when the attribute is there; 3 never hides an error.     *)
CapReport ==
  /\ cpc = "report"
  /\ Exit(IF card = "bound" /\ counted /\ ret = 0 THEN 3 ELSE ret)
  /\ blind' = (blind \/ card # "bound")
  /\ CapSame
  /\ UNCHANGED <<client, cardVars, stop, intr, left, ctlVars, lost, ioError>>

(* SIGINT or SIGTERM, once the handler is installed.                       *)
CapSignal ==
  /\ cpc \in {"open", "test", "read", "copying", "poll", "write", "monitor", "adjust"}
  /\ ~stop
  /\ stop' = TRUE
  /\ intr' = (cpc \in {"open", "copying", "write"})
  /\ CapSame
  /\ UNCHANGED <<client, cardVars, cpc, ret, left, ctlVars, lost, ioError, blind>>

(* The peer of the best-effort output goes away.                           *)
ClientLeaves ==
  /\ client = "here" /\ cpc # "exit"
  /\ client' = "left"
  /\ CapSame
  /\ UNCHANGED <<cardVars, cpc, ret, stop, intr, left, ctlVars, lost, ioError, blind>>

Capture ==
  \/ CapStart \/ CapParams \/ CapReadBack \/ CapOpen \/ CapTest \/ CapRead
  \/ CapData \/ CapPoll \/ CapWrite \/ CapMonitor \/ CapAdjust \/ CapClose \/ CapReport

(***************************************************************************)
(* leveladj.                                                               *)
(***************************************************************************)
AdjDone(code) == apc' = "done" /\ aret' = code
AdjLocal == UNCHANGED <<signal, capVars>>

(* cx-capture reads overrun_count after its close.                         *)
CountReset == blind' = (blind \/ cpc = "report")

(* Resolves the device and starts from its level.                          *)
AdjStart ==
  /\ apc = "start"
  /\ \/ card = "bound" /\ apc' = "set" /\ alevel' = level /\ UNCHANGED aret
     \/ card # "bound" /\ AdjDone(-1) /\ UNCHANGED alevel
  /\ AdjLocal
  /\ disturbed' = FALSE
  /\ UNCHANGED <<cardVars, best, visited, heard>>

AdjSet ==
  /\ apc = "set"
  /\ \/ card = "bound" /\ level' = alevel /\ apc' = "open" /\ UNCHANGED aret
     \/ card # "bound" /\ AdjDone(-1) /\ UNCHANGED level
  /\ AdjLocal
  /\ UNCHANGED <<card, holder, counted, offset, alevel, best, visited, heard, disturbed>>

AdjOpen ==
  /\ apc = "open"
  /\ \/ /\ card = "bound" /\ holder = "none"
        /\ holder' = "leveladj" /\ counted' = FALSE /\ CountReset
        /\ apc' = "read" /\ UNCHANGED aret
     \/ /\ card # "bound" \/ holder # "none"
        /\ AdjDone(-1)
        /\ UNCHANGED <<holder, counted, blind>>
  /\ UNCHANGED <<signal, cpc, ret, auto, monitor, client, stop, intr, left, ctlVars, lost,
                 ioError, card, level, offset, alevel, best, visited, heard, disturbed>>

(* One block at the card's level, perhaps a short one of a card that is    *)
(* leaving, or an error; then close().                                     *)
AdjRead ==
  /\ apc = "read"
  /\ holder' = "none"
  /\ \/ /\ apc' = "judge"
        /\ heard' = Verdict(signal, level) /\ UNCHANGED aret
        /\ counted' \in {counted, TRUE}
     \/ AdjDone(-1) /\ UNCHANGED <<heard, counted>>
  /\ AdjLocal
  /\ UNCHANGED <<card, level, offset, alevel, best, visited, disturbed>>

(* Goes on while the suggested level is one it has not tried.              *)
AdjJudge ==
  LET next == SuggestLevel(heard, alevel)
      seen == visited \cup {alevel}
  IN /\ apc = "judge"
     /\ best' = IF ~Clips(heard) /\ alevel > best THEN alevel ELSE best
     /\ visited' = seen
     /\ IF next \in seen THEN apc' = "final" /\ UNCHANGED alevel
                         ELSE apc' = "set" /\ alevel' = next
     /\ AdjLocal
     /\ UNCHANGED <<cardVars, aret, heard, disturbed>>

(* Mutant: leaves the card at the level tried last.                        *)
AdjFinalLast ==
  /\ apc = "final"
  /\ AdjDone(0)
  /\ AdjLocal
  /\ UNCHANGED <<cardVars, alevel, best, visited, heard, disturbed>>

(* Leaves the card at the highest level seen without clipping.             *)
AdjFinal ==
  /\ apc = "final"
  /\ IF best >= 0 /\ best # alevel
     THEN \/ card = "bound" /\ level' = best /\ AdjDone(0)
          \/ card # "bound" /\ UNCHANGED level /\ AdjDone(-1)
     ELSE AdjDone(0) /\ UNCHANGED level
  /\ AdjLocal
  /\ UNCHANGED <<card, holder, counted, offset, alevel, best, visited, heard, disturbed>>

Adjust == AdjStart \/ AdjSet \/ AdjOpen \/ AdjRead \/ AdjJudge \/ AdjFinal

(***************************************************************************)
(* The card (cxadc_remove and cxadc_probe as the tools see them).          *)
(***************************************************************************)
Unbind ==
  /\ card = "bound"
  /\ card' = "leaving"
  /\ UNCHANGED <<signal, holder, counted, level, offset, capVars, adjVars>>

UnbindDone ==
  /\ card = "leaving" /\ holder = "none"
  /\ card' = "gone"
  /\ UNCHANGED <<signal, holder, counted, level, offset, capVars, adjVars>>

Init ==
  /\ card = "bound" /\ holder = "none" /\ counted = FALSE
  /\ cpc = "start" /\ ret = 0
  /\ \E u \in Setups : /\ auto = u.auto /\ monitor = u.monitor /\ signal = u.signal
                        /\ level = u.start.level /\ offset = u.start.offset
                        /\ apc = IF u.leveladj THEN "start" ELSE "off"
  /\ client = "none" /\ stop = FALSE /\ intr = FALSE /\ left = 0
  /\ clevel = 16 /\ coffset = 2 /\ octl = NoCtl
  /\ lost = FALSE /\ ioError = FALSE /\ blind = FALSE
  /\ aret = 0 /\ alevel = 20 /\ best = -1 /\ visited = {}
  /\ heard = "fits" /\ disturbed = FALSE

Next == Capture \/ CapSignal \/ ClientLeaves \/ Adjust \/ Unbind \/ UnbindDone

(* Both programs are scheduled, and remove goes on once the opener closed. *)
Spec == Init /\ [][Next]_vars
FairSpec == Spec /\ WF_vars(Capture) /\ WF_vars(Adjust) /\ WF_vars(UnbindDone)

(***************************************************************************)
(* Properties.                                                             *)
(***************************************************************************)

(* Type correctness; in particular the controllers keep to the parameters' *)
(* ranges, which the driver does not check.                                *)
ToolsTypeOK ==
  /\ signal \in {u.signal : u \in Setups}
  /\ card \in {"bound", "leaving", "gone"}
  /\ holder \in {"none", "capture", "leveladj"}
  /\ counted \in BOOLEAN /\ level \in 0..31 /\ offset \in 0..255
  /\ cpc \in {"start", "params", "readback", "open", "test", "read", "copying",
              "poll", "write", "monitor", "adjust", "close", "report", "exit"}
  /\ monitor \in Monitors /\ client \in {"none", "here", "left", "reset"}
  /\ ret \in 0..3 /\ left \in 0..2
  /\ auto \in BOOLEAN /\ stop \in BOOLEAN /\ intr \in BOOLEAN
  /\ clevel \in 0..31 /\ coffset \in 0..255
  /\ octl.known \in BOOLEAN /\ octl.err \in Nat /\ octl.dir \in {-1, 1}
  /\ lost \in BOOLEAN /\ ioError \in BOOLEAN /\ blind \in BOOLEAN
  /\ apc \in {"off", "start", "set", "open", "read", "judge", "final", "done"}
  /\ aret \in {-1, 0} /\ alevel \in 0..31 /\ best \in -1..31
  /\ visited \subseteq 0..31 /\ heard \in DOMAIN LevelStep
  /\ disturbed \in BOOLEAN

(* The lossless output: before every read() the file has every unit of     *)
(* every block before, unless the program is on its way out with 1.        *)
FileComplete == cpc \in {"monitor", "test", "read", "copying", "close", "report"} /\ ret = 0 => left = 0

(* The exit code tells: 1 after any failed read or write, 3 after counted  *)
(* overruns and no failure, unless the count was reset or removed between  *)
(* the close and the readout.                                              *)
ExitCodeTells ==
  cpc = "exit" => /\ ioError => ret = 1
                  /\ lost /\ ~ioError /\ ~blind => ret = 3
                  /\ ret = 3 /\ ~blind => lost

(* leveladj on a steady signal that nobody else adjusts leaves the highest *)
(* level it has seen without clipping (0 if all clip).  Where no level fits*)
(* that is the highest level that does not clip at all.  Where one fits it *)
(* need not be: the search ends at the first level that fits, though the   *)
(* next may not clip either, which leveladj.c:6 does not tell.             *)
LevelSettles ==
  apc = "done" /\ aret = 0 /\ ~disturbed =>
    \/ level = 0 /\ Clips(Verdict(signal, 0))
    \/ /\ ~Clips(Verdict(signal, level))
       /\ \A l \in visited : ~Clips(Verdict(signal, l)) => l <= level
       /\ \/ Verdict(signal, level) = "fits"
          \/ \A l \in (level + 1)..31 : Clips(Verdict(signal, l))

(* Where the controller can find its way.  A step of the offset moves the  *)
(* error by no more than the dead band is wide, so that it cannot be jumped*)
(* over for ever; there is an offset that centres the signal; and a first  *)
(* step up that is the wrong way shows: at offset 255 it moves nothing, and*)
(* an error that is at its limit does not grow, so that it would go on up. *)
Steerable(s, o) ==
  /\ s.slope <= 2 * Deadband
  /\ 0 <= s.dc /\ s.dc <= 255 * s.slope
  /\ s.slope * o <= s.dc \/ (o < 255 /\ DcError(s, o) < 4096)

(* --auto_adjust centres a steady signal from every such start: the error  *)
(* goes under the dead band, if the capture lasts.                         *)
OffsetSettles ==
  auto /\ cpc = "test" /\ ~octl.known /\ Steerable(signal, offset) ~>
    cpc = "exit" \/ Centred(DcError(signal, offset))

(* A stop signal ends the capture, wherever it arrives.                    *)
StopEnds == stop ~> cpc = "exit"

(* A peer that has gone does not keep the place of the next one: its       *)
(* descriptor is closed, whatever the other outputs do.                    *)
MonitorReplaced == client \in {"left", "reset"} ~> client = "none" \/ cpc = "exit"

(* remove is not held up: the program that has the card open when it is    *)
(* unbound gets the error and closes.                                      *)
UnbindCompletes == card = "leaving" ~> card = "gone"
=============================================================================
