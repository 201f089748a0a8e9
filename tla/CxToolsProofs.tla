--------------------------- MODULE CxToolsProofs ---------------------------
(***************************************************************************)
(* Theorems about CxTools, for any setups, any level options and any start *)
(* of the card's parameters.                                               *)
(***************************************************************************)
EXTENDS CxTools, TLAPS

USE DEF cardVars, ctlVars, capVars, adjVars, CapSame, Exit, AdjDone, AdjLocal

(***************************************************************************)
(* Type correctness, in parts, so that a step cites those it touches.      *)
(***************************************************************************)
Verdicts == {"severe", "clips", "headroom", "fits"}

SignalOK == signal \in {u.signal : u \in Setups}
CardOK ==
  /\ card \in {"bound", "leaving", "gone"} /\ holder \in {"none", "capture", "leveladj"}
  /\ level \in 0..31 /\ offset \in 0..255
CaptureOK ==
  /\ cpc \in {"start", "params", "readback", "open", "test", "read", "copying",
              "poll", "write", "monitor", "adjust", "close", "report", "exit"}
  /\ monitor \in Monitors /\ client \in {"none", "here", "left", "reset"}
  /\ ret \in 0..3 /\ left \in 0..2
  /\ clevel \in 0..31 /\ coffset \in 0..255
FlagsOK ==
  /\ counted \in BOOLEAN /\ auto \in BOOLEAN /\ stop \in BOOLEAN /\ intr \in BOOLEAN
  /\ lost \in BOOLEAN /\ ioError \in BOOLEAN /\ blind \in BOOLEAN /\ disturbed \in BOOLEAN
CtlOK == octl.known \in BOOLEAN /\ octl.err \in Nat /\ octl.dir \in {-1, 1}
AdjustOK ==
  /\ apc \in {"off", "start", "set", "open", "read", "judge", "final", "done"}
  /\ aret \in {-1, 0} /\ alevel \in 0..31 /\ best \in -1..31
  /\ visited \subseteq 0..31 /\ heard \in Verdicts

TypeInv == SignalOK /\ CardOK /\ CaptureOK /\ FlagsOK /\ CtlOK /\ AdjustOK

LEMMA LevelSteps ==
  DOMAIN LevelStep = Verdicts /\ \A v \in Verdicts : LevelStep[v] \in {-2, -1, 0, 1}
BY DEF LevelStep, Verdicts

LEMMA TypeParts == ToolsTypeOK <=> TypeInv
BY LevelSteps DEF ToolsTypeOK, TypeInv, SignalOK, CardOK, CaptureOK,
      FlagsOK, CtlOK, AdjustOK

Offsets == 0..255
Slopes == 1..4096

LEMMA Ranges == Offsets \subseteq Int /\ Slopes \subseteq Int
BY DEF Offsets, Slopes

LEMMA SignalType ==
  ASSUME SignalOK
  PROVE  /\ signal.fill \in 0..32 /\ signal.clip \in 0..32 /\ signal.severe \in 0..33
         /\ signal.dc \in Int /\ signal.slope \in Int
         /\ signal.fill <= signal.clip /\ signal.clip <= signal.severe
<1>1. PICK u \in Setups : signal = u.signal
  BY DEF SignalOK
<1>2. u.signal \in Signal
  BY ToolsAssumption
<1>3. u.signal.fill <= u.signal.clip /\ u.signal.clip <= u.signal.severe
  BY ToolsAssumption
<1>4. signal.fill \in 0..32 /\ signal.clip \in 0..32 /\ signal.severe \in 0..33
  BY <1>1, <1>2 DEF Signal
<1>5. signal.dc \in Int /\ signal.slope \in Int
  <2>1. signal.dc \in Int /\ signal.slope \in Slopes
    BY <1>1, <1>2 DEF Signal, Slopes
  <2> QED BY <2>1, Ranges
<1> QED BY <1>1, <1>3, <1>4, <1>5

(***************************************************************************)
(* The controllers keep to their ranges.                                   *)
(***************************************************************************)
LEMMA VerdictType == ASSUME NEW s, NEW l PROVE Verdict(s, l) \in Verdicts
BY DEF Verdict, Verdicts

LEMMA SuggestType ==
  ASSUME NEW v \in Verdicts, NEW l \in 0..31
  PROVE  SuggestLevel(v, l) \in 0..31
BY LevelSteps DEF SuggestLevel, Clamp

LEMMA ErrorType == ASSUME SignalOK, CardOK PROVE DcError(signal, offset) \in Nat
<1>1. signal.slope \in Int /\ signal.dc \in Int /\ offset \in Int
  <2>1. offset \in Int
    BY DEF CardOK
  <2> QED BY <2>1, SignalType
<1> DEFINE fall == signal.slope * offset
<1>2. \A a, b \in Int : a * b \in Int
  OBVIOUS
<1> HIDE DEF fall
<1>3. fall \in Int
  BY <1>1, <1>2 DEF fall
<1>4. signal.dc - fall \in Int
  BY <1>1, <1>3
<1>5. \A away \in Int : LET size == IF away < 0 THEN -away ELSE away
                       IN  (IF size > 4096 THEN 4096 ELSE size) \in Nat
  OBVIOUS
<1> QED BY <1>4, <1>5 DEF DcError, fall

LEMMA OffsetType ==
  ASSUME CaptureOK, CtlOK, NEW err \in Nat
  PROVE  /\ OffsetStep(err) \in 0..255
         /\ OffsetCtl(err).known \in BOOLEAN /\ OffsetCtl(err).err \in Nat
         /\ OffsetCtl(err).dir \in {-1, 1}
<1>1. OffsetDir(err) \in {-1, 1}
  BY DEF OffsetDir, CtlOK
<1>2. OffsetSize(err) \in 1..8
  BY DEF OffsetSize
<1>3. OffsetDir(err) * OffsetSize(err) \in -8..8
  BY <1>1, <1>2
<1>4. coffset \in 0..255 /\ coffset + OffsetDir(err) * OffsetSize(err) \in Int
  BY <1>3 DEF CaptureOK
<1>5. OffsetStep(err) \in 0..255
  BY <1>4 DEF OffsetStep, Clamp
<1> QED BY <1>1, <1>5 DEF OffsetCtl, CtlOK

(***************************************************************************)
(* Every step keeps the types.                                             *)
(***************************************************************************)
LEMMA TypeInit == Init => TypeInv
<1> SUFFICES ASSUME Init PROVE TypeInv
  OBVIOUS
<1>1. SignalOK /\ auto \in BOOLEAN /\ monitor \in Monitors
  BY ToolsAssumption DEF Init, SignalOK
<1>2. level \in 0..31 /\ offset \in 0..255
  <2>1. PICK u \in Setups : level = u.start.level /\ offset = u.start.offset
    BY DEF Init
  <2>2. u.start \in Params
    BY ToolsAssumption
  <2> QED BY <2>1, <2>2 DEF Params
<1>3. CardOK
  BY <1>2 DEF Init, CardOK
<1>4. CaptureOK
  BY <1>1 DEF Init, CaptureOK
<1>5. FlagsOK
  BY <1>1 DEF Init, FlagsOK
<1>6. CtlOK
  BY DEF Init, CtlOK, NoCtl
<1>7. AdjustOK
  <2>1. apc \in {"off", "start"}
    BY DEF Init
  <2> QED BY <2>1 DEF Init, AdjustOK, Verdicts
<1> QED BY <1>1, <1>3, <1>4, <1>5, <1>6, <1>7 DEF TypeInv

(* The signal is steady.                                                   *)
LEMMA SignalSame == [Next]_vars => UNCHANGED signal
BY DEF Next, Capture, Adjust, vars, CapStart, CapParams, CapReadBack, CapOpen, CapTest,
       CapRead, CapData, ReadSame, CapPoll, CapWrite, CapMonitor, MonitorSame, CapAdjust, CapClose,
       CapReport, AdjStart, AdjSet, AdjOpen, AdjRead, AdjJudge, AdjFinal, CapSignal,
       ClientLeaves, Unbind, UnbindDone

LEMMA CardType == ASSUME TypeInv, [Next]_vars PROVE CardOK'
<1>1. CASE CapParams
  <2>1. level' \in 0..31
    BY <1>1, ToolsAssumption DEF CapParams, CardOK, TypeInv
  <2> QED BY <1>1, <2>1 DEF CapParams, CardOK, TypeInv
<1>2. CASE CapOpen
  BY <1>2 DEF CapOpen, NoCtl, CardOK, TypeInv
<1>3. CASE CapAdjust
  <2>1. SuggestLevel(Verdict(signal, level), clevel) \in 0..31
    BY VerdictType, SuggestType DEF CaptureOK, TypeInv
  <2>2. OffsetStep(DcError(signal, offset)) \in 0..255
    BY ErrorType, OffsetType DEF TypeInv
  <2>3. /\ level' \in {level, SuggestLevel(Verdict(signal, level), clevel)}
        /\ offset' \in {offset, OffsetStep(DcError(signal, offset))}
        /\ UNCHANGED <<card, holder>>
    BY <1>3 DEF CapAdjust
  <2> QED BY <2>1, <2>2, <2>3 DEF CardOK, TypeInv
<1>4. CASE CapClose
  BY <1>4 DEF CapClose, NoCtl, CardOK, TypeInv
<1>5. CASE AdjSet
  BY <1>5 DEF AdjSet, CardOK, AdjustOK, TypeInv
<1>6. CASE AdjOpen
  BY <1>6 DEF AdjOpen, CountReset, CardOK, TypeInv
<1>7. CASE AdjRead
  BY <1>7 DEF AdjRead, CardOK, TypeInv
<1>8. CASE AdjFinal
  BY <1>8 DEF AdjFinal, CardOK, AdjustOK, TypeInv
<1>9. CASE Unbind
  BY <1>9 DEF Unbind, CardOK, TypeInv
<1>10. CASE UnbindDone
  BY <1>10 DEF UnbindDone, CardOK, TypeInv
<1>11. CASE CapStart \/ CapReadBack \/ CapTest \/ CapRead \/ CapData \/ CapPoll \/ CapWrite \/
           CapMonitor \/ CapReport \/ AdjStart \/ AdjJudge \/ CapSignal \/
           ClientLeaves \/ UNCHANGED vars
  BY <1>11 DEF CapStart, CapReadBack, CapTest, CapRead, CapData, ReadSame, CapPoll, CapWrite,
         CapMonitor, MonitorSame, CapReport, AdjStart, AdjJudge, CapSignal,
         ClientLeaves, vars, CardOK, TypeInv
<1> QED BY <1>1, <1>2, <1>3, <1>4, <1>5, <1>6, <1>7, <1>8, <1>9, <1>10, <1>11 DEF
        Next, Capture, Adjust

LEMMA CaptureType == ASSUME TypeInv, [Next]_vars PROVE CaptureOK'
<1>1. CASE CapStart
  BY <1>1 DEF CapStart, CaptureOK, TypeInv
<1>2. CASE CapParams
  BY <1>2 DEF CapParams, CaptureOK, TypeInv
<1>3. CASE CapReadBack
  BY <1>3 DEF CapReadBack, CardOK, CaptureOK, TypeInv
<1>4. CASE CapOpen
  BY <1>4 DEF CapOpen, NoCtl, CaptureOK, TypeInv
<1>5. CASE CapTest
  BY <1>5 DEF CapTest, CaptureOK, TypeInv
<1>6. CASE CapRead \/ CapData
  BY <1>6 DEF CapRead, CapData, ReadSame, CaptureOK, TypeInv
<1>7. CASE CapPoll
  BY <1>7 DEF CapPoll, CaptureOK, TypeInv
<1>8. CASE CapWrite
  BY <1>8 DEF CapWrite, CaptureOK, TypeInv
<1>9. CASE CapMonitor
  BY <1>9 DEF CapMonitor, MonitorSame, CaptureOK, TypeInv
<1>10. CASE CapAdjust
  <2>1. SuggestLevel(Verdict(signal, level), clevel) \in 0..31
    BY VerdictType, SuggestType DEF CaptureOK, TypeInv
  <2>2. OffsetStep(DcError(signal, offset)) \in 0..255
    BY ErrorType, OffsetType DEF TypeInv
  <2>3. /\ clevel' \in {clevel, SuggestLevel(Verdict(signal, level), clevel)}
        /\ coffset' \in {coffset, OffsetStep(DcError(signal, offset))}
        /\ cpc' = "test" /\ UNCHANGED <<monitor, client, ret, left>>
    BY <1>10 DEF CapAdjust
  <2> QED BY <2>1, <2>2, <2>3 DEF CaptureOK, TypeInv
<1>11. CASE CapClose
  BY <1>11 DEF CapClose, NoCtl, CaptureOK, TypeInv
<1>12. CASE CapReport
  BY <1>12 DEF CapReport, CaptureOK, TypeInv
<1>13. CASE ClientLeaves
  BY <1>13 DEF ClientLeaves, CaptureOK, TypeInv
<1>14. CASE AdjStart \/ AdjSet \/ AdjOpen \/ AdjRead \/ AdjJudge \/ AdjFinal \/
           CapSignal \/ Unbind \/ UnbindDone \/ UNCHANGED vars
  BY <1>14 DEF AdjStart, AdjSet, AdjOpen, CountReset, AdjRead, AdjJudge, AdjFinal,
         CapSignal, Unbind, UnbindDone, vars, CaptureOK, TypeInv
<1> QED BY <1>1, <1>2, <1>3, <1>4, <1>5, <1>6, <1>7, <1>8, <1>9, <1>10, <1>11,
        <1>12, <1>13, <1>14 DEF Next, Capture, Adjust

LEMMA FlagsType == ASSUME TypeInv, [Next]_vars PROVE FlagsOK'
<1>1. CASE CapParams
  BY <1>1 DEF CapParams, FlagsOK, TypeInv
<1>2. CASE CapOpen
  BY <1>2 DEF CapOpen, NoCtl, FlagsOK, TypeInv
<1>3. CASE CapTest
  BY <1>3 DEF CapTest, FlagsOK, TypeInv
<1>4. CASE CapRead \/ CapData
  BY <1>4 DEF CapRead, CapData, ReadSame, FlagsOK, TypeInv
<1>5. CASE CapWrite
  BY <1>5 DEF CapWrite, FlagsOK, TypeInv
<1>6. CASE CapAdjust
  BY <1>6 DEF CapAdjust, FlagsOK, TypeInv
<1>7. CASE CapReport
  BY <1>7 DEF CapReport, FlagsOK, TypeInv
<1>8. CASE AdjStart
  BY <1>8 DEF AdjStart, FlagsOK, TypeInv
<1>9. CASE AdjOpen
  BY <1>9 DEF AdjOpen, CountReset, FlagsOK, TypeInv
<1>10. CASE AdjRead
  BY <1>10 DEF AdjRead, FlagsOK, TypeInv
<1>11. CASE CapSignal
  BY <1>11 DEF CapSignal, FlagsOK, TypeInv
<1>12. CASE CapStart \/ CapReadBack \/ CapPoll \/ CapMonitor \/ CapClose \/ AdjSet
           \/ AdjJudge \/ AdjFinal \/ ClientLeaves \/ Unbind \/ UnbindDone \/
           UNCHANGED vars
  BY <1>12 DEF CapStart, CapReadBack, CapPoll, CapMonitor, MonitorSame, CapClose,
         AdjSet, AdjJudge, AdjFinal, ClientLeaves, Unbind, UnbindDone, vars,
         FlagsOK, TypeInv
<1> QED BY <1>1, <1>2, <1>3, <1>4, <1>5, <1>6, <1>7, <1>8, <1>9, <1>10, <1>11,
        <1>12 DEF Next, Capture, Adjust

LEMMA CtlType == ASSUME TypeInv, [Next]_vars PROVE CtlOK'
<1>1. CASE CapOpen
  BY <1>1 DEF CapOpen, NoCtl, CtlOK, TypeInv
<1>2. CASE CapAdjust
  <2>1. octl' \in {octl, OffsetCtl(DcError(signal, offset))}
    BY <1>2 DEF CapAdjust
  <2> QED BY <2>1, ErrorType, OffsetType DEF CtlOK, TypeInv
<1>3. CASE CapClose
  BY <1>3 DEF CapClose, NoCtl, CtlOK, TypeInv
<1>4. CASE CapStart \/ CapParams \/ CapReadBack \/ CapTest \/ CapRead \/ CapData \/ CapPoll \/
           CapWrite \/ CapMonitor \/ CapReport \/ AdjStart \/ AdjSet \/ AdjOpen \/
           AdjRead \/ AdjJudge \/ AdjFinal \/ CapSignal \/ ClientLeaves \/ Unbind
           \/ UnbindDone \/ UNCHANGED vars
  BY <1>4 DEF CapStart, CapParams, CapReadBack, CapTest, CapRead, CapData, ReadSame, CapPoll,
         CapWrite, CapMonitor, MonitorSame, CapReport, AdjStart, AdjSet, AdjOpen,
         CountReset, AdjRead, AdjJudge, AdjFinal, CapSignal, ClientLeaves, Unbind,
         UnbindDone, vars, CtlOK, TypeInv
<1> QED BY <1>1, <1>2, <1>3, <1>4 DEF Next, Capture, Adjust

LEMMA AdjustType == ASSUME TypeInv, [Next]_vars PROVE AdjustOK'
<1>1. CASE AdjStart
  BY <1>1 DEF AdjStart, CardOK, AdjustOK, TypeInv
<1>2. CASE AdjSet
  BY <1>2 DEF AdjSet, AdjustOK, TypeInv
<1>3. CASE AdjOpen
  BY <1>3 DEF AdjOpen, CountReset, AdjustOK, TypeInv
<1>4. CASE AdjRead
  BY <1>4, VerdictType DEF AdjRead, AdjustOK, TypeInv
<1>5. CASE AdjJudge
  <2>1. SuggestLevel(heard, alevel) \in 0..31
    BY SuggestType DEF AdjustOK, TypeInv
  <2> QED BY <1>5, <2>1 DEF AdjJudge, AdjustOK, TypeInv
<1>6. CASE AdjFinal
  BY <1>6 DEF AdjFinal, AdjustOK, TypeInv
<1>7. CASE CapStart \/ CapParams \/ CapReadBack \/ CapOpen \/ CapTest \/ CapRead \/ CapData \/
           CapPoll \/ CapWrite \/ CapMonitor \/ CapAdjust \/ CapClose \/ CapReport
           \/ CapSignal \/ ClientLeaves \/ Unbind \/ UnbindDone \/ UNCHANGED vars
  BY <1>7 DEF CapStart, CapParams, CapReadBack, CapOpen, CapTest, CapRead, CapData, ReadSame, CapPoll,
         CapWrite, CapMonitor, MonitorSame, CapAdjust, CapClose, CapReport,
         CapSignal, ClientLeaves, Unbind, UnbindDone, vars, AdjustOK, TypeInv
<1> QED BY <1>1, <1>2, <1>3, <1>4, <1>5, <1>6, <1>7 DEF Next, Capture, Adjust

LEMMA TypeStep == TypeInv /\ [Next]_vars => TypeInv'
<1> SUFFICES ASSUME TypeInv, [Next]_vars PROVE TypeInv'
  OBVIOUS
<1>1. SignalOK'
  BY SignalSame DEF SignalOK, TypeInv
<1> QED BY <1>1, CardType, CaptureType, FlagsType, CtlType, AdjustType DEF TypeInv

(* Every value the tools keep is in its range; in particular the level and *)
(* the offset they write are legal, which the driver does not check        *)
(* (ToolsTypeOK).                                                          *)
THEOREM ToolsTypeCorrect == Spec => []ToolsTypeOK
<1>1. Spec => []TypeInv
  BY TypeInit, TypeStep, PTL DEF Spec
<1> QED BY <1>1, TypeParts, PTL

(***************************************************************************)
(* What the capture tells.  A program before its session has seen nothing; *)
(* during the session it alone moves the count; afterwards the count stays *)
(* what it was until another opener, which "blind" records, resets it.  The*)
(* exit code is the error seen so far until it is final.                   *)
(***************************************************************************)
Session == {"test", "read", "copying", "poll", "write", "monitor", "adjust", "close"}
Before  == {"start", "params", "readback", "open"}

BlockDone   == cpc \notin {"poll", "write", "exit"} /\ ret = 0 => left = 0
ErrorKept   == cpc # "exit" => (ioError => ret = 1) /\ (~ioError => ret = 0)
NothingSeen == cpc \in Before => ~lost /\ ~ioError
HolderIs    == /\ holder = "capture" <=> cpc \in Session
               /\ holder = "leveladj" <=> apc = "read"
CountIsMine ==
  /\ cpc \in Session => (counted <=> lost)
  /\ cpc = "report" /\ ~blind => (counted <=> lost) /\ holder # "leveladj"

OutcomeInv ==
  BlockDone /\ ErrorKept /\ NothingSeen /\ HolderIs /\ CountIsMine /\ ExitCodeTells

LEMMA OutcomeInit == Init => OutcomeInv
BY DEF Init, OutcomeInv, BlockDone, ErrorKept, NothingSeen, HolderIs, CountIsMine,
       ExitCodeTells, Session, Before

LEMMA OutcomeStep == TypeInv /\ OutcomeInv /\ [Next]_vars => OutcomeInv'
<1> SUFFICES ASSUME TypeInv, OutcomeInv, [Next]_vars PROVE OutcomeInv'
  OBVIOUS
<1> USE DEF OutcomeInv, BlockDone, ErrorKept, NothingSeen, HolderIs, CountIsMine,
            ExitCodeTells, Session, Before
<1>1. CASE CapStart
  BY <1>1 DEF CapStart
<1>2. CASE CapParams
  BY <1>2 DEF CapParams
<1>3. CASE CapReadBack
  BY <1>3 DEF CapReadBack
<1>4. CASE CapOpen
  BY <1>4 DEF CapOpen
<1>5. CASE CapTest
  BY <1>5 DEF CapTest
<1>6. CASE CapRead \/ CapData
  BY <1>6 DEF CapRead, CapData, ReadSame
<1>7. CASE CapPoll
  BY <1>7 DEF CapPoll
<1>8. CASE CapWrite
  BY <1>8 DEF CapWrite
<1>9. CASE CapMonitor
  BY <1>9 DEF CapMonitor, MonitorSame
<1>10. CASE CapAdjust
  BY <1>10 DEF CapAdjust
<1>11. CASE CapClose
  BY <1>11 DEF CapClose
<1>12. CASE CapReport
  <2>1. /\ cpc = "report" /\ cpc' = "exit"
        /\ ret' = IF card = "bound" /\ counted /\ ret = 0 THEN 3 ELSE ret
        /\ ~blind' => ~blind /\ card = "bound"
        /\ UNCHANGED <<lost, ioError, holder, apc>>
    BY <1>12 DEF CapReport
  <2>2. (ioError => ret = 1) /\ (~ioError => ret = 0) /\ (~blind => (counted <=> lost))
    BY <2>1
  <2>3. ioError' => ret' = 1
    BY <2>1, <2>2
  <2>4. ~blind' => (ret' = 3 <=> lost' /\ ~ioError')
    BY <2>1, <2>2
  <2> QED BY <2>1, <2>3, <2>4
<1>13. CASE AdjStart
  BY <1>13 DEF AdjStart
<1>14. CASE AdjSet
  BY <1>14 DEF AdjSet
<1>15. CASE AdjOpen
  <2>1. CASE holder = "none" /\ holder' = "leveladj"
    <3>1. /\ apc' = "read" /\ UNCHANGED <<cpc, ret, left, lost, ioError>>
          /\ (blind => blind') /\ (cpc = "report" => blind')
      BY <1>15, <2>1 DEF AdjOpen, CountReset
    <3>2. cpc \notin Session
      BY <2>1
    <3>3. HolderIs'
      BY <2>1, <3>1, <3>2
    <3>4. CountIsMine'
      BY <3>1, <3>2
    <3>5. BlockDone' /\ ErrorKept' /\ NothingSeen' /\ ExitCodeTells'
      BY <3>1
    <3> QED BY <3>3, <3>4, <3>5
  <2>2. CASE ~(holder = "none" /\ holder' = "leveladj")
    BY <1>15, <2>2 DEF AdjOpen, CountReset
  <2> QED BY <2>1, <2>2
<1>16. CASE AdjRead
  BY <1>16 DEF AdjRead
<1>17. CASE AdjJudge
  BY <1>17 DEF AdjJudge
<1>18. CASE AdjFinal
  BY <1>18 DEF AdjFinal
<1>19. CASE CapSignal
  BY <1>19 DEF CapSignal
<1>20. CASE ClientLeaves
  BY <1>20 DEF ClientLeaves
<1>21. CASE Unbind
  BY <1>21 DEF Unbind
<1>22. CASE UnbindDone
  BY <1>22 DEF UnbindDone
<1>23. CASE UNCHANGED vars
  BY <1>23 DEF vars
<1> QED BY <1>1, <1>2, <1>3, <1>4, <1>5, <1>6, <1>7, <1>8, <1>9, <1>10, <1>11, <1>12,
           <1>13, <1>14, <1>15, <1>16, <1>17, <1>18, <1>19, <1>20, <1>21, <1>22, <1>23
        DEF Next, Capture, Adjust

LEMMA OutcomeAlways == Spec => []OutcomeInv
<1>1. Init => TypeInv /\ OutcomeInv
  BY TypeInit, OutcomeInit
<1>2. (TypeInv /\ OutcomeInv) /\ [Next]_vars => (TypeInv /\ OutcomeInv)'
  BY TypeStep, OutcomeStep
<1> QED BY <1>1, <1>2, PTL DEF Spec

(* Before every read() of cx-capture its lossless output has all of every  *)
(* block before, or the program ends with 1 (FileComplete).                *)
THEOREM FileIsComplete == Spec => []FileComplete
<1>1. OutcomeInv => FileComplete
  BY DEF OutcomeInv, BlockDone, FileComplete
<1> QED BY <1>1, OutcomeAlways, PTL

(* cx-capture exits with 1 after any failed read or write, with 3 after    *)
(* overruns alone, and not with 3 without any, as far as the count is still*)
(* its own when it reads it (ExitCodeTells).                               *)
THEOREM ExitCodeIsTrue == Spec => []ExitCodeTells
<1>1. OutcomeInv => ExitCodeTells
  BY DEF OutcomeInv
<1> QED BY <1>1, OutcomeAlways, PTL

(***************************************************************************)
(* The search of leveladj.  A level that under-fills the range leads to the*)
(* next one up, so above the best level tried is one that clips, the limit,*)
(* or nothing to gain; while every level has clipped the search goes down, *)
(* so that it ends at 0.                                                   *)
(***************************************************************************)
SearchPcs == {"set", "open", "read", "judge", "final"}
At(l) == Verdict(signal, l)

BestIsBest ==
  /\ best # -1 => best \in visited /\ ~Clips(At(best))
  /\ \A l \in visited : ~Clips(At(l)) => l <= best
Upwards ==
  \A l \in visited : At(l) = "headroom" =>
    \/ l = 31
    \/ l + 1 \in visited
    \/ apc # "final" /\ l + 1 = alevel
Downwards == best = -1 => \A l \in visited : alevel <= l
Tried ==
  /\ apc # "set" => level = alevel
  /\ apc = "judge" => heard = At(alevel)
  /\ apc = "final" => alevel \in visited /\ (best = -1 => alevel = 0)

SearchInv ==
  /\ apc = "start" => visited = {} /\ best = -1
  /\ apc \in SearchPcs /\ ~disturbed => BestIsBest /\ Upwards /\ Downwards /\ Tried
  /\ LevelSettles

(* What the verdicts mean, and where they lead.                            *)
LEMMA VerdictMeans ==
  ASSUME SignalOK, NEW l \in 0..31
  PROVE  /\ Clips(At(l)) <=> l >= signal.clip
         /\ At(l) = "headroom" <=> l < signal.fill
         /\ ~Clips(At(l)) => At(l) \in {"headroom", "fits"}
         /\ At(l) = "headroom" => ~Clips(At(l))
BY SignalType DEF At, Verdict, Clips

LEMMA SuggestMeans ==
  ASSUME NEW v \in Verdicts, NEW l \in 0..31
  PROVE  /\ v = "headroom" => SuggestLevel(v, l) = IF l = 31 THEN 31 ELSE l + 1
         /\ Clips(v) => SuggestLevel(v, l) <= l /\ (l # 0 => SuggestLevel(v, l) # l)
BY LevelSteps DEF SuggestLevel, LevelStep, Clamp, Clips

LEMMA SearchInit == Init => SearchInv
BY DEF Init, SearchInv, SearchPcs, LevelSettles

(* At the end of a search the best level is the highest one seen without   *)
(* clipping, and if it does not fit, every level above it clips.           *)
NoneAbove(l) == At(l) = "fits" \/ \A m \in (l + 1)..31 : Clips(At(m))

LEMMA BestSettles ==
  ASSUME TypeInv, BestIsBest, Upwards, Tried, apc = "final"
  PROVE  IF best = -1 THEN level = 0 /\ Clips(At(0))
         ELSE /\ ~Clips(At(best)) /\ NoneAbove(best)
              /\ \A l \in visited : ~Clips(At(l)) => l <= best
<1>1. visited \subseteq 0..31 /\ best \in -1..31 /\ SignalOK
  BY DEF TypeInv, AdjustOK
<1>2. CASE best = -1
  <2>1. level = 0 /\ 0 \in visited
    BY <1>2 DEF Tried
  <2>2. Clips(At(0))
    BY <1>2, <2>1 DEF BestIsBest
  <2> QED BY <1>2, <2>1, <2>2
<1>3. CASE best # -1
  <2>1. best \in visited /\ ~Clips(At(best)) /\ best \in 0..31
    BY <1>1, <1>3 DEF BestIsBest
  <2>2. At(best) \in {"headroom", "fits"}
    BY <1>1, <2>1, VerdictMeans
  <2>3. ASSUME At(best) = "headroom", best # 31 PROVE Clips(At(best + 1))
    <3>1. best + 1 \in visited
      BY <2>1, <2>3 DEF Upwards
    <3>2. ~(best + 1 <= best)
      BY <2>1
    <3> QED BY <3>1, <3>2 DEF BestIsBest
  <2>4. NoneAbove(best)
    <3> SUFFICES ASSUME At(best) = "headroom", NEW m \in (best + 1)..31
                 PROVE  Clips(At(m))
      BY <2>2 DEF NoneAbove
    <3>1. best # 31 /\ best + 1 \in 0..31 /\ m \in 0..31 /\ m >= best + 1
      BY <2>1
    <3>2. best + 1 >= signal.clip /\ signal.clip \in 0..32
      BY <1>1, <2>3, <3>1, VerdictMeans, SignalType
    <3>3. m >= signal.clip
      BY <3>1, <3>2
    <3> QED BY <1>1, <3>1, <3>3, VerdictMeans
  <2> QED BY <1>3, <2>1, <2>4 DEF BestIsBest
<1> QED BY <1>2, <1>3

(* A step that leaves the search and the signal alone, and disturbs it if  *)
(* it writes the level.                                                    *)
LEMMA SearchAside ==
  ASSUME SearchInv, UNCHANGED <<signal, apc, aret, alevel, best, visited, heard>>,
         disturbed => disturbed', level' # level => disturbed'
  PROVE  SearchInv'
BY DEF SearchInv, BestIsBest, Upwards, Downwards, Tried, LevelSettles, SearchPcs, At

LEMMA SearchStep == TypeInv /\ SearchInv /\ [Next]_vars => SearchInv'
<1> SUFFICES ASSUME TypeInv, SearchInv, [Next]_vars PROVE SearchInv'
  OBVIOUS
<1>1. CASE Capture
  <2>1. UNCHANGED <<signal, apc, aret, alevel, best, visited, heard>>
    BY <1>1 DEF Capture, CapStart, CapParams, CapReadBack, CapOpen, CapTest, CapRead, CapData, ReadSame,
         CapPoll, CapWrite, CapMonitor, MonitorSame, CapAdjust, CapClose, CapReport
  <2>2. (disturbed => disturbed') /\ (level' # level => disturbed')
    <3> disturbed \in BOOLEAN
      BY DEF TypeInv, FlagsOK
    <3>1. CASE CapParams
      BY <3>1 DEF CapParams
    <3>2. CASE CapAdjust
      <4> DEFINE nl == SuggestLevel(Verdict(signal, level), clevel)
      <4>1. \/ UNCHANGED <<level, disturbed>>
            \/ /\ level' = (IF nl # clevel THEN nl ELSE level)
               /\ disturbed' = (disturbed \/ nl # clevel)
        BY <3>2 DEF CapAdjust
      <4> HIDE DEF nl
      <4> QED BY <4>1
    <3>3. CASE ~CapParams /\ ~CapAdjust
      BY <1>1, <3>3 DEF Capture, CapStart, CapReadBack, CapOpen, CapTest, CapRead, CapData, ReadSame,
         CapPoll,
           CapWrite, CapMonitor, MonitorSame, CapClose, CapReport
    <3> QED BY <3>1, <3>2, <3>3
  <2> QED BY <2>1, <2>2, SearchAside
<1>2. CASE CapSignal \/ ClientLeaves \/ Unbind \/ UnbindDone \/ UNCHANGED vars
  BY <1>2, SearchAside DEF CapSignal, ClientLeaves, Unbind, UnbindDone, vars
<1>3. CASE AdjStart
  BY <1>3 DEF AdjStart, SearchInv, BestIsBest, Upwards, Downwards, Tried, LevelSettles,
              SearchPcs, At
<1>4. CASE AdjSet
  BY <1>4 DEF AdjSet, SearchInv, BestIsBest, Upwards, Downwards, Tried, LevelSettles,
              SearchPcs, At
<1>5. CASE AdjOpen
  BY <1>5 DEF AdjOpen, SearchInv, BestIsBest, Upwards, Downwards, Tried, LevelSettles,
              SearchPcs, At
<1>6. CASE AdjRead
  <2>1. /\ apc = "read" /\ UNCHANGED <<signal, level, alevel, best, visited, disturbed>>
        /\ \/ apc' = "judge" /\ heard' = At(level)
           \/ apc' = "done" /\ aret' = -1
    BY <1>6 DEF AdjRead, At
  <2>2. \A l : At(l)' = At(l)
    BY <2>1 DEF At
  <2>3. ASSUME ~disturbed 
               PROVE  BestIsBest' /\ Upwards' /\ Downwards' /\ (apc' = "judge" => Tried')
    <3>1. BestIsBest /\ Upwards /\ Downwards /\ level = alevel
      BY <2>1, <2>3 DEF SearchInv, SearchPcs, Tried
    <3>2. BestIsBest' /\ Upwards' /\ Downwards'
      BY <2>1, <2>2, <3>1 DEF BestIsBest, Upwards, Downwards
    <3>3. apc' = "judge" => Tried'
      BY <2>1, <2>2, <3>1 DEF Tried
    <3> QED BY <3>2, <3>3
  <2> QED BY <2>1, <2>3 DEF SearchInv, SearchPcs, LevelSettles
<1>7. CASE AdjJudge
  <2> SUFFICES ASSUME ~disturbed
               PROVE  BestIsBest' /\ Upwards' /\ Downwards' /\ Tried'
    BY <1>7 DEF AdjJudge, SearchInv, SearchPcs, LevelSettles
  <2> DEFINE next == SuggestLevel(heard, alevel)
  <2>1. /\ BestIsBest /\ Upwards /\ Downwards /\ level = alevel
        /\ heard = At(alevel) /\ apc = "judge"
    BY <1>7 DEF AdjJudge, SearchInv, SearchPcs, Tried
  <2>2. /\ visited \subseteq 0..31 /\ alevel \in 0..31 /\ best \in -1..31
        /\ heard \in Verdicts /\ SignalOK
    BY DEF TypeInv, AdjustOK
  <2>3. /\ UNCHANGED <<signal, level, heard>>
        /\ visited' = visited \cup {alevel}
        /\ best' = IF ~Clips(heard) /\ alevel > best THEN alevel ELSE best
        /\ next \in visited' => apc' = "final" /\ alevel' = alevel
        /\ next \notin visited' => apc' = "set" /\ alevel' = next
    BY <1>7 DEF AdjJudge
  <2>4. /\ next \in 0..31
        /\ heard = "headroom" => next = IF alevel = 31 THEN 31 ELSE alevel + 1
        /\ Clips(heard) => next <= alevel /\ (alevel # 0 => next # alevel)
    BY <2>2, SuggestType, SuggestMeans
  <2> HIDE DEF next
  <2>5. \A l : At(l)' = At(l)
    BY <2>3 DEF At
  <2>6. BestIsBest'
    BY <2>1, <2>2, <2>3, <2>5 DEF BestIsBest
  <2>7. Upwards'
    <3>1. ASSUME NEW l \in visited', At(l) = "headroom", l # 31, l + 1 \notin visited'
          PROVE  apc' # "final" /\ l + 1 = alevel'
      <4>1. l \notin visited
        BY <2>1, <2>3, <3>1 DEF Upwards
      <4>2. l = alevel /\ next = alevel + 1
        BY <2>1, <2>3, <2>4, <3>1, <4>1
      <4> QED BY <2>3, <3>1, <4>2
    <3> QED BY <2>3, <3>1 DEF Upwards, At
  <2>8. Downwards'
    <3> SUFFICES ASSUME best' = -1, NEW l \in visited' PROVE alevel' <= l
      BY DEF Downwards
    <3>1. best = -1 /\ Clips(heard)
      BY <2>2, <2>3
    <3>2. alevel <= l /\ l \in 0..31
      BY <2>1, <2>2, <2>3, <3>1 DEF Downwards
    <3>3. alevel' \in 0..31 /\ alevel' <= alevel
      BY <2>2, <2>3, <2>4, <3>1
    <3> QED BY <2>2, <3>2, <3>3
  <2>9. Tried'
    <3>1. apc' # "set" => level' = alevel'
      BY <2>1, <2>3
    <3>2. apc' # "judge"
      BY <2>3
    <3>3. apc' = "final" => alevel' \in visited'
      BY <2>3
    <3>4. ASSUME apc' = "final", best' = -1 PROVE alevel' = 0
      <4>1. best = -1 /\ Clips(heard) /\ next \in visited' /\ alevel' = alevel
        BY <2>2, <2>3, <3>4
      <4>2. alevel <= next
        BY <2>1, <2>2, <2>3, <4>1 DEF Downwards
      <4> QED BY <2>2, <2>4, <4>1, <4>2
    <3> QED BY <3>1, <3>2, <3>3, <3>4 DEF Tried
  <2> QED BY <2>6, <2>7, <2>8, <2>9
<1>8. CASE AdjFinal
  <2>1. ASSUME ~disturbed', aret' = 0 PROVE LevelSettles'
    <3>1. apc = "final" /\ BestIsBest /\ Upwards /\ Tried
      BY <1>8, <2>1 DEF AdjFinal, SearchInv, SearchPcs
    <3>2. IF best = -1 THEN level = 0 /\ Clips(At(0))
          ELSE /\ ~Clips(At(best)) /\ NoneAbove(best)
               /\ \A l \in visited : ~Clips(At(l)) => l <= best
      BY <3>1, BestSettles
    <3>3. best # -1 => level' = best
      BY <1>8, <2>1, <3>1 DEF AdjFinal, Tried, TypeInv, AdjustOK
    <3>4. best = -1 => level' = level
      BY <1>8, <2>1 DEF AdjFinal
    <3>5. visited' = visited /\ \A l : At(l) = Verdict(signal', l)
      BY <1>8 DEF AdjFinal, At
    <3> QED BY <3>2, <3>3, <3>4, <3>5 DEF LevelSettles, NoneAbove
  <2>2. apc' = "done" /\ (aret' = 0 \/ aret' # 0)
    BY <1>8 DEF AdjFinal
  <2> QED BY <2>1, <2>2 DEF SearchInv, SearchPcs, LevelSettles
<1> QED BY <1>1, <1>2, <1>3, <1>4, <1>5, <1>6, <1>7, <1>8 DEF Next, Adjust

(* leveladj leaves an undisturbed card at the highest level it has seen    *)
(* without clipping, which is the highest one there is unless it fits, or  *)
(* at 0 when every level clips (LevelSettles).                             *)
THEOREM SearchSettles == Spec => []LevelSettles
<1>1. Init => TypeInv /\ SearchInv
  BY TypeInit, SearchInit
<1>2. (TypeInv /\ SearchInv) /\ [Next]_vars => (TypeInv /\ SearchInv)'
  BY TypeStep, SearchStep
<1>3. SearchInv => LevelSettles
  BY DEF SearchInv
<1> QED BY <1>1, <1>2, <1>3, PTL DEF Spec

=============================================================================
