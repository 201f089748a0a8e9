------------------------- MODULE ClockgenAdcProofs -------------------------
(***************************************************************************)
(* Theorems about ClockgenAdc, for any set of card outputs, any requests,  *)
(* any depth of the PIO's queue, any buffer size and number of attempts,   *)
(* and any number of failed transfers and restarts.                        *)
(***************************************************************************)
EXTENDS ClockgenAdc, TLAPS

(* A step of the whole leaves core 0's clocks alone or is one of theirs,   *)
(* and so for the receiver.                                                *)
LEMMA ClockSteps ==
  [Next]_vars => ClockBoot \/ ClockRequest \/ ClockReboot \/ UNCHANGED clockVars
BY DEF Next, Boot, Request, Mute, Reboot, Receive, Fill, vars

LEMMA PcmSteps ==
  [Next]_vars =>
    \/ SetMode \/ PcmReboot \/ Push \/ LookAtMode \/ TakeLeft \/ TakeRight
    \/ Printed \/ PutFilled \/ RightTimeout \/ LeftTimeout \/ UNCHANGED pcmVars
BY DEF Next, Boot, Request, Mute, Reboot, Receive, Fill, vars, Pio, Core1

(***************************************************************************)
(* The receiver: types.  A buffer that is being filled has room.           *)
(***************************************************************************)
Words == [ch : {"L", "R"}, hole : BOOLEAN]

PcmInv ==
  /\ PcmTypeOK
  /\ pc1 \in {"left", "right", "print"} => filled < Frames

LEMMA WordType ==
  /\ Word("R", FALSE) \in Words
  /\ PcmTypeOK => Word(channel, gap) \in Words
BY DEF Word, Words, PcmTypeOK

LEMMA QueueFacts ==
  ASSUME NEW S, NEW q \in Seq(S)
  PROVE  /\ <<>> \in Seq(S) /\ Len(q) \in Nat /\ (q = <<>> <=> Len(q) = 0)
         /\ q # <<>> =>
              /\ Head(q) \in S /\ Head(q) = q[1]
              /\ Tail(q) \in Seq(S) /\ Len(Tail(q)) = Len(q) - 1 /\ Len(q) \in Nat \ {0}
              /\ \A i \in 1 .. Len(q) - 1 : Tail(q)[i] = q[i + 1]
OBVIOUS

LEMMA NoWords == <<>> \in Seq(Words) /\ Len(<<>>) = 0
BY QueueFacts

LEMMA TakeWord ==
  ASSUME PcmTypeOK, rxfifo # <<>>
  PROVE  /\ Head(rxfifo) \in Words /\ Head(rxfifo) = rxfifo[1]
         /\ Tail(rxfifo) \in Seq(Words)
         /\ Len(Tail(rxfifo)) = Len(rxfifo) - 1 /\ Len(rxfifo) \in Nat \ {0}
         /\ \A i \in 1 .. Len(rxfifo) - 1 : Tail(rxfifo)[i] = rxfifo[i + 1]
<1>1. rxfifo \in Seq(Words)
  BY DEF PcmTypeOK, Words
<1> QED BY <1>1, QueueFacts

LEMMA PushWord ==
  ASSUME PcmTypeOK
  PROVE  LET q == Append(rxfifo, Word(channel, gap))
         IN  /\ q \in Seq(Words) /\ Len(q) = Len(rxfifo) + 1 /\ Len(rxfifo) \in Nat
             /\ \A i \in 1 .. Len(rxfifo) : q[i] = rxfifo[i]
             /\ q[Len(rxfifo) + 1] = Word(channel, gap)
BY WordType DEF PcmTypeOK, Words

LEMMA PcmTypeInit == PcmInit => PcmInv
<1> SUFFICES ASSUME PcmInit PROVE PcmInv
  OBVIOUS
<1>1. rxfifo \in Seq(Words) /\ Len(rxfifo) <= Depth
  BY NoWords, PcmAssumption DEF PcmInit
<1>2. filled \in 0 .. Frames /\ tries \in 0 .. Tries - 1
  BY PcmAssumption DEF PcmInit
<1>3. right \in Words
  BY WordType DEF PcmInit
<1> QED BY <1>1, <1>2, <1>3 DEF PcmInit, PcmInv, PcmTypeOK, Words

LEMMA PcmTypeStep == PcmInv /\ [Next]_vars => PcmInv'
<1> SUFFICES ASSUME PcmInv, [Next]_vars PROVE PcmInv'
  OBVIOUS
<1> USE DEF core1Same
<1>1. CASE Push
  <2>1. /\ UNCHANGED <<pc1, mode, filled, tries, right>>
        /\ channel' = Other(channel) /\ gap' \in BOOLEAN
    BY <1>1 DEF Push
  <2>2. rxfifo' \in Seq(Words) /\ Len(rxfifo') <= Depth
    <3>1. CASE Len(rxfifo) < Depth
      BY <1>1, <3>1, PushWord, PcmAssumption DEF Push, PcmInv, PcmTypeOK
    <3>2. CASE ~(Len(rxfifo) < Depth)
      BY <1>1, <3>2 DEF Push, PcmInv, PcmTypeOK, Words
    <3> QED BY <3>1, <3>2
  <2> QED BY <2>1, <2>2 DEF PcmInv, PcmTypeOK, Words, Other
<1>2. ASSUME TryFailed PROVE pc1' \in {"print", "mode"} /\ tries' \in 0 .. Tries - 1
  BY <1>2, PcmAssumption DEF TryFailed, PcmInv, PcmTypeOK
<1>3. ASSUME rxfifo # <<>>, rxfifo' = Tail(rxfifo)
      PROVE  rxfifo' \in Seq(Words) /\ Len(rxfifo') <= Depth
  BY <1>3, TakeWord, PcmAssumption DEF PcmInv, PcmTypeOK
<1>4. CASE TakeLeft
  <2>1. /\ pc1 = "left" /\ pc1' \in {"right", "print", "mode"}
        /\ tries' \in 0 .. Tries - 1 /\ UNCHANGED <<channel, gap, mode, filled, right>>
    BY <1>2, <1>4 DEF TakeLeft, PcmInv, PcmTypeOK
  <2>2. rxfifo' \in Seq(Words) /\ Len(rxfifo') <= Depth
    BY <1>3, <1>4 DEF TakeLeft
  <2> QED BY <2>1, <2>2 DEF PcmInv, PcmTypeOK, Words
<1>5. CASE TakeRight
  <2>1. /\ pc1 = "right" /\ filled' = filled + 1 /\ tries' = 0
        /\ pc1' = IF filled' = Frames THEN "put" ELSE "left"
        /\ right' \in Words /\ UNCHANGED <<channel, gap, mode>>
    BY <1>5, TakeWord DEF TakeRight, PcmInv
  <2>2. rxfifo' \in Seq(Words) /\ Len(rxfifo') <= Depth
    BY <1>3, <1>5 DEF TakeRight
  <2>3. filled' \in 0 .. Frames /\ (pc1' = "left" => filled' < Frames)
    BY <2>1, PcmAssumption DEF PcmInv, PcmTypeOK
  <2>4. tries' \in 0 .. Tries - 1
    BY <2>1, PcmAssumption
  <2> QED BY <2>1, <2>2, <2>3, <2>4 DEF PcmInv, PcmTypeOK, Words
<1>6. CASE RightTimeout
  BY <1>2, <1>6 DEF RightTimeout, PcmInv, PcmTypeOK
<1>7. CASE LeftTimeout \/ LookAtMode \/ PcmReboot
  <2>1. 0 \in 0 .. Frames /\ 0 \in 0 .. Tries - 1 /\ Len(<<>>) <= Depth
    BY NoWords, PcmAssumption
  <2>2. CASE LeftTimeout
    BY <2>1, <2>2 DEF LeftTimeout, PcmInv, PcmTypeOK
  <2>3. CASE LookAtMode
    <3>1. right' \in [ch : {"L", "R"}, hole : BOOLEAN]
      BY <2>3, WordType DEF LookAtMode, Words
    <3>2. /\ pc1' \in {"left", "put"} /\ filled' = 0 /\ tries' = 0
          /\ UNCHANGED <<channel, rxfifo, gap, mode>>
      BY <2>3 DEF LookAtMode
    <3>3. 0 < Frames
      BY PcmAssumption
    <3> QED BY <2>1, <3>1, <3>2, <3>3 DEF PcmInv, PcmTypeOK
  <2>4. CASE PcmReboot
    <3>1. rxfifo' \in Seq(Words) /\ Len(rxfifo') <= Depth /\ right' \in Words
      BY <2>1, <2>4, NoWords, WordType DEF PcmReboot
    <3> QED BY <2>1, <2>4, <3>1 DEF PcmReboot, PcmInv, PcmTypeOK, Words
  <2> QED BY <1>7, <2>2, <2>3, <2>4
<1>8. CASE Printed \/ PutFilled \/ SetMode \/ UNCHANGED pcmVars
  BY <1>8 DEF Printed, PutFilled, SetMode, pcmVars, PcmInv, PcmTypeOK
<1> QED BY <1>1, <1>4, <1>5, <1>6, <1>7, <1>8, PcmSteps

(***************************************************************************)
(* The receiver: channels.  In the queue, and from its end to the PIO's    *)
(* next word, the channels alternate except where words were dropped; while*)
(* core 1 waits for a right word, the next word there is follows a left one.*)
(***************************************************************************)
Follows(a, b) == b.hole \/ b.ch = Other(a.ch)

NextWord == IF rxfifo = <<>> THEN Word(channel, gap) ELSE rxfifo[1]

InTurn ==
  /\ \A i \in 1 .. Len(rxfifo) - 1 : Follows(rxfifo[i], rxfifo[i + 1])
  /\ rxfifo # <<>> => Follows(rxfifo[Len(rxfifo)], Word(channel, gap))
  /\ pc1 = "right" => NextWord.hole \/ NextWord.ch = "R"
  /\ SwapNeedsLoss

LEMMA InTurnInit == PcmInit => InTurn
BY DEF PcmInit, InTurn, SwapNeedsLoss, Word

(* A word taken leaves the rest in turn, and the next one follows it.      *)
LEMMA TurnTaken ==
  ASSUME PcmInv, InTurn, rxfifo # <<>>, rxfifo' = Tail(rxfifo), UNCHANGED <<channel, gap>>
  PROVE  /\ \A i \in 1 .. Len(rxfifo') - 1 : Follows(rxfifo'[i], rxfifo'[i + 1])
         /\ rxfifo' # <<>> => Follows(rxfifo'[Len(rxfifo')], Word(channel', gap'))
         /\ Follows(Head(rxfifo), NextWord')
<1>1. /\ Len(rxfifo) \in Nat \ {0} /\ Len(rxfifo') = Len(rxfifo) - 1
      /\ \A i \in 1 .. Len(rxfifo) - 1 : rxfifo'[i] = rxfifo[i + 1]
      /\ rxfifo' \in Seq(Words) /\ Head(rxfifo) = rxfifo[1]
  BY TakeWord DEF PcmInv
<1>2. \A i \in 1 .. Len(rxfifo') - 1 : Follows(rxfifo'[i], rxfifo'[i + 1])
  <2> SUFFICES ASSUME NEW i \in 1 .. Len(rxfifo') - 1
               PROVE  Follows(rxfifo'[i], rxfifo'[i + 1])
    OBVIOUS
  <2>1. i + 1 \in 1 .. Len(rxfifo) - 1 /\ i \in 1 .. Len(rxfifo) - 1
    BY <1>1
  <2> QED BY <1>1, <2>1 DEF InTurn
<1>3. CASE Len(rxfifo) = 1
  <2>1. rxfifo' = <<>>
    BY <1>1, <1>3, QueueFacts
  <2> QED BY <1>1, <1>2, <1>3, <2>1 DEF InTurn, NextWord
<1>4. CASE Len(rxfifo) # 1
  <2>1. Len(rxfifo') \in 1 .. Len(rxfifo) - 1 /\ 1 \in 1 .. Len(rxfifo) - 1
    BY <1>1, <1>4
  <2>3. rxfifo' # <<>>
    BY <1>1, <2>1, QueueFacts
  <2>2. rxfifo'[Len(rxfifo')] = rxfifo[Len(rxfifo)] /\ rxfifo'[1] = rxfifo[1 + 1]
    BY <1>1, <2>1
  <2> QED BY <1>1, <1>2, <2>1, <2>2, <2>3 DEF InTurn, NextWord
<1> QED BY <1>3, <1>4

LEMMA InTurnStep == PcmInv /\ InTurn /\ [Next]_vars => InTurn'
<1> SUFFICES ASSUME PcmInv, InTurn, [Next]_vars PROVE InTurn'
  OBVIOUS
<1> USE DEF core1Same
<1>1. CASE Push
  <2>1. channel \in {"L", "R"} /\ UNCHANGED <<pc1, right>> /\ channel' = Other(channel)
    BY <1>1 DEF Push, PcmInv, PcmTypeOK
  <2>2. CASE Len(rxfifo) < Depth
    <3>1. /\ rxfifo' = Append(rxfifo, Word(channel, gap)) /\ gap' = FALSE
      BY <1>1, <2>2 DEF Push
    <3>2. /\ Len(rxfifo) \in Nat /\ Len(rxfifo') = Len(rxfifo) + 1
          /\ \A i \in 1 .. Len(rxfifo) : rxfifo'[i] = rxfifo[i]
          /\ rxfifo'[Len(rxfifo) + 1] = Word(channel, gap)
          /\ rxfifo \in Seq(Words) /\ rxfifo' \in Seq(Words)
      BY <3>1, PushWord DEF PcmInv, PcmTypeOK, Words
    <3>3. \A i \in 1 .. Len(rxfifo') - 1 : Follows(rxfifo'[i], rxfifo'[i + 1])
      <4> SUFFICES ASSUME NEW i \in 1 .. Len(rxfifo)
                   PROVE  Follows(rxfifo'[i], rxfifo'[i + 1])
        BY <3>2
      <4>1. CASE i = Len(rxfifo)
        <5>1. rxfifo # <<>>
          BY <3>2, <4>1
        <5> QED BY <3>2, <4>1, <5>1 DEF InTurn
      <4>2. CASE i # Len(rxfifo)
        <5>1. i + 1 \in 1 .. Len(rxfifo) /\ i \in 1 .. Len(rxfifo) - 1
          BY <3>2, <4>2
        <5> QED BY <3>2, <5>1 DEF InTurn
      <4> QED BY <4>1, <4>2
    <3>4. Follows(rxfifo'[Len(rxfifo')], Word(channel', gap'))
      BY <2>1, <3>2 DEF Follows, Word, Other
    <3>5. NextWord' = NextWord
      <4>1. rxfifo' # <<>> /\ (rxfifo = <<>> <=> Len(rxfifo) = 0)
        BY <3>2
      <4> QED BY <3>2, <4>1 DEF NextWord
    <3> QED BY <2>1, <3>3, <3>4, <3>5 DEF InTurn, SwapNeedsLoss
  <2>3. CASE ~(Len(rxfifo) < Depth)
    <3>1. gap' = TRUE /\ UNCHANGED rxfifo
      BY <1>1, <2>3 DEF Push
    <3>2. rxfifo # <<>>
      BY <2>3, PcmAssumption DEF PcmInv, PcmTypeOK
    <3> QED BY <2>1, <3>1, <3>2 DEF InTurn, SwapNeedsLoss, NextWord, Follows, Word
  <2> QED BY <2>2, <2>3
<1>2. CASE TakeLeft
  <2>1. /\ rxfifo # <<>> /\ rxfifo' = Tail(rxfifo) /\ UNCHANGED <<channel, gap, right>>
        /\ pc1' = "right" => Head(rxfifo).ch = "L"
    BY <1>2 DEF TakeLeft, TryFailed
  <2>2. pc1' = "right" => NextWord'.hole \/ NextWord'.ch = "R"
    BY <2>1, TurnTaken DEF Follows, Other
  <2> QED BY <2>1, <2>2, TurnTaken DEF InTurn, SwapNeedsLoss
<1>3. CASE TakeRight
  <2>1. /\ rxfifo # <<>> /\ rxfifo' = Tail(rxfifo) /\ UNCHANGED <<channel, gap>>
        /\ pc1 = "right" /\ pc1' # "right" /\ right' = Head(rxfifo)
    BY <1>3 DEF TakeRight
  <2>2. SwapNeedsLoss'
    BY <2>1, TakeWord DEF SwapNeedsLoss, InTurn, NextWord, PcmInv
  <2> QED BY <2>1, <2>2, TurnTaken DEF InTurn
<1>4. CASE LookAtMode \/ PcmReboot
  BY <1>4 DEF LookAtMode, PcmReboot, InTurn, SwapNeedsLoss, Word
<1>5. CASE Printed \/ PutFilled \/ RightTimeout \/ LeftTimeout
  BY <1>5 DEF Printed, PutFilled, RightTimeout, LeftTimeout, TryFailed, InTurn,
              SwapNeedsLoss, NextWord
<1>6. CASE SetMode \/ UNCHANGED pcmVars
  BY <1>6 DEF SetMode, pcmVars, InTurn, SwapNeedsLoss, NextWord
<1> QED BY <1>1, <1>2, <1>3, <1>4, <1>5, <1>6, PcmSteps

(* Channels are swapped only where words were lost: a frame whose second   *)
(* word is a left one has the loss right before that word (SwapNeedsLoss). *)
THEOREM SwapsAreLosses == Spec => []SwapNeedsLoss
<1>1. Init => PcmInv /\ InTurn
  BY PcmTypeInit, InTurnInit DEF Init
<1>2. PcmInv /\ InTurn /\ [Next]_vars => (PcmInv /\ InTurn)'
  BY PcmTypeStep, InTurnStep
<1>3. InTurn => SwapNeedsLoss
  BY DEF InTurn
<1> QED BY <1>1, <1>2, <1>3, PTL DEF Spec

(***************************************************************************)
(* The clocks: types, with the chip's registers as a record.               *)
(***************************************************************************)
Dividers == {Torn, 0} \cup {s.div : s \in Setups}

Registers == [on : BOOLEAN, pll : [Plls -> {"off", "torn", "locked"}],
              ms : [Outputs -> Dividers], src : [Outputs -> Plls \cup {"down"}]]

ChipOK == chip \in Registers

CacheOK == cache \in [Outputs -> Setups \cup {NoSetup}]

FlagsOK ==
  /\ boot \in {"begin", "pllA", "pllB", "outputs", "enable", "ready"}
  /\ init \in BOOLEAN /\ luck \in {"all", "last", "none"} /\ known \subseteq Plls

ClockInv == ChipOK /\ CacheOK /\ FlagsOK

(* The setups of an output.                                                *)
SetupsOf(o) == IF o = AdcOutput THEN {AdcSetup[r] : r \in DOMAIN AdcSetup}
                                ELSE {CxSetup[i] : i \in DOMAIN CxSetup}

LEMMA SetupFacts ==
  /\ NoSetup \notin Setups
  /\ \A s \in Setups : s.pll \in Plls /\ s.div \in Dividers
  /\ \A o \in Outputs : SetupsOf(o) \subseteq Setups /\ DefaultSetup(o) \in SetupsOf(o)
  /\ AdcOutput \in Outputs /\ AdcOutput \notin CxOutputs
<1>1. \A s \in Setups : s.pll \in Plls
  BY DEF Setups, CxSetup, AdcSetup, Plls
<1>2. NoSetup \notin Setups
  BY <1>1 DEF NoSetup, Plls
<1>3. \A s \in Setups : s.div \in Dividers
  BY DEF Dividers
<1>4. \A o \in Outputs : SetupsOf(o) \subseteq Setups
  BY DEF SetupsOf, Setups, CxSetup, AdcSetup
<1>5. DOMAIN CxSetup = 0..3 /\ DOMAIN AdcSetup = {48000, 46875}
  BY DEF CxSetup, AdcSetup
<1>6. \A o \in Outputs : DefaultSetup(o) \in SetupsOf(o)
  BY <1>5 DEF SetupsOf, DefaultSetup
<1>7. AdcOutput \in Outputs /\ AdcOutput \notin CxOutputs
  BY ClockAssumption DEF AdcOutput, Outputs
<1> QED BY <1>1, <1>2, <1>3, <1>4, <1>6, <1>7

LEMMA ClockTypes == ClockInv => ClockTypeOK
BY DEF ClockInv, ChipOK, Registers, CacheOK, FlagsOK, ClockTypeOK, Dividers

(* What a call on registers c may leave of them: the outputs other than o, *)
(* the PLLs and the enabling as they were.                                 *)
Only(o, c, d) ==
  /\ d \in Registers /\ d.on = c.on /\ d.pll = c.pll
  /\ \A q \in Outputs \ {o} : d.ms[q] = c.ms[q] /\ d.src[q] = c.src[q]

LEMMA MultisynthLeaves ==
  ASSUME NEW c \in Registers, NEW o \in Outputs, NEW s \in Setups,
         NEW m \in SetupMultisynth(c, o, s)
  PROVE  /\ Only(o, c, m.chip)
         /\ m.ok /\ s.pll \in known => m.chip.src[o] = s.pll /\ m.chip.ms[o] = s.div
<1> DEFINE torn == [c EXCEPT !.ms[o] = Torn]
           written == [c EXCEPT !.ms[o] = s.div]
           done == [written EXCEPT !.src[o] = s.pll]
<1>1. s.pll \in Plls /\ s.div \in Dividers /\ Torn \in Dividers
  BY SetupFacts DEF Dividers
<1>2. Only(o, c, c)
  BY DEF Only
<1>3. Only(o, c, torn) /\ Only(o, c, written)
  BY <1>1 DEF Only, Registers
<1>4. Only(o, c, done) /\ done.src[o] = s.pll /\ done.ms[o] = s.div
  BY <1>1 DEF Only, Registers
<1>5. \/ s.pll \notin known /\ m = Same(c)
      \/ s.pll \in known /\ m \in {Failed(c), Failed(torn), Failed(written), Same(done)}
  BY DEF SetupMultisynth
<1> HIDE DEF torn, written, done
<1> QED BY <1>2, <1>3, <1>4, <1>5 DEF Same, Failed

LEMMA RdivLeaves ==
  ASSUME NEW c \in Registers, NEW o \in Outputs, NEW r \in SetupRdiv(c, o)
  PROVE  Only(o, c, r.chip) /\ (r.ok => r.chip = c)
<1> DEFINE torn == [c EXCEPT !.ms[o] = Torn]
<1>1. Only(o, c, c)
  BY DEF Only
<1>2. Only(o, c, torn)
  BY DEF Only, Registers, Dividers
<1>3. r \in {Same(c), Failed(c), Failed(torn)}
  BY DEF SetupRdiv
<1> HIDE DEF torn
<1> QED BY <1>1, <1>2, <1>3 DEF Same, Failed

(* set_multisynth: only output o is touched; without a failure it is set up*)
(* as asked for or, when that is what the cache says, left alone.          *)
LEMMA MultisynthSets ==
  ASSUME ClockInv, NEW o \in Outputs, NEW s \in Setups, SetMultisynth(o, s)
  PROVE  /\ Only(o, chip, chip') /\ CacheOK'
         /\ cache' = [cache EXCEPT ![o] = s] /\ luck' \in {"all", "last", "none"}
         /\ luck' = "all" => luck = "all"
         /\ luck' # "none" =>
              IF cache[o] = s THEN chip' = chip
              ELSE s.pll \in known => chip'.src[o] = s.pll /\ chip'.ms[o] = s.div
<1>1. PICK m \in IF Differs(cache[o], s) THEN SetupMultisynth(chip, o, s) ELSE {Same(chip)} :
        \E r \in IF cache[o] = NoSetup THEN SetupRdiv(m.chip, o) ELSE {Same(m.chip)} :
          chip' = r.chip /\ Met(m.ok /\ r.ok)
  BY DEF SetMultisynth
<1>2. PICK r \in IF cache[o] = NoSetup THEN SetupRdiv(m.chip, o) ELSE {Same(m.chip)} :
        chip' = r.chip /\ Met(m.ok /\ r.ok)
  BY <1>1
<1>3. chip \in Registers
  BY DEF ClockInv, ChipOK, Registers
<1>4. /\ Only(o, chip, m.chip)
      /\ cache[o] = s => m.chip = chip
      /\ m.ok /\ cache[o] # s /\ s.pll \in known =>
           m.chip.src[o] = s.pll /\ m.chip.ms[o] = s.div
  <2>1. CASE cache[o] = s
    BY <1>1, <1>3, <2>1 DEF Differs, Same, Only
  <2>2. CASE cache[o] # s
    BY <1>1, <1>3, <2>2, MultisynthLeaves DEF Differs
  <2> QED BY <2>1, <2>2
<1>5. /\ Only(o, m.chip, r.chip) /\ (r.ok => r.chip = m.chip)
  <2>1. m.chip \in Registers
    BY <1>4 DEF Only
  <2>2. CASE cache[o] = NoSetup
    BY <1>2, <2>1, <2>2, RdivLeaves
  <2>3. CASE cache[o] # NoSetup
    BY <1>2, <2>1, <2>3 DEF Same, Only
  <2> QED BY <2>2, <2>3
<1>6. Only(o, chip, chip')
  BY <1>2, <1>4, <1>5 DEF Only
<1>7. cache' = [cache EXCEPT ![o] = s] /\ CacheOK'
  BY DEF SetMultisynth, CacheOK, ClockInv
<1>8. /\ luck' \in {"all", "last", "none"} /\ (luck' = "all" => luck = "all")
      /\ luck' # "none" => m.ok /\ r.ok
  BY <1>2 DEF Met
<1> QED BY <1>2, <1>4, <1>5, <1>6, <1>7, <1>8

(* The requests and the default set-up, by the output they are about.      *)
LEMMA RequestSets ==
  ASSUME ClockRequest
  PROVE  /\ boot = "ready" /\ init /\ UNCHANGED <<boot, init, known>>
         /\ \E o \in Outputs : \E s \in SetupsOf(o) : SetMultisynth(o, s)
<1>1. CASE SetRate
  <2>1. PICK r \in DOMAIN AdcSetup : SetMultisynth(AdcOutput, AdcSetup[r])
    BY <1>1 DEF SetRate
  <2> QED BY <1>1, <2>1, SetupFacts DEF SetRate, SetupsOf
<1>2. CASE SelectClock
  <2>1. PICK o \in CxOutputs, v \in Selections :
          Option(v) \in DOMAIN CxSetup /\ SetMultisynth(o, CxSetup[Option(v)])
    BY <1>2 DEF SelectClock
  <2>2. CxSetup[Option(v)] \in SetupsOf(o) /\ o \in Outputs
    BY <2>1, SetupFacts DEF SetupsOf, Outputs
  <2> QED BY <1>2, <2>1, <2>2 DEF SelectClock
<1> QED BY <1>1, <1>2 DEF ClockRequest

LEMMA PllLeaves ==
  ASSUME ChipOK, NEW p \in Plls, NEW r \in SetupPll(chip, p)
  PROVE  /\ r.chip \in Registers /\ r.ok \in BOOLEAN
         /\ r.chip.on = chip.on /\ r.chip.ms = chip.ms /\ r.chip.src = chip.src
         /\ \A q \in Plls \ {p} : r.chip.pll[q] = chip.pll[q]
         /\ r.ok => r.chip.pll[p] = "locked"
<1> DEFINE locked == [chip EXCEPT !.pll[p] = "locked"]
           torn == [chip EXCEPT !.pll[p] = "torn"]
<1>1. /\ locked \in Registers /\ locked.pll[p] = "locked"
      /\ locked.on = chip.on /\ locked.ms = chip.ms /\ locked.src = chip.src
      /\ \A q \in Plls \ {p} : locked.pll[q] = chip.pll[q]
  BY DEF ChipOK, Registers
<1>2. /\ torn \in Registers
      /\ torn.on = chip.on /\ torn.ms = chip.ms /\ torn.src = chip.src
      /\ \A q \in Plls \ {p} : torn.pll[q] = chip.pll[q]
  BY DEF ChipOK, Registers
<1>3. r \in {Same(locked), Failed(chip), Failed(torn)}
  BY DEF SetupPll
<1>4. chip \in Registers
  BY DEF ChipOK, Registers
<1> HIDE DEF locked, torn
<1>5. \/ r.chip = locked /\ r.ok = TRUE
      \/ r.chip = chip /\ r.ok = FALSE
      \/ r.chip = torn /\ r.ok = FALSE
  BY <1>3 DEF Same, Failed
<1>6. CASE r.chip = locked /\ r.ok = TRUE
  BY <1>1, <1>6
<1>7. CASE r.chip = chip /\ r.ok = FALSE
  BY <1>4, <1>7
<1>8. CASE r.chip = torn /\ r.ok = FALSE
  BY <1>2, <1>8
<1> QED BY <1>5, <1>6, <1>7, <1>8

(* The restart leaves the outputs down, or part of that done.              *)
LEMMA BeginLeaves ==
  ASSUME ChipOK, Begin
  PROVE  ChipOK' /\ chip'.pll = chip.pll
<1>1. ASSUME NEW f \in [Outputs -> Plls \cup {"down"}],
             chip' = [chip EXCEPT !.on = FALSE, !.src = f]
      PROVE  ChipOK' /\ chip'.pll = chip.pll
  BY <1>1 DEF ChipOK, Registers
<1>2. [o \in Outputs |-> "down"] \in [Outputs -> Plls \cup {"down"}]
  OBVIOUS
<1>3. \A n \in 0..3 : [o \in Outputs |-> IF o < n THEN "down" ELSE chip.src[o]]
                        \in [Outputs -> Plls \cup {"down"}]
  BY DEF ChipOK, Registers
<1>4. CASE UNCHANGED chip
  BY <1>4 DEF ChipOK, Registers
<1> QED BY <1>1, <1>2, <1>3, <1>4 DEF Begin

LEMMA ClockTypeInit == ClockInit => ClockInv
<1> SUFFICES ASSUME ClockInit PROVE ClockInv
  OBVIOUS
<1>1. /\ [p \in Plls |-> "off"] \in [Plls -> {"off", "torn", "locked"}]
      /\ [o \in Outputs |-> 0] \in [Outputs -> Dividers]
      /\ [o \in Outputs |-> "down"] \in [Outputs -> Plls \cup {"down"}]
  BY DEF Dividers
<1>2. ChipOK
  BY <1>1 DEF ClockInit, ChipOK, Registers
<1>3. CacheOK /\ FlagsOK
  BY DEF ClockInit, CacheOK, FlagsOK
<1> QED BY <1>2, <1>3 DEF ClockInv

LEMMA ClockTypeStep == ClockInv /\ [Next]_vars => ClockInv'
<1> SUFFICES ASSUME ClockInv, [Next]_vars PROVE ClockInv'
  OBVIOUS
<1>1. CASE Begin
  <2>1. CacheOK' /\ FlagsOK'
    BY <1>1 DEF Begin, Met, ClockInv, CacheOK, FlagsOK
  <2> QED BY <1>1, <2>1, BeginLeaves DEF ClockInv
<1>2. ASSUME NEW p \in Plls, NEW next \in {"pllB", "outputs"}, DefaultPll(p, next)
      PROVE  ClockInv'
  <2>1. PICK r \in SetupPll(chip, p) :
          /\ chip' = r.chip /\ known' = IF r.ok THEN known \cup {p} ELSE known
          /\ Met(r.ok)
    BY <1>2 DEF DefaultPll
  <2>2. ChipOK'
    BY <2>1, PllLeaves DEF ClockInv, ChipOK, Registers
  <2>3. CacheOK' /\ FlagsOK'
    BY <1>2, <2>1 DEF DefaultPll, Met, ClockInv, CacheOK, FlagsOK
  <2> QED BY <2>2, <2>3 DEF ClockInv
<1>3. CASE DefaultOutput
  <2>1. PICK o \in Outputs : /\ SetMultisynth(o, DefaultSetup(o))
                             /\ boot' \in {boot, "enable"} /\ UNCHANGED <<init, known>>
    BY <1>3 DEF DefaultOutput
  <2>2. DefaultSetup(o) \in Setups
    BY SetupFacts
  <2> QED BY <2>1, <2>2, MultisynthSets
          DEF ClockInv, ChipOK, FlagsOK, Only, Registers
<1>4. CASE Enable
  <2>1. PICK on \in BOOLEAN : chip' = [chip EXCEPT !.on = on] /\ Met(on)
    BY <1>4 DEF Enable
  <2>2. ChipOK'
    BY <2>1 DEF ClockInv, ChipOK, Registers
  <2> QED BY <1>4, <2>1, <2>2 DEF Enable, Met, ClockInv, CacheOK, FlagsOK
<1>5. CASE ClockRequest
  <2>1. PICK o \in Outputs : \E s \in Setups : SetMultisynth(o, s)
    BY <1>5, RequestSets, SetupFacts
  <2> QED BY <1>5, <2>1, RequestSets, MultisynthSets
          DEF ClockInv, ChipOK, FlagsOK, Only, Registers
<1>6. CASE ClockReboot
  BY <1>6 DEF ClockReboot, ClockInv, ChipOK, Registers, CacheOK, FlagsOK
<1>7. CASE UNCHANGED clockVars
  BY <1>7 DEF clockVars, ClockInv, ChipOK, Registers, CacheOK, FlagsOK
<1>8. ClockBoot => \/ Begin \/ DefaultOutput \/ Enable
                   \/ DefaultPll("A", "pllB") \/ DefaultPll("B", "outputs")
  BY DEF ClockBoot, DefaultPllA, DefaultPllB
<1>9. "A" \in Plls /\ "B" \in Plls
  BY DEF Plls
<1> QED BY <1>1, <1>2, <1>3, <1>4, <1>5, <1>6, <1>7, <1>8, <1>9, ClockSteps

(* Every reachable state of the two cores, the chip and the PIO is well    *)
(* typed: the queue never holds more words than it has room for, a buffer  *)
(* never more frames, and every cached setup is one of the code's tables.  *)
THEOREM AdcTypeCorrect == Spec => []AdcTypeOK
<1>1. Init => ClockInv /\ PcmInv
  BY ClockTypeInit, PcmTypeInit DEF Init
<1>2. ClockInv /\ PcmInv /\ [Next]_vars => (ClockInv /\ PcmInv)'
  BY ClockTypeStep, PcmTypeStep
<1>3. ClockInv /\ PcmInv => AdcTypeOK
  BY ClockTypes DEF AdcTypeOK, PcmInv
<1> QED BY <1>1, <1>2, <1>3, PTL DEF Spec

(***************************************************************************)
(* What core 0 believes.  A PLL it takes for configured is locked, since   *)
(* each is set up once a start; before that its cache is empty.  As long as*)
(* nothing has failed since the start, what it has cached of an output is  *)
(* in the chip's registers, both PLLs are known, and the outputs are on.   *)
(***************************************************************************)
Configured ==
  /\ \A p \in known : chip.pll[p] = "locked"
  /\ boot \in {"begin", "pllA"} => known = {} /\ \A o \in Outputs : cache[o] = NoSetup
  /\ boot = "pllB" => known \subseteq {"A"}

Matches(o) ==
  cache[o] # NoSetup =>
    /\ cache[o] \in SetupsOf(o)
    /\ chip.src[o] = cache[o].pll /\ chip.ms[o] = cache[o].div

Lucky ==
  luck = "all" =>
    /\ boot # "begin" => init
    /\ boot = "pllB" => known = {"A"}
    /\ boot \in {"outputs", "enable", "ready"} => known = Plls
    /\ \A o \in Outputs : Matches(o)
    /\ boot \in {"enable", "ready"} => \A o \in Outputs : cache[o] # NoSetup
    /\ boot = "ready" => chip.on

Beliefs == ClockInv /\ Configured /\ Lucky

LEMMA BeliefsInit == ClockInit => Configured /\ Lucky
BY DEF ClockInit, Configured, Lucky, Matches

(* Setting up one output keeps what is believed of all of them.            *)
LEMMA SetKeepsMatches ==
  ASSUME Beliefs, NEW o \in Outputs, NEW s \in SetupsOf(o), SetMultisynth(o, s),
         luck' = "all", known = Plls
  PROVE  /\ \A q \in Outputs : Matches(q)'
         /\ \A q \in Outputs : cache[q] # NoSetup \/ q = o => cache'[q] # NoSetup
<1>1. s \in Setups /\ s.pll \in known /\ s # NoSetup
  BY SetupFacts
<1>2. luck = "all" /\ Only(o, chip, chip') /\ cache' = [cache EXCEPT ![o] = s]
  BY <1>1, MultisynthSets DEF Beliefs
<1>3. cache'[o] = s /\ \A q \in Outputs \ {o} : cache'[q] = cache[q]
  BY <1>2 DEF Beliefs, ClockInv, CacheOK
<1>4. chip'.src[o] = s.pll /\ chip'.ms[o] = s.div
  <2>1. CASE cache[o] = s
    <3>1. chip' = chip
      BY <1>1, <2>1, MultisynthSets DEF Beliefs
    <3>2. Matches(o)
      BY <1>2 DEF Beliefs, Lucky
    <3> QED BY <1>1, <2>1, <3>1, <3>2 DEF Matches
  <2>2. CASE cache[o] # s
    BY <1>1, <2>2, MultisynthSets DEF Beliefs
  <2> QED BY <2>1, <2>2
<1>5. \A q \in Outputs \ {o} : Matches(q)'
  BY <1>2, <1>3 DEF Only, Matches, Beliefs, Lucky
<1>6. Matches(o)'
  BY <1>3, <1>4 DEF Matches
<1> QED BY <1>1, <1>3, <1>5, <1>6

LEMMA BeliefsStep == Beliefs /\ [Next]_vars => (Configured /\ Lucky)'
<1> SUFFICES ASSUME Beliefs, [Next]_vars PROVE Configured' /\ Lucky'
  BY DEF Beliefs
<1>1. CASE Begin
  <2>1. /\ boot = "begin" /\ UNCHANGED <<known, cache>> /\ chip'.pll = chip.pll
        /\ known = {} /\ \A o \in Outputs : cache[o] = NoSetup
    BY <1>1, BeginLeaves DEF Begin, Beliefs, Configured, ClockInv
  <2>2. \/ boot' = "pllA" /\ init'
        \/ boot' = "ready" /\ luck' # "all"
    BY <1>1 DEF Begin, Met
  <2> QED BY <2>1, <2>2 DEF Configured, Lucky, Matches
<1>2. CASE DefaultPllA
  <2>1. PICK r \in SetupPll(chip, "A") :
          /\ chip' = r.chip /\ known' = IF r.ok THEN known \cup {"A"} ELSE known
          /\ Met(r.ok)
    BY <1>2 DEF DefaultPllA, DefaultPll
  <2>2. /\ boot = "pllA" /\ boot' = "pllB" /\ UNCHANGED <<init, cache>>
        /\ known = {} /\ \A o \in Outputs : cache[o] = NoSetup
    BY <1>2 DEF DefaultPllA, DefaultPll, Beliefs, Configured
  <2>3. /\ r.ok \in BOOLEAN /\ (r.ok => chip'.pll["A"] = "locked")
        /\ luck' = "all" => luck = "all" /\ r.ok
    <3>1. "A" \in Plls
      BY DEF Plls
    <3> QED BY <2>1, <3>1, PllLeaves DEF Met, Beliefs, ClockInv
  <2>4. Configured'
    BY <2>1, <2>2, <2>3 DEF Configured
  <2>5. Lucky'
    BY <2>1, <2>2, <2>3 DEF Lucky, Matches, Beliefs
  <2> QED BY <2>4, <2>5
<1>3. CASE DefaultPllB
  <2>1. PICK r \in SetupPll(chip, "B") :
          /\ chip' = r.chip /\ known' = IF r.ok THEN known \cup {"B"} ELSE known
          /\ Met(r.ok)
    BY <1>3 DEF DefaultPllB, DefaultPll
  <2>2. /\ boot = "pllB" /\ boot' = "outputs" /\ UNCHANGED <<init, cache>>
        /\ known \subseteq {"A"}
    BY <1>3 DEF DefaultPllB, DefaultPll, Beliefs, Configured
  <2>3. /\ r.ok \in BOOLEAN /\ (r.ok => chip'.pll["B"] = "locked")
        /\ chip'.pll["A"] = chip.pll["A"] /\ chip'.src = chip.src /\ chip'.ms = chip.ms
        /\ luck' = "all" => luck = "all" /\ r.ok
    <3>1. "B" \in Plls /\ "A" \in Plls \ {"B"}
      BY DEF Plls
    <3> QED BY <2>1, <3>1, PllLeaves DEF Met, Beliefs, ClockInv
  <2>4. Configured'
    BY <2>1, <2>2, <2>3 DEF Configured, Beliefs
  <2>5. \A o \in Outputs : Matches(o)' = Matches(o)
    BY <2>2, <2>3 DEF Matches
  <2>6. Lucky'
    BY <2>1, <2>2, <2>3, <2>5 DEF Lucky, Plls, Beliefs
  <2> QED BY <2>4, <2>6
<1>4. CASE DefaultOutput
  <2> DEFINE left == {o \in Outputs : cache[o] = NoSetup}
  <2>1. PICK o \in left : /\ SetMultisynth(o, DefaultSetup(o))
                          /\ boot' = IF left = {o} THEN "enable" ELSE boot
    BY <1>4 DEF DefaultOutput
  <2>2. boot = "outputs" /\ UNCHANGED <<init, known>>
    BY <1>4 DEF DefaultOutput
  <2>3. DefaultSetup(o) \in SetupsOf(o) /\ DefaultSetup(o) \in Setups
    BY <2>1, SetupFacts
  <2>4. Only(o, chip, chip') /\ (luck' = "all" => luck = "all")
    BY <2>1, <2>3, MultisynthSets DEF Beliefs
  <2>5. Configured'
    BY <2>1, <2>2, <2>4 DEF Configured, Only, Beliefs
  <2>6. Lucky'
    <3> SUFFICES ASSUME luck' = "all"
                 PROVE  /\ init /\ known = Plls /\ \A q \in Outputs : Matches(q)'
                        /\ boot' = "enable" => \A q \in Outputs : cache'[q] # NoSetup
      BY <2>1, <2>2 DEF Lucky
    <3>1. init /\ known = Plls
      BY <2>2, <2>4 DEF Lucky, Beliefs
    <3>2. /\ \A q \in Outputs : Matches(q)'
          /\ \A q \in Outputs : cache[q] # NoSetup \/ q = o => cache'[q] # NoSetup
      BY <2>1, <2>3, <3>1, SetKeepsMatches
    <3>3. boot' = "enable" => \A q \in Outputs : cache[q] # NoSetup \/ q = o
      BY <2>1, <2>2
    <3> QED BY <3>1, <3>2, <3>3
  <2> QED BY <2>5, <2>6
<1>5. CASE Enable
  <2>1. PICK on \in BOOLEAN : chip' = [chip EXCEPT !.on = on] /\ Met(on)
    BY <1>5 DEF Enable
  <2>2. boot = "enable" /\ boot' = "ready" /\ UNCHANGED <<init, known, cache>>
    BY <1>5 DEF Enable
  <2>3. /\ chip'.pll = chip.pll /\ chip'.src = chip.src /\ chip'.ms = chip.ms
        /\ chip'.on = on /\ (luck' = "all" => luck = "all" /\ on)
    BY <2>1 DEF Met, Beliefs, ClockInv, ChipOK, Registers
  <2>4. \A o \in Outputs : Matches(o)' = Matches(o)
    BY <2>2, <2>3 DEF Matches
  <2> QED BY <2>2, <2>3, <2>4 DEF Configured, Lucky, Beliefs
<1>6. CASE ClockRequest
  <2>1. PICK o \in Outputs : \E s \in SetupsOf(o) : SetMultisynth(o, s)
    BY <1>6, RequestSets
  <2>2. PICK s \in SetupsOf(o) : SetMultisynth(o, s)
    BY <2>1
  <2>3. boot = "ready" /\ init /\ UNCHANGED <<boot, init, known>>
    BY <1>6, RequestSets
  <2>4. Only(o, chip, chip') /\ (luck' = "all" => luck = "all")
    BY <2>2, SetupFacts, MultisynthSets DEF Beliefs
  <2>5. Configured'
    BY <2>3, <2>4 DEF Configured, Only, Beliefs
  <2>6. Lucky'
    <3> SUFFICES ASSUME luck' = "all" PROVE Lucky'
      BY DEF Lucky
    <3>1. known = Plls /\ chip.on /\ \A q \in Outputs : cache[q] # NoSetup
      BY <2>3, <2>4 DEF Lucky, Beliefs
    <3>2. /\ \A q \in Outputs : Matches(q)'
          /\ \A q \in Outputs : cache'[q] # NoSetup
      BY <2>2, <3>1, SetKeepsMatches
    <3> QED BY <2>3, <2>4, <3>1, <3>2 DEF Lucky, Only
  <2> QED BY <2>5, <2>6
<1>7. CASE ClockReboot
  BY <1>7 DEF ClockReboot, Configured, Lucky, Matches
<1>8. CASE UNCHANGED clockVars
  BY <1>8 DEF clockVars, Configured, Lucky, Matches, Beliefs
<1> QED BY <1>1, <1>2, <1>3, <1>4, <1>5, <1>6, <1>7, <1>8, ClockSteps DEF ClockBoot

LEMMA BeliefsAlways == Spec => []Beliefs
<1>1. Init => Beliefs
  BY ClockTypeInit, BeliefsInit DEF Init, Beliefs
<1>2. Beliefs /\ [Next]_vars => Beliefs'
  BY ClockTypeStep, BeliefsStep DEF Beliefs
<1> QED BY <1>1, <1>2, PTL DEF Spec

(* What the device answers to the host is what its outputs carry, when no  *)
(* transfer has failed since the start, after any sequence of requests and *)
(* whatever an earlier start left in the chip (ReportIsOutput).            *)
THEOREM ReportsAreTrue == Spec => []ReportIsOutput
<1>1. Beliefs => ReportIsOutput
  <2> SUFFICES ASSUME Beliefs, boot = "ready", luck = "all"
               PROVE  /\ Puts(AdcOutput, AdcSetup[RateReported])
                      /\ \A o \in CxOutputs : Puts(o, CxSetup[SelectionReported(o) - 1])
    BY DEF ReportIsOutput
  <2>1. /\ init /\ chip.on /\ known = Plls
        /\ \A o \in Outputs : cache[o] # NoSetup /\ Matches(o)
    BY DEF Lucky, Beliefs
  <2>2. \A o \in Outputs : Puts(o, cache[o]) /\ cache[o] \in SetupsOf(o)
    BY <2>1, SetupFacts DEF Puts, Matches, Configured, Beliefs
  <2>3. AdcSetup[RateReported] = cache[AdcOutput]
    BY <2>1, <2>2, SetupFacts DEF RateReported, SetupsOf
  <2>4. ASSUME NEW o \in CxOutputs PROVE CxSetup[SelectionReported(o) - 1] = cache[o]
    <3>1. cache[o] \in {CxSetup[i] : i \in DOMAIN CxSetup}
      BY <2>2, SetupFacts DEF SetupsOf, Outputs
    <3>2. CurrentOption(o) \in DOMAIN CxSetup /\ CxSetup[CurrentOption(o)] = cache[o]
      BY <2>1, <3>1 DEF CurrentOption
    <3>3. DOMAIN CxSetup = 0..3
      BY DEF CxSetup
    <3>4. SelectionReported(o) - 1 = CurrentOption(o)
      BY <3>2, <3>3 DEF SelectionReported
    <3> QED BY <3>2, <3>4
  <2> QED BY <2>2, <2>3, <2>4, SetupFacts DEF Outputs
<1> QED BY <1>1, BeliefsAlways, PTL

(* A request that changes a setup and meets no failure repairs its output, *)
(* whatever failed before, if its PLL and the outputs came up at the start *)
(* (ChangeRepairs).                                                        *)
THEOREM RequestsRepair == Spec => ChangeRepairs
<1> DEFINE Repairs ==
      \A o \in Outputs :
        /\ boot = "ready" /\ boot' = "ready"
        /\ cache'[o] # cache[o] /\ luck' # "none"
        /\ chip.on /\ cache'[o].pll \in known
        => Puts(o, cache[o])'
<1>1. Beliefs /\ [Next]_vars => [Repairs]_clockVars
  <2> SUFFICES ASSUME Beliefs, [Next]_vars, NEW o \in Outputs,
                      boot = "ready" /\ boot' = "ready",
                      cache'[o] # cache[o] /\ luck' # "none",
                      chip.on /\ cache'[o].pll \in known
               PROVE  Puts(o, cache[o])'
    OBVIOUS
  <2>1. ClockRequest
    BY ClockSteps DEF ClockBoot, Begin, DefaultPllA, DefaultPllB, DefaultOutput, Enable,
                      ClockReboot, clockVars
  <2>2. PICK q \in Outputs : \E s \in SetupsOf(q) : SetMultisynth(q, s)
    BY <2>1, RequestSets
  <2>3. PICK s \in SetupsOf(q) : SetMultisynth(q, s)
    BY <2>2
  <2>4. s \in Setups /\ s.pll \in Plls
    BY SetupFacts
  <2>5. Only(q, chip, chip') /\ cache' = [cache EXCEPT ![q] = s]
    BY <2>3, <2>4, MultisynthSets DEF Beliefs
  <2>6. q = o /\ cache'[o] = s /\ cache[o] # s
    BY <2>5 DEF Beliefs, ClockInv, CacheOK
  <2>7. chip'.src[o] = s.pll /\ chip'.ms[o] = s.div
    BY <2>3, <2>4, <2>6, MultisynthSets DEF Beliefs
  <2>8. chip'.on /\ chip'.pll[s.pll] = "locked"
    BY <2>5, <2>6 DEF Only, Configured, Beliefs
  <2> QED BY <2>6, <2>7, <2>8 DEF Puts
<1>2. ChangeRepairs <=> [][Repairs]_clockVars
  BY DEF ChangeRepairs
<1> HIDE DEF Repairs
<1> QED BY <1>1, <1>2, BeliefsAlways, PTL DEF Spec

=============================================================================
