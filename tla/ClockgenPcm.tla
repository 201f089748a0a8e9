---------------------------- MODULE ClockgenPcm ----------------------------
(***************************************************************************)
(* The receiver of the audio ADC in the clock generator's firmware: a state*)
(* machine of the PIO (pcm1802_fmt00.pio) pushes the words of the left and *)
(* the right channel in turn into a short hardware queue and drops a word  *)
(* that finds it full; core 1 takes pairs of words from it (pcm1802.c) to  *)
(* fill a buffer, or fills it with debug output (main1.c).                 *)
(*                                                                         *)
(* Abstractions.  A word is its channel, which the PIO marks in bit 24, and*)
(* whether words were dropped right before it (history).  Core 1 polls much*)
(* faster than words come ("around 150" polls for one, pcm1802.c:126), but *)
(* it is away for any number of words while it prints on the UART, fills a *)
(* debug buffer or waits for an empty one.  Its timeouts last many words:  *)
(* they happen only when the ADC has no clock.                             *)
(***************************************************************************)
EXTENDS Integers, Sequences

CONSTANTS
  Depth,     \* words the PIO's queue holds; 8 with the queues joined
  Frames,    \* USB_AUDIO_SAMPLES_PER_BUFFER
  Tries      \* TIMEOUT_COUNT_DOWN + 1, failed attempts at one frame: 65536

ASSUME PcmAssumption == {Depth, Frames, Tries} \subseteq Nat \ {0}

VARIABLES
  channel,   \* the channel of the PIO's next word
  rxfifo,    \* its queue
  gap,       \* history: words have been dropped since the last one pushed
  pc1,       \* core 1
  mode,      \* fifo_mode, set by the host
  filled,    \* frames of the buffer that core 1 has filled
  tries,     \* failed attempts at the current frame
  right      \* the word core 1 took for the right channel of the buffer's last frame

pcmVars == <<channel, rxfifo, gap, pc1, mode, filled, tries, right>>
core1Same == UNCHANGED <<channel, gap, mode>>

Other(ch) == IF ch = "L" THEN "R" ELSE "L"
Word(ch, hole) == [ch |-> ch, hole |-> hole]

(* Mutant: a push that does not look whether there is room.                *)
PushUnchecked ==
  /\ rxfifo' = Append(rxfifo, Word(channel, gap))
  /\ gap' = FALSE
  /\ channel' = Other(channel)
  /\ UNCHANGED <<pc1, mode, filled, tries, right>>

(* Core 1 is away from the queue.                                          *)
Away == pc1 \in {"mode", "print", "put"}

(* push noblock.                                                           *)
Push ==
  /\ Away \/ rxfifo = <<>>
  /\ IF Len(rxfifo) < Depth
     THEN rxfifo' = Append(rxfifo, Word(channel, gap)) /\ gap' = FALSE
     ELSE gap' = TRUE /\ UNCHANGED rxfifo
  /\ channel' = Other(channel)
  /\ UNCHANGED <<pc1, mode, filled, tries, right>>

(* fill_buffer.                                                            *)
LookAtMode ==
  /\ pc1 = "mode"
  /\ pc1' = IF mode = "normal" THEN "left" ELSE "put"
  /\ filled' = 0 /\ tries' = 0 /\ right' = Word("R", FALSE)
  /\ core1Same /\ UNCHANGED rxfifo

(* fill_buffer_normal gives the buffer up after so many failures.          *)
TryFailed ==
  IF tries + 1 < Tries THEN pc1' = "print" /\ tries' = tries + 1
                       ELSE pc1' = "mode" /\ tries' = 0

(* Mutants: the channel is not looked at; the word of the right channel is *)
(* left in the queue.                                                      *)
TakeLeftAny ==
  /\ pc1 = "left" /\ rxfifo # <<>>
  /\ rxfifo' = Tail(rxfifo)
  /\ pc1' = "right"
  /\ core1Same /\ UNCHANGED <<filled, tries, right>>

TakeLeftPeek ==
  /\ pc1 = "left" /\ rxfifo # <<>>
  /\ IF Head(rxfifo).ch = "L" THEN pc1' = "right" /\ rxfifo' = Tail(rxfifo)
                              ELSE UNCHANGED <<pc1, rxfifo>>
  /\ core1Same /\ UNCHANGED <<filled, tries, right>>

(* A word of the right channel here is dropped: out of sync.               *)
TakeLeft ==
  /\ pc1 = "left" /\ rxfifo # <<>>
  /\ rxfifo' = Tail(rxfifo)
  /\ IF Head(rxfifo).ch = "L" THEN pc1' = "right" /\ UNCHANGED tries ELSE TryFailed
  /\ core1Same /\ UNCHANGED <<filled, right>>

(* The second word is taken whatever its channel.                          *)
TakeRight ==
  /\ pc1 = "right" /\ rxfifo # <<>>
  /\ rxfifo' = Tail(rxfifo)
  /\ right' = Head(rxfifo)
  /\ filled' = filled + 1 /\ tries' = 0
  /\ pc1' = IF filled' = Frames THEN "put" ELSE "left"
  /\ core1Same

(* Mutant: waits for the right channel without a timeout.                  *)
RightWaits == FALSE /\ UNCHANGED pcmVars

(* The left word is lost, and the frame is tried again.                    *)
RightTimeout ==
  /\ pc1 = "right" /\ rxfifo = <<>>
  /\ TryFailed
  /\ core1Same /\ UNCHANGED <<rxfifo, filled, right>>

(* No words at all: as many attempts as it takes.                          *)
LeftTimeout ==
  /\ pc1 = "left" /\ rxfifo = <<>>
  /\ pc1' = "mode" /\ tries' = 0
  /\ core1Same /\ UNCHANGED <<rxfifo, filled, right>>

(* The message about it is out.                                            *)
Printed ==
  /\ pc1 = "print"
  /\ pc1' = "left"
  /\ core1Same /\ UNCHANGED <<rxfifo, filled, tries, right>>

PutFilled ==
  /\ pc1 = "put"
  /\ pc1' = "mode"
  /\ core1Same /\ UNCHANGED <<rxfifo, filled, tries, right>>

SetMode ==
  /\ mode' \in {"normal", "debug"} \ {mode}
  /\ UNCHANGED <<channel, rxfifo, gap, pc1, filled, tries, right>>

(* The PIO starts after a word of the right channel.                       *)
PcmInit ==
  /\ channel = "L" /\ rxfifo = <<>> /\ gap = FALSE
  /\ pc1 = "mode" /\ mode = "normal" /\ filled = 0 /\ tries = 0
  /\ right = Word("R", FALSE)

PcmReboot ==
  /\ channel' = "L" /\ rxfifo' = <<>> /\ gap' = FALSE
  /\ pc1' = "mode" /\ mode' = "normal" /\ filled' = 0 /\ tries' = 0
  /\ right' = Word("R", FALSE)

(* ticking: some clock reaches the ADC; silent: it may have none.          *)
Pio(ticking) == ticking /\ Push
Core1(silent) ==
  \/ LookAtMode \/ TakeLeft \/ TakeRight \/ Printed \/ PutFilled
  \/ silent /\ (RightTimeout \/ LeftTimeout)

(***************************************************************************)
(* Properties.                                                             *)
(***************************************************************************)

PcmTypeOK ==
  /\ channel \in {"L", "R"} /\ gap \in BOOLEAN
  /\ rxfifo \in Seq([ch : {"L", "R"}, hole : BOOLEAN]) /\ Len(rxfifo) <= Depth
  /\ pc1 \in {"mode", "left", "right", "print", "put"} /\ mode \in {"normal", "debug"}
  /\ filled \in 0..Frames /\ tries \in 0..Tries - 1
  /\ right \in [ch : {"L", "R"}, hole : BOOLEAN]

(* The channels are never swapped for long: a frame whose second word is   *)
(* not the right channel of its first has a loss of words inside it, so    *)
(* the frame after it is whole again unless more words are lost.           *)
SwapNeedsLoss == right.ch = "L" => right.hole
=============================================================================
