---------------------------- MODULE ClockgenFifo ----------------------------
(***************************************************************************)
(* How audio frames get from the ADC to USB in the clock generator's       *)
(* firmware (clockgen/firmware/src): core 1 takes an empty buffer, fills   *)
(* it and puts it into the full queue (main1.c); core 0 takes full buffers *)
(* in the USB transmit callback, hands their bytes to TinyUSB as it has    *)
(* room, and puts them back into the empty queue (usb_audio.c).  The two   *)
(* queues carry pointers into one array of buffers (fifo.c).               *)
(*                                                                         *)
(* Simplifications.  A payload is Payload chunks; what a buffer holds is   *)
(* the number of the frame and what kind of data it is, "torn" while it is *)
(* being filled.  Numbers wrap at a value larger than the pool.            *)
(***************************************************************************)
EXTENDS Integers, Sequences

CONSTANTS
  Space,     \* FIFO_SPACE, the buffers of the pool
  NoBuffer,  \* NULL
  Payload    \* USB_AUDIO_PAYLOAD_SIZE, in chunks

ASSUME FifoAssumption ==
  /\ Space \in Nat \ {0}
  /\ Payload \in Nat \ {0}
  /\ NoBuffer \notin 1 .. Space

VARIABLES
  empty, full,   \* pipe_empty and pipe_full
  data,          \* what each buffer holds
  mode,          \* fifo_mode: what core 1 is asked for
  adc,           \* the ADC delivers samples
  made,          \* number of the frame core 1 fills next
  pc1, buf1, mode1,  \* core 1: where it is, its buffer, its copy of mode
  pc0, buf0, off,    \* core 0: where it is, audio_buffer, off
  wire               \* the last transfer to TinyUSB

core1Vars == <<made, pc1, buf1, mode1>>
core0Vars == <<pc0, buf0, off, wire>>
vars == <<empty, full, data, mode, adc, core1Vars, core0Vars>>

Buffers == 1 .. Space
Modes == {"normal", "debug"}
Serials == Space + 2
Frame(n, kind) == [n |-> n, kind |-> kind]
Transfer(frame, from, upto) == [frame |-> frame, from |-> from, upto |-> upto]

(* After fifo_init: every buffer is in the empty queue.                    *)
Init ==
  /\ empty = [i \in Buffers |-> i] /\ full = <<>>
  /\ data = [b \in Buffers |-> Frame(0, "torn")]
  /\ mode = "normal"
  /\ adc = TRUE
  /\ made = 0 /\ pc1 = "take" /\ buf1 = NoBuffer /\ mode1 = "normal"
  /\ pc0 = "idle" /\ buf0 = NoBuffer /\ off = 0
  /\ wire = Transfer(Frame(Serials - 1, "normal"), 0, Payload)

(***************************************************************************)
(* Core 1: the loop of main1().                                            *)
(***************************************************************************)
Core1(from, to) == pc1 = from /\ pc1' = to
Core1Unchanged == UNCHANGED <<mode, adc, core0Vars>>

(* Mutant of TakeEmpty: looks at the first buffer and leaves it there.     *)
PeekEmpty ==
  /\ Core1("take", "mode")
  /\ empty # <<>>
  /\ buf1' = Head(empty)
  /\ Core1Unchanged
  /\ UNCHANGED <<empty, full, data, made, mode1>>

(* fifo_take_empty() blocks until there is one.                            *)
TakeEmpty ==
  /\ Core1("take", "mode")
  /\ empty # <<>>
  /\ buf1' = Head(empty)
  /\ empty' = Tail(empty)
  /\ Core1Unchanged
  /\ UNCHANGED <<full, data, made, mode1>>

(* fill_buffer() asks for the mode before each attempt.                    *)
GetMode ==
  /\ Core1("mode", "fill")
  /\ mode1' = mode
  /\ data' = [data EXCEPT ![buf1] = Frame(made, "torn")]
  /\ Core1Unchanged
  /\ UNCHANGED <<empty, full, made, buf1>>

(* fill_buffer_debug() always succeeds, fill_buffer_normal() while the ADC *)
(* delivers.                                                               *)
FillDone ==
  /\ Core1("fill", "put")
  /\ mode1 = "normal" => adc
  /\ data' = [data EXCEPT ![buf1] = Frame(made, mode1)]
  /\ Core1Unchanged
  /\ UNCHANGED <<empty, full, made, buf1, mode1>>

(* Mutants of FillTimeout: tries again in the same mode; gives up.         *)
FillAgain ==
  /\ pc1 = "fill" /\ mode1 = "normal" /\ ~adc
  /\ UNCHANGED vars
FillGivesUp ==
  /\ Core1("fill", "put")
  /\ mode1 = "normal" /\ ~adc
  /\ Core1Unchanged
  /\ UNCHANGED <<empty, full, data, made, buf1, mode1>>

FillTimeout ==
  /\ Core1("fill", "mode")
  /\ mode1 = "normal" /\ ~adc
  /\ Core1Unchanged
  /\ UNCHANGED <<empty, full, data, made, buf1, mode1>>

(* fifo_put_filled() blocks while the queue is full.                       *)
PutFilled ==
  /\ Core1("put", "take")
  /\ Len(full) < Space
  /\ full' = Append(full, buf1)
  /\ buf1' = NoBuffer
  /\ made' = (made + 1) % Serials
  /\ Core1Unchanged
  /\ UNCHANGED <<empty, data, mode1>>

(***************************************************************************)
(* Core 0: tud_audio_tx_done_pre_load_cb(), and the mute control.          *)
(***************************************************************************)
Core0(from, to) == pc0 = from /\ pc0' = to
Core0Unchanged == UNCHANGED <<data, adc, core1Vars>>

(* Mutants of TxDone: drops what is left of a buffer; forgets to put a     *)
(* finished one back.                                                      *)
TxDoneDrops ==
  /\ Core0("idle", IF buf0 = NoBuffer THEN "take" ELSE "put")
  /\ Core0Unchanged
  /\ UNCHANGED <<empty, full, mode, buf0, off, wire>>
TxDoneLeaks ==
  /\ Core0("idle", IF buf0 # NoBuffer /\ off < Payload THEN "write" ELSE "take")
  /\ Core0Unchanged
  /\ UNCHANGED <<empty, full, mode, buf0, off, wire>>

(* next_buffer(): the buffer in hand goes on, goes back, or there is none. *)
TxDone ==
  /\ pc0 = "idle"
  /\ pc0' = IF buf0 = NoBuffer THEN "take"
            ELSE IF off < Payload THEN "write" ELSE "put"
  /\ Core0Unchanged
  /\ UNCHANGED <<empty, full, mode, buf0, off, wire>>

(* fifo_put_empty() blocks while the queue is full.                        *)
PutEmpty ==
  /\ Core0("put", "take")
  /\ Len(empty) < Space
  /\ empty' = Append(empty, buf0)
  /\ Core0Unchanged
  /\ UNCHANGED <<full, mode, buf0, off, wire>>

(* Mutant of TakeFilled: a failed take leaves the old pointer.             *)
TakeFilledStale ==
  /\ Core0("take", IF full = <<>> THEN "idle" ELSE "write")
  /\ off' = 0
  /\ IF full = <<>>
     THEN UNCHANGED <<buf0, full>>
     ELSE buf0' = Head(full) /\ full' = Tail(full)
  /\ Core0Unchanged
  /\ UNCHANGED <<empty, mode, wire>>

(* fifo_try_take_filled() does not block; with nothing to send the         *)
(* callback returns.                                                       *)
TakeFilled ==
  /\ Core0("take", IF full = <<>> THEN "idle" ELSE "write")
  /\ off' = 0
  /\ IF full = <<>>
     THEN buf0' = NoBuffer /\ UNCHANGED full
     ELSE buf0' = Head(full) /\ full' = Tail(full)
  /\ Core0Unchanged
  /\ UNCHANGED <<empty, mode, wire>>

(* Mutant of Write: asks for a whole payload each time.                    *)
WriteWhole ==
  /\ Core0("write", "idle")
  /\ \E k \in 0 .. Payload : off' = off + k
  /\ wire' = Transfer(data[buf0], off, off')
  /\ Core0Unchanged
  /\ UNCHANGED <<empty, full, mode, buf0>>

(* tud_audio_write() takes as much as TinyUSB has room for.                *)
Write ==
  /\ Core0("write", "idle")
  /\ \E k \in 0 .. Payload - off :
       /\ off' = off + k
       /\ wire' = IF k = 0 THEN wire ELSE Transfer(data[buf0], off, off + k)
  /\ Core0Unchanged
  /\ UNCHANGED <<empty, full, mode, buf0>>

(* A control request; tud_task() runs it and the callback in turn.         *)
SetMode ==
  /\ pc0 = "idle"
  /\ mode' \in Modes \ {mode}
  /\ Core0Unchanged
  /\ UNCHANGED <<empty, full, core0Vars>>

(* Power or clock of the ADC comes and goes.                               *)
AdcToggles ==
  /\ adc' = ~adc
  /\ UNCHANGED <<empty, full, data, mode, core1Vars, core0Vars>>

Fill     == TakeEmpty \/ GetMode \/ FillDone \/ FillTimeout \/ PutFilled
Callback == TxDone \/ PutEmpty \/ TakeFilled \/ Write
Next     == Fill \/ Callback \/ SetMode \/ AdcToggles

Spec == Init /\ [][Next]_vars

(* Core 1 does nothing but fill; the host polls the endpoint (isochronous, *)
(* once a millisecond) and its transfers make room in TinyUSB's buffer.    *)
FairSpec ==
  /\ Spec
  /\ WF_vars(Fill)
  /\ WF_vars(Callback) /\ SF_vars(Write /\ off' > off)

(***************************************************************************)
(* Properties.                                                             *)
(***************************************************************************)
FifoTypeOK ==
  /\ empty \in Seq(Buffers) /\ full \in Seq(Buffers)
  /\ data \in [Buffers -> [n : 0 .. Serials - 1, kind : Modes \cup {"torn"}]]
  /\ mode \in Modes /\ adc \in BOOLEAN
  /\ made \in 0 .. Serials - 1 /\ mode1 \in Modes
  /\ pc1 \in {"take", "mode", "fill", "put"}
  /\ buf1 \in Buffers \cup {NoBuffer} /\ buf0 \in Buffers \cup {NoBuffer}
  /\ pc0 \in {"idle", "put", "take", "write"}
  /\ off \in 0 .. Payload
  /\ wire \in [frame : [n : 0 .. Serials - 1, kind : Modes \cup {"torn"}],
               from : 0 .. Payload, upto : 0 .. Payload]

(* Which buffers the cores have in hand.                                   *)
Hold1 == IF pc1 = "take" THEN {} ELSE {buf1}
Hold0 == IF pc0 = "take" \/ buf0 = NoBuffer THEN {} ELSE {buf0}
InQueue(q) == {q[i] : i \in DOMAIN q}
NoRepeat(q) == \A i, j \in DOMAIN q : q[i] = q[j] => i = j

(* One owner per buffer: it is in one place of one queue or in the hand of *)
(* one core, so core 1 never writes into what core 0 is sending.           *)
OneOwner ==
  /\ NoRepeat(empty) /\ NoRepeat(full)
  /\ InQueue(empty) \cap InQueue(full) = {}
  /\ Hold1 \cap Hold0 = {}
  /\ (Hold1 \cup Hold0) \cap (InQueue(empty) \cup InQueue(full)) = {}

(* No buffer is lost, and neither core ever blocks putting one back: core  *)
(* 0 does so inside a USB callback, where blocking would stall the device. *)
PutNeverBlocks ==
  /\ pc0 = "put" => Len(empty) < Space
  /\ pc1 = "put" => Len(full) < Space

(* What the host receives is gap-free: each transfer continues the frame   *)
(* of the last one, or starts the next frame when that one is complete.    *)
StreamContinuous ==
  [][wire' # wire =>
       \/ /\ wire'.frame = wire.frame
          /\ wire'.from = wire.upto
       \/ /\ wire'.frame.n = (wire.frame.n + 1) % Serials
          /\ wire.upto = Payload /\ wire'.from = 0]_vars

(* The pool implements the channel.                                        *)
InHand == buf0 # NoBuffer /\ pc0 # "take"
Channel == INSTANCE FrameChannel WITH
  Capacity <- Space,
  Kinds    <- Modes,
  queue    <- (IF InHand THEN <<data[buf0]>> ELSE <<>>)
                \o [i \in DOMAIN full |-> data[full[i]]],
  sent     <- IF InHand THEN off ELSE 0
ImplementsChannel == Channel!Spec

(* A debug request is answered although the ADC is silent: core 1 leaves   *)
(* its wait for samples and sees the new mode.                             *)
DebugReachesHost ==
  <>[](mode = "debug") => []<>(pc0 = "write" /\ data[buf0].kind = "debug")

(* While samples come, frames of them keep reaching USB: the two cores     *)
(* never wait for each other for ever.                                     *)
AudioFlows ==
  <>[](mode = "normal" /\ adc) => []<>(pc0 = "write" /\ data[buf0].kind = "normal")

=============================================================================
