---------------------------- MODULE FrameChannel ----------------------------
(***************************************************************************)
(* What the clock generator's buffer pool promises (fifo.c, main1.c and    *)
(* the transmit callback of usb_audio.c): frames travel from the core that *)
(* fills them to the USB endpoint through a bounded first-in first-out     *)
(* channel.  A frame goes out whole, chunk after chunk, unchanged, once,   *)
(* and in the order of filling.  No buffer, no queue of pointers, no core. *)
(***************************************************************************)
EXTENDS Integers, Sequences

CONSTANTS
  Capacity,  \* frames the channel holds
  Payload,   \* chunks of a frame
  Serials,   \* frames are numbered modulo this
  Kinds      \* what a frame can carry

VARIABLES
  made,   \* the number of the next frame
  queue,  \* frames filled and not yet sent out completely
  sent,   \* chunks of the first one that are out
  wire    \* the last transfer: a frame and the range of its chunks

Frame(n, kind) == [n |-> n, kind |-> kind]
Transfer(frame, from, upto) == [frame |-> frame, from |-> from, upto |-> upto]

Init ==
  /\ made = 0
  /\ queue = <<>> /\ sent = 0
  /\ \E kind \in Kinds : wire = Transfer(Frame(Serials - 1, kind), 0, Payload)

Fill ==
  /\ Len(queue) < Capacity
  /\ \E kind \in Kinds : queue' = Append(queue, Frame(made, kind))
  /\ made' = (made + 1) % Serials
  /\ UNCHANGED <<sent, wire>>

Send ==
  /\ queue # <<>>
  /\ \E k \in 1 .. Payload - sent :
       /\ sent' = sent + k
       /\ wire' = Transfer(Head(queue), sent, sent + k)
  /\ UNCHANGED <<made, queue>>

Finish ==
  /\ queue # <<>> /\ sent = Payload
  /\ queue' = Tail(queue)
  /\ sent' = 0
  /\ UNCHANGED <<made, wire>>

Next == Fill \/ Send \/ Finish

Spec == Init /\ [][Next]_<<made, queue, sent, wire>>

=============================================================================
