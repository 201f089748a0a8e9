------------------------- MODULE ClockgenFifoProofs -------------------------
(***************************************************************************)
(* Proofs about ClockgenFifo for every size of the pool and of a payload:  *)
(* types, one owner per buffer, no blocking put, and the refinement of     *)
(* FrameChannel.                                                           *)
(***************************************************************************)
EXTENDS ClockgenFifo, SequenceTheorems, TLAPS

(***************************************************************************)
(* Queues of pointers.                                                     *)
(***************************************************************************)

(* What fifo_take_*() returns and leaves: the first pointer, once, and the *)
(* others as they were.                                                    *)
LEMMA TakeHead ==
  ASSUME NEW S, NEW q \in Seq(S), q # <<>>
  PROVE  /\ Head(q) \in S /\ Tail(q) \in Seq(S)
         /\ Len(Tail(q)) = Len(q) - 1
         /\ InQueue(Tail(q)) \subseteq InQueue(q)
         /\ Head(q) \in InQueue(q)
         /\ NoRepeat(q) => NoRepeat(Tail(q)) /\ Head(q) \notin InQueue(Tail(q))
<1>1. /\ Head(q) \in S /\ Tail(q) \in Seq(S) /\ Len(Tail(q)) = Len(q) - 1
      /\ Len(q) \in Nat \ {0} /\ DOMAIN q = 1 .. Len(q)
      /\ DOMAIN Tail(q) = 1 .. Len(q) - 1
  OBVIOUS
<1>2. Head(q) = q[1] /\ \A i \in 1 .. Len(q) - 1 : Tail(q)[i] = q[i + 1]
  OBVIOUS
<1>3. \A i \in 1 .. Len(q) - 1 : i + 1 \in 1 .. Len(q) /\ i + 1 # 1
  BY <1>1
<1>4. 1 \in 1 .. Len(q)
  BY <1>1
<1>5. InQueue(Tail(q)) \subseteq InQueue(q) /\ Head(q) \in InQueue(q)
  BY <1>1, <1>2, <1>3, <1>4 DEF InQueue
<1>6. ASSUME NoRepeat(q)
      PROVE  NoRepeat(Tail(q)) /\ Head(q) \notin InQueue(Tail(q))
  <2>1. ASSUME NEW i \in 1 .. Len(q) - 1, NEW j \in 1 .. Len(q) - 1, q[i + 1] = q[j + 1]
        PROVE  i = j
    BY <1>1, <1>3, <1>6, <2>1 DEF NoRepeat
  <2>2. NoRepeat(Tail(q))
    BY <1>1, <1>2, <2>1 DEF NoRepeat
  <2>3. \A i \in 1 .. Len(q) - 1 : q[1] # q[i + 1]
    BY <1>1, <1>3, <1>4, <1>6 DEF NoRepeat
  <2> QED BY <1>1, <1>2, <2>2, <2>3 DEF InQueue
<1> QED BY <1>1, <1>5, <1>6

(* What fifo_put_*() leaves: the new pointer behind the others.            *)
LEMMA PutLast ==
  ASSUME NEW S, NEW q \in Seq(S), NEW b \in S
  PROVE  /\ Append(q, b) \in Seq(S)
         /\ Len(Append(q, b)) = Len(q) + 1
         /\ InQueue(Append(q, b)) = InQueue(q) \cup {b}
         /\ NoRepeat(q) /\ b \notin InQueue(q) => NoRepeat(Append(q, b))
<1>1. /\ Append(q, b) \in Seq(S) /\ Len(Append(q, b)) = Len(q) + 1
      /\ Len(q) \in Nat /\ DOMAIN q = 1 .. Len(q)
      /\ DOMAIN Append(q, b) = 1 .. Len(q) + 1
  OBVIOUS
<1>2. /\ Append(q, b)[Len(q) + 1] = b
      /\ \A i \in 1 .. Len(q) : Append(q, b)[i] = q[i]
  OBVIOUS
<1>3. 1 .. Len(q) + 1 = (1 .. Len(q)) \cup {Len(q) + 1}
  BY <1>1
<1>4. InQueue(Append(q, b)) = InQueue(q) \cup {b}
  BY <1>1, <1>2, <1>3 DEF InQueue
<1>5. NoRepeat(q) /\ b \notin InQueue(q) => NoRepeat(Append(q, b))
  BY <1>1, <1>2, <1>3 DEF InQueue, NoRepeat
<1> QED BY <1>1, <1>4, <1>5

(***************************************************************************)
(* Type correctness.                                                       *)
(***************************************************************************)

(* The pointers the cores use are pointers.                                *)
Pointers ==
  /\ pc1 # "take" => buf1 \in Buffers
  /\ pc0 \in {"put", "write"} => buf0 \in Buffers

TypeInv == FifoTypeOK /\ Pointers

LEMMA NextSerial ==
  ASSUME NEW n \in 0 .. Serials - 1
  PROVE  (n + 1) % Serials \in 0 .. Serials - 1
BY FifoAssumption DEF Serials

LEMMA TypeInit == Init => TypeInv
<1> SUFFICES ASSUME Init PROVE TypeInv
  OBVIOUS
<1>1. Serials - 1 \in 0 .. Serials - 1 /\ 0 \in 0 .. Serials - 1
  BY FifoAssumption DEF Serials
<1>2. empty \in Seq(Buffers) /\ full \in Seq(Buffers)
  BY FifoAssumption DEF Init, Buffers
<1>3. data \in [Buffers -> [n : 0 .. Serials - 1, kind : Modes \cup {"torn"}]]
  BY <1>1 DEF Init, Frame
<1>4. wire \in [frame : [n : 0 .. Serials - 1, kind : Modes \cup {"torn"}],
                from : 0 .. Payload, upto : 0 .. Payload]
  BY <1>1, FifoAssumption DEF Init, Frame, Transfer, Modes
<1> QED
  BY <1>1, <1>2, <1>3, <1>4, FifoAssumption
     DEF Init, TypeInv, FifoTypeOK, Pointers, Modes

LEMMA TypeStep == TypeInv /\ [Next]_vars => TypeInv'
<1> SUFFICES ASSUME TypeInv, [Next]_vars PROVE TypeInv'
  OBVIOUS
<1> USE DEF TypeInv, FifoTypeOK, Pointers
<1>1. CASE TakeEmpty
  BY <1>1, TakeHead DEF TakeEmpty, Core1, Core1Unchanged, core0Vars
<1>2. CASE GetMode
  BY <1>2 DEF GetMode, Core1, Core1Unchanged, core0Vars, Frame
<1>3. CASE FillDone
  BY <1>3 DEF FillDone, Core1, Core1Unchanged, core0Vars, Frame
<1>4. CASE FillTimeout
  BY <1>4 DEF FillTimeout, Core1, Core1Unchanged, core0Vars
<1>5. CASE PutFilled
  BY <1>5, PutLast, NextSerial DEF PutFilled, Core1, Core1Unchanged, core0Vars
<1>6. CASE TxDone
  BY <1>6 DEF TxDone, Core0Unchanged, core1Vars
<1>7. CASE PutEmpty
  BY <1>7, PutLast DEF PutEmpty, Core0, Core0Unchanged, core1Vars
<1>8. CASE TakeFilled
  <2>1. 0 \in 0 .. Payload
    BY FifoAssumption
  <2>2. CASE full = <<>>
    BY <1>8, <2>1, <2>2 DEF TakeFilled, Core0, Core0Unchanged, core1Vars
  <2>3. CASE full # <<>>
    <3>1. Head(full) \in Buffers /\ Tail(full) \in Seq(Buffers)
      BY <2>3, TakeHead
    <3>2. /\ pc0' = "write" /\ buf0' \in Buffers /\ full' \in Seq(Buffers)
          /\ off' = 0 /\ UNCHANGED <<empty, data, mode, adc, core1Vars, wire>>
      BY <1>8, <2>3, <3>1 DEF TakeFilled, Core0, Core0Unchanged
    <3> QED BY <2>1, <3>2 DEF core1Vars
  <2> QED BY <2>2, <2>3
<1>9. CASE Write
  <2>1. PICK k \in 0 .. Payload - off :
          /\ off' = off + k
          /\ wire' = IF k = 0 THEN wire ELSE Transfer(data[buf0], off, off + k)
    BY <1>9 DEF Write
  <2>2. off' \in 0 .. Payload
    BY <2>1, FifoAssumption
  <2>3. data[buf0] \in [n : 0 .. Serials - 1, kind : Modes \cup {"torn"}]
    BY <1>9 DEF Write, Core0
  <2>4. wire' \in [frame : [n : 0 .. Serials - 1, kind : Modes \cup {"torn"}],
                   from : 0 .. Payload, upto : 0 .. Payload]
    BY <2>1, <2>2, <2>3 DEF Transfer
  <2> QED
    BY <1>9, <2>2, <2>4 DEF Write, Core0, Core0Unchanged, core1Vars
<1>10. CASE SetMode
  BY <1>10 DEF SetMode, Core0Unchanged, core0Vars, core1Vars
<1>11. CASE AdcToggles
  BY <1>11 DEF AdcToggles, core0Vars, core1Vars
<1>12. CASE UNCHANGED vars
  BY <1>12 DEF vars, core0Vars, core1Vars
<1> QED
  BY <1>1, <1>2, <1>3, <1>4, <1>5, <1>6, <1>7, <1>8, <1>9, <1>10, <1>11, <1>12
     DEF Next, Fill, Callback

(* Every variable of the two cores keeps its type, for every pool size and *)
(* payload.                                                                *)
THEOREM FifoTypeCorrect == Spec => []FifoTypeOK
BY TypeInit, TypeStep, PTL DEF Spec, TypeInv

(***************************************************************************)
(* One owner per buffer.                                                   *)
(***************************************************************************)

(* No buffer is lost either: the two queues and the two hands hold as many *)
(* as there are.  That is why a put finds room: the buffer that is put was *)
(* in a hand, so it is not in the queue.                                   *)
Held1 == IF pc1 = "take" THEN 0 ELSE 1
Held0 == IF pc0 = "take" \/ buf0 = NoBuffer THEN 0 ELSE 1
Count == Len(empty) + Len(full) + Held1 + Held0 = Space

OwnInv == TypeInv /\ OneOwner /\ Count

LEMMA OwnInit == Init => OwnInv
<1> SUFFICES ASSUME Init PROVE OwnInv
  OBVIOUS
<1>1. TypeInv
  BY TypeInit
<1>2. Space \in Nat /\ Len(empty) = Space /\ Len(full) = 0 /\ DOMAIN full = {}
  BY FifoAssumption DEF Init, Buffers
<1>3. NoRepeat(empty) /\ NoRepeat(full) /\ InQueue(full) = {}
  BY <1>2 DEF Init, NoRepeat, InQueue, Buffers
<1>4. Hold1 = {} /\ Hold0 = {} /\ Held1 = 0 /\ Held0 = 0
  BY DEF Init, Hold1, Hold0, Held1, Held0
<1> QED BY <1>1, <1>2, <1>3, <1>4 DEF OwnInv, OneOwner, Count

LEMMA OwnStep == OwnInv /\ [Next]_vars => OwnInv'
<1> SUFFICES ASSUME OwnInv, [Next]_vars PROVE OwnInv'
  OBVIOUS
<1>1. TypeInv'
  BY TypeStep DEF OwnInv
<1>a. /\ empty \in Seq(Buffers) /\ full \in Seq(Buffers)
      /\ Len(empty) \in Nat /\ Len(full) \in Nat /\ Space \in Nat
      /\ pc1 # "take" => buf1 \in Buffers
      /\ pc0 \in {"put", "write"} => buf0 \in Buffers
      /\ \A b \in Buffers : b # NoBuffer
  BY FifoAssumption DEF OwnInv, TypeInv, FifoTypeOK, Pointers, Buffers
<1>b. /\ NoRepeat(empty) /\ NoRepeat(full)
      /\ InQueue(empty) \cap InQueue(full) = {}
      /\ Hold1 \cap Hold0 = {}
      /\ (Hold1 \cup Hold0) \cap (InQueue(empty) \cup InQueue(full)) = {}
  BY DEF OwnInv, OneOwner
<1>c. Len(empty) + Len(full) + Held1 + Held0 = Space
  BY DEF OwnInv, Count
<1>2. CASE TakeEmpty
  <2>1. /\ pc1 = "take" /\ pc1' = "mode" /\ buf1' = Head(empty) /\ empty # <<>>
        /\ empty' = Tail(empty) /\ UNCHANGED <<full, pc0, buf0>>
    BY <1>2 DEF TakeEmpty, Core1, Core1Unchanged, core0Vars
  <2>2. /\ Hold1' = {Head(empty)} /\ Hold0' = Hold0
        /\ Held1 = 0 /\ Held1' = 1 /\ Held0' = Held0
    BY <2>1 DEF Hold1, Hold0, Held1, Held0
  <2>3. OneOwner'
    BY <1>a, <1>b, <2>1, <2>2, TakeHead DEF OneOwner
  <2>4. Count'
    BY <1>a, <1>c, <2>1, <2>2, TakeHead DEF Count, Held0
  <2> QED BY <1>1, <2>3, <2>4 DEF OwnInv
<1>3. CASE PutFilled
  <2>1. /\ pc1 = "put" /\ pc1' = "take" /\ full' = Append(full, buf1)
        /\ UNCHANGED <<empty, pc0, buf0>>
    BY <1>3 DEF PutFilled, Core1, Core1Unchanged, core0Vars
  <2>2. /\ Hold1 = {buf1} /\ Hold1' = {} /\ Hold0' = Hold0
        /\ Held1 = 1 /\ Held1' = 0 /\ Held0' = Held0
    BY <2>1 DEF Hold1, Hold0, Held1, Held0
  <2>3. OneOwner'
    BY <1>a, <1>b, <2>1, <2>2, PutLast DEF OneOwner
  <2>4. Count'
    BY <1>a, <1>c, <2>1, <2>2, PutLast DEF Count, Held0
  <2> QED BY <1>1, <2>3, <2>4 DEF OwnInv
<1>4. CASE PutEmpty
  <2>1. /\ pc0 = "put" /\ pc0' = "take" /\ empty' = Append(empty, buf0)
        /\ UNCHANGED <<full, pc1, buf1, buf0>>
    BY <1>4 DEF PutEmpty, Core0, Core0Unchanged, core1Vars
  <2>2. /\ Hold0 = {buf0} /\ Hold0' = {} /\ Hold1' = Hold1
        /\ Held0 = 1 /\ Held0' = 0 /\ Held1' = Held1
    BY <1>a, <2>1 DEF Hold1, Hold0, Held1, Held0
  <2>3. OneOwner'
    BY <1>a, <1>b, <2>1, <2>2, PutLast DEF OneOwner
  <2>4. Count'
    BY <1>a, <1>c, <2>1, <2>2, PutLast DEF Count, Held1
  <2> QED BY <1>1, <2>3, <2>4 DEF OwnInv
<1>5. CASE TakeFilled
  <2>1. pc0 = "take" /\ UNCHANGED <<empty, pc1, buf1>>
    BY <1>5 DEF TakeFilled, Core0, Core0Unchanged, core1Vars
  <2>2. Hold0 = {} /\ Held0 = 0 /\ Hold1' = Hold1 /\ Held1' = Held1
    BY <2>1 DEF Hold1, Hold0, Held1, Held0
  <2>3. CASE full = <<>>
    <3>1. full' = full /\ Hold0' = {} /\ Held0' = 0
      BY <1>5, <2>3 DEF TakeFilled, Core0, Hold0, Held0
    <3> QED BY <1>1, <1>b, <1>c, <2>1, <2>2, <3>1 DEF OwnInv, OneOwner, Count
  <2>4. CASE full # <<>>
    <3>1. /\ pc0' = "write" /\ buf0' = Head(full) /\ full' = Tail(full)
          /\ Head(full) # NoBuffer
      BY <1>5, <1>a, <2>4, TakeHead DEF TakeFilled, Core0
    <3>2. Hold0' = {Head(full)} /\ Held0' = 1
      BY <3>1 DEF Hold0, Held0
    <3>3. OneOwner'
      BY <1>a, <1>b, <2>1, <2>2, <2>4, <3>1, <3>2, TakeHead DEF OneOwner
    <3>4. Count'
      BY <1>a, <1>c, <2>1, <2>2, <2>4, <3>1, <3>2, TakeHead DEF Count, Held1
    <3> QED BY <1>1, <3>3, <3>4 DEF OwnInv
  <2> QED BY <2>3, <2>4
<1>6. CASE UNCHANGED <<empty, full>> /\ Hold1' = Hold1 /\ Hold0' = Hold0
           /\ Held1' = Held1 /\ Held0' = Held0
  BY <1>1, <1>b, <1>c, <1>6 DEF OwnInv, OneOwner, Count
<1>7. CASE GetMode \/ FillDone \/ FillTimeout
  BY <1>6, <1>7 DEF GetMode, FillDone, FillTimeout, Core1, Core1Unchanged, core0Vars,
                    Hold1, Hold0, Held1, Held0
<1>8. CASE TxDone \/ Write
  <2>1. CASE TxDone /\ buf0 = NoBuffer
    BY <1>6, <2>1 DEF TxDone, Core0Unchanged, core1Vars, Hold1, Hold0, Held1, Held0
  <2>2. CASE TxDone /\ buf0 # NoBuffer
    BY <1>6, <2>2 DEF TxDone, Core0Unchanged, core1Vars, Hold1, Hold0, Held1, Held0
  <2>3. CASE Write
    BY <1>6, <2>3 DEF Write, Core0, Core0Unchanged, core1Vars, Hold1, Hold0, Held1, Held0
  <2> QED BY <1>8, <2>1, <2>2, <2>3
<1>9. CASE SetMode \/ AdcToggles \/ UNCHANGED vars
  BY <1>6, <1>9 DEF SetMode, AdcToggles, vars, Core0Unchanged, core0Vars, core1Vars,
                    Hold1, Hold0, Held1, Held0
<1> QED BY <1>2, <1>3, <1>4, <1>5, <1>7, <1>8, <1>9 DEF Next, Fill, Callback

LEMMA OwnAlways == Spec => []OwnInv
BY OwnInit, OwnStep, PTL DEF Spec

(* A buffer is never in two places, so what core 0 sends is not what core 1*)
(* is filling.                                                             *)
THEOREM EveryBufferHasOneOwner == Spec => []OneOwner
BY OwnAlways, PTL DEF OwnInv

(* Putting a buffer back never waits: not in main1's loop, and not inside  *)
(* the USB callback.                                                       *)
THEOREM PutsFindRoom == Spec => []PutNeverBlocks
<1>1. OwnInv => PutNeverBlocks
  <2> SUFFICES ASSUME OwnInv PROVE PutNeverBlocks
    OBVIOUS
  <2>1. /\ Len(empty) \in Nat /\ Len(full) \in Nat /\ Space \in Nat
        /\ pc0 = "put" => buf0 \in Buffers /\ buf0 # NoBuffer
    BY FifoAssumption DEF OwnInv, TypeInv, FifoTypeOK, Pointers, Buffers
  <2> QED BY <2>1 DEF PutNeverBlocks, OwnInv, Count, Held1, Held0
<1> QED BY <1>1, OwnAlways, PTL

(***************************************************************************)
(* The pool implements the channel.                                        *)
(***************************************************************************)
FrameType == [n : 0 .. Serials - 1, kind : Modes \cup {"torn"}]

(* The frames behind a queue of pointers.                                  *)
Contents(q, d) == [i \in DOMAIN q |-> d[q[i]]]

(* The channel's queue: the frame core 0 is sending, then the full queue.  *)
Sending == IF InHand THEN <<data[buf0]>> ELSE <<>>
Queue == Sending \o Contents(full, data)

(* What core 1 puts is the frame it has just filled, and core 0 puts back  *)
(* a buffer when it is sent.                                               *)
HandInv ==
  /\ OwnInv
  /\ pc1 = "put" => data[buf1] = Frame(made, mode1)
  /\ pc0 = "put" => off = Payload

LEMMA ContentsIsSeq ==
  ASSUME NEW q \in Seq(Buffers), NEW d \in [Buffers -> FrameType]
  PROVE  /\ Contents(q, d) \in Seq(FrameType)
         /\ Len(Contents(q, d)) = Len(q)
         /\ \A i \in 1 .. Len(q) : Contents(q, d)[i] = d[q[i]]
<1>1. DOMAIN q = 1 .. Len(q) /\ Len(q) \in Nat /\ \A i \in 1 .. Len(q) : q[i] \in Buffers
  OBVIOUS
<1>2. Contents(q, d) = [i \in 1 .. Len(q) |-> d[q[i]]]
  BY <1>1 DEF Contents
<1> QED BY <1>1, <1>2

(* A put appends the frame in the buffer.                                  *)
LEMMA ContentsAppend ==
  ASSUME NEW q \in Seq(Buffers), NEW b \in Buffers, NEW d \in [Buffers -> FrameType]
  PROVE  Contents(Append(q, b), d) = Append(Contents(q, d), d[b])
<1>1. Append(q, b) \in Seq(Buffers) /\ Len(Append(q, b)) = Len(q) + 1 /\ Len(q) \in Nat
  BY PutLast
<1>2. /\ Append(q, b)[Len(q) + 1] = b
      /\ \A i \in 1 .. Len(q) : Append(q, b)[i] = q[i]
  OBVIOUS
<1>3. /\ Contents(Append(q, b), d) \in Seq(FrameType)
      /\ Len(Contents(Append(q, b), d)) = Len(q) + 1
      /\ \A i \in 1 .. Len(q) + 1 : Contents(Append(q, b), d)[i] = d[Append(q, b)[i]]
  BY <1>1, ContentsIsSeq
<1>4. /\ Contents(q, d) \in Seq(FrameType) /\ Len(Contents(q, d)) = Len(q)
      /\ \A i \in 1 .. Len(q) : Contents(q, d)[i] = d[q[i]]
      /\ d[b] \in FrameType
  BY ContentsIsSeq
<1>5. /\ Append(Contents(q, d), d[b]) \in Seq(FrameType)
      /\ Len(Append(Contents(q, d), d[b])) = Len(q) + 1
      /\ Append(Contents(q, d), d[b])[Len(q) + 1] = d[b]
      /\ \A i \in 1 .. Len(q) : Append(Contents(q, d), d[b])[i] = d[q[i]]
  BY <1>4
<1>6. \A i \in 1 .. Len(q) + 1 :
         Contents(Append(q, b), d)[i] = Append(Contents(q, d), d[b])[i]
  <2>1. TAKE i \in 1 .. Len(q) + 1
  <2>2. CASE i = Len(q) + 1
    BY <1>2, <1>3, <1>5, <2>2
  <2>3. CASE i # Len(q) + 1
    <3>1. i \in 1 .. Len(q)
      BY <1>1, <2>3
    <3> QED BY <1>2, <1>3, <1>5, <3>1
  <2> QED BY <2>2, <2>3
<1> QED BY <1>3, <1>5, <1>6, SeqEqual

(* A take leaves the frames behind the first.                              *)
LEMMA ContentsTail ==
  ASSUME NEW q \in Seq(Buffers), q # <<>>, NEW d \in [Buffers -> FrameType]
  PROVE  Contents(q, d) = <<d[Head(q)]>> \o Contents(Tail(q), d)
<1>1. /\ Head(q) \in Buffers /\ Tail(q) \in Seq(Buffers)
      /\ Len(Tail(q)) = Len(q) - 1 /\ Len(q) \in Nat \ {0} /\ Head(q) = q[1]
      /\ \A i \in 1 .. Len(q) - 1 : Tail(q)[i] = q[i + 1]
  OBVIOUS
<1>2. /\ Contents(q, d) \in Seq(FrameType) /\ Len(Contents(q, d)) = Len(q)
      /\ \A i \in 1 .. Len(q) : Contents(q, d)[i] = d[q[i]]
  BY ContentsIsSeq
<1>3. /\ Contents(Tail(q), d) \in Seq(FrameType)
      /\ Len(Contents(Tail(q), d)) = Len(q) - 1
      /\ \A i \in 1 .. Len(q) - 1 : Contents(Tail(q), d)[i] = d[q[i + 1]]
  <2>1. /\ Contents(Tail(q), d) \in Seq(FrameType)
        /\ Len(Contents(Tail(q), d)) = Len(Tail(q))
        /\ \A i \in 1 .. Len(Tail(q)) : Contents(Tail(q), d)[i] = d[Tail(q)[i]]
    BY <1>1, ContentsIsSeq
  <2>2. \A i \in 1 .. Len(q) - 1 : d[Tail(q)[i]] = d[q[i + 1]]
    BY <1>1
  <2> QED BY <1>1, <2>1, <2>2
<1>4. /\ <<d[Head(q)]>> \in Seq(FrameType) /\ Len(<<d[Head(q)]>>) = 1
      /\ <<d[Head(q)]>>[1] = d[q[1]]
  BY <1>1
<1> DEFINE r == <<d[Head(q)]>> \o Contents(Tail(q), d)
<1>5. /\ r \in Seq(FrameType) /\ Len(r) = Len(q)
      /\ \A i \in 1 .. Len(q) :
            r[i] = IF i <= 1 THEN d[q[1]] ELSE Contents(Tail(q), d)[i - 1]
  <2>1. /\ r \in Seq(FrameType) /\ Len(r) = 1 + (Len(q) - 1)
        /\ \A i \in 1 .. 1 + (Len(q) - 1) :
              r[i] = IF i <= 1 THEN <<d[Head(q)]>>[i] ELSE Contents(Tail(q), d)[i - 1]
    BY <1>3, <1>4, ConcatProperties
  <2>2. 1 + (Len(q) - 1) = Len(q) /\ \A i \in 1 .. Len(q) : i <= 1 => i = 1
    BY <1>1
  <2>3. \A i \in 1 .. Len(q) : i <= 1 => <<d[Head(q)]>>[i] = d[q[1]]
    BY <1>4, <2>2
  <2> HIDE DEF r
  <2> QED BY <2>1, <2>2, <2>3
<1>6. \A i \in 1 .. Len(q) : Contents(q, d)[i] = r[i]
  <2>1. TAKE i \in 1 .. Len(q)
  <2>2. CASE i <= 1
    BY <1>2, <1>5, <2>2
  <2>3. CASE ~(i <= 1)
    <3>1. i - 1 \in 1 .. Len(q) - 1 /\ (i - 1) + 1 = i
      BY <1>1, <2>3
    <3>2. Contents(Tail(q), d)[i - 1] = d[q[(i - 1) + 1]]
      BY <1>3, <3>1
    <3> QED BY <1>2, <1>5, <2>3, <3>1, <3>2
  <2> QED BY <2>2, <2>3
<1> QED BY <1>2, <1>5, <1>6, SeqEqual

(* Writing into a buffer that is not queued does not change the frames.    *)
LEMMA ContentsElsewhere ==
  ASSUME NEW q \in Seq(Buffers), NEW d \in [Buffers -> FrameType],
         NEW b \in Buffers, b \notin InQueue(q), NEW f
  PROVE  Contents(q, [d EXCEPT ![b] = f]) = Contents(q, d)
<1>1. \A i \in DOMAIN q : q[i] \in Buffers /\ q[i] # b
  BY DEF InQueue
<1> QED BY <1>1 DEF Contents

LEMMA HandAlways == Spec => []HandInv
<1>1. Init => HandInv
  BY OwnInit DEF Init, HandInv
<1>2. HandInv /\ [Next]_vars => HandInv'
  <2> SUFFICES ASSUME HandInv, [Next]_vars PROVE HandInv'
    OBVIOUS
  <2>1. OwnInv'
    BY OwnStep DEF HandInv
  <2>a. /\ data \in [Buffers -> FrameType] /\ (pc1 # "take" => buf1 \in Buffers)
        /\ off \in 0 .. Payload /\ Payload \in Nat
    BY FifoAssumption DEF HandInv, OwnInv, TypeInv, FifoTypeOK, Pointers, FrameType
  <2>2. pc1' = "put" => data'[buf1'] = Frame(made', mode1')
    <3>1. CASE Fill
      BY <2>a, <3>1 DEF Fill, TakeEmpty, GetMode, FillDone, FillTimeout, PutFilled, Core1
    <3>2. CASE ~Fill
      BY <3>2 DEF HandInv, Next, Callback, TxDone, PutEmpty, TakeFilled, Write, SetMode,
                  AdcToggles, Core0Unchanged, core1Vars, vars
    <3> QED BY <3>1, <3>2
  <2>3. pc0' = "put" => off' = Payload
    <3>1. CASE TxDone
      BY <2>a, <3>1 DEF TxDone
    <3>2. CASE ~TxDone
      BY <3>2 DEF HandInv, Next, Callback, Fill, TakeEmpty, GetMode, FillDone,
         FillTimeout,
                  PutFilled, Core1Unchanged, PutEmpty, TakeFilled, Write, SetMode,
                  AdcToggles, Core0, core0Vars, vars
    <3> QED BY <3>1, <3>2
  <2> QED BY <2>1, <2>2, <2>3 DEF HandInv
<1> QED BY <1>1, <1>2, PTL DEF Spec

(* A step that touches neither the frames in the queue, nor core 0's       *)
(* progress, nor the wire is a stutter of the channel.                     *)
SameChannel ==
  UNCHANGED <<made, Queue, IF InHand THEN off ELSE 0, wire>>

LEMMA FillStep ==
  ASSUME HandInv, HandInv', PutFilled
  PROVE  Channel!Fill
<1>a. /\ full \in Seq(Buffers) /\ data \in [Buffers -> FrameType] /\ buf1 \in Buffers
      /\ data[buf1] = Frame(made, mode1) /\ mode1 \in Modes
      /\ Len(empty) \in Nat /\ Len(full) \in Nat /\ Space \in Nat
      /\ buf0 # NoBuffer => buf0 \in Buffers
  BY FifoAssumption
     DEF HandInv, OwnInv, TypeInv, FifoTypeOK, Pointers, FrameType, PutFilled, Core1
<1>b. /\ full' = Append(full, buf1) /\ UNCHANGED <<data, buf0, pc0, off, wire>>
      /\ made' = (made + 1) % Serials /\ pc1 = "put"
  BY DEF PutFilled, Core1, Core1Unchanged, core0Vars
<1>c. /\ Sending \in Seq(FrameType) /\ Sending' = Sending
      /\ Len(Sending) = IF InHand THEN 1 ELSE 0
  BY <1>a, <1>b DEF Sending, InHand
<1>d. Contents(full, data) \in Seq(FrameType) /\ Len(Contents(full, data)) = Len(full)
  BY <1>a, ContentsIsSeq
<1>1. Contents(full, data)' = Append(Contents(full, data), Frame(made, mode1))
  <2>1. Contents(full, data)' = Contents(Append(full, buf1), data)
    BY <1>b DEF Contents
  <2> QED BY <1>a, <2>1, ContentsAppend
<1>2. Queue' = Append(Queue, Frame(made, mode1))
  <2>1. Frame(made, mode1) \in FrameType
    BY <1>a
  <2>2. \A s, t \in Seq(FrameType), f \in FrameType : s \o Append(t, f) = Append(s \o t, f)
    OBVIOUS
  <2> QED BY <1>c, <1>d, <1>1, <2>1, <2>2 DEF Queue
<1>3. Len(Queue) < Space
  <2>1. Len(Queue) = Len(Sending) + Len(full)
    BY <1>c, <1>d, ConcatProperties DEF Queue
  <2> QED BY <1>a, <1>b, <1>c, <2>1 DEF HandInv, OwnInv, Count, Held1, Held0, InHand
<1>4. (IF InHand THEN off ELSE 0)' = IF InHand THEN off ELSE 0
  BY <1>b DEF InHand
<1> QED
  BY <1>a, <1>b, <1>2, <1>3, <1>4
     DEF Channel!Fill, Channel!Frame, Frame, Queue, Sending, Contents

LEMMA FinishStep ==
  ASSUME HandInv, HandInv', PutEmpty
  PROVE  Channel!Finish
<1>a. /\ full \in Seq(Buffers) /\ data \in [Buffers -> FrameType]
      /\ buf0 \in Buffers /\ buf0 # NoBuffer /\ off = Payload
      /\ pc0 = "put" /\ pc0' = "take" /\ UNCHANGED <<full, data, buf0, off, wire, made>>
  BY FifoAssumption
     DEF HandInv, OwnInv, TypeInv, FifoTypeOK, Pointers, FrameType, PutEmpty, Core0,
         Core0Unchanged, core1Vars, Buffers
<1>b. InHand /\ ~InHand' /\ Sending = <<data[buf0]>> /\ Sending' = <<>>
  BY <1>a DEF InHand, Sending
<1>c. Contents(full, data) \in Seq(FrameType) /\ Contents(full, data)' = Contents(full, data)
  BY <1>a, ContentsIsSeq DEF Contents
<1>1. Queue # <<>> /\ Tail(Queue) = Contents(full, data)
  <2>1. data[buf0] \in FrameType
    BY <1>a
  <2>2. \A f \in FrameType, t \in Seq(FrameType) : <<f>> \o t # <<>> /\ Tail(<<f>> \o t) = t
    OBVIOUS
  <2> QED BY <1>b, <1>c, <2>1, <2>2 DEF Queue
<1>2. Queue' = Contents(full, data)
  BY <1>b, <1>c, ConcatEmptySeq DEF Queue
<1> QED
  BY <1>a, <1>b, <1>1, <1>2 DEF Channel!Finish, Queue, Sending, Contents

LEMMA SendStep ==
  ASSUME HandInv, HandInv', Write
  PROVE  Channel!Send \/ SameChannel
<1>a. /\ full \in Seq(Buffers) /\ data \in [Buffers -> FrameType]
      /\ buf0 \in Buffers /\ buf0 # NoBuffer /\ off \in 0 .. Payload /\ Payload \in Nat
      /\ pc0 = "write" /\ pc0' = "idle" /\ UNCHANGED <<full, data, buf0, made>>
  BY FifoAssumption
     DEF HandInv, OwnInv, TypeInv, FifoTypeOK, Pointers, FrameType, Write, Core0,
         Core0Unchanged, core1Vars, Buffers
<1>b. InHand /\ InHand' /\ Sending = <<data[buf0]>> /\ Sending' = Sending
  BY <1>a DEF InHand, Sending
<1>c. Contents(full, data) \in Seq(FrameType) /\ Contents(full, data)' = Contents(full, data)
  BY <1>a, ContentsIsSeq DEF Contents
<1>1. Queue' = Queue
  BY <1>b, <1>c DEF Queue
<1>2. PICK k \in 0 .. Payload - off :
        /\ off' = off + k
        /\ wire' = IF k = 0 THEN wire ELSE Transfer(data[buf0], off, off + k)
  BY DEF Write
<1>3. CASE k = 0
  BY <1>a, <1>b, <1>1, <1>2, <1>3 DEF SameChannel
<1>4. CASE k # 0
  <2>1. k \in 1 .. Payload - off
    BY <1>a, <1>4
  <2>2. Queue # <<>> /\ Head(Queue) = data[buf0]
    <3>1. data[buf0] \in FrameType
      BY <1>a
    <3>2. \A f \in FrameType, t \in Seq(FrameType) : <<f>> \o t # <<>> /\ Head(<<f>> \o t) = f
      OBVIOUS
    <3> QED BY <1>b, <1>c, <3>1, <3>2 DEF Queue
  <2>3. wire' = Transfer(Head(Queue), off, off + k)
    BY <1>2, <1>4, <2>2
  <2> QED
    BY <1>a, <1>b, <1>1, <1>2, <2>1, <2>2, <2>3
       DEF Channel!Send, Channel!Transfer, Transfer, Queue, Sending, Contents
<1> QED BY <1>3, <1>4

LEMMA TakeStep ==
  ASSUME HandInv, HandInv', TakeFilled
  PROVE  SameChannel
<1>a. /\ full \in Seq(Buffers) /\ data \in [Buffers -> FrameType]
      /\ pc0 = "take" /\ UNCHANGED <<data, wire, made>> /\ off' = 0 /\ ~InHand
      /\ \A b \in Buffers : b # NoBuffer
  BY FifoAssumption
     DEF HandInv, OwnInv, TypeInv, FifoTypeOK, FrameType, TakeFilled, Core0,
         Core0Unchanged, core1Vars, Buffers, InHand
<1>b. Sending = <<>> /\ Contents(full, data) \in Seq(FrameType)
  BY <1>a, ContentsIsSeq DEF Sending
<1>c. Queue = Contents(full, data)
  BY <1>b, ConcatEmptySeq DEF Queue
<1>1. CASE full = <<>>
  <2>1. full' = full /\ ~InHand'
    BY <1>1 DEF TakeFilled, InHand
  <2> QED BY <1>a, <2>1 DEF SameChannel, Queue, Sending, Contents
<1>2. CASE full # <<>>
  <2>1. /\ buf0' = Head(full) /\ full' = Tail(full) /\ InHand'
        /\ Head(full) \in Buffers
    BY <1>a, <1>2, TakeHead DEF TakeFilled, Core0, InHand
  <2>2. Queue' = <<data[Head(full)]>> \o Contents(Tail(full), data)
    BY <1>a, <2>1 DEF Queue, Sending, Contents
  <2>3. Queue' = Queue
    BY <1>a, <1>2, <1>c, <2>2, ContentsTail
  <2> QED BY <1>a, <2>1, <2>3 DEF SameChannel
<1> QED BY <1>1, <1>2

(* Core 1 writes into the buffer in its hand: no queued frame changes.     *)
LEMMA WriteStep ==
  ASSUME HandInv, HandInv', GetMode \/ FillDone
  PROVE  SameChannel
<1>a. /\ full \in Seq(Buffers) /\ data \in [Buffers -> FrameType] /\ buf1 \in Buffers
      /\ UNCHANGED <<full, buf0, pc0, off, wire, made>>
      /\ \E f : data' = [data EXCEPT ![buf1] = f]
  BY DEF HandInv, OwnInv, TypeInv, FifoTypeOK, Pointers, FrameType, GetMode, FillDone,
         Core1, Core1Unchanged, core0Vars
<1>b. buf1 \notin InQueue(full) /\ buf1 \notin Hold0
  BY DEF HandInv, OwnInv, OneOwner, Hold1, GetMode, FillDone, Core1
<1>1. PICK f : data' = [data EXCEPT ![buf1] = f]
  BY <1>a
<1>2. Contents(full, data)' = Contents(full, data)
  <2>1. Contents(full, data)' = Contents(full, [data EXCEPT ![buf1] = f])
    BY <1>a, <1>1 DEF Contents
  <2> QED BY <1>a, <1>b, <2>1, ContentsElsewhere
<1>3. InHand' = InHand /\ Sending' = Sending
  <2>1. InHand => buf0 \in Buffers /\ buf0 # buf1
    BY <1>b DEF HandInv, OwnInv, TypeInv, FifoTypeOK, InHand, Hold0
  <2> QED BY <1>a, <1>1, <2>1 DEF InHand, Sending
<1> QED BY <1>a, <1>2, <1>3 DEF SameChannel, Queue

LEMMA OtherStep ==
  ASSUME TakeEmpty \/ FillTimeout \/ TxDone \/ SetMode \/ AdcToggles \/ UNCHANGED vars
  PROVE  SameChannel
<1>1. UNCHANGED <<full, data, buf0, off, wire, made>>
  BY DEF TakeEmpty, FillTimeout, TxDone, SetMode, AdcToggles, vars, Core1Unchanged,
         Core0Unchanged, core0Vars, core1Vars
<1>2. InHand' = InHand
  BY DEF TakeEmpty, FillTimeout, TxDone, SetMode, AdcToggles, vars, Core1Unchanged,
         core0Vars, InHand
<1> QED BY <1>1, <1>2 DEF SameChannel, Queue, Sending, Contents

(* The two queues of pointers, the two cores and the array of buffers do   *)
(* what a bounded channel of whole frames does: every step is a step of    *)
(* FrameChannel or none.                                                   *)
THEOREM PoolImplementsChannel == Spec => ImplementsChannel
<1>1. Init => Channel!Init
  <2> SUFFICES ASSUME Init PROVE Channel!Init
    OBVIOUS
  <2>1. ~InHand /\ Contents(full, data) = <<>>
    BY DEF Init, InHand, Contents
  <2>2. Queue = <<>>
    BY <2>1 DEF Queue, Sending
  <2> QED
    BY <2>1, <2>2 DEF Init, Channel!Init, Channel!Frame, Channel!Transfer, Frame,
       Transfer,
                      Modes, Queue, Sending, Contents
<1>2. HandInv /\ HandInv' /\ [Next]_vars
        => [Channel!Next]_<<made, Queue, IF InHand THEN off ELSE 0, wire>>
  <2> SUFFICES ASSUME HandInv, HandInv', [Next]_vars
               PROVE  Channel!Next \/ SameChannel
    BY DEF SameChannel
  <2>1. CASE PutFilled
    BY <2>1, FillStep DEF Channel!Next
  <2>2. CASE PutEmpty
    BY <2>2, FinishStep DEF Channel!Next
  <2>3. CASE Write
    BY <2>3, SendStep DEF Channel!Next
  <2>4. CASE TakeFilled
    BY <2>4, TakeStep
  <2>5. CASE GetMode \/ FillDone
    BY <2>5, WriteStep
  <2>6. CASE TakeEmpty \/ FillTimeout \/ TxDone \/ SetMode \/ AdcToggles \/ UNCHANGED vars
    BY <2>6, OtherStep
  <2> QED BY <2>1, <2>2, <2>3, <2>4, <2>5, <2>6 DEF Next, Fill, Callback
<1>3. [Channel!Next]_<<made, Queue, IF InHand THEN off ELSE 0, wire>>
        <=> [Channel!Next]_<<made, (IF InHand THEN <<data[buf0]>> ELSE <<>>)
                                     \o [i \in DOMAIN full |-> data[full[i]]],
                             IF InHand THEN off ELSE 0, wire>>
  BY DEF Queue, Sending, Contents
<1> QED
  BY <1>1, <1>2, <1>3, HandAlways, PTL DEF Spec, ImplementsChannel, Channel!Spec

(***************************************************************************)
(* The stream.  The numbers of the queued frames follow each other up to   *)
(* the one core 1 fills next, and the first follows the frame on the wire  *)
(* or is that frame, with as much of it out as the last transfer reached.  *)
(***************************************************************************)
Sent == IF InHand THEN off ELSE 0

After(n) == (n + 1) % Serials

FirstNumber == IF Queue = <<>> THEN made ELSE Queue[1].n

StreamInv ==
  /\ Queue \in Seq(FrameType) /\ wire.frame \in FrameType
  /\ \A i \in 1 .. Len(Queue) - 1 : Queue[i + 1].n = After(Queue[i].n)
  /\ Queue # <<>> => made = After(Queue[Len(Queue)].n)
  /\ Sent = 0 => wire.upto = Payload /\ FirstNumber = After(wire.frame.n)
  /\ Sent # 0 => Queue # <<>> /\ wire.frame = Queue[1] /\ wire.upto = Sent

LEMMA StreamInit == Init => StreamInv
<1> SUFFICES ASSUME Init PROVE StreamInv
  OBVIOUS
<1>1. ~InHand /\ Contents(full, data) = <<>>
  BY DEF Init, InHand, Contents
<1>2. Queue = <<>> /\ Sent = 0 /\ FirstNumber = 0
  BY <1>1 DEF Queue, Sending, Sent, FirstNumber, Init
<1>3. <<>> \in Seq(FrameType) /\ Len(<<>>) = 0
  OBVIOUS
<1>4. wire.frame.n = Serials - 1 /\ wire.upto = Payload /\ wire.frame \in FrameType
  BY FifoAssumption DEF Init, Transfer, Frame, FrameType, Modes, Serials
<1>5. After(Serials - 1) = 0
  BY FifoAssumption DEF After, Serials
<1> QED BY <1>2, <1>3, <1>4, <1>5 DEF StreamInv

(* A frame filled gets the next number.                                    *)
LEMMA StreamFilled ==
  ASSUME StreamInv, made \in 0 .. Serials - 1, NEW kind \in Modes,
         Queue' = Append(Queue, Frame(made, kind)), made' = After(made),
         UNCHANGED <<Sent, wire>>
  PROVE  StreamInv'
<1> DEFINE f == Frame(made, kind)
<1>1. f \in FrameType /\ f.n = made
  BY DEF Frame, FrameType
<1> HIDE DEF f
<1>2. /\ Queue' \in Seq(FrameType) /\ Len(Queue) \in Nat /\ Len(Queue') = Len(Queue) + 1
      /\ \A i \in 1 .. Len(Queue) : Queue'[i] = Queue[i]
      /\ Queue'[Len(Queue) + 1] = f /\ Queue' # <<>>
      /\ Queue = <<>> <=> Len(Queue) = 0
  BY <1>1 DEF StreamInv, f
<1>3. made' = After(Queue'[Len(Queue')].n)
  BY <1>1, <1>2
<1>4. ASSUME NEW i \in 1 .. Len(Queue) PROVE Queue'[i + 1].n = After(Queue'[i].n)
  <2>1. CASE i = Len(Queue)
    BY <1>1, <1>2, <2>1 DEF StreamInv
  <2>2. CASE i # Len(Queue)
    <3>1. i + 1 \in 1 .. Len(Queue) /\ i \in 1 .. Len(Queue) - 1
      BY <1>2, <2>2
    <3> QED BY <1>2, <3>1 DEF StreamInv
  <2> QED BY <2>1, <2>2
<1>5. FirstNumber' = FirstNumber
  BY <1>1, <1>2 DEF FirstNumber
<1>6. Sent # 0 => Queue'[1] = Queue[1]
  <2>1. Sent # 0 => 1 \in 1 .. Len(Queue)
    BY <1>2 DEF StreamInv
  <2> QED BY <1>2, <2>1
<1> QED BY <1>2, <1>3, <1>4, <1>5, <1>6 DEF StreamInv

(* A transfer goes on where the last one ended, and within a frame.        *)
LEMMA StreamSent ==
  ASSUME StreamInv, Queue # <<>>, Sent \in 0 .. Payload, Payload \in Nat,
         NEW k \in 1 .. Payload - Sent, Sent' = Sent + k,
         wire' = Transfer(Head(Queue), Sent, Sent + k), UNCHANGED <<made, Queue>>
  PROVE  /\ StreamInv'
         /\ \/ wire'.frame = wire.frame /\ wire'.from = wire.upto
            \/ /\ wire'.frame.n = After(wire.frame.n)
               /\ wire.upto = Payload /\ wire'.from = 0
<1>1. Head(Queue) = Queue[1] /\ Queue[1] \in FrameType
  BY DEF StreamInv
<1>2. /\ wire'.frame = Queue[1] /\ wire'.from = Sent /\ wire'.upto = Sent + k
      /\ Sent' # 0
  BY <1>1 DEF Transfer
<1> QED BY <1>1, <1>2 DEF StreamInv, FirstNumber

LEMMA TailOfQueue ==
  ASSUME NEW S, NEW q \in Seq(S), q # <<>>
  PROVE  /\ Tail(q) \in Seq(S) /\ Len(q) \in Nat \ {0} /\ Len(Tail(q)) = Len(q) - 1
         /\ \A i \in 1 .. Len(q) - 1 : Tail(q)[i] = q[i + 1]
         /\ Tail(q) = <<>> <=> Len(Tail(q)) = 0
<1>1. /\ Tail(q) \in Seq(S) /\ Len(q) \in Nat \ {0} /\ Len(Tail(q)) = Len(q) - 1
      /\ \A i \in 1 .. Len(q) - 1 : Tail(q)[i] = q[i + 1]
  OBVIOUS
<1>2. Tail(q) = <<>> <=> Len(Tail(q)) = 0
  BY <1>1, EmptySeq
<1> QED BY <1>1, <1>2

(* With the last chunk of a frame out the next frame is the next number.   *)
LEMMA StreamFinished ==
  ASSUME StreamInv, Queue # <<>>, Sent = Payload, Payload \in Nat \ {0},
         Queue' = Tail(Queue), Sent' = 0, UNCHANGED <<made, wire>>
  PROVE  StreamInv'
<1>1. /\ Queue' \in Seq(FrameType) /\ Len(Queue) \in Nat \ {0}
      /\ Len(Queue') = Len(Queue) - 1
      /\ \A i \in 1 .. Len(Queue) - 1 : Queue'[i] = Queue[i + 1]
      /\ Queue' = <<>> <=> Len(Queue') = 0
  <2>1. Queue \in Seq(FrameType)
    BY DEF StreamInv
  <2> QED BY <2>1, TailOfQueue
<1>2. ASSUME NEW i \in 1 .. Len(Queue') - 1 PROVE Queue'[i + 1].n = After(Queue'[i].n)
  <2>1. i \in 1 .. Len(Queue) - 1 /\ i + 1 \in 1 .. Len(Queue) - 1
    BY <1>1
  <2> QED BY <1>1, <2>1 DEF StreamInv
<1>3. Queue' # <<>> => made' = After(Queue'[Len(Queue')].n)
  <2> SUFFICES ASSUME Queue' # <<>> PROVE made = After(Queue'[Len(Queue')].n)
    OBVIOUS
  <2>1. Len(Queue') \in 1 .. Len(Queue) - 1 /\ Len(Queue') + 1 = Len(Queue)
    BY <1>1
  <2> QED BY <1>1, <2>1 DEF StreamInv
<1>4. wire.upto = Payload /\ FirstNumber' = After(wire.frame.n)
  <2>1. wire.frame = Queue[1] /\ wire.upto = Payload
    BY DEF StreamInv
  <2>2. CASE Len(Queue) = 1
    BY <1>1, <2>1, <2>2 DEF FirstNumber, StreamInv
  <2>3. CASE Len(Queue) # 1
    <3>1. 1 \in 1 .. Len(Queue) - 1 /\ Queue' # <<>>
      BY <1>1, <2>3
    <3> QED BY <1>1, <2>1, <3>1 DEF FirstNumber, StreamInv
  <2> QED BY <2>2, <2>3
<1> QED BY <1>1, <1>2, <1>3, <1>4 DEF StreamInv

(* What the host receives is gap-free: each transfer continues the frame of*)
(* the last one, or starts the next frame when that one is complete,       *)
(* however the two cores' steps fall (StreamContinuous).                   *)
THEOREM StreamHasNoGap == Spec => StreamContinuous
<1> DEFINE Continuous ==
      wire' # wire =>
        \/ /\ wire'.frame = wire.frame
           /\ wire'.from = wire.upto
        \/ /\ wire'.frame.n = (wire.frame.n + 1) % Serials
           /\ wire.upto = Payload /\ wire'.from = 0
<1>1. HandInv /\ HandInv' /\ StreamInv /\ [Next]_vars => StreamInv' /\ Continuous
  <2> SUFFICES ASSUME HandInv, HandInv', StreamInv, [Next]_vars
               PROVE  StreamInv' /\ Continuous
    OBVIOUS
  <2>0. /\ Sent \in 0 .. Payload /\ Payload \in Nat \ {0} /\ made \in 0 .. Serials - 1
    BY FifoAssumption DEF Sent, HandInv, OwnInv, TypeInv, FifoTypeOK
  <2>1. Channel!Fill \/ Channel!Send \/ Channel!Finish \/ SameChannel
    BY FillStep, FinishStep, SendStep, TakeStep, WriteStep, OtherStep
       DEF Next, Fill, Callback
  <2>2. CASE Channel!Fill
    <3>1. /\ \E kind \in Modes : Queue' = Append(Queue, Frame(made, kind))
          /\ made' = After(made) /\ UNCHANGED <<Sent, wire>>
      BY <2>2 DEF Channel!Fill, Channel!Frame, Frame, Queue, Sending, Contents, Sent,
         After
    <3> QED BY <2>0, <3>1, StreamFilled
  <2>3. CASE Channel!Send
    <3>1. /\ Queue # <<>> /\ UNCHANGED <<made, Queue>>
          /\ \E k \in 1 .. Payload - Sent :
               /\ Sent' = Sent + k
               /\ wire' = Transfer(Head(Queue), Sent, Sent + k)
      BY <2>3 DEF Channel!Send, Channel!Transfer, Transfer, Queue, Sending, Contents, Sent
    <3> QED BY <2>0, <3>1, StreamSent DEF After
  <2>4. CASE Channel!Finish
    <3>1. /\ Queue # <<>> /\ Sent = Payload /\ Queue' = Tail(Queue) /\ Sent' = 0
          /\ UNCHANGED <<made, wire>>
      BY <2>4 DEF Channel!Finish, Queue, Sending, Contents, Sent
    <3> QED BY <2>0, <3>1, StreamFinished
  <2>5. CASE SameChannel
    <3>1. UNCHANGED <<made, Queue, Sent, wire>>
      BY <2>5 DEF SameChannel, Sent
    <3> QED BY <3>1 DEF StreamInv, FirstNumber
  <2> QED BY <2>1, <2>2, <2>3, <2>4, <2>5
<1>2. StreamContinuous <=> [][Continuous]_vars
  BY DEF StreamContinuous
<1> HIDE DEF Continuous
<1> QED BY <1>1, <1>2, StreamInit, HandAlways, PTL DEF Spec

=============================================================================
