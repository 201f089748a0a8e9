-------------------------- MODULE CxadcRingProofs --------------------------
(***************************************************************************)
(* Theorems about CxadcRing, for any size of the ring and of the interrupt *)
(* period, any number of late interrupts, sessions, pages and overruns.    *)
(***************************************************************************)
EXTENDS CxadcRing, TLAPS

(***************************************************************************)
(* Division with a remainder.                                              *)
(***************************************************************************)
LEMMA DivMod ==
  ASSUME NEW n \in Nat \ {0}, NEW a \in Int
  PROVE  /\ a % n \in 0 .. n - 1 /\ a \div n \in Int
         /\ a = n * (a \div n) + (a % n)
OBVIOUS

LEMMA Product ==
  ASSUME NEW n \in Nat, NEW a \in Int, NEW b \in Int, a <= b
  PROVE  n * a <= n * b /\ n * a \in Int /\ n * b \in Int
<1>1. n * (b - a) >= 0
  OBVIOUS
<1>2. n * (b - a) = n * b - n * a
  OBVIOUS
<1>3. n * a \in Int /\ n * b \in Int
  OBVIOUS
<1> QED BY <1>1, <1>2, <1>3

(* A larger quotient is larger by a whole divisor at least.                *)
LEMMA Quotients ==
  ASSUME NEW n \in Nat, NEW p \in Int, NEW q \in Int
  PROVE  /\ n * p \in Int /\ n * q \in Int
         /\ p < q => n * p + n <= n * q
         /\ q = p + 1 => n * q = n * p + n
         /\ p + 1 < q => n * p + n + n <= n * q
<1>1. /\ n * p \in Int /\ n * q \in Int
      /\ n * (p + 1) = n * p + n /\ n * (p + 2) = n * p + n + n
  OBVIOUS
<1>2. p < q => n * (p + 1) <= n * q
  BY Product
<1>3. p + 1 < q => n * (p + 2) <= n * q
  BY Product
<1> QED BY <1>1, <1>2, <1>3

LEMMA Unique ==
  ASSUME NEW n \in Nat \ {0}, NEW p \in Int, NEW q \in Int,
         NEW r \in 0 .. n - 1, NEW s \in 0 .. n - 1, n * p + r = n * q + s
  PROVE  p = q /\ r = s
<1>1. n * p \in Int /\ n * q \in Int
  OBVIOUS
<1>2. p = q
  <2>1. ~(p < q)
    BY <1>1, Quotients
  <2>2. ~(q < p)
    BY <1>1, Quotients
  <2> QED BY <2>1, <2>2
<1> QED BY <1>1, <1>2

LEMMA ModOf ==
  ASSUME NEW n \in Nat \ {0}, NEW q \in Int, NEW r \in 0 .. n - 1
  PROVE  (n * q + r) % n = r /\ (n * q + r) \div n = q
<1>1. n * q + r \in Int
  OBVIOUS
<1> QED BY <1>1, DivMod, Unique

(***************************************************************************)
(* Pages and slots.  Slot is where a page lies, Base the first page of the *)
(* period of a page; Lap and Periods count in pages.                       *)
(***************************************************************************)
Slot(a) == a % N
Base(f) == f - (f % P)
Lap(n) == N * n
Periods(u) == P * u

LEMMA RingSize ==
  /\ P \in Nat \ {0} /\ N \in Nat \ {0} /\ P < N
  /\ N \div P \in Nat \ {0} /\ N = P * (N \div P)
<1>1. P \in Nat \ {0} /\ N \in Nat \ {0} /\ P < N /\ N % P = 0
  BY RingAssumption
<1>2. N = P * (N \div P) /\ N \div P \in Int
  BY <1>1, DivMod
<1>3. N \div P > 0
  <2> SUFFICES ASSUME N \div P <= 0 PROVE FALSE
    BY <1>2
  <2>1. P * (N \div P) <= P * 0
    BY <1>1, <1>2, Product
  <2>2. P * 0 = 0
    BY <1>1
  <2> QED BY <1>1, <1>2, <2>1, <2>2
<1> QED BY <1>1, <1>2, <1>3

LEMMA SlotIs == \A a \in Int : Slot(a) \in 0 .. N - 1
BY RingSize DEF Slot

(* How far two pages are apart, from their slots: less is hidden only by   *)
(* whole laps.                                                             *)
LEMMA SlotGap ==
  ASSUME NEW a \in Int, NEW b \in Int, b <= a
  PROVE  LET gap == Slot(a) - Slot(b) + (IF Slot(a) < Slot(b) THEN N ELSE 0)
         IN  gap <= a - b /\ (a - b < N => gap = a - b)
<1> DEFINE p == a \div N
           q == b \div N
<1>1. /\ p \in Int /\ q \in Int /\ Slot(a) \in 0 .. N - 1 /\ Slot(b) \in 0 .. N - 1
      /\ a = N * p + Slot(a) /\ b = N * q + Slot(b) /\ N \in Nat \ {0}
  BY RingSize, DivMod DEF Slot
<1> HIDE DEF p, q
<1>2. /\ N * p \in Int /\ N * q \in Int
      /\ p < q => N * p + N <= N * q
      /\ q < p => N * q + N <= N * p
      /\ p = q + 1 => N * p = N * q + N
      /\ q + 1 < p => N * q + N + N <= N * p
  BY <1>1, Quotients
<1>3. ~(p < q)
  BY <1>1, <1>2
<1>4. p = q \/ p = q + 1 \/ q + 1 < p
  BY <1>1, <1>3
<1> QED BY <1>1, <1>2, <1>4

LEMMA SlotSame ==
  ASSUME NEW a \in Int, NEW b \in Int, Slot(a) = Slot(b), b <= a, a - b < N
  PROVE  a = b
BY SlotGap, SlotIs

LEMMA SlotPlus ==
  ASSUME NEW a \in Int, NEW b \in Int
  PROVE  (b + Slot(a)) % N = Slot(a + b)
<1> DEFINE p == a \div N
           c == b + Slot(a)
           q == c \div N
<1>1. /\ N \in Nat \ {0} /\ p \in Int /\ a = N * p + Slot(a) /\ Slot(a) \in Int
  BY RingSize, DivMod DEF Slot
<1>2. c \in Int /\ q \in Int /\ c = N * q + (c % N) /\ c % N \in 0 .. N - 1
  <2>1. c \in Int
    BY <1>1
  <2> HIDE DEF c
  <2>2. q \in Int /\ c = N * q + (c % N) /\ c % N \in 0 .. N - 1
    BY <1>1, <2>1, DivMod
  <2> QED BY <2>1, <2>2
<1> DEFINE r == c % N
<1>3. r \in 0 .. N - 1 /\ c = N * q + r
  BY <1>2
<1>4. c = b + Slot(a)
  OBVIOUS
<1> HIDE DEF p, c, q, r
<1>5. a + b = N * p + (N * q + r) /\ N * p \in Int /\ N * q \in Int
  BY <1>1, <1>2, <1>3, <1>4
<1>6. N * p + N * q = N * (p + q)
  BY <1>1, <1>2
<1>7. a + b = N * (p + q) + r
  BY <1>3, <1>5, <1>6
<1>8. (N * (p + q) + r) % N = r
  <2>1. p + q \in Int
    BY <1>1, <1>2
  <2> QED BY <1>1, <1>3, <2>1, ModOf
<1>9. Slot(a + b) = r
  BY <1>7, <1>8 DEF Slot
<1> QED BY <1>9 DEF c, r

LEMMA BaseIs ==
  ASSUME NEW f \in Int
  PROVE  /\ Base(f) \in Int /\ f - Base(f) \in 0 .. P - 1
         /\ Base(f) = P * (f \div P) /\ f \div P \in Int
BY RingSize, DivMod DEF Base

(* The engine enters a period at the interrupt that ends the last one.     *)
LEMMA BaseNext ==
  ASSUME NEW f \in Int
  PROVE  Base(f + 1) = IF (f + 1) % P = 0 THEN Base(f) + P ELSE Base(f)
<1> DEFINE q == f \div P
           r == f - Base(f)
<1>1. /\ q \in Int /\ r \in 0 .. P - 1 /\ f = P * q + r /\ Base(f) = P * q
      /\ P \in Nat \ {0} /\ P * q \in Int
  <2>1. /\ Base(f) \in Int /\ r \in 0 .. P - 1
        /\ Base(f) = P * q /\ q \in Int
    BY BaseIs
  <2>2. P \in Nat \ {0}
    BY RingSize
  <2>3. f = Base(f) + r
    BY <2>1
  <2> HIDE DEF q, r
  <2> QED BY <2>1, <2>2, <2>3
<1> HIDE DEF q, r
<1>2. CASE r < P - 1
  <2>1. f + 1 = P * q + (r + 1) /\ r + 1 \in 0 .. P - 1
    BY <1>1, <1>2
  <2>2. (f + 1) % P = r + 1
    <3>1. (P * q + (r + 1)) % P = r + 1
      BY <1>1, <2>1, ModOf
    <3> QED BY <2>1, <3>1
  <2> QED BY <1>1, <2>1, <2>2 DEF Base
<1>3. CASE r = P - 1
  <2>1. f + 1 = P * (q + 1) + 0 /\ 0 \in 0 .. P - 1 /\ P * (q + 1) = P * q + P
    BY <1>1, <1>3
  <2>2. (f + 1) % P = 0
    BY <1>1, <2>1, ModOf
  <2> QED BY <1>1, <1>3, <2>2 DEF Base
<1> QED BY <1>1, <1>2, <1>3

(* Where a period begins in the ring, and what rounding down gives there.  *)
LEMMA Rounded ==
  ASSUME NEW g \in Int
  PROVE  /\ RoundDown(g % N) = Slot(Base(g))
         /\ \E i \in 0 .. (N \div P) - 1 : Slot(Base(g)) = i * P
         /\ g - ((g - Slot(Base(g))) % N) = Base(g)
<1> DEFINE M == N \div P
           k == g \div P
           r == g % P
           j == k \div M
           i == k % M
<1>1. P \in Nat \ {0} /\ N \in Nat \ {0} /\ M \in Nat \ {0} /\ N = P * M /\ P < N
  BY RingSize
<1>2. k \in Int /\ r \in 0 .. P - 1 /\ g = P * k + r /\ Base(g) = P * k
  BY <1>1, DivMod, BaseIs
<1>3. j \in Int /\ i \in 0 .. M - 1 /\ k = M * j + i
  BY <1>1, <1>2, DivMod
<1> HIDE DEF M, k, r, j, i
<1>4. P * k = N * j + P * i /\ N * j \in Int /\ P * i \in Int
  <2>1. P * (M * j + i) = P * (M * j) + P * i
    BY <1>1, <1>3
  <2>2. P * (M * j) = (P * M) * j
    BY <1>1, <1>3
  <2> QED BY <1>1, <1>3, <2>1, <2>2
<1>5. P * i \in 0 .. N - P
  <2>1. P * i <= P * (M - 1) /\ P * 0 <= P * i
    BY <1>1, <1>3, Product
  <2>2. P * (M - 1) = P * M - P /\ P * 0 = 0
    BY <1>1
  <2> QED BY <1>1, <1>4, <2>1, <2>2
<1>6. Slot(Base(g)) = P * i
  <2>1. P * i \in 0 .. N - 1
    BY <1>1, <1>4, <1>5
  <2>2. (N * j + P * i) % N = P * i
    BY <1>1, <1>3, <2>1, ModOf
  <2> QED BY <1>2, <1>4, <2>2 DEF Slot
<1>7. g % N = P * i + r
  <2>1. g = N * j + (P * i + r) /\ P * i + r \in 0 .. N - 1
    BY <1>1, <1>2, <1>4, <1>5
  <2> QED BY <1>1, <1>3, <2>1, ModOf
<1>8. RoundDown(g % N) = P * i
  <2>1. (P * i + r) % P = r
    BY <1>1, <1>2, <1>3, ModOf
  <2> QED BY <1>2, <1>4, <1>7, <2>1 DEF RoundDown
<1>9. (g - P * i) % N = r
  <2>1. g - P * i = N * j + r /\ r \in 0 .. N - 1
    BY <1>1, <1>2, <1>4
  <2> QED BY <1>1, <1>3, <2>1, ModOf
<1>10. P * i = i * P
  BY <1>1, <1>3
<1> QED BY <1>2, <1>3, <1>4, <1>6, <1>8, <1>9, <1>10 DEF M

(* What the handler reads: the slot of the running period's first page, or *)
(* of the next period's when the counter is a page ahead of memory.        *)
LEMMA CountRead ==
  ASSUME filled \in Nat, link, IrqReadCount
  PROVE  \E g \in {filled, filled + 1} :
           /\ hgp' = Slot(Base(g)) /\ habs' = Base(g)
           /\ \E i \in 0 .. (N \div P) - 1 : hgp' = i * P
<1>1. PICK g \in {filled, filled + 1} :
        hgp' = RoundDown(g % N) /\ habs' = g - ((g - hgp') % N)
  BY DEF IrqReadCount, GpCounts, LastIn
<1>2. g \in Int
  BY <1>1
<1>3. hgp' = Slot(Base(g))
  BY <1>1, <1>2, Rounded
<1> QED BY <1>1, <1>2, <1>3, Rounded

LEMMA Laps ==
  ASSUME NEW n \in Int
  PROVE  Lap(n) \in Int /\ Lap(n + 1) = Lap(n) + N /\ n * N = Lap(n) /\ Lap(0) = 0
BY RingSize DEF Lap

LEMMA PeriodCount ==
  ASSUME NEW u \in Nat, NEW m \in Nat, u <= m
  PROVE  /\ Periods(u) \in Nat /\ Periods(u + 1) = Periods(u) + P
         /\ Periods(u) <= Periods(m) /\ Periods(m) \in Nat /\ Periods(0) = 0
<1>1. P * u \in Nat /\ P * m \in Nat /\ P * (u + 1) = P * u + P /\ P * 0 = 0
  BY RingSize
<1>2. P * u <= P * m
  BY RingSize, Product
<1> QED BY <1>1, <1>2 DEF Periods


(***************************************************************************)
(* Type correctness, in the parts the actions keep or change together.     *)
(***************************************************************************)
USE DEF vars, engineVars, irqLineVars, handlerVars, countVars, anchorVars, readVars,
        Irq, IrqUnchanged, Step, ProcUnchanged, ReadUnchanged

Counters == {k * P : k \in -1 .. N \div P - 1} \cup {-1}

EngineOK  == filled \in 0 .. MaxFilled /\ zeroed \subseteq Slots /\ spoilt \in BOOLEAN
LineOK    == /\ pending \in BOOLEAN /\ unseen \in 0 .. MaxUnseen
             /\ link \in BOOLEAN /\ pciMsk \in BOOLEAN
HandlerOK == hpc \in HandlerPcs /\ hgp \in Counters /\ hlaps \in Nat /\ habs \in Int
CountOK   == /\ laps \in Nat /\ last \in Int /\ total \in Int
             /\ lg \in Counters /\ labs \in Int /\ tabs \in Int
AnchorOK  == initial \in Counters /\ base \in Int /\ start \in Int /\ anchor \in Int
ReadOK    == /\ off \in 0 .. MaxFilled /\ gp \in Counters /\ want \in 0 .. MaxRead
             /\ noted \in BOOLEAN
ProcessOK == /\ overruns \in 0 .. MaxOverruns
             /\ pc \in {"closed", "open"} \cup OpenPcs \cup ReadPcs
             /\ opens \in 0 .. MaxOpens /\ lost \in BOOLEAN /\ late \in BOOLEAN

(* A page is handed out only while one is wanted.                          *)
Copying == pc = "r_zero" => off < MaxFilled /\ want > 0

TypeInv == /\ EngineOK /\ LineOK /\ HandlerOK /\ CountOK /\ AnchorOK /\ ReadOK
           /\ ProcessOK /\ Copying

LEMMA Sizes ==
  /\ P \in Nat \ {0} /\ N \in Nat \ {0} /\ N <= MaxFilled
  /\ MaxUnseen \in Nat \ {0} /\ MaxFilled \in Nat \ {0} /\ MaxRead \in Nat \ {0}
  /\ MaxOpens \in Nat \ {0} /\ MaxOverruns \in Nat \ {0}
BY RingSize, RingAssumption

LEMMA CounterIs ==
  /\ 0 \in Counters /\ -1 \in Counters /\ DeadCount \in Counters
  /\ \A i \in 0 .. (N \div P) - 1 : i * P \in Counters
  /\ Counters \subseteq Int
<1>1. P \in Nat \ {0} /\ N \div P \in Nat \ {0}
  BY RingSize
<1>2. 0 * P = 0 /\ (-1) * P = DeadCount
  BY <1>1 DEF DeadCount
<1>3. \A i \in -1 .. (N \div P) - 1 : i * P \in Counters /\ i * P \in Int
  BY <1>1 DEF Counters
<1>4. 0 \in -1 .. (N \div P) - 1 /\ -1 \in -1 .. (N \div P) - 1
  BY <1>1
<1>5. 0 \in Counters /\ DeadCount \in Counters
  BY <1>2, <1>3, <1>4
<1>6. \A c \in Counters : c \in Int
  BY <1>3 DEF Counters
<1> QED BY <1>3, <1>5, <1>6 DEF Counters

LEMMA TypeInvIsTyped == TypeInv => RingTypeOK
BY DEF TypeInv, EngineOK, LineOK, HandlerOK, CountOK, AnchorOK, ReadOK, ProcessOK,
       RingTypeOK, Counters

LEMMA TypeInit == Init => TypeInv
<1> SUFFICES ASSUME Init PROVE TypeInv
  OBVIOUS
<1>1. EngineOK
  <2>1. filled \in 0 .. MaxFilled
    BY Sizes DEF Init, Slots
  <2> QED BY <2>1 DEF Init, EngineOK
<1>2. LineOK /\ ReadOK /\ ProcessOK /\ Copying
  <2>1. /\ 0 \in 0 .. MaxUnseen /\ 0 \in 0 .. MaxFilled /\ 0 \in 0 .. MaxRead
        /\ 0 \in 0 .. MaxOverruns /\ 0 \in 0 .. MaxOpens
    BY Sizes
  <2> QED BY <2>1, CounterIs DEF Init, LineOK, ReadOK, ProcessOK, Copying
<1>3. HandlerOK /\ CountOK /\ AnchorOK
  BY CounterIs DEF Init, HandlerOK, CountOK, AnchorOK, HandlerPcs
<1> QED BY <1>1, <1>2, <1>3 DEF TypeInv

(* The handler reads a period boundary, or what a dead card answers.       *)
LEMMA ReadCountTyped ==
  ASSUME EngineOK, IrqReadCount
  PROVE  hgp' \in Counters /\ habs' \in Int
<1>1. CASE link
  <2>1. filled \in Nat
    BY Sizes DEF EngineOK
  <2>2. PICK g \in {filled, filled + 1} :
          /\ habs' = Base(g)
          /\ \E i \in 0 .. (N \div P) - 1 : hgp' = i * P
    BY <1>1, <2>1, CountRead
  <2>3. g \in Int
    BY <2>1
  <2> QED BY <2>2, <2>3, CounterIs, BaseIs
<1>2. CASE ~link
  BY <1>2, CounterIs DEF IrqReadCount
<1> QED BY <1>1, <1>2

LEMMA ReaderSlot == ReadOK /\ AnchorOK => Pnum \in Slots
<1> SUFFICES ASSUME ReadOK, AnchorOK PROVE Pnum \in Slots
  OBVIOUS
<1>1. off \in Int /\ initial \in Int
  BY Sizes, CounterIs DEF ReadOK, AnchorOK
<1>2. off + initial \in Int
  BY <1>1
<1> QED BY <1>2, Sizes DEF Pnum, Slots

LEMMA TypeStep == TypeInv /\ [Next]_vars => TypeInv'
<1> SUFFICES ASSUME TypeInv, [Next]_vars PROVE TypeInv'
  OBVIOUS
<1> USE DEF TypeInv
<1>1. CASE FillPage
  <2>1. HandlerOK' /\ CountOK' /\ AnchorOK' /\ ReadOK' /\ ProcessOK' /\ Copying'
    BY <1>1 DEF FillPage, HandlerOK, CountOK, AnchorOK, ReadOK, ProcessOK, Copying
  <2>2. EngineOK'
    <3>1. filled' \in 0 .. MaxFilled
      BY <1>1, Sizes DEF FillPage, EngineOK
    <3>2. filled % N \in Slots
      BY Sizes DEF EngineOK, Slots
    <3>3. zeroed' \subseteq Slots
      BY <1>1, <3>2 DEF FillPage, EngineOK
    <3> QED BY <1>1, <3>1, <3>3 DEF FillPage, EngineOK
  <2>3. LineOK'
    <3>1. unseen' \in 0 .. MaxUnseen
      BY <1>1, Sizes DEF FillPage, LineOK
    <3>2. EndsPeriod \in BOOLEAN
      BY DEF EndsPeriod
    <3> QED BY <1>1, <3>1, <3>2 DEF FillPage, LineOK
  <2> QED BY <2>1, <2>2, <2>3
<1>2. CASE CardDies
  <2>1. EngineOK' /\ HandlerOK' /\ CountOK' /\ AnchorOK' /\ ReadOK' /\ ProcessOK' /\ Copying'
    BY <1>2 DEF CardDies, EngineOK, HandlerOK, CountOK, AnchorOK, ReadOK, ProcessOK,
           Copying
  <2>2. LineOK'
    BY <1>2 DEF CardDies, LineOK
  <2> QED BY <2>1, <2>2
<1>3. CASE IrqEnter
  <2>1. EngineOK' /\ LineOK' /\ CountOK' /\ AnchorOK' /\ ReadOK' /\ Copying'
    BY <1>3 DEF IrqEnter, EngineOK, LineOK, CountOK, AnchorOK, ReadOK, Copying
  <2>2. HandlerOK'
    BY <1>3 DEF IrqEnter, HandlerOK, HandlerPcs
  <2>3. ProcessOK'
    BY <1>3 DEF IrqEnter, ProcessOK
  <2> QED BY <2>1, <2>2, <2>3
<1>4. CASE IrqReadCount
  <2>1. EngineOK' /\ CountOK' /\ AnchorOK' /\ ReadOK' /\ Copying'
    BY <1>4 DEF IrqReadCount, EngineOK, CountOK, AnchorOK, ReadOK, Copying
  <2>2. LineOK'
    BY <1>4, Sizes DEF IrqReadCount, LineOK
  <2>3. HandlerOK'
    BY <1>4, ReadCountTyped DEF IrqReadCount, HandlerOK, HandlerPcs
  <2>4. ProcessOK'
    BY <1>4 DEF IrqReadCount, ProcessOK
  <2> QED BY <2>1, <2>2, <2>3, <2>4
<1>5. CASE IrqWrap
  <2>1. EngineOK' /\ LineOK' /\ CountOK' /\ AnchorOK' /\ ReadOK' /\ Copying'
    BY <1>5 DEF IrqWrap, EngineOK, LineOK, CountOK, AnchorOK, ReadOK, Copying
  <2>2. HandlerOK'
    BY <1>5 DEF IrqWrap, HandlerOK, HandlerPcs, CountOK
  <2>3. ProcessOK'
    BY <1>5 DEF IrqWrap, ProcessOK
  <2> QED BY <2>1, <2>2, <2>3
<1>6. CASE IrqStoreLaps
  <2>1. EngineOK' /\ LineOK' /\ AnchorOK' /\ ReadOK' /\ Copying'
    BY <1>6 DEF IrqStoreLaps, EngineOK, LineOK, AnchorOK, ReadOK, Copying
  <2>2. HandlerOK'
    BY <1>6 DEF IrqStoreLaps, HandlerOK, HandlerPcs
  <2>3. CountOK'
    BY <1>6 DEF IrqStoreLaps, CountOK, HandlerOK
  <2>4. ProcessOK'
    BY <1>6 DEF IrqStoreLaps, ProcessOK
  <2> QED BY <2>1, <2>2, <2>3, <2>4
<1>7. CASE IrqLast
  <2>1. EngineOK' /\ LineOK' /\ AnchorOK' /\ ReadOK' /\ Copying'
    BY <1>7 DEF IrqLast, EngineOK, LineOK, AnchorOK, ReadOK, Copying
  <2>2. HandlerOK'
    BY <1>7 DEF IrqLast, HandlerOK, HandlerPcs
  <2>3. CountOK'
    BY <1>7, CounterIs DEF IrqLast, CountOK, HandlerOK
  <2>4. ProcessOK'
    BY <1>7 DEF IrqLast, ProcessOK
  <2> QED BY <2>1, <2>2, <2>3, <2>4
<1>8. CASE IrqTotal
  <2>1. EngineOK' /\ LineOK' /\ AnchorOK' /\ ReadOK' /\ Copying'
    BY <1>8 DEF IrqTotal, EngineOK, LineOK, AnchorOK, ReadOK, Copying
  <2>2. HandlerOK'
    BY <1>8 DEF IrqTotal, HandlerOK, HandlerPcs
  <2>3. CountOK'
    BY <1>8, CounterIs, Sizes DEF IrqTotal, CountOK, HandlerOK
  <2>4. ProcessOK'
    BY <1>8 DEF IrqTotal, ProcessOK
  <2> QED BY <2>1, <2>2, <2>3, <2>4
<1>9. CASE IrqPublish
  <2>1. EngineOK' /\ LineOK' /\ AnchorOK' /\ ReadOK' /\ Copying'
    BY <1>9 DEF IrqPublish, EngineOK, LineOK, AnchorOK, ReadOK, Copying
  <2>2. HandlerOK'
    BY <1>9, CounterIs DEF IrqPublish, HandlerOK, HandlerPcs
  <2>3. CountOK'
    BY <1>9 DEF IrqPublish, CountOK, HandlerOK
  <2>4. ProcessOK'
    BY <1>9 DEF IrqPublish, ProcessOK
  <2> QED BY <2>1, <2>2, <2>3, <2>4
<1>10. CASE IrqAck
  <2>1. EngineOK' /\ CountOK' /\ AnchorOK' /\ ReadOK' /\ Copying'
    BY <1>10 DEF IrqAck, EngineOK, CountOK, AnchorOK, ReadOK, Copying
  <2>2. LineOK'
    BY <1>10 DEF IrqAck, LineOK
  <2>3. HandlerOK'
    BY <1>10 DEF IrqAck, HandlerOK, HandlerPcs
  <2>4. ProcessOK'
    BY <1>10 DEF IrqAck, ProcessOK
  <2> QED BY <2>1, <2>2, <2>3, <2>4
<1>11. CASE OpenLaps
  <2>1. EngineOK' /\ LineOK' /\ HandlerOK' /\ AnchorOK'
    BY <1>11 DEF OpenLaps, EngineOK, LineOK, HandlerOK, AnchorOK
  <2>2. CountOK'
    BY <1>11 DEF OpenLaps, CountOK
  <2>3. ReadOK'
    BY <1>11, Sizes DEF OpenLaps, ReadOK
  <2>4. ProcessOK'
    <3>1. opens' \in 0 .. MaxOpens
      BY <1>11, Sizes DEF OpenLaps, ProcessOK
    <3> QED BY <1>11, <3>1 DEF OpenLaps, ProcessOK, OpenPcs
  <2>5. Copying'
    BY <1>11 DEF OpenLaps, Copying
  <2> QED BY <2>1, <2>2, <2>3, <2>4, <2>5
<1>12. CASE OpenLast
  <2>1. EngineOK' /\ LineOK' /\ HandlerOK' /\ AnchorOK' /\ ReadOK'
    BY <1>12 DEF OpenLast, EngineOK, LineOK, HandlerOK, AnchorOK, ReadOK
  <2>2. CountOK'
    BY <1>12 DEF OpenLast, CountOK
  <2>3. ProcessOK'
    BY <1>12 DEF OpenLast, ProcessOK, OpenPcs
  <2>4. Copying'
    BY <1>12 DEF OpenLast, Copying
  <2> QED BY <2>1, <2>2, <2>3, <2>4
<1>13. CASE OpenTotal
  <2>1. EngineOK' /\ LineOK' /\ HandlerOK' /\ ReadOK'
    BY <1>13 DEF OpenTotal, EngineOK, LineOK, HandlerOK, ReadOK
  <2>2. CountOK'
    BY <1>13 DEF OpenTotal, CountOK
  <2>3. AnchorOK'
    BY <1>13 DEF OpenTotal, AnchorOK
  <2>4. ProcessOK'
    BY <1>13, Sizes DEF OpenTotal, ProcessOK, OpenPcs
  <2>5. Copying'
    BY <1>13 DEF OpenTotal, Copying
  <2> QED BY <2>1, <2>2, <2>3, <2>4, <2>5
<1>14. CASE OpenLgpcnt
  <2>1. EngineOK' /\ LineOK' /\ HandlerOK' /\ AnchorOK' /\ ReadOK'
    BY <1>14 DEF OpenLgpcnt, EngineOK, LineOK, HandlerOK, AnchorOK, ReadOK
  <2>2. CountOK'
    BY <1>14, CounterIs DEF OpenLgpcnt, CountOK
  <2>3. ProcessOK'
    BY <1>14 DEF OpenLgpcnt, ProcessOK, OpenPcs
  <2>4. Copying'
    BY <1>14 DEF OpenLgpcnt, Copying
  <2> QED BY <2>1, <2>2, <2>3, <2>4
<1>15. CASE OpenEnable
  <2>1. EngineOK' /\ HandlerOK' /\ CountOK' /\ AnchorOK' /\ ReadOK'
    BY <1>15 DEF OpenEnable, EngineOK, HandlerOK, CountOK, AnchorOK, ReadOK
  <2>2. LineOK'
    BY <1>15, Sizes DEF OpenEnable, LineOK
  <2>3. ProcessOK'
    BY <1>15 DEF OpenEnable, ProcessOK, OpenPcs
  <2>4. Copying'
    BY <1>15 DEF OpenEnable, Copying
  <2> QED BY <2>1, <2>2, <2>3, <2>4
<1>16. CASE OpenWait
  <2>1. EngineOK' /\ LineOK' /\ HandlerOK' /\ CountOK' /\ AnchorOK' /\ ReadOK'
    BY <1>16 DEF OpenWait, EngineOK, LineOK, HandlerOK, CountOK, AnchorOK, ReadOK
  <2>2. ProcessOK'
    BY <1>16 DEF OpenWait, ProcessOK, OpenPcs
  <2>3. Copying'
    BY <1>16 DEF OpenWait, Copying
  <2> QED BY <2>1, <2>2, <2>3
<1>17. CASE OpenInitial
  <2>1. EngineOK' /\ LineOK' /\ HandlerOK' /\ CountOK' /\ ReadOK'
    BY <1>17 DEF OpenInitial, EngineOK, LineOK, HandlerOK, CountOK, ReadOK
  <2>2. AnchorOK'
    BY <1>17 DEF OpenInitial, AnchorOK, CountOK
  <2>3. ProcessOK'
    BY <1>17 DEF OpenInitial, ProcessOK, OpenPcs
  <2>4. Copying'
    BY <1>17 DEF OpenInitial, Copying
  <2> QED BY <2>1, <2>2, <2>3, <2>4
<1>18. CASE OpenBase
  <2>1. EngineOK' /\ LineOK' /\ HandlerOK' /\ CountOK' /\ ReadOK'
    BY <1>18 DEF OpenBase, EngineOK, LineOK, HandlerOK, CountOK, ReadOK
  <2>2. AnchorOK'
    BY <1>18 DEF OpenBase, AnchorOK, CountOK
  <2>3. ProcessOK'
    BY <1>18 DEF OpenBase, ProcessOK, OpenPcs
  <2>4. Copying'
    BY <1>18 DEF OpenBase, Copying
  <2> QED BY <2>1, <2>2, <2>3, <2>4
<1>19. CASE Close
  <2>1. EngineOK' /\ HandlerOK' /\ CountOK' /\ AnchorOK' /\ ReadOK'
    BY <1>19 DEF Close, EngineOK, HandlerOK, CountOK, AnchorOK, ReadOK
  <2>2. LineOK'
    BY <1>19 DEF Close, LineOK
  <2>3. ProcessOK'
    BY <1>19 DEF Close, ProcessOK
  <2>4. Copying'
    BY <1>19 DEF Close, Copying
  <2> QED BY <2>1, <2>2, <2>3, <2>4
<1>20. CASE ReadStart
  <2>1. EngineOK' /\ LineOK' /\ HandlerOK' /\ CountOK' /\ AnchorOK'
    BY <1>20 DEF ReadStart, EngineOK, LineOK, HandlerOK, CountOK, AnchorOK
  <2>2. ReadOK'
    <3>1. want' \in 0 .. MaxRead
      BY <1>20, Sizes DEF ReadStart
    <3> QED BY <1>20, <3>1 DEF ReadStart, ReadOK, CountOK
  <2>3. ProcessOK'
    BY <1>20 DEF ReadStart, ProcessOK, ReadPcs
  <2>4. Copying'
    BY <1>20 DEF ReadStart, Copying
  <2> QED BY <2>1, <2>2, <2>3, <2>4
<1>21. CASE ReadCheck
  <2>1. EngineOK' /\ LineOK' /\ HandlerOK' /\ CountOK' /\ AnchorOK'
    BY <1>21 DEF ReadCheck, EngineOK, LineOK, HandlerOK, CountOK, AnchorOK
  <2>2. ReadOK'
    BY <1>21 DEF ReadCheck, ReadOK
  <2>3. ProcessOK'
    BY <1>21, Sizes DEF ReadCheck, ProcessOK, ReadPcs
  <2>4. Copying'
    BY <1>21 DEF ReadCheck, Copying
  <2> QED BY <2>1, <2>2, <2>3, <2>4
<1>22. CASE ReadCopy
  <2>1. EngineOK' /\ LineOK' /\ HandlerOK' /\ CountOK' /\ AnchorOK' /\ ReadOK'
    BY <1>22 DEF ReadCopy, EngineOK, LineOK, HandlerOK, CountOK, AnchorOK, ReadOK
  <2>2. ProcessOK'
    BY <1>22 DEF ReadCopy, ProcessOK, ReadPcs
  <2>3. Copying'
    BY <1>22 DEF ReadCopy, Copying, ReadOK, HasPage
  <2> QED BY <2>1, <2>2, <2>3
<1>23. CASE ReadZero
  <2>1. LineOK' /\ HandlerOK' /\ CountOK' /\ AnchorOK'
    BY <1>23 DEF ReadZero, LineOK, HandlerOK, CountOK, AnchorOK
  <2>2. EngineOK'
    BY <1>23, ReaderSlot DEF ReadZero, EngineOK
  <2>3. ReadOK'
    BY <1>23, Sizes DEF ReadZero, ReadOK, Copying
  <2>4. ProcessOK'
    BY <1>23 DEF ReadZero, ProcessOK, ReadPcs
  <2>5. Copying'
    BY <1>23 DEF ReadZero, Copying
  <2> QED BY <2>1, <2>2, <2>3, <2>4, <2>5
<1>24. CASE ReadReturn
  <2>1. EngineOK' /\ LineOK' /\ HandlerOK' /\ CountOK' /\ AnchorOK'
    BY <1>24 DEF ReadReturn, EngineOK, LineOK, HandlerOK, CountOK, AnchorOK
  <2>2. ReadOK'
    BY <1>24, Sizes DEF ReadReturn, ReadOK
  <2>3. ProcessOK'
    BY <1>24 DEF ReadReturn, ProcessOK
  <2>4. Copying'
    BY <1>24 DEF ReadReturn, Copying
  <2> QED BY <2>1, <2>2, <2>3, <2>4
<1>25. CASE ReadWait
  <2>1. EngineOK' /\ LineOK' /\ HandlerOK' /\ CountOK' /\ AnchorOK' /\ ReadOK'
    BY <1>25 DEF ReadWait, EngineOK, LineOK, HandlerOK, CountOK, AnchorOK, ReadOK
  <2>2. ProcessOK'
    BY <1>25 DEF ReadWait, ProcessOK, ReadPcs
  <2>3. Copying'
    BY <1>25 DEF ReadWait, Copying
  <2> QED BY <2>1, <2>2, <2>3
<1>26. CASE ReadWoke
  <2>1. EngineOK' /\ LineOK' /\ HandlerOK' /\ CountOK' /\ AnchorOK'
    BY <1>26 DEF ReadWoke, EngineOK, LineOK, HandlerOK, CountOK, AnchorOK
  <2>2. ReadOK'
    BY <1>26 DEF ReadWoke, ReadOK, CountOK
  <2>3. ProcessOK'
    BY <1>26 DEF ReadWoke, ProcessOK, ReadPcs
  <2>4. Copying'
    BY <1>26 DEF ReadWoke, Copying
  <2> QED BY <2>1, <2>2, <2>3, <2>4
<1>27. CASE ReadInterrupted
  <2>1. EngineOK' /\ LineOK' /\ HandlerOK' /\ CountOK' /\ AnchorOK'
    BY <1>27 DEF ReadInterrupted, EngineOK, LineOK, HandlerOK, CountOK, AnchorOK
  <2>2. ReadOK'
    BY <1>27, Sizes DEF ReadInterrupted, ReadOK
  <2>3. ProcessOK'
    BY <1>27 DEF ReadInterrupted, ProcessOK
  <2>4. Copying'
    BY <1>27 DEF ReadInterrupted, Copying
  <2> QED BY <2>1, <2>2, <2>3, <2>4
<1>28. CASE UNCHANGED vars
  BY <1>28 DEF EngineOK, LineOK, HandlerOK, CountOK, AnchorOK, ReadOK, ProcessOK,
         Copying
<1> QED BY <1>1, <1>2, <1>3, <1>4, <1>5, <1>6, <1>7, <1>8, <1>9, <1>10, <1>11, <1>12,
       <1>13, <1>14, <1>15, <1>16, <1>17, <1>18, <1>19, <1>20, <1>21, <1>22, <1>23,
       <1>24, <1>25, <1>26, <1>27, <1>28 DEF Next, Engine, Handler, Open, Read

(* Type correctness: the counters, the handler's locals and the process's  *)
(* place keep their types, and every count published to read() is a period *)
(* boundary of the ring, open()'s -1, or what a dead card's answer becomes.*)
THEOREM RingTypeCorrect == Spec => []RingTypeOK
<1>1. Spec => []TypeInv
  BY TypeInit, TypeStep, PTL DEF Spec
<1> QED BY <1>1, TypeInvIsTyped, PTL

(***************************************************************************)
(* Where the page numbers point, while the card answers: what is published *)
(* is the slot of the page recorded for it, at most the first page of the  *)
(* period the page after the running one is in, and what a handler in      *)
(* flight holds is no older: when a handler may start, the engine has      *)
(* entered every period that was counted before.                           *)
(***************************************************************************)
Anchored == {"open"} \cup ReadPcs
Session  == {"o_wait", "o_initial", "o_base"} \cup Anchored
InFlight == {"wrap", "store", "last", "total", "publish"}

Ahead == Base(filled + 1)

Where ==
  /\ labs <= Ahead
  /\ hpc = "gp" \/ (hpc = "idle" /\ pending) => labs <= Base(filled)
  /\ lg # -1 => lg = Slot(labs)
  /\ lg = -1 => pc \in {"o_enable", "o_wait"}
  /\ hpc \in InFlight => hgp = Slot(habs) /\ labs <= habs /\ habs <= Ahead
  /\ tabs = IF hpc = "publish" THEN habs ELSE labs
  /\ pc \in Session => pciMsk

(* The reader stands at or before its snapshot, and the snapshot at or     *)
(* before what is published.                                               *)
Snapshot == \E g \in Int : gp = Slot(g) /\ start + off <= g /\ g <= labs

Placed ==
  /\ pc \in OpenPcs => off = 0
  /\ pc = "o_base" => initial = Slot(start) /\ start <= labs
  /\ pc \in Anchored => initial = Slot(start) /\ start + off <= labs
  /\ pc \in ReadPcs => Snapshot
  /\ pc = "r_zero" => Pnum # gp

Located == link => Where /\ Placed

LEMMA BaseNat ==
  ASSUME NEW f \in Nat
  PROVE  Base(f) \in Nat /\ Base(f) <= f /\ Slot(0) = 0
<1>1. /\ Base(f) \in Int /\ f - Base(f) \in 0 .. P - 1
      /\ Base(f) = P * (f \div P) /\ f \div P \in Int
  BY BaseIs
<1>2. P \in Nat \ {0} /\ N \in Nat \ {0}
  BY RingSize
<1>3. f \div P >= 0
  <2> SUFFICES ASSUME f \div P <= -1 PROVE FALSE
    BY <1>1
  <2>1. P * (f \div P) <= P * (-1) /\ P * (-1) = -P
    BY <1>1, <1>2, Product
  <2> QED BY <1>1, <1>2, <2>1
<1>4. P * 0 <= P * (f \div P) /\ P * 0 = 0
  BY <1>1, <1>2, <1>3, Product
<1>5. (N * 0 + 0) % N = 0 /\ N * 0 + 0 = 0
  BY <1>2, ModOf
<1> QED BY <1>1, <1>2, <1>4, <1>5 DEF Slot

LEMMA Numbers ==
  TypeInv => /\ filled \in Nat /\ off \in Nat /\ laps \in Nat /\ hlaps \in Nat
             /\ lg \in Int /\ gp \in Int /\ hgp \in Int /\ initial \in Int
             /\ labs \in Int /\ habs \in Int /\ tabs \in Int
             /\ start \in Int /\ anchor \in Int /\ last \in Int /\ total \in Int
             /\ base \in Int /\ Base(filled) \in Int /\ unseen \in 0 .. MaxUnseen
<1> SUFFICES ASSUME TypeInv
             PROVE  /\ filled \in Nat /\ off \in Nat /\ laps \in Nat /\ hlaps \in Nat
                    /\ lg \in Int /\ gp \in Int /\ hgp \in Int /\ initial \in Int
                    /\ labs \in Int /\ habs \in Int /\ tabs \in Int
                    /\ start \in Int /\ anchor \in Int /\ last \in Int /\ total \in Int
                    /\ base \in Int /\ Base(filled) \in Int /\ unseen \in 0 .. MaxUnseen
  OBVIOUS
<1> USE DEF TypeInv
<1>1. filled \in Nat
  BY Sizes DEF EngineOK
<1>2. off \in Nat /\ gp \in Int
  BY Sizes, CounterIs DEF ReadOK
<1>3. lg \in Int /\ hgp \in Int /\ initial \in Int
  BY CounterIs DEF CountOK, HandlerOK, AnchorOK
<1>4. Base(filled) \in Int
  BY <1>1, BaseIs
<1> QED BY <1>1, <1>2, <1>3, <1>4 DEF CountOK, HandlerOK, AnchorOK, LineOK

LEMMA LinkStays == TypeInv /\ [Next]_vars /\ link' => link
BY DEF TypeInv, LineOK, Next, Engine, Handler, Open, Read, FillPage, CardDies,
       IrqEnter, IrqReadCount, IrqWrap, IrqStoreLaps, IrqLast, IrqTotal, IrqPublish,
       IrqAck, OpenLaps, OpenLast, OpenTotal, OpenLgpcnt, OpenEnable, OpenWait,
       OpenInitial, OpenBase, Close, ReadStart, ReadCheck, ReadCopy, ReadZero,
       ReadReturn, ReadWait, ReadWoke, ReadInterrupted

(* The slot the reader looks at is that of the page it wants.              *)
LEMMA ReaderAt ==
  ASSUME TypeInv, initial = Slot(start)
  PROVE  Pnum = Slot(Pos) /\ Pos \in Int
<1>1. start \in Int /\ off \in Int
  BY Numbers
<1>2. (off + Slot(start)) % N = Slot(start + off)
  BY <1>1, SlotPlus
<1> QED BY <1>1, <1>2 DEF Pnum, Pos

(* A reader that has a page to copy is before its snapshot.                *)
LEMMA ReaderBehind ==
  ASSUME TypeInv, Placed, pc \in ReadPcs, Pnum # gp
  PROVE  \E g \in Int : gp = Slot(g) /\ start + off < g /\ g <= labs
<1>1. PICK g \in Int : gp = Slot(g) /\ start + off <= g /\ g <= labs
  BY DEF Placed, Snapshot
<1>2. Pnum = Slot(start + off) /\ start + off \in Int
  BY ReaderAt DEF Placed, Anchored, Pos
<1>3. start + off # g
  BY <1>1, <1>2
<1> QED BY <1>1, <1>2, <1>3

(* Ahead is the running period's first page, or the next one's.            *)
LEMMA AheadIs ==
  ASSUME filled \in Nat
  PROVE  /\ Ahead \in Nat /\ Base(filled) <= Ahead /\ Ahead <= Base(filled) + P
         /\ Ahead = IF EndsPeriod THEN Base(filled) + P ELSE Base(filled)
         /\ EndsPeriod => Ahead = filled + 1
<1>1. /\ Base(filled) \in Nat /\ P \in Nat \ {0}
      /\ Ahead = IF EndsPeriod THEN Base(filled) + P ELSE Base(filled)
  BY BaseNat, BaseNext, Sizes DEF Ahead, EndsPeriod
<1>2. EndsPeriod => Ahead = filled + 1
  BY DEF Ahead, EndsPeriod, Base
<1> QED BY <1>1, <1>2

LEMMA LocatedInit == Init => Located
<1> SUFFICES ASSUME Init PROVE Where /\ Placed
  BY DEF Located
<1>1. filled \in Nat
  BY Sizes DEF Init, Slots
<1>2. Ahead \in Nat /\ Base(filled) \in Nat /\ Slot(0) = 0
  BY <1>1, BaseNat, AheadIs
<1> QED BY <1>2 DEF Init, Where, Placed, OpenPcs, ReadPcs, Anchored, Session, InFlight

LEMMA LocatedStep == TypeInv /\ TypeInv' /\ Located /\ [Next]_vars => Located'
<1> SUFFICES ASSUME TypeInv, TypeInv', Where, Placed, [Next]_vars, link, link'
             PROVE  Where' /\ Placed'
  BY LinkStays DEF Located
<1>a. /\ filled \in Nat /\ Base(filled) \in Int /\ off \in Nat /\ start \in Int
      /\ labs \in Int /\ habs \in Int /\ tabs \in Int
  BY Numbers
<1>b. P \in Nat \ {0} /\ \A a \in Int : Slot(a) \in 0 .. N - 1
  BY Sizes, SlotIs
<1>1. CASE FillPage
  <2>1. Where'
    <3>1. filled' = filled + 1 /\ filled + 1 \in Nat
      BY <1>1, <1>a DEF FillPage
    <3>2. Base(filled)' = Ahead /\ Ahead' = Base(filled + 1 + 1)
      BY <3>1 DEF Ahead
    <3>3. Base(filled + 1 + 1) >= Base(filled + 1) /\ Base(filled + 1 + 1) \in Int
          /\ Base(filled + 1) \in Int
      <4>1. /\ Base(filled + 1) \in Int
            /\ Base(filled + 1 + 1) = IF (filled + 1 + 1) % P = 0
                                     THEN Base(filled + 1) + P ELSE Base(filled + 1)
        BY <3>1, BaseNext, BaseIs
      <4> HIDE DEF Base
      <4> QED BY <1>b, <4>1
    <3>4. Ahead' >= Ahead /\ Ahead' \in Int /\ Ahead \in Int
      BY <3>2, <3>3 DEF Ahead
    <3> QED BY <1>1, <1>a, <3>2, <3>4 DEF FillPage, Where
  <2>2. Placed'
    BY <1>1, <1>a, <1>b DEF FillPage, Placed, Snapshot, Anchored, OpenPcs, ReadPcs, Pnum
  <2> QED BY <2>1, <2>2
<1>2. CASE CardDies
  <2>1. Where'
    BY <1>2, <1>a, <1>b DEF CardDies, Where, Ahead, InFlight, Session, Anchored, OpenPcs,
           ReadPcs
  <2>2. Placed'
    BY <1>2, <1>a, <1>b DEF CardDies, Placed, Snapshot, Anchored, OpenPcs, ReadPcs, Pnum
  <2> QED BY <2>1, <2>2
<1>3. CASE IrqEnter
  <2>1. Where'
    BY <1>3, <1>a, <1>b DEF IrqEnter, Where, Ahead, InFlight, Session, Anchored, OpenPcs,
           ReadPcs
  <2>2. Placed'
    BY <1>3, <1>a, <1>b DEF IrqEnter, Placed, Snapshot, Anchored, OpenPcs, ReadPcs, Pnum
  <2> QED BY <2>1, <2>2
<1>4. CASE IrqReadCount
  <2>1. Where'
    <3>1. PICK g \in {filled, filled + 1} : hgp' = Slot(Base(g)) /\ habs' = Base(g)
      BY <1>4, <1>a, CountRead
    <3>2. /\ Base(filled) <= habs' /\ habs' <= Ahead /\ Ahead \in Int /\ habs' \in Int
      BY <1>a, <3>1, AheadIs DEF Ahead
    <3>3. hgp' = Slot(habs')
      BY <3>1
    <3>4. Ahead' = Ahead /\ labs <= Base(filled)
      BY <1>4 DEF IrqReadCount, Where, Ahead
    <3> QED BY <1>4, <1>a, <3>2, <3>3, <3>4 DEF IrqReadCount, Where, InFlight
  <2>2. Placed'
    BY <1>4, <1>a, <1>b DEF IrqReadCount, Placed, Snapshot, Anchored, OpenPcs, ReadPcs,
           Pnum
  <2> QED BY <2>1, <2>2
<1>5. CASE IrqWrap
  <2>1. Where'
    BY <1>5, <1>a, <1>b DEF IrqWrap, Where, Ahead, InFlight, Session, Anchored, OpenPcs,
           ReadPcs
  <2>2. Placed'
    BY <1>5, <1>a, <1>b DEF IrqWrap, Placed, Snapshot, Anchored, OpenPcs, ReadPcs, Pnum
  <2> QED BY <2>1, <2>2
<1>6. CASE IrqStoreLaps
  <2>1. Where'
    BY <1>6, <1>a, <1>b DEF IrqStoreLaps, Where, Ahead, InFlight, Session, Anchored, OpenPcs,
           ReadPcs
  <2>2. Placed'
    BY <1>6, <1>a, <1>b DEF IrqStoreLaps, Placed, Snapshot, Anchored, OpenPcs, ReadPcs,
           Pnum
  <2> QED BY <2>1, <2>2
<1>7. CASE IrqLast
  <2>1. Where'
    BY <1>7, <1>a, <1>b DEF IrqLast, Where, Ahead, InFlight, Session, Anchored, OpenPcs,
           ReadPcs
  <2>2. Placed'
    BY <1>7, <1>a, <1>b DEF IrqLast, Placed, Snapshot, Anchored, OpenPcs, ReadPcs, Pnum
  <2> QED BY <2>1, <2>2
<1>8. CASE IrqTotal
  <2>1. Where'
    BY <1>8, <1>a, <1>b DEF IrqTotal, Where, Ahead, InFlight, Session, Anchored, OpenPcs,
           ReadPcs
  <2>2. Placed'
    BY <1>8, <1>a, <1>b DEF IrqTotal, Placed, Snapshot, Anchored, OpenPcs, ReadPcs, Pnum
  <2> QED BY <2>1, <2>2
<1>9. CASE IrqPublish
  <2>1. Where'
    BY <1>9, <1>a, <1>b DEF IrqPublish, Where, Ahead, InFlight, Session, Anchored, OpenPcs,
           ReadPcs
  <2>2. Placed'
    <3>1. labs <= labs' /\ labs' \in Int
      BY <1>9, <1>a DEF IrqPublish, Where, InFlight
    <3>2. Snapshot => Snapshot'
      BY <1>9, <1>a, <3>1 DEF IrqPublish, Snapshot
    <3> QED BY <1>9, <1>a, <3>1, <3>2 DEF IrqPublish, Placed, Anchored, OpenPcs,
               ReadPcs, Pnum
  <2> QED BY <2>1, <2>2
<1>10. CASE IrqAck
  <2>1. Where'
    BY <1>10, <1>a, <1>b DEF IrqAck, Where, Ahead, InFlight, Session, Anchored, OpenPcs,
           ReadPcs
  <2>2. Placed'
    BY <1>10, <1>a, <1>b DEF IrqAck, Placed, Snapshot, Anchored, OpenPcs, ReadPcs, Pnum
  <2> QED BY <2>1, <2>2
<1>11. CASE OpenLaps
  <2>1. Where'
    BY <1>11, <1>a, <1>b DEF OpenLaps, Where, Ahead, InFlight, Session, Anchored, OpenPcs,
           ReadPcs
  <2>2. Placed'
    BY <1>11, <1>a, <1>b DEF OpenLaps, Placed, Snapshot, Anchored, OpenPcs, ReadPcs,
           Pnum
  <2> QED BY <2>1, <2>2
<1>12. CASE OpenLast
  <2>1. Where'
    BY <1>12, <1>a, <1>b DEF OpenLast, Where, Ahead, InFlight, Session, Anchored, OpenPcs,
           ReadPcs
  <2>2. Placed'
    BY <1>12, <1>a, <1>b DEF OpenLast, Placed, Snapshot, Anchored, OpenPcs, ReadPcs,
           Pnum
  <2> QED BY <2>1, <2>2
<1>13. CASE OpenTotal
  <2>1. Where'
    BY <1>13, <1>a, <1>b DEF OpenTotal, Where, Ahead, InFlight, Session, Anchored, OpenPcs,
           ReadPcs
  <2>2. Placed'
    BY <1>13, <1>a, <1>b DEF OpenTotal, Placed, Snapshot, Anchored, OpenPcs, ReadPcs,
           Pnum
  <2> QED BY <2>1, <2>2
<1>14. CASE OpenLgpcnt
  <2>1. Where'
    BY <1>14, <1>a, <1>b DEF OpenLgpcnt, Where, Ahead, InFlight, Session, Anchored, OpenPcs,
           ReadPcs
  <2>2. Placed'
    BY <1>14, <1>a, <1>b DEF OpenLgpcnt, Placed, Snapshot, Anchored, OpenPcs, ReadPcs,
           Pnum
  <2> QED BY <2>1, <2>2
<1>15. CASE OpenEnable
  <2>1. Where'
    BY <1>15, <1>a, <1>b DEF OpenEnable, Where, Ahead, InFlight, Session, Anchored, OpenPcs,
           ReadPcs
  <2>2. Placed'
    BY <1>15, <1>a, <1>b DEF OpenEnable, Placed, Snapshot, Anchored, OpenPcs, ReadPcs,
           Pnum
  <2> QED BY <2>1, <2>2
<1>16. CASE OpenWait
  <2>1. Where'
    BY <1>16, <1>a, <1>b DEF OpenWait, Where, Ahead, InFlight, Session, Anchored, OpenPcs,
           ReadPcs
  <2>2. Placed'
    BY <1>16, <1>a, <1>b DEF OpenWait, Placed, Snapshot, Anchored, OpenPcs, ReadPcs,
           Pnum
  <2> QED BY <2>1, <2>2
<1>17. CASE OpenInitial
  <2>1. Where'
    BY <1>17, <1>a, <1>b DEF OpenInitial, Where, Ahead, InFlight, Session, Anchored, OpenPcs,
           ReadPcs
  <2>2. Placed'
    BY <1>17, <1>a, <1>b DEF OpenInitial, Placed, Snapshot, Anchored, OpenPcs, ReadPcs,
           Pnum, Where
  <2> QED BY <2>1, <2>2
<1>18. CASE OpenBase
  <2>1. Where'
    BY <1>18, <1>a, <1>b DEF OpenBase, Where, Ahead, InFlight, Session, Anchored, OpenPcs,
           ReadPcs
  <2>2. Placed'
    BY <1>18, <1>a, <1>b DEF OpenBase, Placed, Snapshot, Anchored, OpenPcs, ReadPcs,
           Pnum
  <2> QED BY <2>1, <2>2
<1>19. CASE Close
  <2>1. Where'
    BY <1>19, <1>a, <1>b DEF Close, Where, Ahead, InFlight, Session, Anchored, OpenPcs, ReadPcs
  <2>2. Placed'
    BY <1>19, <1>a, <1>b DEF Close, Placed, Snapshot, Anchored, OpenPcs, ReadPcs, Pnum
  <2> QED BY <2>1, <2>2
<1>20. CASE ReadStart
  <2>1. Where'
    BY <1>20, <1>a, <1>b DEF ReadStart, Where, Ahead, InFlight, Session, Anchored, OpenPcs,
           ReadPcs
  <2>2. Placed'
    <3>1. gp' = Slot(labs)
      BY <1>20 DEF ReadStart, Where, OpenPcs
    <3>2. start + off <= labs
      BY <1>20 DEF ReadStart, Placed, Anchored, ReadPcs
    <3>3. Snapshot'
      BY <1>20, <1>a, <3>1, <3>2 DEF ReadStart, Snapshot
    <3> QED BY <1>20, <3>3 DEF ReadStart, Placed, Anchored, OpenPcs, ReadPcs
  <2> QED BY <2>1, <2>2
<1>21. CASE ReadCheck
  <2>1. Where'
    BY <1>21, <1>a, <1>b DEF ReadCheck, Where, Ahead, InFlight, Session, Anchored, OpenPcs,
           ReadPcs
  <2>2. Placed'
    BY <1>21, <1>a, <1>b DEF ReadCheck, Placed, Snapshot, Anchored, OpenPcs, ReadPcs,
           Pnum
  <2> QED BY <2>1, <2>2
<1>22. CASE ReadCopy
  <2>1. Where'
    BY <1>22, <1>a, <1>b DEF ReadCopy, Where, Ahead, InFlight, Session, Anchored, OpenPcs,
           ReadPcs
  <2>2. Placed'
    BY <1>22, <1>a, <1>b DEF ReadCopy, Placed, Snapshot, Anchored, OpenPcs, ReadPcs,
           Pnum, HasPage
  <2> QED BY <2>1, <2>2
<1>23. CASE ReadZero
  <2>1. Where'
    BY <1>23, <1>a, <1>b DEF ReadZero, Where, Ahead, InFlight, Session, Anchored, OpenPcs,
           ReadPcs
  <2>2. Placed'
    <3>1. PICK g \in Int : gp = Slot(g) /\ start + off < g /\ g <= labs
      BY <1>23, ReaderBehind DEF ReadZero, Placed, ReadPcs
    <3>2. start + (off + 1) <= g
      BY <1>a, <3>1
    <3> QED BY <1>23, <1>a, <3>1, <3>2 DEF ReadZero, Placed, Snapshot, Anchored,
               OpenPcs, ReadPcs
  <2> QED BY <2>1, <2>2
<1>24. CASE ReadReturn
  <2>1. Where'
    BY <1>24, <1>a, <1>b DEF ReadReturn, Where, Ahead, InFlight, Session, Anchored, OpenPcs,
           ReadPcs
  <2>2. Placed'
    BY <1>24, <1>a, <1>b DEF ReadReturn, Placed, Snapshot, Anchored, OpenPcs, ReadPcs,
           Pnum
  <2> QED BY <2>1, <2>2
<1>25. CASE ReadWait
  <2>1. Where'
    BY <1>25, <1>a, <1>b DEF ReadWait, Where, Ahead, InFlight, Session, Anchored, OpenPcs,
           ReadPcs
  <2>2. Placed'
    BY <1>25, <1>a, <1>b DEF ReadWait, Placed, Snapshot, Anchored, OpenPcs, ReadPcs,
           Pnum
  <2> QED BY <2>1, <2>2
<1>26. CASE ReadWoke
  <2>1. Where'
    BY <1>26, <1>a, <1>b DEF ReadWoke, Where, Ahead, InFlight, Session, Anchored, OpenPcs,
           ReadPcs
  <2>2. Placed'
    <3>1. gp' = Slot(labs)
      BY <1>26 DEF ReadWoke, Where, OpenPcs
    <3>2. start + off <= labs
      BY <1>26 DEF ReadWoke, Placed, Anchored, ReadPcs
    <3>3. Snapshot'
      BY <1>26, <1>a, <3>1, <3>2 DEF ReadWoke, Snapshot
    <3> QED BY <1>26, <3>3 DEF ReadWoke, Placed, Anchored, OpenPcs, ReadPcs
  <2> QED BY <2>1, <2>2
<1>27. CASE ReadInterrupted
  <2>1. Where'
    BY <1>27, <1>a, <1>b DEF ReadInterrupted, Where, Ahead, InFlight, Session, Anchored,
           OpenPcs, ReadPcs
  <2>2. Placed'
    BY <1>27, <1>a, <1>b DEF ReadInterrupted, Placed, Snapshot, Anchored, OpenPcs,
           ReadPcs, Pnum
  <2> QED BY <2>1, <2>2
<1>28. CASE UNCHANGED vars
  BY <1>28 DEF Where, Ahead, Placed, Snapshot, Pnum
<1> QED BY <1>1, <1>2, <1>3, <1>4, <1>5, <1>6, <1>7, <1>8, <1>9, <1>10, <1>11, <1>12,
       <1>13, <1>14, <1>15, <1>16, <1>17, <1>18, <1>19, <1>20, <1>21, <1>22, <1>23,
       <1>24, <1>25, <1>26, <1>27, <1>28 DEF Next, Engine, Handler, Open, Read

LEMMA LocatedAlways == Spec => [](TypeInv /\ Located)
<1>1. Init => TypeInv /\ Located
  BY TypeInit, LocatedInit
<1>2. TypeInv /\ Located /\ [Next]_vars => (TypeInv /\ Located)'
  BY TypeStep, LocatedStep
<1> QED BY <1>1, <1>2, PTL DEF Spec

(* read() never hands out a page the engine has not filled, but the last   *)
(* one of a period that was counted early, while it is being written.  The *)
(* page number and the limit are snapshots of one position that interrupts *)
(* move, taken at different times, with a handler perhaps in flight across *)
(* open()'s reset; but the reader is never past its snapshot, the snapshot *)
(* never past what is published, and that never past Ahead.                *)
THEOREM NoPageIsEarly == Spec => []NoEarlyPage
<1>1. TypeInv /\ Located => NoEarlyPage
  <2> SUFFICES ASSUME TypeInv, Where, Placed, pc = "r_copy", HasPage, Pos >= filled
               PROVE  Pos = filled /\ EndsPeriod
    BY DEF Located, NoEarlyPage, Early, CountedEarly
  <2>1. PICK g \in Int : start + off < g /\ g <= labs
    BY ReaderBehind DEF HasPage, ReadPcs
  <2>2. labs <= Ahead
    BY DEF Where
  <2>3. /\ start \in Int /\ off \in Int /\ labs \in Int /\ Ahead \in Nat /\ filled \in Nat
        /\ EndsPeriod => Ahead = filled + 1
        /\ ~EndsPeriod => Ahead <= filled
    BY Numbers, AheadIs, BaseNat
  <2>4. start + off >= filled
    BY DEF Pos
  <2>5. start + off < Ahead
    BY <2>1, <2>2, <2>3
  <2>6. EndsPeriod
    BY <2>3, <2>4, <2>5
  <2> QED BY <2>3, <2>4, <2>5, <2>6 DEF Pos
<1> QED BY <1>1, LocatedAlways, PTL

(***************************************************************************)
(* The totals.  A session whose reset no handler overlapped starts from    *)
(* zero; after that the total never runs ahead of the pages it stands for, *)
(* because two counts are at least as many pages apart as the ring shows.  *)
(***************************************************************************)
Resetting == {"o_last", "o_total", "o_lg", "o_enable"}

ResetDone ==
  pc \in Resetting => /\ hpc = "idle" /\ laps = 0
                      /\ pc # "o_last" => last = 0
                      /\ pc \in {"o_lg", "o_enable"} => total = 0
                      /\ pc = "o_enable" => lg = -1

Carry == IF hgp < last THEN N ELSE 0

(* What the handler has in hand, from the count it read to the total.      *)
Sums ==
  /\ hpc \notin {"last", "total"} => total = Lap(laps) + last
  /\ hpc = "store" => hlaps = laps + 1 /\ hgp < last
  /\ hpc = "last" => Lap(laps) + last = total + Carry
  /\ hpc \in {"total", "publish"} => last = hgp
  /\ lg # -1 /\ hpc \notin {"total", "publish"} => last = Slot(tabs)

Behind ==
  /\ lg # -1 /\ hpc = "total" => Lap(laps) + last - total <= habs - tabs
  /\ pc \in Anchored => start <= anchor /\ total - base <= tabs - anchor

Counted == ResetDone /\ (pc \in Session => Sums /\ Behind)

CountInv == link /\ ~late => Counted

LEMMA LateStays == [Next]_vars /\ ~late' => ~late \/ OpenLaps
BY DEF Next, Engine, Handler, Open, Read, FillPage, CardDies, IrqEnter, IrqReadCount,
       IrqWrap, IrqStoreLaps, IrqLast, IrqTotal, IrqPublish, IrqAck, OpenLaps,
       OpenLast, OpenTotal, OpenLgpcnt, OpenEnable, OpenWait, OpenInitial, OpenBase,
       Close, ReadStart, ReadCheck, ReadCopy, ReadZero, ReadReturn, ReadWait, ReadWoke,
       ReadInterrupted

LEMMA CountInit == Init => CountInv
BY DEF Init, CountInv, Counted, ResetDone, Resetting, Session, Anchored, ReadPcs

(* The handler stores the count: the total to come has moved no further    *)
(* than the page has.                                                      *)
LEMMA LastStored ==
  ASSUME TypeInv, Where, Sums, IrqLast
  PROVE  /\ Lap(laps) + last' = total + (hgp - last) + Carry
         /\ lg # -1 => /\ Lap(laps) + last' - total <= habs - tabs
                       /\ habs - tabs < N => Lap(laps) + last' - total = habs - tabs
<1>1. /\ laps \in Nat /\ hgp \in Int /\ last \in Int /\ total \in Int /\ habs \in Int
      /\ tabs \in Int /\ labs \in Int
  BY Numbers
<1>2. Lap(laps) \in Int /\ N \in Nat
  BY <1>1, Laps, Sizes
<1>3. last' = hgp /\ hpc = "last"
  BY DEF IrqLast
<1>4. Lap(laps) + last = total + Carry /\ Carry \in {0, N}
  BY <1>2, <1>3 DEF Sums, Carry
<1>5. Lap(laps) + last' = total + (hgp - last) + Carry
  <2>1. \A l, a, t, c, g \in Int : l + a = t + c => l + g = t + (g - a) + c
    OBVIOUS
  <2>2. Lap(laps) + hgp = total + (hgp - last) + Carry
    BY <1>1, <1>2, <1>4, <2>1
  <2> QED BY <1>3, <2>2
<1>6. ASSUME lg # -1
      PROVE  /\ hgp - last + Carry <= habs - tabs
             /\ habs - tabs < N => hgp - last + Carry = habs - tabs
  <2>1. hgp = Slot(habs) /\ last = Slot(tabs) /\ tabs <= habs
    BY <1>1, <1>3, <1>6 DEF Where, Sums, InFlight
  <2> QED BY <1>1, <2>1, SlotGap DEF Carry
<1> QED BY <1>1, <1>2, <1>3, <1>4, <1>5, <1>6

LEMMA CountStep ==
  TypeInv /\ TypeInv' /\ Located /\ CountInv /\ [Next]_vars => CountInv'
<1> SUFFICES ASSUME TypeInv, TypeInv', Where, Placed, ~late => Counted, [Next]_vars,
                    link, link', ~late', ~late \/ OpenLaps
             PROVE  Counted'
  BY LinkStays, LateStays DEF Located, CountInv
<1>a. /\ laps \in Nat /\ last \in Int /\ total \in Int /\ base \in Int /\ hgp \in Int
      /\ labs \in Int /\ habs \in Int /\ tabs \in Int /\ start \in Int /\ anchor \in Int
  BY Numbers
<1>b. /\ N \in Nat /\ Lap(laps) \in Int /\ Lap(laps + 1) = Lap(laps) + N
      /\ laps * N = Lap(laps) /\ Lap(0) = 0
  BY <1>a, Laps, Sizes
<1>c. OpenLaps \/ Counted
  OBVIOUS
<1>1. CASE FillPage
  BY <1>1, <1>a, <1>b, <1>c DEF FillPage, OpenLaps, Counted, ResetDone, Resetting,
     Sums, Behind, Carry, Session, Anchored, ReadPcs
<1>2. CASE CardDies
  BY <1>2, <1>a, <1>b, <1>c DEF CardDies, OpenLaps, Counted, ResetDone, Resetting,
     Sums, Behind, Carry, Session, Anchored, ReadPcs
<1>3. CASE IrqEnter
  BY <1>3, <1>a, <1>b, <1>c DEF IrqEnter, OpenLaps, Counted, ResetDone, Resetting,
     Sums, Behind, Carry, Session, Anchored, ReadPcs
<1>4. CASE IrqReadCount
  BY <1>4, <1>a, <1>b, <1>c DEF IrqReadCount, OpenLaps, Counted, ResetDone, Resetting,
     Sums,
     Behind, Session, Anchored, ReadPcs
<1>5. CASE IrqWrap
  <2>1. /\ ResetDone /\ (pc \in Session => Sums /\ Behind)
        /\ pc \notin Resetting /\ pc' = pc
    BY <1>5, <1>c DEF IrqWrap, OpenLaps, Counted, ResetDone
  <2>2. CASE pc \notin Session
    BY <1>5, <2>1, <2>2 DEF IrqWrap, Counted, ResetDone
  <2>3. CASE pc \in Session
    <3>1. Sums'
      <4>1. total = Lap(laps) + last
        BY <1>5, <2>1, <2>3 DEF IrqWrap, Sums
      <4>2. CASE Wrapped
        BY <1>5, <2>1, <2>3, <4>1, <4>2 DEF IrqWrap, Wrapped, Sums
      <4>3. CASE ~Wrapped
        <5>1. Carry' = 0
          BY <1>5, <4>3 DEF IrqWrap, Wrapped, Carry
        <5> QED BY <1>5, <1>a, <2>1, <2>3, <4>1, <4>3, <5>1 DEF IrqWrap, Sums
      <4> QED BY <4>2, <4>3
    <3>2. Behind'
      BY <1>5, <2>1, <2>3 DEF IrqWrap, Behind
    <3> QED BY <2>1, <3>1, <3>2 DEF Counted, ResetDone
  <2> QED BY <2>2, <2>3
<1>6. CASE IrqStoreLaps
  BY <1>6, <1>a, <1>b, <1>c DEF IrqStoreLaps, OpenLaps, Counted, ResetDone, Resetting,
     Sums, Behind, Carry, Session, Anchored, ReadPcs
<1>7. CASE IrqLast
  <2>1. /\ ResetDone /\ (pc \in Session => Sums /\ Behind)
        /\ pc \notin Resetting /\ pc' = pc
    BY <1>7, <1>c DEF IrqLast, OpenLaps, Counted, ResetDone
  <2>2. CASE pc \notin Session
    BY <1>7, <2>1, <2>2 DEF IrqLast, Counted, ResetDone
  <2>3. CASE pc \in Session
    <3>1. lg # -1 => Lap(laps) + last' - total <= habs - tabs
      BY <1>7, <2>1, <2>3, LastStored
    <3>2. Sums'
      BY <1>7, <2>1, <2>3 DEF IrqLast, Sums
    <3>3. Behind'
      BY <1>7, <2>1, <2>3, <3>1 DEF IrqLast, Behind
    <3> QED BY <2>1, <3>2, <3>3 DEF Counted, ResetDone
  <2> QED BY <2>2, <2>3
<1>8. CASE IrqTotal
  <2>1. /\ ResetDone /\ (pc \in Session => Sums /\ Behind)
        /\ pc \notin Resetting /\ pc' = pc
    BY <1>8, <1>c DEF IrqTotal, OpenLaps, Counted, ResetDone
  <2>2. CASE pc \notin Session
    BY <1>8, <2>1, <2>2 DEF IrqTotal, Counted, ResetDone
  <2>3. CASE pc \in Session
    <3>1. total' = Lap(laps) + last /\ last = hgp /\ tabs' = habs
      BY <1>8, <1>b, <2>1, <2>3 DEF IrqTotal, Sums
    <3>2. Sums'
      BY <1>8, <3>1 DEF IrqTotal, Sums
    <3>3. pc \in Anchored => start <= anchor /\ total' - base <= tabs' - anchor
      <4>1. SUFFICES ASSUME pc \in Anchored
                     PROVE  start <= anchor /\ total' - base <= tabs' - anchor
        OBVIOUS
      <4>2. lg # -1
        BY <4>1 DEF Where, Anchored, ReadPcs
      <4>3. Lap(laps) + last - total <= habs - tabs /\ total - base <= tabs - anchor
        BY <1>8, <2>1, <2>3, <4>1, <4>2 DEF IrqTotal, Behind
      <4>4. start <= anchor
        BY <2>1, <2>3, <4>1 DEF Behind
      <4> QED BY <1>a, <1>b, <3>1, <4>3, <4>4
    <3>4. Behind'
      BY <1>8, <3>3 DEF IrqTotal, Behind
    <3> QED BY <2>1, <3>2, <3>4 DEF Counted, ResetDone
  <2> QED BY <2>2, <2>3
<1>9. CASE IrqPublish
  <2>1. /\ ResetDone /\ (pc \in Session => Sums /\ Behind)
        /\ pc \notin Resetting /\ pc' = pc
    BY <1>9, <1>c DEF IrqPublish, OpenLaps, Counted, ResetDone
  <2>2. CASE pc \notin Session
    BY <1>9, <2>1, <2>2 DEF IrqPublish, Counted, ResetDone
  <2>3. CASE pc \in Session
    <3>1. last = hgp /\ hgp = Slot(habs) /\ tabs = habs
      BY <1>9, <2>1, <2>3 DEF IrqPublish, Sums, Where, InFlight
    <3>2. Sums'
      BY <1>9, <2>1, <2>3, <3>1 DEF IrqPublish, Sums
    <3>3. Behind'
      BY <1>9, <2>1, <2>3 DEF IrqPublish, Behind
    <3> QED BY <2>1, <3>2, <3>3 DEF Counted, ResetDone
  <2> QED BY <2>2, <2>3
<1>10. CASE IrqAck
  BY <1>10, <1>a, <1>b, <1>c DEF IrqAck, OpenLaps, Counted, ResetDone, Resetting, Sums,
     Behind, Carry, Session, Anchored, ReadPcs
<1>11. CASE OpenLaps
  BY <1>11, <1>a, <1>b, <1>c DEF OpenLaps, Counted, ResetDone, Resetting, Sums, Behind,
     Carry, Session, Anchored, ReadPcs
<1>12. CASE OpenLast
  BY <1>12, <1>a, <1>b, <1>c DEF OpenLast, OpenLaps, Counted, ResetDone, Resetting,
     Sums, Behind, Carry, Session, Anchored, ReadPcs
<1>13. CASE OpenTotal
  BY <1>13, <1>a, <1>b, <1>c DEF OpenTotal, OpenLaps, Counted, ResetDone, Resetting,
     Sums, Behind, Carry, Session, Anchored, ReadPcs
<1>14. CASE OpenLgpcnt
  BY <1>14, <1>a, <1>b, <1>c DEF OpenLgpcnt, OpenLaps, Counted, ResetDone, Resetting,
     Sums, Behind, Carry, Session, Anchored, ReadPcs
<1>15. CASE OpenEnable
  BY <1>15, <1>a, <1>b, <1>c DEF OpenEnable, OpenLaps, Counted, ResetDone, Resetting,
     Sums, Behind, Carry, Session, Anchored, ReadPcs
<1>16. CASE OpenWait
  BY <1>16, <1>a, <1>b, <1>c DEF OpenWait, OpenLaps, Counted, ResetDone, Resetting,
     Sums, Behind, Carry, Session, Anchored, ReadPcs
<1>17. CASE OpenInitial
  BY <1>17, <1>a, <1>b, <1>c DEF OpenInitial, OpenLaps, Counted, ResetDone, Resetting,
     Sums, Behind, Carry, Session, Anchored, ReadPcs
<1>18. CASE OpenBase
  <2>1. Sums /\ Behind
    BY <1>18, <1>c DEF OpenBase, OpenLaps, Counted, Session
  <2>2. start <= tabs
    BY <1>18, <1>a DEF OpenBase, Placed, Where, InFlight
  <2>3. Sums'
    BY <1>18, <2>1 DEF OpenBase, Sums, Carry
  <2>4. total' - base' = 0 /\ tabs' - anchor' = 0
    BY <1>18, <1>a DEF OpenBase
  <2>5. Behind'
    BY <1>18, <2>1, <2>2, <2>4 DEF OpenBase, Behind
  <2> QED BY <1>18, <2>3, <2>5 DEF OpenBase, Counted, ResetDone, Resetting
<1>19. CASE Close
  BY <1>19, <1>a, <1>b, <1>c DEF Close, OpenLaps, Counted, ResetDone, Resetting, Sums,
     Behind, Carry, Session, Anchored, ReadPcs
<1>20. CASE ReadStart
  BY <1>20, <1>a, <1>b, <1>c DEF ReadStart, OpenLaps, Counted, ResetDone, Resetting,
     Sums, Behind, Carry, Session, Anchored, ReadPcs
<1>21. CASE ReadCheck
  BY <1>21, <1>a, <1>b, <1>c DEF ReadCheck, OpenLaps, Counted, ResetDone, Resetting,
     Sums, Behind, Carry, Session, Anchored, ReadPcs
<1>22. CASE ReadCopy
  BY <1>22, <1>a, <1>b, <1>c DEF ReadCopy, OpenLaps, Counted, ResetDone, Resetting,
     Sums, Behind, Carry, Session, Anchored, ReadPcs
<1>23. CASE ReadZero
  BY <1>23, <1>a, <1>b, <1>c DEF ReadZero, OpenLaps, Counted, ResetDone, Resetting,
     Sums, Behind, Carry, Session, Anchored, ReadPcs
<1>24. CASE ReadReturn
  BY <1>24, <1>a, <1>b, <1>c DEF ReadReturn, OpenLaps, Counted, ResetDone, Resetting,
     Sums, Behind, Carry, Session, Anchored, ReadPcs
<1>25. CASE ReadWait
  BY <1>25, <1>a, <1>b, <1>c DEF ReadWait, OpenLaps, Counted, ResetDone, Resetting,
     Sums, Behind, Carry, Session, Anchored, ReadPcs
<1>26. CASE ReadWoke
  BY <1>26, <1>a, <1>b, <1>c DEF ReadWoke, OpenLaps, Counted, ResetDone, Resetting,
     Sums, Behind, Carry, Session, Anchored, ReadPcs
<1>27. CASE ReadInterrupted
  BY <1>27, <1>a, <1>b, <1>c DEF ReadInterrupted, OpenLaps, Counted, ResetDone,
     Resetting, Sums, Behind, Carry, Session, Anchored, ReadPcs
<1>28. CASE UNCHANGED vars
  BY <1>28, <1>c DEF OpenLaps, Counted, ResetDone, Resetting, Sums, Behind, Carry,
     Session, Anchored, ReadPcs
<1> QED BY <1>1, <1>2, <1>3, <1>4, <1>5, <1>6, <1>7, <1>8, <1>9, <1>10, <1>11, <1>12,
       <1>13, <1>14, <1>15, <1>16, <1>17, <1>18, <1>19, <1>20, <1>21, <1>22, <1>23,
       <1>24, <1>25, <1>26, <1>27, <1>28 DEF Next, Engine, Handler, Open, Read

LEMMA CountAlways == Spec => [](TypeInv /\ Located /\ CountInv)
<1>1. Init => TypeInv /\ Located /\ CountInv
  BY TypeInit, LocatedInit, CountInit
<1>2. TypeInv /\ Located /\ CountInv /\ [Next]_vars => (TypeInv /\ Located /\ CountInv)'
  BY TypeStep, LocatedStep, CountStep
<1> QED BY <1>1, <1>2, PTL DEF Spec

(* Only a check of the ring raises the count of overruns.                  *)
LEMMA OnlyChecks == TypeInv /\ [Next]_vars /\ overruns' > overruns => ReadCheck /\ RingAhead
<1> SUFFICES ASSUME TypeInv, [Next]_vars, overruns' > overruns PROVE ReadCheck /\ RingAhead
  OBVIOUS
<1>1. overruns \in Nat /\ ~(0 > overruns) /\ ~(overruns > overruns)
  BY Sizes DEF TypeInv, ProcessOK
<1>2. CASE ReadCheck
  BY <1>1, <1>2 DEF ReadCheck
<1>3. CASE ~ReadCheck
  BY <1>1, <1>3 DEF Next, Engine, Handler, Open, Read, FillPage, CardDies, IrqEnter,
         IrqReadCount, IrqWrap, IrqStoreLaps, IrqLast, IrqTotal, IrqPublish, IrqAck,
         OpenLaps, OpenLast, OpenTotal, OpenLgpcnt, OpenEnable, OpenWait, OpenInitial,
         OpenBase, Close, ReadStart, ReadCheck, ReadCopy, ReadZero, ReadReturn,
         ReadWait, ReadWoke, ReadInterrupted
<1> QED BY <1>2, <1>3

(* An overrun is counted only when the page the reader is at is being      *)
(* overwritten, or is the next to be, its period counted early ("this can  *)
(* never false-positive").  The total the check uses may be older than the *)
(* ring and is never further ahead of it than Ahead.                       *)
THEOREM OverrunIsReal == Spec => NoFalsePositive
<1> DEFINE Real == overruns' > overruns /\ link /\ ~late =>
                     filled - Pos >= N \/ CountedEarly(Pos + N - 1)
<1>1. TypeInv /\ Located /\ CountInv /\ [Next]_vars => Real
  <2> SUFFICES ASSUME TypeInv, Where, Counted, [Next]_vars, overruns' > overruns
               PROVE  filled - Pos >= N \/ CountedEarly(Pos + N - 1)
    BY DEF Located, CountInv
  <2>1. ReadCheck /\ total - (base + off) >= N
    BY OnlyChecks DEF RingAhead
  <2>2. start <= anchor /\ total - base <= tabs - anchor
    BY <2>1 DEF ReadCheck, Counted, Behind, Session, Anchored, ReadPcs
  <2>3. /\ total \in Int /\ base \in Int /\ off \in Int /\ start \in Int /\ anchor \in Int
        /\ filled \in Nat /\ tabs \in Int /\ habs \in Int /\ labs \in Int /\ N \in Int
    BY Numbers, Sizes
  <2>4. tabs <= Ahead
    BY DEF Where, InFlight
  <2>5. /\ Ahead \in Nat
        /\ EndsPeriod => Ahead = filled + 1
        /\ ~EndsPeriod => Ahead <= filled
    BY <2>3, AheadIs, BaseNat
  <2>6. Ahead - (start + off) >= N
    BY <2>1, <2>2, <2>3, <2>4, <2>5
  <2>7. CASE EndsPeriod
    <3>1. filled - (start + off) >= N \/ start + off + N - 1 = filled
      BY <2>3, <2>5, <2>6, <2>7
    <3> QED BY <2>7, <3>1 DEF Pos, CountedEarly
  <2>8. CASE ~EndsPeriod
    <3>1. filled - (start + off) >= N
      BY <2>3, <2>5, <2>6, <2>8
    <3> QED BY <3>1 DEF Pos
  <2> QED BY <2>7, <2>8
<1> HIDE DEF Real
<1>2. Spec => [][Real]_vars
  BY <1>1, CountAlways, PTL DEF Spec
<1>3. [][Real]_vars => NoFalsePositive
  BY DEF Real, NoFalsePositive
<1> QED BY <1>2, <1>3

(***************************************************************************)
(* The totals exactly, when no stall of the interrupts and one period more *)
(* are a lap long.                                                         *)
(***************************************************************************)
NoStall == (MaxUnseen + 1) * P < N

(* Each interrupt the handler has not answered is a period it lags at most;*)
(* two counts in a row are less than a lap apart, so the total is exact.   *)
Lags ==
  /\ hpc \in InFlight => Base(filled) - habs <= Periods(unseen)
  /\ lg # -1 /\ hpc \notin InFlight => Base(filled) - tabs <= Periods(unseen)
  /\ lg # -1 /\ hpc \in InFlight =>
       /\ habs - tabs <= Periods(MaxUnseen) + P
       /\ Base(filled) - tabs <= Periods(unseen) + Periods(MaxUnseen)

Exact ==
  /\ lg # -1 /\ hpc = "total" => Lap(laps) + last - total = habs - tabs
  /\ pc \in Anchored => total - base = tabs - anchor

ExactInv == link /\ ~late /\ pc \in Session => Lags /\ Exact

LEMMA ExactInit == Init => ExactInv
BY DEF Init, ExactInv, Session, Anchored, ReadPcs

LEMMA ExactStep ==
  ASSUME NoStall, TypeInv, TypeInv', Located, CountInv, ExactInv, [Next]_vars
  PROVE  ExactInv'
<1> SUFFICES ASSUME Where, Placed, ~late => Counted,
                    ~late /\ pc \in Session => Lags /\ Exact,
                    link, link', ~late', ~late \/ OpenLaps, pc' \in Session
             PROVE  Lags' /\ Exact'
  BY LinkStays, LateStays DEF Located, CountInv, ExactInv
<1>a. /\ laps \in Nat /\ last \in Int /\ total \in Int /\ base \in Int /\ hgp \in Int
      /\ labs \in Int /\ habs \in Int /\ tabs \in Int /\ start \in Int /\ anchor \in Int
      /\ filled \in Nat /\ Base(filled) \in Int /\ unseen \in 0 .. MaxUnseen
  BY Numbers
<1>b. /\ N \in Nat /\ Lap(laps) \in Int /\ Lap(laps + 1) = Lap(laps) + N
      /\ laps * N = Lap(laps) /\ Lap(0) = 0
  <2>1. N \in Nat /\ laps \in Int
    BY <1>a, Sizes
  <2> QED BY <2>1, Laps
<1>c. ~OpenLaps /\ ~late
  BY DEF OpenLaps, Session, Anchored, ReadPcs
<1>d. Counted
  BY <1>c
<1>e. pc \in Session => Lags /\ Exact
  BY <1>c
<1>f. /\ unseen \in Nat /\ MaxUnseen \in Nat /\ unseen <= MaxUnseen
      /\ Periods(unseen) \in Nat /\ Periods(unseen + 1) = Periods(unseen) + P
      /\ Periods(unseen) <= Periods(MaxUnseen) /\ Periods(MaxUnseen) \in Nat
      /\ Periods(0) = 0
  BY <1>a, Sizes, PeriodCount
<1>g. Periods(MaxUnseen) + P < N /\ P \in Nat
  <2>1. /\ MaxUnseen \in Nat /\ P \in Nat /\ P * (MaxUnseen + 1) = P * MaxUnseen + P
        /\ (MaxUnseen + 1) * P = P * (MaxUnseen + 1)
    BY Sizes
  <2> QED BY <2>1 DEF NoStall, Periods
<1>1. CASE FillPage
  <2>1. pc \in Session /\ pciMsk
    BY <1>1 DEF FillPage, Where
  <2>2. Base(filled)' = IF EndsPeriod THEN Base(filled) + P ELSE Base(filled)
    BY <1>1, <1>a, BaseNext DEF FillPage, EndsPeriod
  <2>3. Periods(unseen)' = IF EndsPeriod THEN Periods(unseen) + P ELSE Periods(unseen)
    BY <1>1, <1>f, <2>1 DEF FillPage
  <2>4. \A a, b, c, p \in Int : (a - b <= c => a + p - b <= c + p)
    OBVIOUS
  <2>5. P \in Int /\ Periods(unseen) \in Int /\ Periods(MaxUnseen) \in Int
    BY <1>f, Sizes
  <2>6. Lags'
    <3>1. Lags
      BY <1>e, <2>1
    <3>2. /\ hpc' = hpc /\ habs' = habs /\ tabs' = tabs /\ lg' = lg
          /\ Periods(MaxUnseen)' = Periods(MaxUnseen)
      BY <1>1 DEF FillPage, Periods
    <3>3. \A a, b, c, d, p \in Int : (a - b <= c + d => a + p - b <= c + p + d)
      OBVIOUS
    <3>4. CASE EndsPeriod
      BY <1>a, <2>2, <2>3, <2>4, <2>5, <3>1, <3>2, <3>3, <3>4 DEF Lags
    <3>5. CASE ~EndsPeriod
      BY <2>2, <2>3, <3>1, <3>2, <3>5 DEF Lags
    <3> QED BY <3>4, <3>5
  <2>7. Exact'
    BY <1>1, <1>e, <2>1 DEF FillPage, Exact
  <2> QED BY <2>6, <2>7
<1>2. CASE CardDies
  BY <1>2, <1>e DEF CardDies, Lags, Exact, InFlight, Session, Anchored, ReadPcs
<1>3. CASE IrqEnter
  BY <1>3, <1>e DEF IrqEnter, Lags, Exact, InFlight, Session, Anchored, ReadPcs
<1>4. CASE IrqReadCount
  <2>1. PICK g \in {filled, filled + 1} : habs' = Base(g)
    BY <1>4, <1>a, CountRead
  <2>2. Base(filled)' = Base(filled) /\ Periods(unseen)' = 0 /\ habs' \in Int
    BY <1>4, <1>a, <1>f, <2>1, BaseIs DEF IrqReadCount
  <2>3. Base(filled) <= habs' /\ habs' <= Base(filled) + P
    BY <1>a, <2>1, AheadIs DEF Ahead
  <2>4. pc \in Session
    BY <1>4 DEF IrqReadCount
  <2>5. lg # -1 => Base(filled) - tabs <= Periods(MaxUnseen)
    BY <1>4, <1>a, <1>e, <1>f, <2>4 DEF IrqReadCount, Lags, InFlight
  <2>6. lg # -1 => habs' - tabs <= Periods(MaxUnseen) + P
    BY <1>a, <1>f, <1>g, <2>2, <2>3, <2>5
  <2>7. /\ lg' = lg /\ tabs' = tabs /\ hpc' \in InFlight
        /\ Periods(MaxUnseen)' = Periods(MaxUnseen)
    BY <1>4 DEF IrqReadCount, InFlight, Periods
  <2>8. Lags'
    BY <1>a, <1>f, <2>2, <2>3, <2>5, <2>6, <2>7 DEF Lags
  <2>9. Exact'
    BY <1>4, <1>e, <2>4 DEF IrqReadCount, Exact
  <2> QED BY <2>8, <2>9
<1>5. CASE IrqWrap
  BY <1>5, <1>e DEF IrqWrap, Lags, Exact, InFlight, Session, Anchored, ReadPcs
<1>6. CASE IrqStoreLaps
  BY <1>6, <1>e DEF IrqStoreLaps, Lags, Exact, InFlight, Session, Anchored, ReadPcs
<1>7. CASE IrqLast
  <2>1. pc \in Session
    BY <1>7 DEF IrqLast
  <2>2. lg # -1 => habs - tabs < N
    BY <1>7, <1>a, <1>b, <1>e, <1>f, <1>g, <2>1 DEF IrqLast, Lags, InFlight
  <2>3. lg # -1 => Lap(laps) + last' - total = habs - tabs
    BY <1>7, <1>d, <2>1, <2>2, LastStored DEF Counted
  <2>4. Lags'
    BY <1>7, <1>e, <2>1 DEF IrqLast, Lags, InFlight
  <2>5. Exact'
    BY <1>7, <1>e, <2>1, <2>3 DEF IrqLast, Exact
  <2> QED BY <2>4, <2>5
<1>8. CASE IrqTotal
  <2>1. pc \in Session
    BY <1>8 DEF IrqTotal
  <2>2. total' = Lap(laps) + last /\ tabs' = habs
    BY <1>8, <1>b, <1>d, <2>1 DEF IrqTotal, Counted, Sums
  <2>3. Lags'
    <3>1. Base(filled) - habs <= Periods(unseen)
      BY <1>8, <1>e, <2>1 DEF IrqTotal, Lags, InFlight
    <3>2. /\ tabs' = habs /\ habs' = habs /\ filled' = filled /\ unseen' = unseen
          /\ Periods(MaxUnseen)' = Periods(MaxUnseen)
      BY <1>8 DEF IrqTotal, Periods
    <3>3. habs - habs <= Periods(MaxUnseen) + P
      BY <1>a, <1>f, <1>g
    <3>4. Base(filled) - habs <= Periods(unseen) + Periods(MaxUnseen)
      BY <1>a, <1>f, <3>1
    <3> QED BY <3>1, <3>2, <3>3, <3>4 DEF Lags
  <2>4. pc \in Anchored => total' - base = tabs' - anchor
    <3>1. SUFFICES ASSUME pc \in Anchored PROVE total' - base = tabs' - anchor
      OBVIOUS
    <3>2. lg # -1
      BY <3>1 DEF Where, Anchored, ReadPcs
    <3>3. Lap(laps) + last - total = habs - tabs /\ total - base = tabs - anchor
      BY <1>8, <1>e, <2>1, <3>1, <3>2 DEF IrqTotal, Exact
    <3> DEFINE sum == Lap(laps) + last
    <3>4. sum \in Int /\ total' = sum /\ sum - total = habs - tabs
      BY <1>a, <1>b, <2>2, <3>3
    <3> HIDE DEF sum
    <3>5. sum - base = habs - anchor
      BY <1>a, <3>3, <3>4
    <3> QED BY <2>2, <3>4, <3>5
  <2>5. Exact'
    BY <1>8, <2>4 DEF IrqTotal, Exact
  <2> QED BY <2>3, <2>5
<1>9. CASE IrqPublish
  <2>1. pc \in Session
    BY <1>9 DEF IrqPublish
  <2>2. tabs = habs
    BY <1>9 DEF IrqPublish, Where
  <2>3. Lags'
    BY <1>9, <1>e, <2>1, <2>2 DEF IrqPublish, Lags, InFlight
  <2>4. Exact'
    BY <1>9, <1>e, <2>1 DEF IrqPublish, Exact
  <2> QED BY <2>3, <2>4
<1>10. CASE IrqAck
  BY <1>10, <1>e DEF IrqAck, Lags, Exact, InFlight, Session, Anchored, ReadPcs
<1>11. CASE OpenLaps
  BY <1>11, <1>e DEF OpenLaps, Lags, Exact, InFlight, Session, Anchored, ReadPcs,
     OpenPcs
<1>12. CASE OpenLast
  BY <1>12, <1>e DEF OpenLast, Lags, Exact, InFlight, Session, Anchored, ReadPcs,
     OpenPcs
<1>13. CASE OpenTotal
  BY <1>13, <1>e DEF OpenTotal, Lags, Exact, InFlight, Session, Anchored, ReadPcs,
     OpenPcs
<1>14. CASE OpenLgpcnt
  BY <1>14, <1>e DEF OpenLgpcnt, Lags, Exact, InFlight, Session, Anchored, ReadPcs,
     OpenPcs
<1>15. CASE OpenEnable
  BY <1>15, <1>e, <1>d DEF OpenEnable, Lags, Exact, InFlight, Session, Anchored,
     ReadPcs, Counted, ResetDone, Resetting
<1>16. CASE OpenWait
  BY <1>16, <1>e DEF OpenWait, Lags, Exact, InFlight, Session, Anchored, ReadPcs,
     OpenPcs
<1>17. CASE OpenInitial
  BY <1>17, <1>e DEF OpenInitial, Lags, Exact, InFlight, Session, Anchored, ReadPcs,
     OpenPcs
<1>18. CASE OpenBase
  <2>1. Lags /\ Exact
    BY <1>18, <1>e DEF OpenBase, Session
  <2>2. total' - base' = 0 /\ tabs' - anchor' = 0
    BY <1>18, <1>a DEF OpenBase
  <2>3. Lags'
    BY <1>18, <2>1 DEF OpenBase, Lags
  <2>4. Exact'
    BY <1>18, <2>1, <2>2 DEF OpenBase, Exact
  <2> QED BY <2>3, <2>4
<1>19. CASE Close
  BY <1>19, <1>e DEF Close, Lags, Exact, InFlight, Session, Anchored, ReadPcs
<1>20. CASE ReadStart
  BY <1>20, <1>e DEF ReadStart, Lags, Exact, InFlight, Session, Anchored, ReadPcs
<1>21. CASE ReadCheck
  BY <1>21, <1>e DEF ReadCheck, Lags, Exact, InFlight, Session, Anchored, ReadPcs
<1>22. CASE ReadCopy
  BY <1>22, <1>e DEF ReadCopy, Lags, Exact, InFlight, Session, Anchored, ReadPcs
<1>23. CASE ReadZero
  BY <1>23, <1>e DEF ReadZero, Lags, Exact, InFlight, Session, Anchored, ReadPcs
<1>24. CASE ReadReturn
  BY <1>24, <1>e DEF ReadReturn, Lags, Exact, InFlight, Session, Anchored, ReadPcs
<1>25. CASE ReadWait
  BY <1>25, <1>e DEF ReadWait, Lags, Exact, InFlight, Session, Anchored, ReadPcs
<1>26. CASE ReadWoke
  BY <1>26, <1>e DEF ReadWoke, Lags, Exact, InFlight, Session, Anchored, ReadPcs
<1>27. CASE ReadInterrupted
  BY <1>27, <1>e DEF ReadInterrupted, Lags, Exact, InFlight, Session, Anchored, ReadPcs
<1>28. CASE UNCHANGED vars
  BY <1>28, <1>e DEF Lags, Exact, InFlight, Session, Anchored, ReadPcs
<1> QED BY <1>1, <1>2, <1>3, <1>4, <1>5, <1>6, <1>7, <1>8, <1>9, <1>10, <1>11, <1>12,
       <1>13, <1>14, <1>15, <1>16, <1>17, <1>18, <1>19, <1>20, <1>21, <1>22, <1>23,
       <1>24, <1>25, <1>26, <1>27, <1>28 DEF Next, Engine, Handler, Open, Read

LEMMA ExactAlways ==
  ASSUME NoStall PROVE Spec => [](TypeInv /\ Located /\ CountInv /\ ExactInv)
<1>1. Init => TypeInv /\ Located /\ CountInv /\ ExactInv
  BY TypeInit, LocatedInit, CountInit, ExactInit
<1>2. TypeInv /\ Located /\ CountInv /\ ExactInv /\ [Next]_vars
        => (TypeInv /\ Located /\ CountInv /\ ExactInv)'
  BY TypeStep, LocatedStep, CountStep, ExactStep
<1> QED BY <1>1, <1>2, PTL DEF Spec

(* A reader that is a ring behind is noticed at its next check, but for the*)
(* pages of twice the interrupts the handler may be late by and the running*)
(* period.  It needs a little more than the comment on writer_laps assumes:*)
(* interrupts that stall for less than a lap less one period (NoStall), as *)
(* the count may be a period early.                                        *)
THEOREM RingLossIsSeen == ASSUME NoStall PROVE Spec => LossIsNoticed
<1> DEFINE Seen ==
             ReadCheck /\ ~noted' /\ link /\ ~late => filled - (anchor + off) < N + Blind
<1>1. TypeInv /\ Located /\ CountInv /\ ExactInv /\ [Next]_vars => Seen
  <2> SUFFICES ASSUME TypeInv, Where, ~late, link, ExactInv, ReadCheck, ~noted'
               PROVE  filled - (anchor + off) < N + Blind
    BY DEF Located
  <2>1. pc \in Anchored /\ pc \in Session /\ lg # -1
    BY DEF ReadCheck, Anchored, Session, ReadPcs, Where
  <2>2. Lags /\ total - base = tabs - anchor
    BY <2>1 DEF ExactInv, Exact
  <2>3. ~(total - (base + off) >= N)
    BY DEF ReadCheck, RingAhead
  <2>4. /\ total \in Int /\ base \in Int /\ off \in Int /\ anchor \in Int
        /\ filled \in Nat /\ tabs \in Int /\ habs \in Int /\ N \in Int
        /\ Base(filled) \in Int /\ unseen \in 0 .. MaxUnseen
    BY Numbers, Sizes
  <2>5. /\ Periods(unseen) \in Nat /\ Periods(MaxUnseen) \in Nat
        /\ Periods(unseen) <= Periods(MaxUnseen) /\ P \in Nat
    BY <2>4, Sizes, PeriodCount
  <2>6. Base(filled) - tabs <= Periods(MaxUnseen) + Periods(MaxUnseen)
    BY <2>1, <2>2, <2>4, <2>5 DEF Lags
  <2>7. filled - Base(filled) <= P - 1
    BY <2>4, BaseIs, Sizes
  <2>8. Blind = Periods(MaxUnseen) + Periods(MaxUnseen) + P - 1
    BY Sizes DEF Blind, Periods
  <2>9. tabs - (anchor + off) < N
    BY <2>2, <2>3, <2>4
  <2> QED BY <2>4, <2>5, <2>6, <2>7, <2>8, <2>9
<1> HIDE DEF Seen
<1>2. Spec => [][Seen]_vars
  BY <1>1, ExactAlways, PTL DEF Spec
<1>3. [][Seen]_vars => LossIsNoticed
  BY DEF Seen, LossIsNoticed
<1> QED BY <1>2, <1>3
=============================================================================
