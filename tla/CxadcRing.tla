------------------------------ MODULE CxadcRing ------------------------------
(***************************************************************************)
(* The sample ring of src/src/kernel/cxadc.c and its overrun accounting:   *)
(* the RISC engine fills N pages round and round and interrupts every P    *)
(* pages; the handler publishes the last interrupted page (lgpcnt) and a   *)
(* monotonic page total; open() resets the accounting and anchors a reader *)
(* at the published page; read() copies pages up to the published one,     *)
(* zeroes them, and counts an overrun when the total is a ring ahead.      *)
(*                                                                         *)
(* Pages are numbered from the first one the engine ever filled: page k is *)
(* in slot k % N.  The variables named "abs" hold such numbers: they are   *)
(* bookkeeping of the model, no action reads them.                         *)
(*                                                                         *)
(* Simplifications.  A read() asks for whole pages; disconnection, signals *)
(* in open() and the gain writes are in CxadcDriver.  One process opens    *)
(* the card again and again: a second one is turned away (SingleOwner).    *)
(***************************************************************************)
EXTENDS Integers

CONSTANTS
  N,            \* MAX_DMA_PAGE, the pages of the ring
  P,            \* IRQ_PERIOD_IN_PAGES
  MaxUnseen,    \* interrupts the engine can raise between two runs of the handler
  MaxFilled,    \* bound on the pages ever filled, and on those one session reads
  MaxRead,      \* bound on the pages one read() asks for
  MaxOpens,     \* bound on the sessions
  MaxOverruns,  \* bound on the overruns counted in one session
  SharedLine,   \* another device on the line can start the handler
  CanDie        \* the card can stop answering

ASSUME RingAssumption ==
  /\ P \in Nat \ {0} /\ N \in Nat /\ N % P = 0 /\ N > P /\ N <= MaxFilled
  /\ {MaxUnseen, MaxFilled, MaxRead, MaxOpens, MaxOverruns} \subseteq Nat \ {0}
  /\ {SharedLine, CanDie} \subseteq BOOLEAN

VARIABLES
  filled,     \* pages the engine has filled; it is writing into slot filled % N
  zeroed,     \* filled slots that read() has zeroed, in whole or in part
  spoilt,     \* read() has zeroed part of the page being written
  pending,    \* the page interrupt in MO_VID_INTSTAT
  unseen,     \* interrupts raised since the handler last read MO_VBI_GPCNT
  link,       \* the card answers MMIO
  pciMsk,     \* MO_PCI_INTMSK
  hpc,        \* where the handler is
  hgp, hlaps, \* its gp_cnt, and its load of writer_laps
  laps, last, total, lg,   \* writer_laps, last_irq_gp_cnt, writer_total_pages, lgpcnt
  initial, base, overruns, \* initial_page, reader_base_pages, overrun_count
  pc,         \* where the process is
  off, gp, want, noted,    \* pages read, read()'s gp_cnt, pages wanted, overrun_noted
  opens,      \* sessions so far
  habs, labs, tabs, \* abs: the page in hgp, in lg, in total
  start, anchor,    \* abs: the page in initial, in base
  lost,       \* an overwritten or wiped page has been delivered in this session
  late        \* history: a handler ran between open()'s reset and its enabling of interrupts

engineVars  == <<filled, zeroed, spoilt, link>>
irqLineVars == <<pending, unseen, pciMsk>>
handlerVars == <<hpc, hgp, hlaps, habs>>
countVars   == <<laps, last, total, lg, labs, tabs>>
anchorVars  == <<initial, base, start, anchor>>
readVars    == <<off, gp, want, noted>>
vars == <<engineVars, irqLineVars, handlerVars, countVars, anchorVars, readVars,
          overruns, pc, opens, lost, late>>

Slots == 0 .. N - 1

(* Mutant of RoundDown: publishes the counter as it is.                     *)
Unrounded(g) == g

RoundDown(g) == g - (g % P)           \* gp_cnt &= ~(IRQ_PERIOD_IN_PAGES - 1)
DeadCount == 0 - P                    \* what that makes of all-ones
LastIn(g, upto) == upto - ((upto - g) % N) \* the last page number up to upto in slot g

Pnum == (off + initial) % N           \* the slot the reader is at
Pos  == start + off                   \* and the page it wants from it

HandlerPcs == {"idle", "gp", "wrap", "store", "last", "total", "publish", "ack"}
OpenPcs == {"o_last", "o_total", "o_lg", "o_enable", "o_wait", "o_initial", "o_base"}
ReadPcs == {"r_check", "r_copy", "r_zero", "r_wait", "r_recheck"}

Init ==
  /\ filled \in Slots
  /\ zeroed = {} /\ spoilt = FALSE
  /\ pending = FALSE /\ unseen = 0
  /\ link = TRUE /\ pciMsk = FALSE
  /\ hpc = "idle" /\ hgp = 0 /\ hlaps = 0 /\ habs = 0
  /\ laps = 0 /\ last = 0 /\ total = 0 /\ lg = 0 /\ labs = 0 /\ tabs = 0
  /\ initial = 0 /\ base = 0 /\ start = 0 /\ anchor = 0
  /\ overruns = 0
  /\ pc = "closed" /\ off = 0 /\ gp = 0 /\ want = 0 /\ noted = FALSE
  /\ opens = 0 /\ lost = FALSE /\ late = FALSE

(***************************************************************************)
(* The engine: the RISC program of make_risc_instructions.  While the line *)
(* is enabled the handler runs at least once in MaxUnseen interrupts ("a   *)
(* wrap cannot be missed unless interrupts stall for a whole lap").        *)
(***************************************************************************)
EndsPeriod == (filled + 1) % P = 0

FillPage ==
  /\ link /\ filled < MaxFilled
  /\ EndsPeriod /\ pciMsk => unseen < MaxUnseen
  /\ filled' = filled + 1
  /\ zeroed' = IF spoilt THEN zeroed \cup {filled % N} ELSE zeroed \ {filled % N}
  /\ spoilt' = FALSE
  /\ pending' = (pending \/ EndsPeriod)
  /\ unseen' = IF EndsPeriod /\ pciMsk THEN unseen + 1 ELSE unseen
  /\ UNCHANGED <<link, pciMsk, handlerVars, countVars, anchorVars, readVars,
                 overruns, pc, opens, lost, late>>

CardDies ==
  /\ CanDie /\ link
  /\ link' = FALSE
  /\ UNCHANGED <<filled, zeroed, spoilt, irqLineVars, handlerVars, countVars,
                 anchorVars, readVars, overruns, pc, opens, lost, late>>

(***************************************************************************)
(* The handler, from the status read to the acknowledgement.  Its data     *)
(* races with open() are steps of their own: writer_laps++ is a load and a *)
(* store.                                                                  *)
(***************************************************************************)
Irq(from, to) == hpc = from /\ hpc' = to
IrqUnchanged ==
  /\ late' = (late \/ pc \in {"o_last", "o_total", "o_lg", "o_enable"})
  /\ UNCHANGED <<engineVars, anchorVars, readVars, overruns, opens, lost>>

(* A card that does not answer reads as all-ones, every cause pending.     *)
IrqEnter ==
  /\ Irq("idle", "gp")
  /\ IF link THEN pending /\ (pciMsk \/ SharedLine) ELSE SharedLine
  /\ IrqUnchanged
  /\ UNCHANGED <<irqLineVars, hgp, hlaps, habs, countVars, pc>>

(* MO_VBI_GPCNT can be a page ahead of memory ("we can get gpcnt == 1 but  *)
(* the first page may not yet have been transferred").  At the end of a    *)
(* period that is before the interrupt of its last page: a handler that    *)
(* runs for an earlier interrupt then counts the period too early.         *)
GpCounts == {filled, filled + 1}

IrqReadCount ==
  /\ Irq("gp", "wrap")
  /\ IF link
     THEN \E g \in GpCounts : hgp' = RoundDown(g % N) /\ habs' = LastIn(hgp', g)
     ELSE hgp' = DeadCount /\ habs' = 0
  /\ unseen' = 0
  /\ IrqUnchanged
  /\ UNCHANGED <<pending, pciMsk, hlaps, countVars, pc>>

Wrapped == hgp < last

IrqWrap ==
  /\ Irq("wrap", IF Wrapped THEN "store" ELSE "last")
  /\ hlaps' = IF Wrapped THEN laps + 1 ELSE 0
  /\ IrqUnchanged
  /\ UNCHANGED <<irqLineVars, hgp, habs, countVars, pc>>

IrqStoreLaps ==
  /\ Irq("store", "last")
  /\ laps' = hlaps
  /\ hlaps' = 0
  /\ IrqUnchanged
  /\ UNCHANGED <<irqLineVars, hgp, habs, last, total, lg, labs, tabs, pc>>

IrqLast ==
  /\ Irq("last", "total")
  /\ last' = hgp
  /\ IrqUnchanged
  /\ UNCHANGED <<irqLineVars, hgp, hlaps, habs, laps, total, lg, labs, tabs, pc>>

(* Mutant of IrqTotal: the position in the ring, without the laps.         *)
IrqTotalNoLaps ==
  /\ Irq("total", "publish")
  /\ total' = hgp
  /\ tabs' = habs
  /\ IrqUnchanged
  /\ UNCHANGED <<irqLineVars, hgp, hlaps, habs, laps, last, lg, labs, pc>>

IrqTotal ==
  /\ Irq("total", "publish")
  /\ total' = laps * N + hgp
  /\ tabs' = habs
  /\ IrqUnchanged
  /\ UNCHANGED <<irqLineVars, hgp, hlaps, habs, laps, last, lg, labs, pc>>

(* wake_up_interruptible(&ctd->readQ) finds its sleepers by their guards.  *)
IrqPublish ==
  /\ Irq("publish", "ack")
  /\ lg' = hgp
  /\ labs' = habs
  /\ hgp' = 0 /\ habs' = 0
  /\ IrqUnchanged
  /\ UNCHANGED <<irqLineVars, hlaps, laps, last, total, tabs, pc>>

(* Clears the cause it saw, and with it one raised since.                  *)
IrqAck ==
  /\ Irq("ack", "idle")
  /\ pending' = (pending /\ ~link)
  /\ IrqUnchanged
  /\ UNCHANGED <<unseen, pciMsk, hgp, hlaps, habs, countVars, pc>>

(***************************************************************************)
(* open() and release(): the accounting's part.                            *)
(***************************************************************************)
Step(from, to) == pc = from /\ pc' = to
ProcUnchanged == UNCHANGED <<engineVars, pending, handlerVars>>

OpenLaps ==
  /\ Step("closed", "o_last")
  /\ opens < MaxOpens
  /\ late' = (hpc # "idle")
  /\ opens' = opens + 1
  /\ laps' = 0
  /\ lost' = FALSE
  /\ off' = 0
  /\ ProcUnchanged
  /\ UNCHANGED <<unseen, pciMsk, last, total, lg, labs, tabs, anchorVars,
                 gp, want, noted, overruns>>

OpenLast ==
  /\ Step("o_last", "o_total")
  /\ last' = 0
  /\ ProcUnchanged
  /\ UNCHANGED <<unseen, pciMsk, laps, total, lg, labs, tabs, anchorVars,
                 readVars, overruns, opens, lost, late>>

OpenTotal ==
  /\ Step("o_total", "o_lg")
  /\ total' = 0
  /\ base' = 0
  /\ overruns' = 0
  /\ ProcUnchanged
  /\ UNCHANGED <<unseen, pciMsk, laps, last, lg, labs, tabs, initial, start,
                 anchor, readVars, opens, lost, late>>

OpenLgpcnt ==
  /\ Step("o_lg", "o_enable")
  /\ lg' = -1
  /\ ProcUnchanged
  /\ UNCHANGED <<unseen, pciMsk, laps, last, total, labs, tabs, anchorVars,
                 readVars, overruns, opens, lost, late>>

OpenEnable ==
  /\ Step("o_enable", "o_wait")
  /\ pciMsk' = link
  /\ unseen' = 0
  /\ ProcUnchanged
  /\ UNCHANGED <<countVars, anchorVars, readVars, overruns, opens, lost, late>>

OpenWait ==
  /\ Step("o_wait", "o_initial")
  /\ lg # -1
  /\ ProcUnchanged
  /\ UNCHANGED <<unseen, pciMsk, countVars, anchorVars, readVars, overruns,
                 opens, lost, late>>

OpenInitial ==
  /\ Step("o_initial", "o_base")
  /\ initial' = lg
  /\ start' = labs
  /\ ProcUnchanged
  /\ UNCHANGED <<unseen, pciMsk, countVars, base, anchor, readVars, overruns,
                 opens, lost, late>>

(* Mutant of OpenBase: the reader's count starts at 0.                     *)
OpenUnanchored ==
  /\ Step("o_base", "open")
  /\ anchor' = tabs
  /\ ProcUnchanged
  /\ UNCHANGED <<unseen, pciMsk, countVars, base, initial, start, readVars,
                 overruns, opens, lost, late>>

OpenBase ==
  /\ Step("o_base", "open")
  /\ base' = total
  /\ anchor' = tabs
  /\ ProcUnchanged
  /\ UNCHANGED <<unseen, pciMsk, countVars, initial, start, readVars, overruns,
                 opens, lost, late>>

Close ==
  /\ Step("open", "closed")
  /\ pciMsk' = (pciMsk /\ ~link)
  /\ ProcUnchanged
  /\ UNCHANGED <<unseen, countVars, anchorVars, readVars, overruns, opens, lost, late>>

(***************************************************************************)
(* read().                                                                 *)
(***************************************************************************)
ReadUnchanged ==
  /\ UNCHANGED <<link, filled, irqLineVars, handlerVars, countVars, anchorVars, opens, late>>

ReadStart ==
  /\ Step("open", "r_check")
  /\ want' \in 1 .. MaxRead
  /\ gp' = lg
  /\ noted' = FALSE
  /\ ReadUnchanged
  /\ UNCHANGED <<zeroed, spoilt, off, overruns, lost>>

RingAhead == total - (base + off) >= N

(* Before the copy and after each wait; once per read().                   *)
ReadCheck ==
  /\ pc \in {"r_check", "r_recheck"}
  /\ pc' = "r_copy"
  /\ IF RingAhead /\ ~noted
     THEN /\ overruns < MaxOverruns
          /\ overruns' = overruns + 1 /\ noted' = TRUE
     ELSE UNCHANGED <<overruns, noted>>
  /\ ReadUnchanged
  /\ UNCHANGED <<zeroed, spoilt, off, gp, want, lost>>

HasPage == want > 0 /\ Pnum # gp

(* The page wanted has been overwritten, or wiped (a page that is not yet  *)
(* there is another matter: NoEarlyPage).                                  *)
Gone == Pos < filled /\ (filled - N >= Pos \/ Pnum \in zeroed)

ReadCopy ==
  /\ Step("r_copy", "r_zero")
  /\ HasPage /\ off < MaxFilled
  /\ lost' = (lost \/ Gone)
  /\ ReadUnchanged
  /\ UNCHANGED <<zeroed, spoilt, readVars, overruns>>

(* memset of the page just copied, whatever the engine has put there since.*)
ReadZero ==
  /\ Step("r_zero", "r_copy")
  /\ IF Pnum = filled % N
     THEN spoilt' = TRUE /\ UNCHANGED zeroed
     ELSE zeroed' = zeroed \cup {Pnum} /\ UNCHANGED spoilt
  /\ off' = off + 1
  /\ want' = want - 1
  /\ ReadUnchanged
  /\ UNCHANGED <<gp, noted, overruns, lost>>

(* Nothing more to copy: done, or O_NONBLOCK.                              *)
ReadReturn ==
  /\ Step("r_copy", "open")
  /\ ~HasPage
  /\ want' = 0
  /\ ReadUnchanged
  /\ UNCHANGED <<zeroed, spoilt, off, gp, noted, overruns, lost>>

ReadWait ==
  /\ Step("r_copy", "r_wait")
  /\ ~HasPage /\ want > 0
  /\ ReadUnchanged
  /\ UNCHANGED <<zeroed, spoilt, readVars, overruns, lost>>

ReadWoke ==
  /\ Step("r_wait", "r_recheck")
  /\ lg # gp
  /\ gp' = lg
  /\ ReadUnchanged
  /\ UNCHANGED <<zeroed, spoilt, off, want, noted, overruns, lost>>

(* A signal, or a disconnection, ends the wait.                            *)
ReadInterrupted ==
  /\ Step("r_wait", "open")
  /\ want' = 0
  /\ ReadUnchanged
  /\ UNCHANGED <<zeroed, spoilt, off, gp, noted, overruns, lost>>

Engine  == FillPage \/ CardDies
Handler ==
  \/ IrqEnter \/ IrqReadCount \/ IrqWrap \/ IrqStoreLaps \/ IrqLast
  \/ IrqTotal \/ IrqPublish \/ IrqAck
Open    ==
  \/ OpenLaps \/ OpenLast \/ OpenTotal \/ OpenLgpcnt \/ OpenEnable
  \/ OpenWait \/ OpenInitial \/ OpenBase
Read    ==
  \/ ReadStart \/ ReadCheck \/ ReadCopy \/ ReadZero \/ ReadReturn
  \/ ReadWait \/ ReadWoke \/ ReadInterrupted

Next == Engine \/ Handler \/ Open \/ Read \/ Close

Spec == Init /\ [][Next]_vars

(***************************************************************************)
(* Properties.                                                             *)
(***************************************************************************)

(* Type correctness.  What the handler publishes is a period boundary, or  *)
(* open()'s -1, or what a dead card's all-ones are rounded to.             *)
RingTypeOK ==
  /\ filled \in 0 .. MaxFilled /\ zeroed \subseteq Slots /\ spoilt \in BOOLEAN
  /\ pending \in BOOLEAN /\ unseen \in 0 .. MaxUnseen
  /\ link \in BOOLEAN /\ pciMsk \in BOOLEAN
  /\ hpc \in HandlerPcs /\ pc \in {"closed", "open"} \cup OpenPcs \cup ReadPcs
  /\ {lg, gp, initial, hgp} \subseteq {k * P : k \in -1 .. N \div P - 1} \cup {-1}
  /\ {laps, hlaps} \subseteq Nat /\ {last, total, base} \subseteq Int
  /\ off \in 0 .. MaxFilled /\ want \in 0 .. MaxRead /\ noted \in BOOLEAN
  /\ overruns \in 0 .. MaxOverruns /\ opens \in 0 .. MaxOpens /\ {lost, late} \subseteq BOOLEAN
  /\ {habs, labs, tabs, start, anchor} \subseteq Int

(* Is the engine writing this page, the last one of its period?  Then the  *)
(* counter may show it as done.                                            *)
CountedEarly(page) == page = filled /\ EndsPeriod

(* While the card answers, read() never hands out a page the engine has not*)
(* filled, although it works from two snapshots of a position interrupts   *)
(* move (the page number from the offset, the limit from lgpcnt) and a     *)
(* handler may be in flight across open()'s reset.  The exception is what  *)
(* the rounding is there to prevent and does not ("round it down to the    *)
(* last page that we know should have triggered an interrupt"): the last   *)
(* page of a period, counted before it is in memory.                       *)
Early == pc = "r_copy" /\ HasPage /\ Pos >= filled
NoEarlyPage == link /\ Early => CountedEarly(Pos)

(* "this can never false-positive": while the card answers, and no handler *)
(* ran between open()'s reset and its enabling of interrupts, an overrun is *)
(* counted only when the engine has begun to overwrite the page the reader *)
(* is at.  The exception is again a count that came early: the page it will*)
(* overwrite next is that page.                                            *)
NoFalsePositive ==
  [][overruns' > overruns /\ link /\ ~late =>
       filled - Pos >= N \/ CountedEarly(Pos + N - 1)]_vars

(* What the check does promise, under the same conditions.  Measured from  *)
(* the page the accounting is anchored at, a reader that is a ring behind  *)
(* is noticed, but for the pages filled since the total was last stored:   *)
(* those of the interrupts the handler may be late by, twice, and of the   *)
(* running period.                                                         *)
Blind == (2 * MaxUnseen + 1) * P - 1
LossIsNoticed ==
  [][ReadCheck /\ ~noted' /\ link /\ ~late => filled - (anchor + off) < N + Blind]_vars

(***************************************************************************)
(* What comments and the README say, and the code does not keep.           *)
(***************************************************************************)

(* "a capture that exits 0 is provably sample-continuous": a session that  *)
(* is closed with no overrun counted has delivered no page that was gone.  *)
CleanIsContinuous == pc = "closed" /\ overruns = 0 => ~lost

=============================================================================
