---------------------------- MODULE CxadcDriver ----------------------------
(***************************************************************************)
(* The life of one card in src/src/kernel/cxadc.c, from probe to the end   *)
(* of remove, or to the end of the unwinding of a probe that failed.  Four *)
(* kinds of actor share the driver's struct cxadc and the card's registers:*)
(*   - processes that open, read, ioctl and close /dev/cxadcN;             *)
(*   - the PCI core, which serialises probe, remove, suspend, resume,      *)
(*     shutdown and error_detected under the device lock;                  *)
(*   - the interrupt handler, on another CPU and on a line that may be     *)
(*     shared (IRQF_SHARED);                                               *)
(*   - one sysfs show/store of a parameter.                                *)
(* Each handler is cut into steps at the points where another actor can    *)
(* observe or disturb it: lock operations, reads of flags, MMIO writes.    *)
(*                                                                         *)
(* Simplifications.  A process has at most one system call in flight on    *)
(* its file.  The sample ring is reduced to "has lgpcnt moved since the    *)
(* reader sampled it" (CxadcRing has the pages and counters).  disable_card*)
(* is one step: its five register writes have no read between them.  The   *)
(* freezer lets suspend start only when no system call is in flight.       *)
(***************************************************************************)
EXTENDS Integers, FiniteSets

CONSTANTS
  Procs,       \* processes that may open the device
  NoProc,      \* the owner of a free mutex
  MaxWant,     \* bound on the size of one read(), in interrupt periods
  SharedLine,  \* another device on the interrupt line can start the handler
  Events       \* the environment events of an instance, a subset of AllEvents

AllEvents == {"remove", "aer", "dead", "suspend", "shutdown", "signal",
              "fault", "sysfs"}

ASSUME DriverAssumption ==
  /\ NoProc \notin Procs
  /\ MaxWant \in Nat \ {0}
  /\ SharedLine \in BOOLEAN
  /\ Events \subseteq AllEvents

VARIABLES
  pc,            \* where each process is
  want,          \* what is left of each process's read(), in periods
  core,          \* where the PCI core is
  faulted,       \* cxadc_remove's snapshot of disconnected
  irq,           \* where the interrupt handler is
  ostat,         \* the handler's local copy of the status bits
  sysfs,         \* a parameter's show/store: "idle", "active", or "crashed"
                 \* on a device without drvdata
  linked,        \* ctd is in the registry cxadcs
  inUse,         \* ctd->in_use
  disconnected,  \* ctd->disconnected
  data,          \* lgpcnt: "none" is -1, "new" is not what the reader sampled
  errMasked,     \* ctd->err_irq_masked
  listLock,      \* holder of cxadc_list_lock
  ctdLock,       \* holder of ctd->lock
  alloc,         \* which of the driver's resources are live
  link,          \* the card answers MMIO
  pciMsk,        \* MO_PCI_INTMSK
  vidMsk,        \* MO_VID_INTMSK, the set of unmasked causes
  intstat,       \* MO_VID_INTSTAT, the set of pending causes
  engine,        \* MO_VID_DMACNTRL / MO_DEV_CNTRL2: FIFO and RISC run
  busMaster      \* the bus-master bit in config space

procVars == <<pc, want>>
coreVars == <<core, faulted>>
irqVars  == <<irq, ostat>>
lockVars == <<listLock, ctdLock>>
maskVars == <<pciMsk, vidMsk, intstat, engine>>
hwVars   == <<link, maskVars, busMaster>>
drvVars  == <<linked, inUse, disconnected, data, errMasked>>
vars == <<procVars, coreVars, irqVars, sysfs, drvVars, lockVars, alloc, hwVars>>

Causes == {"page", "err"}    \* 0x8 and INTERRUPT_ERR_MASK of INTERRUPT_MASK
(* What probe acquires: the enabled device, its memory region, struct      *)
(* cxadc, the minor, the sysfs group, the RISC program and the ring's      *)
(* pages, the mapping, the interrupt, the character device and its node,   *)
(* and the device's pointer back to struct cxadc.                          *)
Resources == {"enabled", "region", "ctd", "minor", "sysfs", "ring", "mmio",
              "irq", "node", "drvdata"}

OpenPcs  == {"o_reset", "o_rearm", "o_unmask", "o_enable",
             "o_wait", "o_sleep", "o_done"}
ReadPcs  == {"r_copy", "r_recopy", "r_chk", "r_gain",
             "r_wait", "r_sleep", "r_woke"}
IoctlPcs == {"c_chk", "c_gain"}
ClosePcs == {"l_chk", "l_mask", "l_lock", "l_clear"}
TailPcs  == {"l_unlock", "l_wake"}   \* of release, after in_use = false
ProcPcs  == {"closed", "o_claim", "open"}
              \cup OpenPcs \cup ReadPcs \cup IoctlPcs \cup ClosePcs \cup TailPcs

(* The process owns the card: from in_use = true to in_use = false.        *)
Holding == {"open"} \cup OpenPcs \cup ReadPcs \cup IoctlPcs \cup ClosePcs

ProbeEarly  == {"pb_enable", "pb_region", "pb_alloc", "pb_minor", "pb_sysfs",
                "pb_ring", "pb_map", "pb_check", "pb_master", "pb_start",
                "pb_irq", "pb_node", "pb_publish"}
ProbeLate   == {"pb_drvdata", "pb_unmask"}
Unwind      == {"un_irq", "un_sync", "un_hw", "un_master", "un_map", "un_ring",
                "un_sysfs", "un_drain", "un_minor", "un_ctd", "un_region",
                "un_enable"}
RemoveEarly == {"rm_quiesce", "rm_master", "rm_sysfs", "rm_drain", "rm_unlink"}
RemoveWait  == {"rm_evict", "rm_wake", "rm_wait", "rm_sleep"}
RemoveFree  == {"rm_irq", "rm_sync", "rm_unmap", "rm_kfree", "gone"}
CorePcs == {"idle", "er_quiesce", "er_wake", "asleep", "rs_unmask", "off"}
             \cup ProbeEarly \cup ProbeLate \cup Unwind
             \cup RemoveEarly \cup RemoveWait \cup RemoveFree

IrqPcs == {"idle", "msk", "page", "ack", "err", "mask"}

(***************************************************************************)
(* Hardware helpers.                                                       *)
(***************************************************************************)

(* MMIO reaches the card; otherwise reads give all-ones, writes are lost.  *)
Up == link /\ core # "asleep"

(* User space is frozen from suspend to the end of resume.                 *)
Frozen == core \in {"asleep", "rs_unmask"}

DisableCard ==
  IF Up
  THEN /\ pciMsk' = FALSE
       /\ vidMsk' = {}
       /\ intstat' = {}
       /\ engine' = FALSE
  ELSE UNCHANGED maskVars

SetVidMsk(causes) == vidMsk' = IF Up THEN causes ELSE vidMsk
SetPciMsk(on)     == pciMsk' = IF Up THEN on ELSE pciMsk

(* The card pulls the interrupt line.                                      *)
Asserted == Up /\ pciMsk /\ intstat \cap vidMsk # {}

(***************************************************************************)
(* Process helpers.                                                        *)
(***************************************************************************)
At(p, from) == ~Frozen /\ pc[p] = from
Go(p, to)   == pc' = [pc EXCEPT ![p] = to]

(* A step of a process that changes nothing but where it is.               *)
Move(p, from, to) ==
  /\ At(p, from)
  /\ Go(p, to)
  /\ UNCHANGED <<want, coreVars, irqVars, sysfs, drvVars, lockVars, alloc, hwVars>>

(* Mutant of Awake.  The handler stores the new position and wakes only a  *)
(* blocked open().                                                         *)
AwakeOpenOnly(q) == IF q = "o_sleep" THEN "o_wait" ELSE q

(* wake_up_interruptible(&ctd->readQ): sleepers go back to their condition.*)
Awake(q) == IF q = "o_sleep" THEN "o_wait"
            ELSE IF q = "r_sleep" THEN "r_wait" ELSE q
WakeReaders == pc' = [p \in Procs |-> Awake(pc[p])]

(* read() returns to user space, whatever it returns.                      *)
ReadReturn(p) ==
  /\ Go(p, "open")
  /\ want' = [want EXCEPT ![p] = 0]

(***************************************************************************)
(* Steps of the PCI core's callbacks.                                      *)
(***************************************************************************)
CoreStep(from, to) == core = from /\ core' = to

(* The core does nothing but go on, when cond holds.                       *)
CoreAwait(from, cond, to) ==
  /\ CoreStep(from, to)
  /\ cond
  /\ UNCHANGED <<procVars, faulted, irqVars, sysfs, drvVars, lockVars, alloc, hwVars>>

Take(from, res, to) ==
  /\ CoreStep(from, to)
  /\ alloc' = alloc \cup res
  /\ UNCHANGED <<procVars, faulted, irqVars, sysfs, drvVars, lockVars, hwVars>>

(* A step of probe that acquires res, or fails and jumps to a label.       *)
Acquire(from, res, to, label) ==
  Take(from, res, to) \/ CoreAwait(from, TRUE, label)

(* A step of remove, or of probe's unwinding, that gives res back.         *)
GiveBack(from, res, to) ==
  /\ CoreStep(from, to)
  /\ alloc' = alloc \ res
  /\ UNCHANGED <<procVars, faulted, irqVars, sysfs, drvVars, lockVars, hwVars>>

(***************************************************************************)
(* Mutants: plausible mistakes in the handlers below, each the reason for  *)
(* one property.  No action of the specification uses them.                *)
(***************************************************************************)

(* open() drops the list lock between the lookup and the claim.            *)
OpenLookupUnlocked(p) == linked /\ Move(p, "closed", "o_claim")

(* open() forgets the in_use test.                                         *)
OpenClaimBusy(p) ==
  /\ At(p, "o_claim")
  /\ ctdLock = NoProc
  /\ listLock' = NoProc
  /\ inUse' = (inUse \/ ~disconnected)
  /\ Go(p, IF disconnected THEN "closed" ELSE "o_reset")
  /\ UNCHANGED <<want, coreVars, irqVars, sysfs, linked, disconnected, data,
                 errMasked, ctdLock, alloc, hwVars>>

(* read() takes the last page whole.                                       *)
ReadCopyWholePages(p) ==
  /\ pc[p] \in {"r_copy", "r_recopy"} /\ ~Frozen
  /\ \E k \in 0 .. want[p] + 1 : want' = [want EXCEPT ![p] = @ - k]
  /\ Go(p, "r_chk")
  /\ UNCHANGED <<coreVars, irqVars, sysfs, drvVars, lockVars, alloc, hwVars>>

(* release() does not wake close_waitq.                                    *)
ReleaseSilent(p) == Move(p, "l_wake", "closed")

(* A step of the core that forgets its effect.                             *)
CoreSkips(from, to) == CoreAwait(from, TRUE, to)

(* remove does not wait for in_use to clear.                               *)
RemoveAtOnce == CoreSkips("rm_wait", "rm_irq")

(* pci_clear_master only on a healthy card, with the rest of the quiescing.*)
RemoveMasterHealthy ==
  /\ core = "rm_master" /\ core' = "rm_sysfs"
  /\ busMaster' = (busMaster /\ faulted)
  /\ UNCHANGED <<procVars, faulted, irqVars, sysfs, drvVars, lockVars, alloc,
                 link, maskVars>>

(* error_detected quiesces the card and does not set disconnected.         *)
ErrorUnmarked == CoreSkips("idle", "er_quiesce")

(* error_detected does not wake readQ.                                     *)
ErrorSilent == CoreSkips("er_wake", "idle")

(* The engine runs: probe has armed it, and a failure jumps past fail_hw.  *)
ProbeIrqLeaksHw == Acquire("pb_irq", {"irq"}, "pb_node", "un_map")

(* device_create fails and the interrupt stays registered.                 *)
ProbeNodeLeaksIrq == Acquire("pb_node", {"node"}, "pb_publish", "un_hw")

(* A card without a driver: fresh from reset, or quiesced by the last one. *)
Init ==
  /\ pc = [p \in Procs |-> "closed"]
  /\ want = [p \in Procs |-> 0]
  /\ core = "pb_enable" /\ faulted = FALSE
  /\ irq = "idle" /\ ostat = {}
  /\ sysfs = "idle"
  /\ linked = FALSE /\ inUse = FALSE /\ disconnected = FALSE
  /\ data = "new"            \* kmalloc + memset: lgpcnt is 0, not -1
  /\ errMasked = FALSE
  /\ listLock = NoProc /\ ctdLock = NoProc
  /\ alloc = {}
  /\ link = TRUE /\ pciMsk = FALSE /\ vidMsk = {} /\ intstat = {}
  /\ engine = FALSE /\ busMaster = FALSE

(***************************************************************************)
(* open().                                                                 *)
(***************************************************************************)

(* Finds the card under the list lock and keeps the lock; a card that is   *)
(* not in the registry is ENODEV and leaves no trace.                      *)
OpenLookup(p) ==
  /\ At(p, "closed")
  /\ listLock = NoProc
  /\ linked
  /\ listLock' = p
  /\ Go(p, "o_claim")
  /\ UNCHANGED <<want, coreVars, irqVars, sysfs, drvVars, ctdLock, alloc, hwVars>>

(* Under both locks: ENODEV, EBUSY or the claim.                           *)
OpenClaim(p) ==
  /\ At(p, "o_claim")
  /\ ctdLock = NoProc
  /\ listLock' = NoProc
  /\ \/ /\ disconnected \/ inUse
        /\ Go(p, "closed")
        /\ UNCHANGED inUse
     \/ /\ ~disconnected /\ ~inUse
        /\ inUse' = TRUE
        /\ Go(p, "o_reset")
  /\ UNCHANGED <<want, coreVars, irqVars, sysfs, linked, disconnected, data,
                 errMasked, ctdLock, alloc, hwVars>>

(* Input, gain and clock registers, then lgpcnt = -1.                      *)
OpenReset(p) ==
  /\ At(p, "o_reset")
  /\ data' = "none"
  /\ Go(p, "o_rearm")
  /\ UNCHANGED <<want, coreVars, irqVars, sysfs, linked, inUse, disconnected,
                 errMasked, lockVars, alloc, hwVars>>

OpenRearm(p) ==
  /\ At(p, "o_rearm")
  /\ errMasked' = FALSE
  /\ Go(p, "o_unmask")
  /\ UNCHANGED <<want, coreVars, irqVars, sysfs, linked, inUse, disconnected,
                 data, lockVars, alloc, hwVars>>

OpenUnmask(p) ==
  /\ At(p, "o_unmask")
  /\ SetVidMsk(Causes)
  /\ Go(p, "o_enable")
  /\ UNCHANGED <<want, coreVars, irqVars, sysfs, drvVars, lockVars, alloc,
                 link, pciMsk, intstat, engine, busMaster>>

OpenEnable(p) ==
  /\ At(p, "o_enable")
  /\ SetPciMsk(TRUE)
  /\ Go(p, "o_wait")
  /\ UNCHANGED <<want, coreVars, irqVars, sysfs, drvVars, lockVars, alloc,
                 link, vidMsk, intstat, engine, busMaster>>

(* One evaluation of the wait's condition, queued on readQ.                *)
OpenWait(p) ==
  Move(p, "o_wait", IF data # "none" \/ disconnected THEN "o_done" ELSE "o_sleep")

(* A disconnected card fails the open through the same tail as release().  *)
OpenDone(p) == Move(p, "o_done", IF disconnected THEN "l_chk" ELSE "open")

(***************************************************************************)
(* read().  O_NONBLOCK with nothing to copy, or after the copy, returns.   *)
(***************************************************************************)
ReadStart(p) ==
  /\ At(p, "open")
  /\ \E n \in 1..MaxWant : want' = [want EXCEPT ![p] = n]
  /\ data' = "same"
  /\ Go(p, "r_copy")
  /\ UNCHANGED <<coreVars, irqVars, sysfs, linked, inUse, disconnected,
                 errMasked, lockVars, alloc, hwVars>>

(* Copies what lies between the reader and the sampled position: at entry  *)
(* possibly nothing, after a wait at least one period.  copy_to_user may   *)
(* fail (EFAULT).                                                          *)
ReadCopy(p) ==
  /\ pc[p] \in {"r_copy", "r_recopy"} /\ ~Frozen
  /\ \/ \E k \in (IF pc[p] = "r_copy" THEN 0 ELSE 1) .. want[p] :
          /\ want' = [want EXCEPT ![p] = @ - k]
          /\ Go(p, "r_chk")
     \/ ReadReturn(p)
  /\ UNCHANGED <<coreVars, irqVars, sysfs, drvVars, lockVars, alloc, hwVars>>

ReadCheck(p) ==
  /\ At(p, "r_chk")
  /\ \/ disconnected /\ ReadReturn(p)
     \/ ~disconnected /\ Go(p, "r_gain") /\ UNCHANGED want
  /\ UNCHANGED <<coreVars, irqVars, sysfs, drvVars, lockVars, alloc, hwVars>>

(* Writes the gain registers, then returns or waits for more.              *)
ReadGain(p) ==
  /\ At(p, "r_gain")
  /\ \/ ReadReturn(p)
     \/ want[p] > 0 /\ Go(p, "r_wait") /\ UNCHANGED want
  /\ UNCHANGED <<coreVars, irqVars, sysfs, drvVars, lockVars, alloc, hwVars>>

ReadWait(p) ==
  Move(p, "r_wait", IF data = "new" \/ disconnected THEN "r_woke" ELSE "r_sleep")

ReadWoke(p) ==
  /\ At(p, "r_woke")
  /\ \/ disconnected /\ ReadReturn(p) /\ UNCHANGED data
     \/ ~disconnected /\ Go(p, "r_recopy") /\ data' = "same" /\ UNCHANGED want
  /\ UNCHANGED <<coreVars, irqVars, sysfs, linked, inUse, disconnected,
                 errMasked, lockVars, alloc, hwVars>>

(* A signal ends an interruptible wait.                                    *)
Signal(p) ==
  /\ "signal" \in Events /\ ~Frozen
  /\ \/ /\ pc[p] = "o_sleep"
        /\ Go(p, "l_chk")
        /\ UNCHANGED want
     \/ /\ pc[p] = "r_sleep"
        /\ ReadReturn(p)
  /\ UNCHANGED <<coreVars, irqVars, sysfs, drvVars, lockVars, alloc, hwVars>>

(***************************************************************************)
(* ioctl() and release().                                                  *)
(***************************************************************************)
IoctlStart(p) == Move(p, "open", "c_chk")
IoctlCheck(p) == Move(p, "c_chk", IF disconnected THEN "open" ELSE "c_gain")
IoctlGain(p)  == Move(p, "c_gain", "open")

Close(p)        == Move(p, "open", "l_chk")
ReleaseCheck(p) == Move(p, "l_chk", IF disconnected THEN "l_lock" ELSE "l_mask")

ReleaseMask(p) ==
  /\ At(p, "l_mask")
  /\ SetPciMsk(FALSE)
  /\ Go(p, "l_lock")
  /\ UNCHANGED <<want, coreVars, irqVars, sysfs, drvVars, lockVars, alloc,
                 link, vidMsk, intstat, engine, busMaster>>

ReleaseLock(p) ==
  /\ At(p, "l_lock")
  /\ ctdLock = NoProc
  /\ ctdLock' = p
  /\ Go(p, "l_clear")
  /\ UNCHANGED <<want, coreVars, irqVars, sysfs, drvVars, listLock, alloc, hwVars>>

ReleaseClear(p) ==
  /\ At(p, "l_clear")
  /\ inUse' = FALSE
  /\ Go(p, "l_unlock")
  /\ UNCHANGED <<want, coreVars, irqVars, sysfs, linked, disconnected, data,
                 errMasked, lockVars, alloc, hwVars>>

ReleaseUnlock(p) ==
  /\ At(p, "l_unlock")
  /\ ctdLock' = NoProc
  /\ Go(p, "l_wake")
  /\ UNCHANGED <<want, coreVars, irqVars, sysfs, drvVars, listLock, alloc, hwVars>>

(* wake_up(&ctd->close_waitq): remove evaluates its condition again.       *)
ReleaseWake(p) ==
  /\ At(p, "l_wake")
  /\ Go(p, "closed")
  /\ core' = IF core = "rm_sleep" THEN "rm_wait" ELSE core
  /\ UNCHANGED <<want, faulted, irqVars, sysfs, drvVars, lockVars, alloc, hwVars>>

(***************************************************************************)
(* The interrupt handler.  A card that does not answer reads as all-ones:  *)
(* every cause is pending and unmasked.                                    *)
(***************************************************************************)
IrqEnter ==
  /\ irq = "idle"
  /\ "irq" \in alloc
  /\ Asserted \/ SharedLine
  /\ ostat' = IF Up THEN intstat ELSE Causes
  /\ irq' = "msk"
  /\ UNCHANGED <<procVars, coreVars, sysfs, drvVars, lockVars, alloc, hwVars>>

IrqReadMask ==
  /\ irq = "msk"
  /\ ostat' = IF Up THEN ostat \cap vidMsk ELSE ostat
  /\ irq' = IF ostat' = {} THEN "idle" ELSE IF "page" \in ostat' THEN "page" ELSE "ack"
  /\ UNCHANGED <<procVars, coreVars, sysfs, drvVars, lockVars, alloc, hwVars>>

(* Stores the new lgpcnt and wakes readQ.                                  *)
IrqPage ==
  /\ irq = "page"
  /\ data' = "new"
  /\ WakeReaders
  /\ irq' = "ack"
  /\ UNCHANGED <<want, coreVars, ostat, sysfs, linked, inUse, disconnected,
                 errMasked, lockVars, alloc, hwVars>>

IrqAck ==
  /\ irq = "ack"
  /\ intstat' = IF Up THEN intstat \ ostat ELSE intstat
  /\ irq' = IF "err" \in ostat THEN "err" ELSE "idle"
  /\ ostat' = {}
  /\ UNCHANGED <<procVars, coreVars, sysfs, drvVars, lockVars, alloc,
                 link, pciMsk, vidMsk, engine, busMaster>>

IrqError ==
  /\ irq = "err"
  /\ errMasked' = TRUE
  /\ irq' = IF errMasked THEN "idle" ELSE "mask"
  /\ UNCHANGED <<procVars, coreVars, ostat, sysfs, linked, inUse, disconnected,
                 data, lockVars, alloc, hwVars>>

IrqMaskErrors ==
  /\ irq = "mask"
  /\ SetVidMsk({"page"})
  /\ irq' = "idle"
  /\ UNCHANGED <<procVars, coreVars, ostat, sysfs, drvVars, lockVars, alloc,
                 link, pciMsk, intstat, engine, busMaster>>

(***************************************************************************)
(* probe: acquire in this order, start the engine before the interrupt is  *)
(* requested, publish, and unmask last.  Each step that can fail jumps to  *)
(* the label that undoes exactly what came before it.                      *)
(***************************************************************************)
ProbeEnable == Acquire("pb_enable", {"enabled"}, "pb_region", "gone")
ProbeRegion == Acquire("pb_region", {"region"}, "pb_alloc", "un_enable")
ProbeAlloc  == Acquire("pb_alloc", {"ctd"}, "pb_minor", "un_region")
ProbeMinor  == Acquire("pb_minor", {"minor"}, "pb_sysfs", "un_ctd")
ProbeSysfs  == Acquire("pb_sysfs", {"sysfs"}, "pb_ring", "un_minor")

(* The RISC buffer, then the pages one by one: the first failure has no    *)
(* buffer to free, a later one has the buffer and some of the pages.       *)
ProbeRing ==
  \/ \E to \in {"pb_map", "un_ring"} : Take("pb_ring", {"ring"}, to)
  \/ CoreAwait("pb_ring", TRUE, "un_sysfs")

ProbeMap   == Acquire("pb_map", {"mmio"}, "pb_check", "un_ring")

(* Two registers that read all-ones: the card is dead.                     *)
ProbeCheck == CoreAwait("pb_check", TRUE, IF Up THEN "pb_master" ELSE "un_map")

ProbeMaster ==
  /\ CoreStep("pb_master", "pb_start")
  /\ busMaster' = TRUE
  /\ DisableCard
  /\ UNCHANGED <<procVars, faulted, irqVars, sysfs, drvVars, lockVars, alloc, link>>

ProbeStart ==
  /\ CoreStep("pb_start", "pb_irq")
  /\ engine' = (Up \/ engine)
  /\ UNCHANGED <<procVars, faulted, irqVars, sysfs, drvVars, lockVars, alloc,
                 link, pciMsk, vidMsk, intstat, busMaster>>

ProbeIrq  == Acquire("pb_irq", {"irq"}, "pb_node", "un_hw")
ProbeNode == Acquire("pb_node", {"node"}, "pb_publish", "un_irq")

ProbePublish ==
  /\ CoreStep("pb_publish", "pb_drvdata")
  /\ listLock = NoProc
  /\ linked' = TRUE
  /\ UNCHANGED <<procVars, faulted, irqVars, sysfs, inUse, disconnected, data,
                 errMasked, lockVars, alloc, hwVars>>

ProbeDrvdata == Take("pb_drvdata", {"drvdata"}, "pb_unmask")

ProbeUnmask ==
  /\ CoreStep("pb_unmask", "idle")
  /\ SetVidMsk(Causes)
  /\ UNCHANGED <<procVars, faulted, irqVars, sysfs, drvVars, lockVars, alloc,
                 link, pciMsk, intstat, engine, busMaster>>

(***************************************************************************)
(* The labels at the end of probe, from fail2 up to fail_disable.          *)
(***************************************************************************)
UndoIrq     == GiveBack("un_irq", {"irq"}, "un_sync")
UndoSyncIrq == CoreAwait("un_sync", irq = "idle", "un_hw")

UndoHw ==
  /\ CoreStep("un_hw", "un_master")
  /\ DisableCard
  /\ UNCHANGED <<procVars, faulted, irqVars, sysfs, drvVars, lockVars, alloc,
                 link, busMaster>>

UndoMaster ==
  /\ CoreStep("un_master", "un_map")
  /\ busMaster' = FALSE
  /\ UNCHANGED <<procVars, faulted, irqVars, sysfs, drvVars, lockVars, alloc,
                 link, maskVars>>

UndoMap        == GiveBack("un_map", {"mmio"}, "un_ring")
UndoRing       == GiveBack("un_ring", {"ring"}, "un_sysfs")
UndoSysfs      == GiveBack("un_sysfs", {"sysfs"}, "un_drain")
UndoDrainSysfs == CoreAwait("un_drain", sysfs = "idle", "un_minor")
UndoMinor      == GiveBack("un_minor", {"minor"}, "un_ctd")
UndoAlloc      == GiveBack("un_ctd", {"ctd"}, "un_region")
UndoRegion     == GiveBack("un_region", {"region"}, "un_enable")
UndoEnable     == GiveBack("un_enable", {"enabled"}, "gone")

(***************************************************************************)
(* remove.                                                                 *)
(***************************************************************************)
RemoveStart ==
  /\ "remove" \in Events
  /\ CoreStep("idle", "rm_quiesce")
  /\ faulted' = disconnected
  /\ UNCHANGED <<procVars, irqVars, sysfs, drvVars, lockVars, alloc, hwVars>>

RemoveQuiesce ==
  /\ CoreStep("rm_quiesce", "rm_master")
  /\ IF faulted THEN UNCHANGED maskVars ELSE DisableCard
  /\ UNCHANGED <<procVars, faulted, irqVars, sysfs, drvVars, lockVars, alloc,
                 link, busMaster>>

RemoveMaster ==
  /\ CoreStep("rm_master", "rm_sysfs")
  /\ busMaster' = FALSE
  /\ UNCHANGED <<procVars, faulted, irqVars, sysfs, drvVars, lockVars, alloc,
                 link, maskVars>>

(* sysfs_remove_group admits no new show or store, then waits for the one  *)
(* in flight.                                                              *)
RemoveSysfs      == GiveBack("rm_sysfs", {"sysfs"}, "rm_drain")
RemoveDrainSysfs == CoreAwait("rm_drain", sysfs = "idle", "rm_unlink")

(* Unlinks the card under the list lock; the node and the minor go too.    *)
RemoveUnlink ==
  /\ CoreStep("rm_unlink", "rm_evict")
  /\ listLock = NoProc
  /\ linked' = FALSE
  /\ alloc' = alloc \ {"node", "minor"}
  /\ UNCHANGED <<procVars, faulted, irqVars, sysfs, inUse, disconnected, data,
                 errMasked, lockVars, hwVars>>

RemoveEvict ==
  /\ CoreStep("rm_evict", "rm_wake")
  /\ disconnected' = TRUE
  /\ UNCHANGED <<procVars, faulted, irqVars, sysfs, linked, inUse, data,
                 errMasked, lockVars, alloc, hwVars>>

RemoveWake ==
  /\ CoreStep("rm_wake", "rm_wait")
  /\ WakeReaders
  /\ UNCHANGED <<want, faulted, irqVars, sysfs, drvVars, lockVars, alloc, hwVars>>

(* wait_event(close_waitq, !in_use): reads in_use without ctd->lock.       *)
RemoveWaitClose ==
  CoreAwait("rm_wait", TRUE, IF inUse THEN "rm_sleep" ELSE "rm_irq")

(* free_irq unhooks the handler, then waits for the one in flight.         *)
RemoveFreeIrq == GiveBack("rm_irq", {"irq"}, "rm_sync")
RemoveSyncIrq == CoreAwait("rm_sync", irq = "idle", "rm_unmap")

(* agc_reset, iounmap, the RISC program, the ring's pages, the region.     *)
RemoveUnmap == GiveBack("rm_unmap", {"mmio", "ring", "region"}, "rm_kfree")
RemoveKfree == GiveBack("rm_kfree", {"drvdata", "ctd", "enabled"}, "gone")

(* error_detected: the channel is in permanent failure when the card no    *)
(* longer answers, and then disable_card is left out.                      *)
ErrorDetected ==
  /\ "aer" \in Events
  /\ CoreStep("idle", IF link THEN "er_quiesce" ELSE "er_wake")
  /\ disconnected' = TRUE
  /\ UNCHANGED <<procVars, faulted, irqVars, sysfs, linked, inUse, data,
                 errMasked, lockVars, alloc, hwVars>>

ErrorQuiesce ==
  /\ CoreStep("er_quiesce", "er_wake")
  /\ DisableCard
  /\ UNCHANGED <<procVars, faulted, irqVars, sysfs, drvVars, lockVars, alloc,
                 link, busMaster>>

ErrorWake ==
  /\ CoreStep("er_wake", "idle")
  /\ WakeReaders
  /\ UNCHANGED <<want, faulted, irqVars, sysfs, drvVars, lockVars, alloc, hwVars>>

(* The freezer has brought every process to user space.                    *)
Suspend ==
  /\ "suspend" \in Events
  /\ CoreStep("idle", "asleep")
  /\ \A p \in Procs : pc[p] \in {"closed", "open"}
  /\ sysfs = "idle"
  /\ IF disconnected THEN UNCHANGED maskVars ELSE DisableCard
  /\ busMaster' = FALSE
  /\ UNCHANGED <<procVars, faulted, irqVars, sysfs, drvVars, lockVars, alloc, link>>

(* Re-initialises the card up to the error flag; a card that had faulted   *)
(* is left as the power transition left it.  One that pci_enable_device    *)
(* cannot enable stays bound and does not answer.                          *)
Resume ==
  /\ core = "asleep"
  /\ \/ /\ disconnected
        /\ core' = "idle"
        /\ busMaster' = TRUE
        /\ engine' \in {engine, FALSE}
        /\ UNCHANGED <<link, pciMsk, vidMsk, intstat, errMasked>>
     \/ /\ ~disconnected
        /\ core' = "rs_unmask"
        /\ busMaster' = TRUE
        /\ pciMsk' = FALSE /\ vidMsk' = {} /\ intstat' = {}
        /\ engine' = TRUE
        /\ errMasked' = FALSE
        /\ UNCHANGED link
     \/ /\ core' = "idle"
        /\ link' = FALSE
        /\ UNCHANGED <<busMaster, maskVars, errMasked>>
  /\ UNCHANGED <<procVars, faulted, irqVars, sysfs, linked, inUse, disconnected,
                 data, lockVars, alloc>>

ResumeUnmask ==
  /\ CoreStep("rs_unmask", "idle")
  /\ SetVidMsk(Causes)
  /\ UNCHANGED <<procVars, faulted, irqVars, sysfs, drvVars, lockVars, alloc,
                 link, pciMsk, intstat, engine, busMaster>>

(* The last thing the machine does with a bound card.                      *)
Shutdown ==
  /\ "shutdown" \in Events
  /\ CoreStep("idle", "off")
  /\ IF disconnected THEN UNCHANGED <<maskVars, busMaster>>
                     ELSE DisableCard /\ busMaster' = FALSE
  /\ UNCHANGED <<procVars, faulted, irqVars, sysfs, drvVars, lockVars, alloc, link>>

(***************************************************************************)
(* The card and sysfs.                                                     *)
(***************************************************************************)

(* The engine fills pages only while it runs and may master the bus.       *)
DmaLive == engine /\ busMaster

Raise(cause) ==
  /\ Up /\ DmaLive
  /\ cause \notin intstat
  /\ intstat' = intstat \cup {cause}
  /\ UNCHANGED <<procVars, coreVars, irqVars, sysfs, drvVars, lockVars, alloc,
                 link, pciMsk, vidMsk, engine, busMaster>>

PageDone == Raise("page")
DmaFault == "fault" \in Events /\ Raise("err")

CardDies ==
  /\ "dead" \in Events
  /\ link
  /\ link' = FALSE
  /\ UNCHANGED <<procVars, coreVars, irqVars, sysfs, drvVars, lockVars, alloc,
                 maskVars, busMaster>>

(* A show or store takes its struct cxadc from the device's drvdata, which *)
(* is NULL until the end of probe: the thread dies holding its reference.  *)
SysfsEnter ==
  /\ "sysfs" \in Events /\ ~Frozen
  /\ sysfs = "idle" /\ "sysfs" \in alloc
  /\ sysfs' = IF "drvdata" \in alloc THEN "active" ELSE "crashed"
  /\ UNCHANGED <<procVars, coreVars, irqVars, drvVars, lockVars, alloc, hwVars>>

SysfsLeave ==
  /\ sysfs = "active"
  /\ sysfs' = "idle"
  /\ UNCHANGED <<procVars, coreVars, irqVars, drvVars, lockVars, alloc, hwVars>>

Open(p) ==
  \/ OpenLookup(p) \/ OpenClaim(p) \/ OpenReset(p) \/ OpenRearm(p)
  \/ OpenUnmask(p) \/ OpenEnable(p) \/ OpenWait(p) \/ OpenDone(p)

Read(p) ==
  \/ ReadStart(p) \/ ReadCopy(p) \/ ReadCheck(p) \/ ReadGain(p)
  \/ ReadWait(p) \/ ReadWoke(p)

Ioctl(p) == IoctlStart(p) \/ IoctlCheck(p) \/ IoctlGain(p)

Release(p) ==
  \/ Close(p) \/ ReleaseCheck(p) \/ ReleaseMask(p) \/ ReleaseLock(p)
  \/ ReleaseClear(p) \/ ReleaseUnlock(p) \/ ReleaseWake(p)

Process(p) == Open(p) \/ Read(p) \/ Ioctl(p) \/ Release(p) \/ Signal(p)

Handler ==
  \/ IrqEnter \/ IrqReadMask \/ IrqPage \/ IrqAck \/ IrqError \/ IrqMaskErrors

Probe ==
  \/ ProbeEnable \/ ProbeRegion \/ ProbeAlloc \/ ProbeMinor \/ ProbeSysfs
  \/ ProbeRing \/ ProbeMap \/ ProbeCheck \/ ProbeMaster \/ ProbeStart
  \/ ProbeIrq \/ ProbeNode \/ ProbePublish \/ ProbeDrvdata \/ ProbeUnmask
Undo ==
  \/ UndoIrq \/ UndoSyncIrq \/ UndoHw \/ UndoMaster \/ UndoMap \/ UndoRing
  \/ UndoSysfs \/ UndoDrainSysfs \/ UndoMinor \/ UndoAlloc \/ UndoRegion
  \/ UndoEnable
Remove ==
  \/ RemoveStart \/ RemoveQuiesce \/ RemoveMaster \/ RemoveSysfs
  \/ RemoveDrainSysfs \/ RemoveUnlink \/ RemoveEvict \/ RemoveWake
  \/ RemoveWaitClose \/ RemoveFreeIrq \/ RemoveSyncIrq \/ RemoveUnmap
  \/ RemoveKfree
Recovery == ErrorDetected \/ ErrorQuiesce \/ ErrorWake
Power    == Suspend \/ Resume \/ ResumeUnmask \/ Shutdown
Card     == PageDone \/ DmaFault \/ CardDies
Sysfs    == SysfsEnter \/ SysfsLeave

Next ==
  \/ \E p \in Procs : Process(p)
  \/ Handler
  \/ Probe \/ Undo \/ Remove \/ Recovery \/ Power
  \/ Card
  \/ Sysfs

Spec == Init /\ [][Next]_vars

(***************************************************************************)
(* Fairness.  The kernel schedules a started system call, a started core   *)
(* callback and a raised interrupt; a suspended machine resumes; an engine *)
(* that runs on a live card goes on completing pages.  The list lock is a  *)
(* mutex with handoff, so a waiter gets it although others keep taking it. *)
(* Of the environment's choices only one is fair: a process whose card has *)
(* gone does not go on reading for ever instead of closing the file.       *)
(***************************************************************************)
SyscallStep(p) ==
  /\ Open(p) \/ Read(p) \/ Ioctl(p) \/ Release(p)
  /\ pc[p] \notin {"closed", "open"}
CoreProgress == (Probe \/ Undo \/ Remove \/ Recovery \/ Power) /\ core # "idle"

Fairness ==
  /\ \A p \in Procs : /\ WF_vars(SyscallStep(p))
                      /\ SF_vars(disconnected /\ Close(p))
  /\ WF_vars(CoreProgress)
  /\ SF_vars(RemoveUnlink)
  /\ WF_vars(Handler /\ (irq # "idle" \/ Asserted))
  /\ WF_vars(PageDone)
  /\ WF_vars(SysfsLeave)

FairSpec == Spec /\ Fairness

(***************************************************************************)
(* Properties.                                                             *)
(***************************************************************************)

(* Type correctness of the driver's state.  A read() in particular never   *)
(* copies more than it was asked for.                                      *)
TypeOK ==
  /\ pc \in [Procs -> ProcPcs] /\ want \in [Procs -> 0..MaxWant]
  /\ core \in CorePcs /\ faulted \in BOOLEAN
  /\ irq \in IrqPcs /\ ostat \in SUBSET Causes
  /\ sysfs \in {"idle", "active", "crashed"}
  /\ linked \in BOOLEAN /\ inUse \in BOOLEAN /\ disconnected \in BOOLEAN
  /\ data \in {"none", "same", "new"} /\ errMasked \in BOOLEAN
  /\ listLock \in Procs \cup {NoProc} /\ ctdLock \in Procs \cup {NoProc}
  /\ alloc \in SUBSET Resources
  /\ link \in BOOLEAN /\ pciMsk \in BOOLEAN
  /\ vidMsk \in SUBSET Causes /\ intstat \in SUBSET Causes
  /\ engine \in BOOLEAN /\ busMaster \in BOOLEAN

(* Nothing owned by ctd is freed while a file is open, a handler runs or a *)
(* parameter is being shown or stored (the comment before remove's wait):  *)
(* whoever is about to use the object, its mapping or its pages finds them *)
(* live.  release() after in_use = false is CtdOutlivesRelease's business. *)
NoUseAfterFree ==
  /\ \A p \in Procs : /\ pc[p] \in Holding => {"ctd", "mmio", "ring"} \subseteq alloc
                      /\ pc[p] = "o_claim" => "ctd" \in alloc
  /\ irq # "idle" => {"ctd", "mmio"} \subseteq alloc
  /\ sysfs = "active" => {"ctd", "drvdata"} \subseteq alloc

(* One open per card: no two processes own it, however their opens and     *)
(* releases interleave, and in_use says whether one does.                  *)
SingleOwner ==
  /\ \A p, q \in Procs : pc[p] \in Holding /\ pc[q] \in Holding => p = q
  /\ inUse <=> \E p \in Procs : pc[p] \in Holding

(* The RISC engine cannot write into pages remove has freed, on a healthy  *)
(* card (disable_card) and on a faulted one (pci_clear_master).            *)
NoDmaIntoFreedMemory == DmaLive => "ring" \in alloc

(* A failed probe undoes exactly the steps before the failure, and remove  *)
(* all of them: each label finds its resource held, nothing stays behind,  *)
(* and the card is left quiet: it cannot master the bus, and unless it     *)
(* stopped answering before it could be told its engine is off.            *)
UnwindExact ==
  /\ core = "gone" => alloc = {} /\ ~busMaster /\ (link => ~engine)
  /\ core \in Unwind => {"node", "drvdata"} \cap alloc = {} /\ ~linked
  /\ core = "un_irq" => "irq" \in alloc
  /\ core \in {"un_hw", "un_master"} => {"mmio", "ring"} \subseteq alloc
  /\ core = "un_map" => "mmio" \in alloc /\ "irq" \notin alloc
  /\ core = "un_ring" => "ring" \in alloc /\ ~busMaster
  /\ core = "un_sysfs" => {"sysfs", "minor", "ctd", "region", "enabled"} \subseteq alloc

(* No open() finds a card that remove has unlinked: in_use never becomes   *)
(* true outside the registry, so remove's wait is not undone.              *)
ClaimOnlyPublished == [][~inUse /\ inUse' => linked]_vars

(* A session on a healthy card keeps its interrupts: from the wait in      *)
(* open() to the close, unless remove, shutdown or a fault has begun, the  *)
(* line is enabled, the page interrupt unmasked and the engine running, so *)
(* whoever sleeps on readQ is woken.                                       *)
SessionPcs == {"open", "o_wait", "o_sleep", "o_done"} \cup ReadPcs \cup IoctlPcs
SessionArmed ==
  (\E p \in Procs : pc[p] \in SessionPcs)
    /\ ~disconnected /\ link /\ core \in {"idle", "pb_unmask"}
      => pciMsk /\ "page" \in vidMsk /\ DmaLive

(* error_detected and remove release the processes blocked in open() and   *)
(* read(): no interrupt will ever do it.                                   *)
DisconnectReleases ==
  \A p \in Procs :
    disconnected /\ pc[p] \in OpenPcs \cup ReadPcs ~> pc[p] \in {"closed", "open"}

(* An open() or a read() that has started returns, unless the card dies    *)
(* with nobody told (no error_detected, no signal) or the machine stops.   *)
CallsReturn ==
  \A p \in Procs :
    pc[p] \in OpenPcs \cup ReadPcs ~> pc[p] \in {"closed", "open"} \/ ~link \/ core = "off"

(* remove completes: it blocks until the reader closes, and no longer; and *)
(* the unwinding of a failed probe, which waits for a handler in flight.   *)
RemoveCompletes == core \in RemoveEarly \cup Unwind ~> core = "gone"

(***************************************************************************)
(* What comments of the driver and the README say, and the code does not   *)
(* keep (see the findings in the README of this project).                  *)
(***************************************************************************)

(* "Nothing owned by ctd is freed while a file is open": release() still   *)
(* uses ctd->lock and ctd->close_waitq when it has cleared in_use.         *)
CtdOutlivesRelease == \A p \in Procs : pc[p] \in TailPcs => "ctd" \in alloc

(* "apply settings per card on plugin": a udev rule writes parameters when *)
(* the device node appears, and the store finds the card.                  *)
SettingsReachCard ==
  [][sysfs = "idle" /\ sysfs' # "idle" /\ "node" \in alloc => sysfs' = "active"]_vars

=============================================================================
