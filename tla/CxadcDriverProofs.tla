------------------------- MODULE CxadcDriverProofs -------------------------
(***************************************************************************)
(* Theorems about CxadcDriver, for any set of processes, any bound on the  *)
(* size of a read and any set of environment events.                       *)
(***************************************************************************)
EXTENDS CxadcDriver, TLAPS

USE DEF procVars, coreVars, irqVars, lockVars, maskVars, hwVars, drvVars
USE DEF At, Go, Move, CoreStep, CoreAwait, Take, Acquire, GiveBack
USE DEF ReadReturn, SetVidMsk, SetPciMsk, Raise

LEMMA Constants == NoProc \notin Procs /\ MaxWant \in Nat \ {0}
  BY DriverAssumption

(***************************************************************************)
(* The program counters, as facts, so that their sets stay unexpanded.     *)
(***************************************************************************)
LEMMA ProcPoints ==
  /\ {"closed", "o_claim", "open"} \subseteq ProcPcs
  /\ {"o_reset", "o_rearm", "o_unmask", "o_enable", "o_wait", "o_sleep",
      "o_done"} \subseteq ProcPcs \cap Holding
  /\ {"r_copy", "r_recopy", "r_chk", "r_gain", "r_wait", "r_sleep",
      "r_woke"} \subseteq ProcPcs \cap Holding
  /\ {"open", "c_chk", "c_gain", "l_chk", "l_mask", "l_lock",
      "l_clear"} \subseteq ProcPcs \cap Holding
  /\ {"l_unlock", "l_wake"} \subseteq ProcPcs
  /\ {"closed", "o_claim", "l_unlock", "l_wake"} \cap Holding = {}
  BY DEF ProcPcs, Holding, OpenPcs, ReadPcs, IoctlPcs, ClosePcs, TailPcs

LEMMA CorePoints ==
  /\ {"idle", "er_quiesce", "er_wake", "asleep", "rs_unmask", "off"} \subseteq CorePcs
  /\ CorePcs = {"idle", "er_quiesce", "er_wake", "asleep", "rs_unmask", "off"}
                 \cup ProbeEarly \cup ProbeLate \cup Unwind
                 \cup RemoveEarly \cup RemoveWait \cup RemoveFree
  /\ ProbeEarly = {"pb_enable", "pb_region", "pb_alloc", "pb_minor", "pb_sysfs",
                   "pb_ring", "pb_map", "pb_check", "pb_master", "pb_start",
                   "pb_irq", "pb_node", "pb_publish"}
  /\ ProbeLate = {"pb_drvdata", "pb_unmask"}
  /\ Unwind = {"un_irq", "un_sync", "un_hw", "un_master", "un_map", "un_ring",
               "un_sysfs", "un_drain", "un_minor", "un_ctd", "un_region",
               "un_enable"}
  /\ RemoveEarly = {"rm_quiesce", "rm_master", "rm_sysfs", "rm_drain", "rm_unlink"}
  /\ RemoveWait = {"rm_evict", "rm_wake", "rm_wait", "rm_sleep"}
  /\ RemoveFree = {"rm_irq", "rm_sync", "rm_unmap", "rm_kfree", "gone"}
  BY DEF CorePcs, ProbeEarly, ProbeLate, Unwind, RemoveEarly, RemoveWait, RemoveFree

LEMMA CoreMembers ==
  /\ {"idle", "er_quiesce", "er_wake", "asleep", "rs_unmask", "off"} \subseteq CorePcs
  /\ {"pb_enable", "pb_region", "pb_alloc", "pb_minor", "pb_sysfs", "pb_ring",
      "pb_map", "pb_check", "pb_master", "pb_start", "pb_irq", "pb_node",
      "pb_publish", "pb_drvdata", "pb_unmask"} \subseteq CorePcs
  /\ {"un_irq", "un_sync", "un_hw", "un_master", "un_map", "un_ring", "un_sysfs",
      "un_drain", "un_minor", "un_ctd", "un_region", "un_enable"} \subseteq CorePcs
  /\ {"rm_quiesce", "rm_master", "rm_sysfs", "rm_drain", "rm_unlink", "rm_evict",
      "rm_wake", "rm_wait", "rm_sleep", "rm_irq", "rm_sync", "rm_unmap",
      "rm_kfree", "gone"} \subseteq CorePcs
  BY CorePoints

(* Waking a reader moves it between two points of the same call.           *)
LEMMA AwakeStays ==
  ASSUME NEW q \in ProcPcs
  PROVE  /\ Awake(q) \in ProcPcs
         /\ Awake(q) \in Holding <=> q \in Holding
         /\ Awake(q) = "o_claim" <=> q = "o_claim"
  BY ProcPoints DEF Awake

(***************************************************************************)
(* Type correctness.                                                       *)
(***************************************************************************)
LEMMA TypeInit == Init => TypeOK
<1> SUFFICES ASSUME Init PROVE TypeOK
  OBVIOUS
<1>1. pc \in [Procs -> ProcPcs] /\ want \in [Procs -> 0..MaxWant]
  BY Constants, ProcPoints DEF Init
<1>2. /\ core \in CorePcs /\ irq \in IrqPcs
      /\ listLock \in Procs \cup {NoProc} /\ ctdLock \in Procs \cup {NoProc}
  BY CoreMembers DEF Init, IrqPcs
<1> QED
  BY <1>1, <1>2 DEF Init, TypeOK

LEMMA TypeProcess ==
  ASSUME TypeOK, NEW p \in Procs, Process(p)
  PROVE  TypeOK'
<1> USE Constants, ProcPoints DEF TypeOK
<1>1. OpenLookup(p) => TypeOK'
  BY DEF OpenLookup
<1>2. OpenClaim(p) => TypeOK'
  BY DEF OpenClaim
<1>3. OpenReset(p) => TypeOK'
  BY DEF OpenReset
<1>4. OpenRearm(p) => TypeOK'
  BY DEF OpenRearm
<1>5. OpenUnmask(p) => TypeOK'
  BY DEF OpenUnmask, Causes
<1>6. OpenEnable(p) => TypeOK'
  BY DEF OpenEnable
<1>7. OpenWait(p) => TypeOK'
  BY DEF OpenWait
<1>8. OpenDone(p) => TypeOK'
  BY DEF OpenDone
<1>9. ReadStart(p) => TypeOK'
  BY DEF ReadStart
<1>10. ReadCopy(p) => TypeOK'
  BY DEF ReadCopy
<1>11. ReadCheck(p) => TypeOK'
  BY DEF ReadCheck
<1>12. ReadGain(p) => TypeOK'
  BY DEF ReadGain
<1>13. ReadWait(p) => TypeOK'
  BY DEF ReadWait
<1>14. ReadWoke(p) => TypeOK'
  BY DEF ReadWoke
<1>15. IoctlStart(p) => TypeOK'
  BY DEF IoctlStart
<1>16. IoctlCheck(p) => TypeOK'
  BY DEF IoctlCheck
<1>17. IoctlGain(p) => TypeOK'
  BY DEF IoctlGain
<1>18. Close(p) => TypeOK'
  BY DEF Close
<1>19. ReleaseCheck(p) => TypeOK'
  BY DEF ReleaseCheck
<1>20. ReleaseMask(p) => TypeOK'
  BY DEF ReleaseMask
<1>21. ReleaseLock(p) => TypeOK'
  BY DEF ReleaseLock
<1>22. ReleaseClear(p) => TypeOK'
  BY DEF ReleaseClear
<1>23. ReleaseUnlock(p) => TypeOK'
  BY DEF ReleaseUnlock
<1>24. ReleaseWake(p) => TypeOK'
  BY CoreMembers DEF ReleaseWake
<1>25. Signal(p) => TypeOK'
  BY DEF Signal
<1> QED
  BY <1>1, <1>2, <1>3, <1>4, <1>5, <1>6, <1>7, <1>8, <1>9, <1>10, <1>11,
     <1>12, <1>13, <1>14, <1>15, <1>16, <1>17, <1>18, <1>19, <1>20,
     <1>21, <1>22, <1>23, <1>24, <1>25 DEF Process, Open, Read, Ioctl, Release

LEMMA TypeOther ==
  ASSUME TypeOK, Handler \/ Probe \/ Undo \/ Remove \/ Recovery \/ Power \/ Card \/ Sysfs
  PROVE  TypeOK'
<1>a. DisableCard => /\ pciMsk' \in BOOLEAN /\ vidMsk' \in SUBSET Causes
                     /\ intstat' \in SUBSET Causes /\ engine' \in BOOLEAN
  BY DEF TypeOK, DisableCard
<1>b. WakeReaders => pc' \in [Procs -> ProcPcs]
  BY AwakeStays DEF TypeOK, WakeReaders
<1> USE Constants, CoreMembers, <1>a, <1>b DEF TypeOK
<1>1. IrqEnter => TypeOK'
  BY DEF IrqEnter, IrqPcs, Causes
<1>2. IrqReadMask => TypeOK'
  BY DEF IrqReadMask, IrqPcs
<1>3. IrqPage => TypeOK'
  BY DEF IrqPage, IrqPcs
<1>4. IrqAck => TypeOK'
  BY DEF IrqAck, IrqPcs
<1>5. IrqError => TypeOK'
  BY DEF IrqError, IrqPcs
<1>6. IrqMaskErrors => TypeOK'
  BY DEF IrqMaskErrors, IrqPcs, Causes
<1>7. ProbePublish => TypeOK'
  BY DEF ProbePublish
<1>8. ProbeUnmask => TypeOK'
  BY DEF ProbeUnmask, Causes
<1>9. RemoveStart => TypeOK'
  BY DEF RemoveStart
<1>10. RemoveQuiesce => TypeOK'
  BY DEF RemoveQuiesce
<1>11. RemoveMaster => TypeOK'
  BY DEF RemoveMaster
<1>12. RemoveSysfs => TypeOK'
  BY DEF RemoveSysfs
<1>13. RemoveDrainSysfs => TypeOK'
  BY DEF RemoveDrainSysfs
<1>14. RemoveUnlink => TypeOK'
  BY DEF RemoveUnlink
<1>15. RemoveEvict => TypeOK'
  BY DEF RemoveEvict
<1>16. RemoveWake => TypeOK'
  BY DEF RemoveWake
<1>17. RemoveWaitClose => TypeOK'
  BY DEF RemoveWaitClose
<1>18. RemoveFreeIrq => TypeOK'
  BY DEF RemoveFreeIrq
<1>19. RemoveSyncIrq => TypeOK'
  BY DEF RemoveSyncIrq
<1>20. RemoveUnmap => TypeOK'
  BY DEF RemoveUnmap
<1>21. RemoveKfree => TypeOK'
  BY DEF RemoveKfree
<1>22. ErrorDetected => TypeOK'
  BY DEF ErrorDetected
<1>23. ErrorQuiesce => TypeOK'
  BY DEF ErrorQuiesce
<1>24. ErrorWake => TypeOK'
  BY DEF ErrorWake
<1>25. Suspend => TypeOK'
  BY DEF Suspend
<1>26. Resume => TypeOK'
  BY DEF Resume
<1>27. ResumeUnmask => TypeOK'
  BY DEF ResumeUnmask, Causes
<1>28. Shutdown => TypeOK'
  BY DEF Shutdown
<1>29. PageDone => TypeOK'
  BY DEF PageDone, Causes
<1>30. DmaFault => TypeOK'
  BY DEF DmaFault, Causes
<1>31. CardDies => TypeOK'
  BY DEF CardDies
<1>32. SysfsEnter => TypeOK'
  BY DEF SysfsEnter
<1>33. SysfsLeave => TypeOK'
  BY DEF SysfsLeave
<1>34. ProbeEnable => TypeOK'
  BY DEF ProbeEnable, Resources
<1>35. ProbeRegion => TypeOK'
  BY DEF ProbeRegion, Resources
<1>36. ProbeAlloc => TypeOK'
  BY DEF ProbeAlloc, Resources
<1>37. ProbeMinor => TypeOK'
  BY DEF ProbeMinor, Resources
<1>38. ProbeSysfs => TypeOK'
  BY DEF ProbeSysfs, Resources
<1>39. ProbeRing => TypeOK'
  BY DEF ProbeRing, Resources
<1>40. ProbeMap => TypeOK'
  BY DEF ProbeMap, Resources
<1>41. ProbeCheck => TypeOK'
  BY DEF ProbeCheck
<1>42. ProbeMaster => TypeOK'
  BY DEF ProbeMaster
<1>43. ProbeStart => TypeOK'
  BY DEF ProbeStart
<1>44. ProbeIrq => TypeOK'
  BY DEF ProbeIrq, Resources
<1>45. ProbeNode => TypeOK'
  BY DEF ProbeNode, Resources
<1>46. ProbeDrvdata => TypeOK'
  BY DEF ProbeDrvdata, Resources
<1>47. UndoIrq => TypeOK'
  BY DEF UndoIrq
<1>48. UndoSyncIrq => TypeOK'
  BY DEF UndoSyncIrq
<1>49. UndoHw => TypeOK'
  BY DEF UndoHw
<1>50. UndoMaster => TypeOK'
  BY DEF UndoMaster
<1>51. UndoMap => TypeOK'
  BY DEF UndoMap
<1>52. UndoRing => TypeOK'
  BY DEF UndoRing
<1>53. UndoSysfs => TypeOK'
  BY DEF UndoSysfs
<1>54. UndoDrainSysfs => TypeOK'
  BY DEF UndoDrainSysfs
<1>55. UndoMinor => TypeOK'
  BY DEF UndoMinor
<1>56. UndoAlloc => TypeOK'
  BY DEF UndoAlloc
<1>57. UndoRegion => TypeOK'
  BY DEF UndoRegion
<1>58. UndoEnable => TypeOK'
  BY DEF UndoEnable
<1> QED
  BY <1>1, <1>2, <1>3, <1>4, <1>5, <1>6, <1>7, <1>8, <1>9, <1>10, <1>11,
     <1>12, <1>13, <1>14, <1>15, <1>16, <1>17, <1>18, <1>19, <1>20,
     <1>21, <1>22, <1>23, <1>24, <1>25, <1>26, <1>27, <1>28, <1>29,
     <1>30, <1>31, <1>32, <1>33,
     <1>34, <1>35, <1>36, <1>37, <1>38, <1>39, <1>40, <1>41, <1>42,
     <1>43, <1>44, <1>45, <1>46, <1>47, <1>48, <1>49, <1>50, <1>51,
     <1>52, <1>53, <1>54, <1>55, <1>56, <1>57, <1>58
     DEF Handler, Probe, Undo, Remove, Recovery, Power, Card, Sysfs

LEMMA TypeStep == TypeOK /\ [Next]_vars => TypeOK'
<1>1. TypeOK /\ UNCHANGED vars => TypeOK'
  BY DEF vars, TypeOK
<1> QED
  BY <1>1, TypeProcess, TypeOther DEF Next

(* Every reachable state is well typed; in particular no read() copies     *)
(* more than it was asked for (TypeOK of the safety run).                  *)
THEOREM TypeCorrect == Spec => []TypeOK
  BY TypeInit, TypeStep, PTL DEF Spec

(***************************************************************************)
(* Ownership.  A process that has looked the card up holds the list lock   *)
(* and sees it published; in_use is true exactly while some process, and   *)
(* only one, owns the card; once remove has unlinked the card no claim can *)
(* follow, so in_use stays false when remove's wait has seen it false.     *)
(***************************************************************************)
Unheld   == ProbeEarly \cup Unwind \cup RemoveFree
Unlisted == RemoveWait \cup Unheld

OwnerInv ==
  /\ SingleOwner
  /\ \A p \in Procs : pc[p] = "o_claim" => listLock = p /\ linked
  /\ core \in Unlisted => ~linked
  /\ core \in Unheld => ~inUse

LEMMA OwnerInit == Init => OwnerInv
  BY ProcPoints, CorePoints DEF Init, OwnerInv, SingleOwner, Unheld, Unlisted

(* A step of the owner that neither claims nor gives up the card.          *)
LEMMA OwnerMoves ==
  ASSUME TypeOK, OwnerInv, NEW p \in Procs, NEW to \in Holding,
         pc[p] \in Holding, pc' = [pc EXCEPT ![p] = to],
         UNCHANGED <<inUse, linked, listLock, core>>
  PROVE  OwnerInv'
  BY ProcPoints DEF TypeOK, OwnerInv, SingleOwner

(* A step that changes neither the processes nor the registry.             *)
LEMMA OwnerAside ==
  ASSUME OwnerInv, UNCHANGED <<pc, inUse, linked, listLock>>,
         core' \in Unlisted => core \in Unlisted,
         core' \in Unheld => core \in Unheld \/ ~inUse
  PROVE  OwnerInv'
  BY DEF OwnerInv, SingleOwner

(* wake_up on readQ, with core moving as above.                            *)
LEMMA OwnerWoken ==
  ASSUME TypeOK, OwnerInv, WakeReaders, UNCHANGED <<inUse, linked, listLock>>,
         core' \in Unlisted => core \in Unlisted,
         core' \in Unheld => core \in Unheld
  PROVE  OwnerInv'
  BY AwakeStays DEF TypeOK, OwnerInv, SingleOwner, WakeReaders

LEMMA OwnerProcess ==
  ASSUME TypeOK, OwnerInv, NEW p \in Procs, Process(p)
  PROVE  OwnerInv'
<1> USE ProcPoints
<1>1. OpenLookup(p) => OwnerInv'
  BY Constants DEF OpenLookup, TypeOK, OwnerInv, SingleOwner
<1>2. OpenClaim(p) => OwnerInv'
  BY Constants DEF OpenClaim, TypeOK, OwnerInv, SingleOwner, Unlisted
<1>3. OpenReset(p) => OwnerInv'
  BY OwnerMoves DEF OpenReset
<1>4. OpenRearm(p) => OwnerInv'
  BY OwnerMoves DEF OpenRearm
<1>5. OpenUnmask(p) => OwnerInv'
  BY OwnerMoves DEF OpenUnmask
<1>6. OpenEnable(p) => OwnerInv'
  BY OwnerMoves DEF OpenEnable
<1>7. OpenWait(p) => OwnerInv'
  BY OwnerMoves DEF OpenWait
<1>8. OpenDone(p) => OwnerInv'
  BY OwnerMoves DEF OpenDone
<1>9. ReadStart(p) => OwnerInv'
  BY OwnerMoves DEF ReadStart
<1>10. ReadCopy(p) => OwnerInv'
  BY OwnerMoves DEF ReadCopy
<1>11. ReadCheck(p) => OwnerInv'
  BY OwnerMoves DEF ReadCheck
<1>12. ReadGain(p) => OwnerInv'
  BY OwnerMoves DEF ReadGain
<1>13. ReadWait(p) => OwnerInv'
  BY OwnerMoves DEF ReadWait
<1>14. ReadWoke(p) => OwnerInv'
  BY OwnerMoves DEF ReadWoke
<1>15. IoctlStart(p) => OwnerInv'
  BY OwnerMoves DEF IoctlStart
<1>16. IoctlCheck(p) => OwnerInv'
  BY OwnerMoves DEF IoctlCheck
<1>17. IoctlGain(p) => OwnerInv'
  BY OwnerMoves DEF IoctlGain
<1>18. Close(p) => OwnerInv'
  BY OwnerMoves DEF Close
<1>19. ReleaseCheck(p) => OwnerInv'
  BY OwnerMoves DEF ReleaseCheck
<1>20. ReleaseMask(p) => OwnerInv'
  BY OwnerMoves DEF ReleaseMask
<1>21. ReleaseLock(p) => OwnerInv'
  BY OwnerMoves DEF ReleaseLock
<1>22. ReleaseClear(p) => OwnerInv'
  BY DEF ReleaseClear, TypeOK, OwnerInv, SingleOwner
<1>23. ReleaseUnlock(p) => OwnerInv'
  BY DEF ReleaseUnlock, TypeOK, OwnerInv, SingleOwner
<1>24. ReleaseWake(p) => OwnerInv'
  BY CorePoints DEF ReleaseWake, TypeOK, OwnerInv, SingleOwner, Unheld, Unlisted
<1>25. Signal(p) => OwnerInv'
  BY OwnerMoves DEF Signal
<1> QED
  BY <1>1, <1>2, <1>3, <1>4, <1>5, <1>6, <1>7, <1>8, <1>9, <1>10, <1>11,
     <1>12, <1>13, <1>14, <1>15, <1>16, <1>17, <1>18, <1>19, <1>20,
     <1>21, <1>22, <1>23, <1>24, <1>25 DEF Process, Open, Read, Ioctl, Release

LEMMA OwnerOther ==
  ASSUME TypeOK, OwnerInv,
         Handler \/ Probe \/ Undo \/ Remove \/ Recovery \/ Power \/ Card \/ Sysfs
  PROVE  OwnerInv'
<1> USE CorePoints DEF Unheld, Unlisted
<1>1. IrqEnter => OwnerInv'
  BY OwnerAside DEF IrqEnter
<1>2. IrqReadMask => OwnerInv'
  BY OwnerAside DEF IrqReadMask
<1>3. IrqPage => OwnerInv'
  BY OwnerWoken DEF IrqPage
<1>4. IrqAck => OwnerInv'
  BY OwnerAside DEF IrqAck
<1>5. IrqError => OwnerInv'
  BY OwnerAside DEF IrqError
<1>6. IrqMaskErrors => OwnerInv'
  BY OwnerAside DEF IrqMaskErrors
<1>7. ProbePublish => OwnerInv'
  BY Constants DEF ProbePublish, TypeOK, OwnerInv, SingleOwner
<1>8. ProbeUnmask => OwnerInv'
  BY OwnerAside DEF ProbeUnmask
<1>9. RemoveStart => OwnerInv'
  BY OwnerAside DEF RemoveStart
<1>10. RemoveQuiesce => OwnerInv'
  BY OwnerAside DEF RemoveQuiesce
<1>11. RemoveMaster => OwnerInv'
  BY OwnerAside DEF RemoveMaster
<1>12. RemoveSysfs => OwnerInv'
  BY OwnerAside DEF RemoveSysfs
<1>13. RemoveDrainSysfs => OwnerInv'
  BY OwnerAside DEF RemoveDrainSysfs
<1>14. RemoveUnlink => OwnerInv'
  BY Constants DEF RemoveUnlink, TypeOK, OwnerInv, SingleOwner
<1>15. RemoveEvict => OwnerInv'
  BY OwnerAside DEF RemoveEvict
<1>16. RemoveWake => OwnerInv'
  BY OwnerWoken DEF RemoveWake
<1>17. RemoveWaitClose => OwnerInv'
  BY OwnerAside DEF RemoveWaitClose
<1>18. RemoveFreeIrq => OwnerInv'
  BY OwnerAside DEF RemoveFreeIrq
<1>19. RemoveSyncIrq => OwnerInv'
  BY OwnerAside DEF RemoveSyncIrq
<1>20. RemoveUnmap => OwnerInv'
  BY OwnerAside DEF RemoveUnmap
<1>21. RemoveKfree => OwnerInv'
  BY OwnerAside DEF RemoveKfree
<1>22. ErrorDetected => OwnerInv'
  BY OwnerAside DEF ErrorDetected
<1>23. ErrorQuiesce => OwnerInv'
  BY OwnerAside DEF ErrorQuiesce
<1>24. ErrorWake => OwnerInv'
  BY OwnerWoken DEF ErrorWake
<1>25. Suspend => OwnerInv'
  BY OwnerAside DEF Suspend
<1>26. Resume => OwnerInv'
  BY OwnerAside DEF Resume
<1>27. ResumeUnmask => OwnerInv'
  BY OwnerAside DEF ResumeUnmask
<1>28. Shutdown => OwnerInv'
  BY OwnerAside DEF Shutdown
<1>29. PageDone => OwnerInv'
  BY OwnerAside DEF PageDone
<1>30. DmaFault => OwnerInv'
  BY OwnerAside DEF DmaFault
<1>31. CardDies => OwnerInv'
  BY OwnerAside DEF CardDies
<1>32. SysfsEnter => OwnerInv'
  BY OwnerAside DEF SysfsEnter
<1>33. SysfsLeave => OwnerInv'
  BY OwnerAside DEF SysfsLeave
<1>34. ProbeEnable => OwnerInv'
  BY OwnerAside DEF ProbeEnable
<1>35. ProbeRegion => OwnerInv'
  BY OwnerAside DEF ProbeRegion
<1>36. ProbeAlloc => OwnerInv'
  BY OwnerAside DEF ProbeAlloc
<1>37. ProbeMinor => OwnerInv'
  BY OwnerAside DEF ProbeMinor
<1>38. ProbeSysfs => OwnerInv'
  BY OwnerAside DEF ProbeSysfs
<1>39. ProbeRing => OwnerInv'
  BY OwnerAside DEF ProbeRing
<1>40. ProbeMap => OwnerInv'
  BY OwnerAside DEF ProbeMap
<1>41. ProbeCheck => OwnerInv'
  BY OwnerAside DEF ProbeCheck
<1>42. ProbeMaster => OwnerInv'
  BY OwnerAside DEF ProbeMaster
<1>43. ProbeStart => OwnerInv'
  BY OwnerAside DEF ProbeStart
<1>44. ProbeIrq => OwnerInv'
  BY OwnerAside DEF ProbeIrq
<1>45. ProbeNode => OwnerInv'
  BY OwnerAside DEF ProbeNode
<1>46. ProbeDrvdata => OwnerInv'
  BY OwnerAside DEF ProbeDrvdata
<1>47. UndoIrq => OwnerInv'
  BY OwnerAside DEF UndoIrq
<1>48. UndoSyncIrq => OwnerInv'
  BY OwnerAside DEF UndoSyncIrq
<1>49. UndoHw => OwnerInv'
  BY OwnerAside DEF UndoHw
<1>50. UndoMaster => OwnerInv'
  BY OwnerAside DEF UndoMaster
<1>51. UndoMap => OwnerInv'
  BY OwnerAside DEF UndoMap
<1>52. UndoRing => OwnerInv'
  BY OwnerAside DEF UndoRing
<1>53. UndoSysfs => OwnerInv'
  BY OwnerAside DEF UndoSysfs
<1>54. UndoDrainSysfs => OwnerInv'
  BY OwnerAside DEF UndoDrainSysfs
<1>55. UndoMinor => OwnerInv'
  BY OwnerAside DEF UndoMinor
<1>56. UndoAlloc => OwnerInv'
  BY OwnerAside DEF UndoAlloc
<1>57. UndoRegion => OwnerInv'
  BY OwnerAside DEF UndoRegion
<1>58. UndoEnable => OwnerInv'
  BY OwnerAside DEF UndoEnable
<1> QED
  BY <1>1, <1>2, <1>3, <1>4, <1>5, <1>6, <1>7, <1>8, <1>9, <1>10, <1>11,
     <1>12, <1>13, <1>14, <1>15, <1>16, <1>17, <1>18, <1>19, <1>20,
     <1>21, <1>22, <1>23, <1>24, <1>25, <1>26, <1>27, <1>28, <1>29,
     <1>30, <1>31, <1>32, <1>33,
     <1>34, <1>35, <1>36, <1>37, <1>38, <1>39, <1>40, <1>41, <1>42,
     <1>43, <1>44, <1>45, <1>46, <1>47, <1>48, <1>49, <1>50, <1>51,
     <1>52, <1>53, <1>54, <1>55, <1>56, <1>57, <1>58
     DEF Handler, Probe, Undo, Remove, Recovery, Power, Card, Sysfs

LEMMA OwnerStep == TypeOK /\ OwnerInv /\ [Next]_vars => OwnerInv'
<1>1. OwnerInv /\ UNCHANGED vars => OwnerInv'
  BY DEF vars, OwnerInv, SingleOwner
<1> QED
  BY <1>1, OwnerProcess, OwnerOther DEF Next

LEMMA Ownership == Spec => []OwnerInv
  BY OwnerInit, OwnerStep, TypeCorrect, PTL DEF Spec

(* No two processes own the card, and in_use says whether one does         *)
(* (SingleOwner of the safety run).                                        *)
THEOREM OwnerIsSingle == Spec => []SingleOwner
<1>1. OwnerInv => SingleOwner
  BY DEF OwnerInv
<1> QED
  BY <1>1, Ownership, PTL

(***************************************************************************)
(* Resources.  Which are held is a function of where the core is, through  *)
(* probe, its unwinding and remove; and whoever may be using them holds    *)
(* the core back: sysfs is drained before the object can go, the handler   *)
(* before the mapping, and bus mastering is off before the pages.          *)
(***************************************************************************)
Running == {"idle", "er_quiesce", "er_wake", "asleep", "rs_unmask", "off"}

ToCtd   == {"pb_enable", "pb_region", "pb_alloc"}
ToSysfs == ToCtd \cup {"pb_minor", "pb_sysfs"}
ToMmio  == ToSysfs \cup {"pb_ring", "pb_map"}
ToIrq   == ToMmio \cup {"pb_check", "pb_master", "pb_start", "pb_irq"}
PastCtd   == {"un_region", "un_enable"}
PastSysfs == PastCtd \cup {"un_ctd", "un_minor", "un_drain"}
PastMmio  == PastSysfs \cup {"un_sysfs", "un_ring"}

HeldInv ==
  /\ "enabled" \in alloc <=> core \notin {"pb_enable", "gone"}
  /\ "region" \in alloc <=>
       core \notin {"pb_enable", "pb_region", "un_enable", "rm_kfree", "gone"}
  /\ "ctd" \in alloc <=> core \notin ToCtd \cup PastCtd \cup {"gone"}
  /\ "minor" \in alloc <=>
       core \notin ToCtd \cup {"pb_minor", "un_ctd"} \cup PastCtd \cup RemoveWait \cup RemoveFree
  /\ "sysfs" \in alloc <=>
       core \notin ToSysfs \cup PastSysfs \cup {"rm_drain", "rm_unlink"}
                 \cup RemoveWait \cup RemoveFree
  /\ "ring" \in alloc <=>
       core \notin ToSysfs \cup {"pb_ring", "un_sysfs"} \cup PastSysfs \cup {"rm_kfree", "gone"}
  /\ "mmio" \in alloc <=> core \notin ToMmio \cup PastMmio \cup {"rm_kfree", "gone"}
  /\ "irq" \in alloc <=>
       core \in {"pb_node", "pb_publish", "un_irq"} \cup ProbeLate \cup Running
                 \cup RemoveEarly \cup RemoveWait \cup {"rm_irq"}
  /\ "node" \in alloc <=>
       core \in {"pb_publish"} \cup ProbeLate \cup Running \cup RemoveEarly
  /\ "drvdata" \in alloc <=>
       core \in {"pb_unmask"} \cup Running \cup RemoveEarly \cup RemoveWait
                 \cup (RemoveFree \ {"gone"})

ResourceInv ==
  /\ core \in CorePcs /\ alloc \subseteq Resources
  /\ HeldInv
  /\ irq # "idle" =>
       core \notin ToIrq \cup (Unwind \ {"un_irq", "un_sync"})
                 \cup {"rm_unmap", "rm_kfree", "gone"}
  /\ sysfs = "active" =>
       core \in {"pb_unmask", "rm_quiesce", "rm_master", "rm_sysfs", "rm_drain"} \cup Running
  /\ busMaster =>
       core \in {"pb_start", "pb_irq", "pb_node", "pb_publish", "un_irq", "un_sync",
                 "un_hw", "un_master", "rm_quiesce", "rm_master"}
                   \cup ProbeLate \cup Running

LEMMA ResourceInit == Init => ResourceInv
  BY CorePoints DEF Init, ResourceInv, HeldInv, Resources, Running, ToCtd, ToSysfs,
     ToMmio, ToIrq, PastCtd, PastSysfs, PastMmio

(* A process touches none of this, except that it wakes remove.            *)
LEMMA ResourceProcess ==
  ASSUME ResourceInv, NEW p \in Procs, Process(p)
  PROVE  ResourceInv'
<1>1. UNCHANGED <<core, irq, sysfs, alloc, busMaster>> => ResourceInv'
  BY DEF ResourceInv, HeldInv
<1>2. Open(p) => UNCHANGED <<core, irq, sysfs, alloc, busMaster>>
  BY DEF Open, OpenLookup, OpenClaim, OpenReset, OpenRearm, OpenUnmask,
         OpenEnable, OpenWait, OpenDone
<1>3. Read(p) => UNCHANGED <<core, irq, sysfs, alloc, busMaster>>
  BY DEF Read, ReadStart, ReadCopy, ReadCheck, ReadGain, ReadWait, ReadWoke
<1>4. Ioctl(p) \/ Signal(p) => UNCHANGED <<core, irq, sysfs, alloc, busMaster>>
  BY DEF Ioctl, IoctlStart, IoctlCheck, IoctlGain, Signal
<1>5. Release(p) => UNCHANGED <<core, irq, sysfs, alloc, busMaster>> \/ ReleaseWake(p)
  BY DEF Release, Close, ReleaseCheck, ReleaseMask, ReleaseLock, ReleaseClear,
         ReleaseUnlock
<1>6. ReleaseWake(p) => ResourceInv'
  BY CorePoints DEF ReleaseWake, ResourceInv, HeldInv, Running, ToCtd, ToSysfs,
     ToMmio, ToIrq, PastCtd, PastSysfs, PastMmio
<1> QED
  BY <1>1, <1>2, <1>3, <1>4, <1>5, <1>6 DEF Process

LEMMA ResourceOther ==
  ASSUME ResourceInv, Handler \/ Probe \/ Undo \/ Remove \/ Recovery \/ Power \/ Card \/ Sysfs
  PROVE  ResourceInv'
<1> USE CorePoints DEF ResourceInv, HeldInv, Resources, Running, ToCtd, ToSysfs,
        ToMmio, ToIrq, PastCtd, PastSysfs, PastMmio
<1>1. IrqEnter => ResourceInv'
  BY DEF IrqEnter
<1>2. IrqReadMask => ResourceInv'
  BY DEF IrqReadMask
<1>3. IrqPage => ResourceInv'
  BY DEF IrqPage
<1>4. IrqAck => ResourceInv'
  BY DEF IrqAck
<1>5. IrqError => ResourceInv'
  BY DEF IrqError
<1>6. IrqMaskErrors => ResourceInv'
  BY DEF IrqMaskErrors
<1>7. ProbePublish => ResourceInv'
  BY DEF ProbePublish
<1>8. ProbeUnmask => ResourceInv'
  BY DEF ProbeUnmask
<1>9. RemoveStart => ResourceInv'
  BY DEF RemoveStart
<1>10. RemoveQuiesce => ResourceInv'
  BY DEF RemoveQuiesce
<1>11. RemoveMaster => ResourceInv'
  BY DEF RemoveMaster
<1>12. RemoveSysfs => ResourceInv'
  BY DEF RemoveSysfs
<1>13. RemoveDrainSysfs => ResourceInv'
  BY DEF RemoveDrainSysfs
<1>14. RemoveUnlink => ResourceInv'
  BY DEF RemoveUnlink
<1>15. RemoveEvict => ResourceInv'
  BY DEF RemoveEvict
<1>16. RemoveWake => ResourceInv'
  BY DEF RemoveWake
<1>17. RemoveWaitClose => ResourceInv'
  BY DEF RemoveWaitClose
<1>18. RemoveFreeIrq => ResourceInv'
  BY DEF RemoveFreeIrq
<1>19. RemoveSyncIrq => ResourceInv'
  BY DEF RemoveSyncIrq
<1>20. RemoveUnmap => ResourceInv'
  BY DEF RemoveUnmap
<1>21. RemoveKfree => ResourceInv'
  BY DEF RemoveKfree
<1>22. ErrorDetected => ResourceInv'
  BY DEF ErrorDetected
<1>23. ErrorQuiesce => ResourceInv'
  BY DEF ErrorQuiesce
<1>24. ErrorWake => ResourceInv'
  BY DEF ErrorWake
<1>25. Suspend => ResourceInv'
  BY DEF Suspend
<1>26. Resume => ResourceInv'
  BY DEF Resume
<1>27. ResumeUnmask => ResourceInv'
  BY DEF ResumeUnmask
<1>28. Shutdown => ResourceInv'
  BY DEF Shutdown
<1>29. PageDone => ResourceInv'
  BY DEF PageDone
<1>30. DmaFault => ResourceInv'
  BY DEF DmaFault
<1>31. CardDies => ResourceInv'
  BY DEF CardDies
<1>32. SysfsEnter => ResourceInv'
  BY DEF SysfsEnter
<1>33. SysfsLeave => ResourceInv'
  BY DEF SysfsLeave
<1>34. ProbeEnable => ResourceInv'
  <2>1. Take("pb_enable", {"enabled"}, "pb_region") => ResourceInv'
    OBVIOUS
  <2>2. CoreAwait("pb_enable", TRUE, "gone") => ResourceInv'
    OBVIOUS
  <2> QED
    BY <2>1, <2>2 DEF ProbeEnable
<1>35. ProbeRegion => ResourceInv'
  <2>1. Take("pb_region", {"region"}, "pb_alloc") => ResourceInv'
    OBVIOUS
  <2>2. CoreAwait("pb_region", TRUE, "un_enable") => ResourceInv'
    OBVIOUS
  <2> QED
    BY <2>1, <2>2 DEF ProbeRegion
<1>36. ProbeAlloc => ResourceInv'
  <2>1. Take("pb_alloc", {"ctd"}, "pb_minor") => ResourceInv'
    OBVIOUS
  <2>2. CoreAwait("pb_alloc", TRUE, "un_region") => ResourceInv'
    OBVIOUS
  <2> QED
    BY <2>1, <2>2 DEF ProbeAlloc
<1>37. ProbeMinor => ResourceInv'
  <2>1. Take("pb_minor", {"minor"}, "pb_sysfs") => ResourceInv'
    OBVIOUS
  <2>2. CoreAwait("pb_minor", TRUE, "un_ctd") => ResourceInv'
    OBVIOUS
  <2> QED
    BY <2>1, <2>2 DEF ProbeMinor
<1>38. ProbeSysfs => ResourceInv'
  <2>1. Take("pb_sysfs", {"sysfs"}, "pb_ring") => ResourceInv'
    OBVIOUS
  <2>2. CoreAwait("pb_sysfs", TRUE, "un_minor") => ResourceInv'
    OBVIOUS
  <2> QED
    BY <2>1, <2>2 DEF ProbeSysfs
<1>39. ProbeRing => ResourceInv'
  <2>1. Take("pb_ring", {"ring"}, "pb_map") => ResourceInv'
    OBVIOUS
  <2>2. Take("pb_ring", {"ring"}, "un_ring") => ResourceInv'
    OBVIOUS
  <2>3. CoreAwait("pb_ring", TRUE, "un_sysfs") => ResourceInv'
    OBVIOUS
  <2> QED
    BY <2>1, <2>2, <2>3 DEF ProbeRing
<1>40. ProbeMap => ResourceInv'
  <2>1. Take("pb_map", {"mmio"}, "pb_check") => ResourceInv'
    OBVIOUS
  <2>2. CoreAwait("pb_map", TRUE, "un_ring") => ResourceInv'
    OBVIOUS
  <2> QED
    BY <2>1, <2>2 DEF ProbeMap
<1>41. ProbeCheck => ResourceInv'
  BY DEF ProbeCheck
<1>42. ProbeMaster => ResourceInv'
  BY DEF ProbeMaster
<1>43. ProbeStart => ResourceInv'
  BY DEF ProbeStart
<1>44. ProbeIrq => ResourceInv'
  <2>1. Take("pb_irq", {"irq"}, "pb_node") => ResourceInv'
    OBVIOUS
  <2>2. CoreAwait("pb_irq", TRUE, "un_hw") => ResourceInv'
    OBVIOUS
  <2> QED
    BY <2>1, <2>2 DEF ProbeIrq
<1>45. ProbeNode => ResourceInv'
  <2>1. Take("pb_node", {"node"}, "pb_publish") => ResourceInv'
    OBVIOUS
  <2>2. CoreAwait("pb_node", TRUE, "un_irq") => ResourceInv'
    OBVIOUS
  <2> QED
    BY <2>1, <2>2 DEF ProbeNode
<1>46. ProbeDrvdata => ResourceInv'
  BY DEF ProbeDrvdata
<1>47. UndoIrq => ResourceInv'
  BY DEF UndoIrq
<1>48. UndoSyncIrq => ResourceInv'
  BY DEF UndoSyncIrq
<1>49. UndoHw => ResourceInv'
  BY DEF UndoHw
<1>50. UndoMaster => ResourceInv'
  BY DEF UndoMaster
<1>51. UndoMap => ResourceInv'
  BY DEF UndoMap
<1>52. UndoRing => ResourceInv'
  BY DEF UndoRing
<1>53. UndoSysfs => ResourceInv'
  BY DEF UndoSysfs
<1>54. UndoDrainSysfs => ResourceInv'
  BY DEF UndoDrainSysfs
<1>55. UndoMinor => ResourceInv'
  BY DEF UndoMinor
<1>56. UndoAlloc => ResourceInv'
  BY DEF UndoAlloc
<1>57. UndoRegion => ResourceInv'
  BY DEF UndoRegion
<1>58. UndoEnable => ResourceInv'
  BY DEF UndoEnable
<1> QED
  BY <1>1, <1>2, <1>3, <1>4, <1>5, <1>6, <1>7, <1>8, <1>9, <1>10, <1>11,
     <1>12, <1>13, <1>14, <1>15, <1>16, <1>17, <1>18, <1>19, <1>20,
     <1>21, <1>22, <1>23, <1>24, <1>25, <1>26, <1>27, <1>28, <1>29,
     <1>30, <1>31, <1>32, <1>33,
     <1>34, <1>35, <1>36, <1>37, <1>38, <1>39, <1>40, <1>41, <1>42,
     <1>43, <1>44, <1>45, <1>46, <1>47, <1>48, <1>49, <1>50, <1>51,
     <1>52, <1>53, <1>54, <1>55, <1>56, <1>57, <1>58
     DEF Handler, Probe, Undo, Remove, Recovery, Power, Card, Sysfs

LEMMA ResourceStep == ResourceInv /\ [Next]_vars => ResourceInv'
<1>1. ResourceInv /\ UNCHANGED vars => ResourceInv'
  BY DEF vars, ResourceInv, HeldInv
<1> QED
  BY <1>1, ResourceProcess, ResourceOther DEF Next

LEMMA ResourceOrder == Spec => []ResourceInv
  BY ResourceInit, ResourceStep, PTL DEF Spec

(* Nothing remove frees is in use by a file, the handler or a parameter's  *)
(* show or store (NoUseAfterFree of the safety run): a process that owns   *)
(* the card keeps in_use true, so remove has not passed its wait.          *)
THEOREM MemorySafety == Spec => []NoUseAfterFree
<1>1. TypeOK /\ OwnerInv /\ ResourceInv => NoUseAfterFree
  <2> SUFFICES ASSUME TypeOK, OwnerInv, ResourceInv PROVE NoUseAfterFree
    OBVIOUS
  <2> USE CorePoints DEF ResourceInv, HeldInv, Running, Unheld, Unlisted, ToCtd,
          ToSysfs, ToMmio, ToIrq, PastCtd, PastSysfs, PastMmio
  <2>1. ASSUME NEW p \in Procs, pc[p] \in Holding
        PROVE  {"ctd", "mmio", "ring"} \subseteq alloc
    <3>1. inUse
      BY <2>1 DEF OwnerInv, SingleOwner
    <3> QED
      BY <3>1 DEF OwnerInv
  <2>2. ASSUME NEW p \in Procs, pc[p] = "o_claim"
        PROVE  "ctd" \in alloc
    BY <2>2 DEF OwnerInv
  <2>3. irq # "idle" => {"ctd", "mmio"} \subseteq alloc
    OBVIOUS
  <2>4. sysfs = "active" => {"ctd", "drvdata"} \subseteq alloc
    OBVIOUS
  <2> QED
    BY <2>1, <2>2, <2>3, <2>4 DEF NoUseAfterFree
<1> QED
  BY <1>1, TypeCorrect, Ownership, ResourceOrder, PTL

(* The engine of a card that answers runs from probe's last register write *)
(* to the quiescing of the label, of remove or of error_detected.          *)
EngineInv ==
  /\ disconnected => core \notin ProbeEarly \cup ProbeLate
  /\ link /\ engine =>
       /\ core \in {"pb_irq", "pb_node", "pb_publish", "un_irq", "un_sync", "un_hw",
                   "rm_quiesce"} \cup ProbeLate \cup Running
       /\ disconnected => core = "er_quiesce"
       /\ faulted => core # "rm_quiesce"

LEMMA EngineProcess ==
  ASSUME EngineInv, NEW p \in Procs, Process(p)
  PROVE  EngineInv'
<1>1. UNCHANGED <<core, disconnected, faulted, link, engine>> => EngineInv'
  BY DEF EngineInv
<1>2. Open(p) => UNCHANGED <<core, disconnected, faulted, link, engine>>
  BY DEF Open, OpenLookup, OpenClaim, OpenReset, OpenRearm, OpenUnmask,
         OpenEnable, OpenWait, OpenDone
<1>3. Read(p) => UNCHANGED <<core, disconnected, faulted, link, engine>>
  BY DEF Read, ReadStart, ReadCopy, ReadCheck, ReadGain, ReadWait, ReadWoke
<1>4. Ioctl(p) \/ Signal(p) => UNCHANGED <<core, disconnected, faulted, link, engine>>
  BY DEF Ioctl, IoctlStart, IoctlCheck, IoctlGain, Signal
<1>5. Release(p) =>
        UNCHANGED <<core, disconnected, faulted, link, engine>> \/ ReleaseWake(p)
  BY DEF Release, Close, ReleaseCheck, ReleaseMask, ReleaseLock, ReleaseClear,
         ReleaseUnlock
<1>6. ReleaseWake(p) => EngineInv'
  BY CorePoints DEF ReleaseWake, EngineInv, Running
<1> QED
  BY <1>1, <1>2, <1>3, <1>4, <1>5, <1>6 DEF Process

LEMMA EngineOther ==
  ASSUME TypeOK, EngineInv,
         Handler \/ Probe \/ Undo \/ Remove \/ Recovery \/ Power \/ Card \/ Sysfs
  PROVE  EngineInv'
<1> USE CorePoints DEF EngineInv, Running, DisableCard, Up
<1>1. Handler \/ Sysfs => UNCHANGED <<core, disconnected, faulted, link, engine>>
  BY DEF Handler, IrqEnter, IrqReadMask, IrqPage, IrqAck, IrqError, IrqMaskErrors,
         Sysfs, SysfsEnter, SysfsLeave
<1>2. Card => EngineInv'
  BY DEF Card, PageDone, DmaFault, CardDies, TypeOK
<1>3. ProbeEnable \/ ProbeRegion \/ ProbeAlloc \/ ProbeMinor \/ ProbeSysfs \/ ProbeRing
        \/ ProbeMap \/ ProbeCheck => EngineInv'
  BY DEF ProbeEnable, ProbeRegion, ProbeAlloc, ProbeMinor, ProbeSysfs, ProbeRing,
         ProbeMap, ProbeCheck
<1>4. ProbeMaster => EngineInv'
  BY DEF ProbeMaster
<1>5. ProbeStart => EngineInv'
  BY DEF ProbeStart
<1>6. ProbeIrq \/ ProbeNode \/ ProbePublish \/ ProbeDrvdata \/ ProbeUnmask => EngineInv'
  BY DEF ProbeIrq, ProbeNode, ProbePublish, ProbeDrvdata, ProbeUnmask
<1>7. UndoHw => EngineInv'
  BY DEF UndoHw
<1>8. Undo => UndoHw \/ EngineInv'
  BY DEF Undo, UndoIrq, UndoSyncIrq, UndoMaster, UndoMap, UndoRing, UndoSysfs,
         UndoDrainSysfs, UndoMinor, UndoAlloc, UndoRegion, UndoEnable
<1>9. RemoveStart \/ RemoveQuiesce \/ RemoveMaster \/ RemoveSysfs \/ RemoveDrainSysfs
        \/ RemoveUnlink => EngineInv'
  BY DEF RemoveStart, RemoveQuiesce, RemoveMaster, RemoveSysfs, RemoveDrainSysfs,
         RemoveUnlink
<1>10. RemoveEvict \/ RemoveWake \/ RemoveWaitClose \/ RemoveFreeIrq \/ RemoveSyncIrq
         \/ RemoveUnmap \/ RemoveKfree => EngineInv'
  BY DEF RemoveEvict, RemoveWake, RemoveWaitClose, RemoveFreeIrq, RemoveSyncIrq,
         RemoveUnmap, RemoveKfree
<1>11. Recovery => EngineInv'
  BY DEF Recovery, ErrorDetected, ErrorQuiesce, ErrorWake
<1>12. Suspend \/ Shutdown \/ ResumeUnmask => EngineInv'
  BY DEF Suspend, Shutdown, ResumeUnmask
<1>13. ASSUME Resume PROVE EngineInv'
  <2>1. core = "asleep" /\ disconnected' = disconnected
    BY <1>13 DEF Resume
  <2>2. CASE ~link'
    <3>1. core' \in {"idle", "rs_unmask"}
      BY <1>13 DEF Resume
    <3> QED BY <2>1, <2>2, <3>1
  <2>3. CASE disconnected /\ core' = "idle" /\ link' = link /\ engine' \in {engine, FALSE}
    <3>1. link' /\ engine' => link /\ engine
      BY <2>3
    <3>2. ~(link' /\ engine')
      BY <2>1, <2>3, <3>1
    <3> QED BY <2>1, <2>3, <3>2
  <2>4. CASE ~disconnected /\ core' = "rs_unmask"
    BY <2>1, <2>4
  <2> QED BY <1>13, <2>2, <2>3, <2>4 DEF Resume
<1> QED
  BY <1>1, <1>2, <1>3, <1>4, <1>5, <1>6, <1>7, <1>8, <1>9, <1>10, <1>11, <1>12, <1>13
     DEF Probe, Remove, Power

LEMMA EngineOff == Spec => []EngineInv
<1>1. Init => EngineInv
  BY CorePoints DEF Init, EngineInv
<1>2. EngineInv /\ UNCHANGED vars => EngineInv'
  BY DEF vars, EngineInv
<1>3. TypeOK /\ EngineInv /\ [Next]_vars => EngineInv'
  BY <1>2, EngineProcess, EngineOther DEF Next
<1> QED
  BY <1>1, <1>3, TypeCorrect, PTL DEF Spec

(* A failed probe undoes exactly what it did, and remove everything, for   *)
(* any number of processes and whatever else goes on: nothing stays held,  *)
(* bus mastering is off, and so is the engine of a card that still answers *)
(* (UnwindExact of the safety run).                                        *)
THEOREM ProbeUndone == Spec => []UnwindExact
<1>1. core = "gone" /\ EngineInv => (link => ~engine)
  BY CorePoints DEF EngineInv, Running
<1>2. OwnerInv /\ ResourceInv /\ EngineInv => UnwindExact
  BY <1>1, CorePoints DEF OwnerInv, ResourceInv, HeldInv, UnwindExact, Resources, Running,
     Unheld, Unlisted, ToCtd, ToSysfs, ToMmio, ToIrq, PastCtd, PastSysfs, PastMmio
<1> QED
  BY <1>2, Ownership, ResourceOrder, EngineOff, PTL

(* The engine cannot write into the ring's pages when they are freed, on a *)
(* faulted card either (NoDmaIntoFreedMemory of the safety run).           *)
THEOREM DmaSafety == Spec => []NoDmaIntoFreedMemory
<1>1. ResourceInv => NoDmaIntoFreedMemory
  BY CorePoints DEF ResourceInv, HeldInv, NoDmaIntoFreedMemory, DmaLive, Running,
     ToCtd, ToSysfs, ToMmio, PastCtd, PastSysfs
<1> QED
  BY <1>1, ResourceOrder, PTL

(* in_use becomes true only while the card is in the registry              *)
(* (ClaimOnlyPublished of the safety run).                                 *)
THEOREM ClaimsArePublished == Spec => ClaimOnlyPublished
<1>1. TypeOK /\ OwnerInv /\ [Next]_vars => [~inUse /\ inUse' => linked]_vars
  <2> SUFFICES ASSUME TypeOK, OwnerInv, Next, ~inUse, inUse' PROVE linked
    BY DEF vars
  <2>1. PICK p \in Procs : OpenClaim(p)
    <3>1. \A p \in Procs : Open(p) => OpenClaim(p) \/ UNCHANGED inUse
      BY DEF Open, OpenLookup, OpenReset, OpenRearm, OpenUnmask, OpenEnable,
             OpenWait, OpenDone
    <3>2. \A p \in Procs : Read(p) => UNCHANGED inUse
      BY DEF Read, ReadStart, ReadCopy, ReadCheck, ReadGain, ReadWait, ReadWoke
    <3>3. \A p \in Procs : Ioctl(p) \/ Signal(p) => UNCHANGED inUse
      BY DEF Ioctl, IoctlStart, IoctlCheck, IoctlGain, Signal
    <3>4. \A p \in Procs : Release(p) => UNCHANGED inUse \/ inUse' = FALSE
      BY DEF Release, Close, ReleaseCheck, ReleaseMask, ReleaseLock,
             ReleaseClear, ReleaseUnlock, ReleaseWake
    <3>5. Handler \/ Recovery \/ Power => UNCHANGED inUse
      BY DEF Handler, IrqEnter, IrqReadMask, IrqPage, IrqAck, IrqError,
             IrqMaskErrors, Recovery,
             ErrorDetected, ErrorQuiesce, ErrorWake, Power, Suspend, Resume,
             ResumeUnmask, Shutdown
    <3>6. Remove \/ Card \/ Sysfs => UNCHANGED inUse
      BY DEF Remove, RemoveStart, RemoveQuiesce, RemoveMaster, RemoveSysfs,
             RemoveDrainSysfs, RemoveUnlink, RemoveEvict, RemoveWake,
             RemoveWaitClose, RemoveFreeIrq, RemoveSyncIrq, RemoveUnmap,
             RemoveKfree, Card, PageDone, DmaFault, CardDies, Sysfs,
             SysfsEnter, SysfsLeave
    <3>7. Probe => UNCHANGED inUse
      BY DEF Probe, ProbeEnable, ProbeRegion, ProbeAlloc, ProbeMinor, ProbeSysfs,
             ProbeRing, ProbeMap, ProbeCheck, ProbeMaster, ProbeStart, ProbeIrq,
             ProbeNode, ProbePublish, ProbeDrvdata, ProbeUnmask
    <3>8. Undo => UNCHANGED inUse
      BY DEF Undo, UndoIrq, UndoSyncIrq, UndoHw, UndoMaster, UndoMap, UndoRing,
             UndoSysfs, UndoDrainSysfs, UndoMinor, UndoAlloc, UndoRegion, UndoEnable
    <3> QED
      BY <3>1, <3>2, <3>3, <3>4, <3>5, <3>6, <3>7, <3>8 DEF Next, Process
  <2> QED
    BY <2>1 DEF OpenClaim, OwnerInv
<1> QED
  BY <1>1, TypeCorrect, Ownership, PTL DEF Spec, ClaimOnlyPublished


(***************************************************************************)
(* A session's interrupts.  On a card that answers and has not faulted the *)
(* engine runs from probe's start on, and whoever has unmasked and enabled *)
(* the interrupts keeps them: only the owner masks the line, and the error *)
(* handler leaves the page interrupt.  Resume does not, so the machine is  *)
(* one that never suspends (the run driver_resume shows what it does).     *)
(***************************************************************************)
NoSuspend == "suspend" \notin Events

Serving  == {"pb_drvdata", "pb_unmask", "idle"}
Started  == {"pb_irq", "pb_node", "pb_publish"} \cup Serving
Unmasked == SessionPcs \cup {"o_enable"}

LineInv == \A p \in Procs : /\ pc[p] \in Unmasked => "page" \in vidMsk
                            /\ pc[p] \in SessionPcs => pciMsk

ArmedInv ==
  /\ core \notin {"asleep", "rs_unmask"}
  /\ core \in {"er_quiesce", "er_wake"} => disconnected
  /\ core \in Started \cup {"pb_start", "er_quiesce", "er_wake"} => busMaster
  /\ link /\ ~disconnected => /\ core \in Started => engine
                              /\ core \in Serving => LineInv

LEMMA SessionPoints ==
  /\ SessionPcs \subseteq Holding /\ SessionPcs \subseteq Unmasked
  /\ {"open", "o_wait", "o_sleep", "o_done", "r_copy", "r_recopy", "r_chk", "r_gain",
      "r_wait", "r_sleep", "r_woke", "c_chk", "c_gain"} \subseteq SessionPcs
  /\ "o_enable" \in Unmasked
  /\ {"closed", "o_claim", "o_reset", "o_rearm", "o_unmask", "l_chk", "l_mask", "l_lock",
      "l_clear", "l_unlock", "l_wake"} \cap Unmasked = {}
  /\ "o_enable" \notin SessionPcs
  BY DEF SessionPcs, Unmasked, Holding, OpenPcs, ReadPcs, IoctlPcs

LEMMA AwakeInSession ==
  ASSUME NEW q
  PROVE  /\ Awake(q) \in SessionPcs <=> q \in SessionPcs
         /\ Awake(q) \in Unmasked <=> q \in Unmasked
  BY SessionPoints DEF Awake

LEMMA StagePoints ==
  /\ Serving \subseteq Started
  /\ Started = {"pb_irq", "pb_node", "pb_publish", "pb_drvdata", "pb_unmask", "idle"}
  /\ Serving = {"pb_drvdata", "pb_unmask", "idle"}
  BY DEF Serving, Started

LEMMA ArmedInit == Init => ArmedInv
  BY StagePoints DEF Init, ArmedInv

(* A process that moves within a session, or out of one.                   *)
LEMMA ArmedMoves ==
  ASSUME TypeOK, ArmedInv, NEW p \in Procs, NEW to,
         pc' = [pc EXCEPT ![p] = to],
         to \in Unmasked => pc[p] \in Unmasked,
         to \in SessionPcs => pc[p] \in SessionPcs,
         UNCHANGED <<core, disconnected, link, pciMsk, vidMsk, engine, busMaster>>
  PROVE  ArmedInv'
<1>1. LineInv => LineInv'
  BY DEF TypeOK, LineInv
<1> QED BY <1>1 DEF ArmedInv

(* A step that does not touch the line, and enters no later stage.         *)
LEMMA ArmedAside ==
  ASSUME ArmedInv, UNCHANGED <<pc, pciMsk, vidMsk, engine, busMaster>>,
         link' => link, disconnected => disconnected',
         core' = core \/ core' \notin Started \cup {"pb_start", "asleep", "rs_unmask",
                                                    "er_quiesce", "er_wake"}
  PROVE  ArmedInv'
<1>1. LineInv => LineInv'
  BY DEF LineInv
<1> QED BY <1>1, StagePoints DEF ArmedInv

(* A step of a core that serves no session, to where it serves none.       *)
LEMMA ArmedElsewhere ==
  ASSUME ArmedInv,
         core' \notin Started \cup {"pb_start", "asleep", "rs_unmask", "er_quiesce", "er_wake"}
  PROVE  ArmedInv'
  BY StagePoints DEF ArmedInv

LEMMA ArmedProcess ==
  ASSUME TypeOK, OwnerInv, ArmedInv, NEW p \in Procs, Process(p)
  PROVE  ArmedInv'
<1> USE SessionPoints
<1>1. OpenLookup(p) => ArmedInv'
  BY ArmedMoves DEF OpenLookup
<1>2. OpenClaim(p) => ArmedInv'
  BY ArmedMoves DEF OpenClaim
<1>3. OpenReset(p) => ArmedInv'
  BY ArmedMoves DEF OpenReset
<1>4. OpenRearm(p) => ArmedInv'
  BY ArmedMoves DEF OpenRearm
<1>5. ASSUME OpenUnmask(p) PROVE ArmedInv'
  <2>1. Up => vidMsk' = Causes
    BY <1>5 DEF OpenUnmask
  <2>2. LineInv /\ Up => LineInv'
    BY <1>5, <2>1 DEF OpenUnmask, TypeOK, LineInv, Causes
  <2>3. link /\ core \in Serving => Up
    BY StagePoints DEF Up
  <2> QED BY <1>5, <2>2, <2>3 DEF OpenUnmask, ArmedInv
<1>6. ASSUME OpenEnable(p) PROVE ArmedInv'
  <2>1. Up => pciMsk'
    BY <1>6 DEF OpenEnable
  <2>2. LineInv /\ Up => LineInv'
    BY <1>6, <2>1 DEF OpenEnable, TypeOK, LineInv
  <2>3. link /\ core \in Serving => Up
    BY StagePoints DEF Up
  <2> QED BY <1>6, <2>2, <2>3 DEF OpenEnable, ArmedInv
<1>7. OpenWait(p) => ArmedInv'
  BY ArmedMoves DEF OpenWait
<1>8. OpenDone(p) => ArmedInv'
  BY ArmedMoves DEF OpenDone
<1>9. ReadStart(p) => ArmedInv'
  BY ArmedMoves DEF ReadStart
<1>10. ReadCopy(p) => ArmedInv'
  BY ArmedMoves DEF ReadCopy
<1>11. ReadCheck(p) => ArmedInv'
  BY ArmedMoves DEF ReadCheck
<1>12. ReadGain(p) => ArmedInv'
  BY ArmedMoves DEF ReadGain
<1>13. ReadWait(p) => ArmedInv'
  BY ArmedMoves DEF ReadWait
<1>14. ReadWoke(p) => ArmedInv'
  BY ArmedMoves DEF ReadWoke
<1>15. IoctlStart(p) => ArmedInv'
  BY ArmedMoves DEF IoctlStart
<1>16. IoctlCheck(p) => ArmedInv'
  BY ArmedMoves DEF IoctlCheck
<1>17. IoctlGain(p) => ArmedInv'
  BY ArmedMoves DEF IoctlGain
<1>18. Close(p) => ArmedInv'
  BY ArmedMoves DEF Close
<1>19. ReleaseCheck(p) => ArmedInv'
  BY ArmedMoves DEF ReleaseCheck
<1>20. ASSUME ReleaseMask(p) PROVE ArmedInv'
  <2>1. \A q \in Procs : pc'[q] \notin SessionPcs
    BY <1>20, ProcPoints DEF ReleaseMask, TypeOK, OwnerInv, SingleOwner
  <2>2. LineInv => LineInv'
    BY <1>20, <2>1 DEF ReleaseMask, TypeOK, LineInv
  <2> QED BY <1>20, <2>2 DEF ReleaseMask, ArmedInv
<1>21. ReleaseLock(p) => ArmedInv'
  BY ArmedMoves DEF ReleaseLock
<1>22. ReleaseClear(p) => ArmedInv'
  BY ArmedMoves DEF ReleaseClear
<1>23. ReleaseUnlock(p) => ArmedInv'
  BY ArmedMoves DEF ReleaseUnlock
<1>24. ASSUME ReleaseWake(p) PROVE ArmedInv'
  <2>1. LineInv => LineInv'
    BY <1>24 DEF ReleaseWake, TypeOK, LineInv
  <2>2. core' = core \/ core' = "rm_wait"
    BY <1>24 DEF ReleaseWake
  <2> QED BY <1>24, <2>1, <2>2, StagePoints DEF ReleaseWake, ArmedInv
<1>25. Signal(p) => ArmedInv'
  BY ArmedMoves DEF Signal
<1> QED
  BY <1>1, <1>2, <1>3, <1>4, <1>5, <1>6, <1>7, <1>8, <1>9, <1>10, <1>11,
     <1>12, <1>13, <1>14, <1>15, <1>16, <1>17, <1>18, <1>19, <1>20, <1>21,
     <1>22, <1>23, <1>24, <1>25 DEF Process, Open, Read, Ioctl, Release

LEMMA ArmedOther ==
  ASSUME NoSuspend, TypeOK, OwnerInv, ArmedInv,
         Handler \/ Probe \/ Undo \/ Remove \/ Recovery \/ Power \/ Card \/ Sysfs
  PROVE  ArmedInv'
<1> USE StagePoints
<1>1. IrqEnter => ArmedInv'
  BY ArmedAside DEF IrqEnter
<1>2. IrqReadMask => ArmedInv'
  BY ArmedAside DEF IrqReadMask
<1>3. ASSUME IrqPage PROVE ArmedInv'
  <2>1. LineInv => LineInv'
    BY <1>3, AwakeInSession DEF IrqPage, WakeReaders, TypeOK, LineInv
  <2> QED BY <1>3, <2>1 DEF IrqPage, ArmedInv
<1>4. IrqAck => ArmedInv'
  BY ArmedAside DEF IrqAck
<1>5. IrqError => ArmedInv'
  BY ArmedAside DEF IrqError
<1>6. ASSUME IrqMaskErrors PROVE ArmedInv'
  <2>1. "page" \in vidMsk => "page" \in vidMsk'
    BY <1>6 DEF IrqMaskErrors
  <2>2. LineInv => LineInv'
    BY <1>6, <2>1 DEF IrqMaskErrors, LineInv
  <2> QED BY <1>6, <2>2 DEF IrqMaskErrors, ArmedInv
<1>7. ASSUME ProbePublish PROVE ArmedInv'
  <2>1. \A p \in Procs : pc[p] \notin Unmasked
    BY <1>7, CorePoints DEF ProbePublish, OwnerInv, SingleOwner, Unheld, Unmasked,
       SessionPcs, Holding, OpenPcs, ReadPcs, IoctlPcs
  <2>2. LineInv'
    BY <1>7, <2>1, SessionPoints DEF ProbePublish, LineInv
  <2> QED BY <1>7, <2>2 DEF ProbePublish, ArmedInv
<1>8. ASSUME ProbeUnmask PROVE ArmedInv'
  <2>1. link => vidMsk' = Causes
    BY <1>8 DEF ProbeUnmask, Up
  <2>2. link /\ LineInv => LineInv'
    BY <1>8, <2>1 DEF ProbeUnmask, LineInv, Causes
  <2> QED BY <1>8, <2>2 DEF ProbeUnmask, ArmedInv
<1>9. RemoveStart => ArmedInv'
  BY ArmedElsewhere DEF RemoveStart
<1>10. RemoveQuiesce => ArmedInv'
  BY ArmedElsewhere DEF RemoveQuiesce
<1>11. RemoveMaster => ArmedInv'
  BY ArmedElsewhere DEF RemoveMaster
<1>12. RemoveSysfs => ArmedInv'
  BY ArmedElsewhere DEF RemoveSysfs
<1>13. RemoveDrainSysfs => ArmedInv'
  BY ArmedElsewhere DEF RemoveDrainSysfs
<1>14. RemoveUnlink => ArmedInv'
  BY ArmedElsewhere DEF RemoveUnlink
<1>15. RemoveEvict => ArmedInv'
  BY ArmedElsewhere DEF RemoveEvict
<1>16. RemoveWake => ArmedInv'
  BY ArmedElsewhere DEF RemoveWake
<1>17. RemoveWaitClose => ArmedInv'
  BY ArmedElsewhere DEF RemoveWaitClose
<1>18. RemoveFreeIrq => ArmedInv'
  BY ArmedElsewhere DEF RemoveFreeIrq
<1>19. RemoveSyncIrq => ArmedInv'
  BY ArmedElsewhere DEF RemoveSyncIrq
<1>20. RemoveUnmap => ArmedInv'
  BY ArmedElsewhere DEF RemoveUnmap
<1>21. RemoveKfree => ArmedInv'
  BY ArmedElsewhere DEF RemoveKfree
<1>22. ErrorDetected => ArmedInv'
  BY DEF ErrorDetected, ArmedInv
<1>23. ErrorQuiesce => ArmedInv'
  BY DEF ErrorQuiesce, ArmedInv
<1>24. ASSUME ErrorWake PROVE ArmedInv'
  <2>1. disconnected'
    BY <1>24 DEF ErrorWake, ArmedInv
  <2>2. core' = "idle"
    BY <1>24 DEF ErrorWake
  <2> QED BY <1>24, <2>1, <2>2 DEF ErrorWake, ArmedInv
<1>25. ~Suspend
  BY DEF Suspend, NoSuspend
<1>26. ~Resume
  BY DEF Resume, ArmedInv
<1>27. ~ResumeUnmask
  BY DEF ResumeUnmask, ArmedInv
<1>28. Shutdown => ArmedInv'
  BY ArmedElsewhere DEF Shutdown
<1>29. PageDone => ArmedInv'
  BY ArmedAside DEF PageDone
<1>30. DmaFault => ArmedInv'
  BY ArmedAside DEF DmaFault
<1>31. CardDies => ArmedInv'
  BY ArmedAside DEF CardDies
<1>32. SysfsEnter => ArmedInv'
  BY ArmedAside DEF SysfsEnter
<1>33. SysfsLeave => ArmedInv'
  BY ArmedAside DEF SysfsLeave
<1>34. ProbeEnable => ArmedInv'
  BY ArmedElsewhere DEF ProbeEnable
<1>35. ProbeRegion => ArmedInv'
  BY ArmedElsewhere DEF ProbeRegion
<1>36. ProbeAlloc => ArmedInv'
  BY ArmedElsewhere DEF ProbeAlloc
<1>37. ProbeMinor => ArmedInv'
  BY ArmedElsewhere DEF ProbeMinor
<1>38. ProbeSysfs => ArmedInv'
  BY ArmedElsewhere DEF ProbeSysfs
<1>39. ProbeRing => ArmedInv'
  BY ArmedElsewhere DEF ProbeRing
<1>40. ProbeMap => ArmedInv'
  BY ArmedElsewhere DEF ProbeMap
<1>41. ProbeCheck => ArmedInv'
  BY ArmedElsewhere DEF ProbeCheck
<1>42. ProbeMaster => ArmedInv'
  BY DEF ProbeMaster, ArmedInv
<1>43. ASSUME ProbeStart PROVE ArmedInv'
  <2>1. link => engine'
    BY <1>43 DEF ProbeStart, Up
  <2> QED BY <1>43, <2>1 DEF ProbeStart, ArmedInv
<1>44. ProbeIrq => ArmedInv'
  BY DEF ProbeIrq, ArmedInv
<1>45. ProbeNode => ArmedInv'
  BY DEF ProbeNode, ArmedInv
<1>46. ProbeDrvdata => ArmedInv'
  BY DEF ProbeDrvdata, ArmedInv, LineInv
<1>47. UndoIrq => ArmedInv'
  BY ArmedElsewhere DEF UndoIrq
<1>48. UndoSyncIrq => ArmedInv'
  BY ArmedElsewhere DEF UndoSyncIrq
<1>49. UndoHw => ArmedInv'
  BY ArmedElsewhere DEF UndoHw
<1>50. UndoMaster => ArmedInv'
  BY ArmedElsewhere DEF UndoMaster
<1>51. UndoMap => ArmedInv'
  BY ArmedElsewhere DEF UndoMap
<1>52. UndoRing => ArmedInv'
  BY ArmedElsewhere DEF UndoRing
<1>53. UndoSysfs => ArmedInv'
  BY ArmedElsewhere DEF UndoSysfs
<1>54. UndoDrainSysfs => ArmedInv'
  BY ArmedElsewhere DEF UndoDrainSysfs
<1>55. UndoMinor => ArmedInv'
  BY ArmedElsewhere DEF UndoMinor
<1>56. UndoAlloc => ArmedInv'
  BY ArmedElsewhere DEF UndoAlloc
<1>57. UndoRegion => ArmedInv'
  BY ArmedElsewhere DEF UndoRegion
<1>58. UndoEnable => ArmedInv'
  BY ArmedElsewhere DEF UndoEnable
<1> QED
  BY <1>1, <1>2, <1>3, <1>4, <1>5, <1>6, <1>7, <1>8, <1>9, <1>10, <1>11,
     <1>12, <1>13, <1>14, <1>15, <1>16, <1>17, <1>18, <1>19, <1>20, <1>21,
     <1>22, <1>23, <1>24, <1>25, <1>26, <1>27, <1>28, <1>29, <1>30, <1>31,
     <1>32, <1>33, <1>34, <1>35, <1>36, <1>37, <1>38, <1>39, <1>40, <1>41,
     <1>42, <1>43, <1>44, <1>45, <1>46, <1>47, <1>48, <1>49, <1>50, <1>51,
     <1>52, <1>53, <1>54, <1>55, <1>56, <1>57, <1>58
     DEF Handler, Probe, Undo, Remove, Recovery, Power, Card, Sysfs

LEMMA ArmedStep ==
  ASSUME NoSuspend, TypeOK, OwnerInv, ArmedInv, [Next]_vars PROVE ArmedInv'
<1>1. UNCHANGED vars => ArmedInv'
  BY DEF vars, ArmedInv, LineInv
<1> QED
  BY <1>1, ArmedProcess, ArmedOther DEF Next

(* A session on a healthy card keeps its interrupts (SessionArmed of the   *)
(* run driver_live), on a machine that does not suspend.                   *)
THEOREM SessionsStayArmed == ASSUME NoSuspend PROVE Spec => []SessionArmed
<1>1. Spec => []ArmedInv
  BY ArmedInit, ArmedStep, TypeCorrect, Ownership, PTL DEF Spec
<1>2. ArmedInv => SessionArmed
  BY StagePoints, SessionPoints DEF ArmedInv, LineInv, SessionArmed, DmaLive
<1> QED
  BY <1>1, <1>2, PTL



(***************************************************************************)
(* Wake-ups.  The safety that calls returning and remove completing rest   *)
(* on: whoever sleeps has nothing to wake up for yet, or somebody who will *)
(* wake him has still to come to it.                                       *)
(***************************************************************************)
Asleep == {"o_sleep", "r_sleep"}

NoLostWakeup ==
  /\ \A p \in Procs :
       /\ pc[p] = "o_sleep" => data = "none"
       /\ pc[p] = "r_sleep" => data # "new"
       /\ pc[p] \in Asleep /\ disconnected => core \in {"er_quiesce", "er_wake", "rm_wake"}
  /\ core = "rm_sleep" => \E p \in Procs : pc[p] \in Holding \cup TailPcs

LEMMA TailPoints ==
  /\ Asleep = {"o_sleep", "r_sleep"} /\ Asleep \subseteq Holding
  /\ {"l_unlock", "l_wake"} = TailPcs
  /\ {"closed", "o_claim"} \cap (Holding \cup TailPcs) = {}
  BY DEF Asleep, TailPcs, Holding, OpenPcs, ReadPcs, IoctlPcs, ClosePcs

LEMMA WakeupInit == Init => NoLostWakeup
  BY TailPoints DEF Init, NoLostWakeup

(* A process that goes on and does not fall asleep.                        *)
LEMMA WakeupMoves ==
  ASSUME TypeOK, NoLostWakeup, NEW p \in Procs, NEW to,
         pc' = [pc EXCEPT ![p] = to], to \notin Asleep,
         pc[p] \in Holding \cup TailPcs => to \in Holding \cup TailPcs,
         UNCHANGED <<core, disconnected>>,
         data' = data \/ \A q \in Procs : pc'[q] \notin Asleep
  PROVE  NoLostWakeup'
<1>1. \A q \in Procs : pc'[q] = IF q = p THEN to ELSE pc[q]
  BY DEF TypeOK
<1>2. \A q \in Procs : pc'[q] \in Asleep => q # p /\ pc'[q] = pc[q] /\ data' = data
  BY <1>1
<1>3. core' = "rm_sleep" => \E q \in Procs : pc'[q] \in Holding \cup TailPcs
  BY <1>1 DEF NoLostWakeup
<1>4. \A q \in Procs : pc'[q] \in Asleep /\ disconnected'
                         => core' \in {"er_quiesce", "er_wake", "rm_wake"}
  BY <1>2 DEF NoLostWakeup
<1>5. \A q \in Procs : /\ pc'[q] = "o_sleep" => data' = "none"
                       /\ pc'[q] = "r_sleep" => data' # "new"
  BY <1>2, TailPoints DEF NoLostWakeup
<1> QED BY <1>3, <1>4, <1>5 DEF NoLostWakeup

(* Only the owner of the card sleeps, so no other process does while he    *)
(* runs.                                                                   *)
LEMMA OwnerAwake ==
  ASSUME TypeOK, OwnerInv, NEW p \in Procs, NEW to, pc[p] \in Holding,
         pc' = [pc EXCEPT ![p] = to], to \notin Asleep
  PROVE  \A q \in Procs : pc'[q] \notin Asleep
<1>1. \A q \in Procs : pc[q] \in Holding => q = p
  BY DEF OwnerInv, SingleOwner
<1>2. \A q \in Procs : pc'[q] = IF q = p THEN to ELSE pc[q]
  BY DEF TypeOK
<1> QED BY <1>1, <1>2, TailPoints

(* A step that touches nothing a sleeper waits for.                        *)
LEMMA WakeupAside ==
  ASSUME NoLostWakeup, UNCHANGED <<pc, data, disconnected>>,
         core' = core \/ core' \in {"er_wake", "rm_wake"}
           \/ (core \notin {"er_quiesce", "er_wake", "rm_wake"} /\ core' # "rm_sleep")
  PROVE  NoLostWakeup'
  BY DEF NoLostWakeup

(* wake_up on readQ leaves nobody asleep.                                  *)
LEMMA WakeupAll ==
  ASSUME TypeOK, WakeReaders
  PROVE  /\ \A p \in Procs : pc'[p] \notin Asleep
         /\ \A p \in Procs : pc[p] \in Holding \cup TailPcs => pc'[p] \in Holding \cup TailPcs
<1>1. \A q : Awake(q) \notin Asleep
  BY TailPoints DEF Awake
<1>2. \A q \in ProcPcs : q \in Holding \cup TailPcs => Awake(q) \in Holding \cup TailPcs
  BY AwakeStays, TailPoints DEF Awake
<1> QED BY <1>1, <1>2 DEF TypeOK, WakeReaders

LEMMA WakeupProcess ==
  ASSUME TypeOK, OwnerInv, NoLostWakeup, NEW p \in Procs, Process(p)
  PROVE  NoLostWakeup'
<1> USE TailPoints, ProcPoints
<1>1. OpenLookup(p) => NoLostWakeup'
  BY WakeupMoves DEF OpenLookup
<1>2. OpenClaim(p) => NoLostWakeup'
  BY WakeupMoves DEF OpenClaim
<1>3. ASSUME OpenReset(p) PROVE NoLostWakeup'
  <2>1. PICK to \in Holding : pc' = [pc EXCEPT ![p] = to] /\ to \notin Asleep /\ pc[p] \in Holding
    BY <1>3 DEF OpenReset
  <2>2. \A q \in Procs : pc'[q] \notin Asleep
    BY <2>1, OwnerAwake
  <2> QED BY <1>3, <2>1, <2>2, WakeupMoves DEF OpenReset
<1>4. OpenRearm(p) => NoLostWakeup'
  BY WakeupMoves DEF OpenRearm
<1>5. OpenUnmask(p) => NoLostWakeup'
  BY WakeupMoves DEF OpenUnmask
<1>6. OpenEnable(p) => NoLostWakeup'
  BY WakeupMoves DEF OpenEnable
<1>7. ASSUME OpenWait(p) PROVE NoLostWakeup'
  <2>1. CASE data # "none" \/ disconnected
    <3>1. pc' = [pc EXCEPT ![p] = "o_done"] /\ pc[p] \in Holding
      BY <1>7, <2>1 DEF OpenWait
    <3>2. "o_done" \in Holding /\ "o_done" \notin Asleep
      OBVIOUS
    <3>3. UNCHANGED <<core, data, disconnected>>
      BY <1>7 DEF OpenWait
    <3> QED BY <3>1, <3>2, <3>3, WakeupMoves
  <2>2. CASE ~(data # "none") /\ ~disconnected
    <3>1. \A q \in Procs : pc'[q] = IF q = p THEN "o_sleep" ELSE pc[q]
      BY <1>7, <2>2 DEF OpenWait, TypeOK
    <3>2. UNCHANGED <<core, data, disconnected>>
      BY <1>7 DEF OpenWait
    <3>3. core = "rm_sleep" => \E q \in Procs : pc'[q] \in Holding \cup TailPcs
      BY <3>1
    <3> QED BY <2>2, <3>1, <3>2, <3>3 DEF NoLostWakeup
  <2> QED BY <2>1, <2>2
<1>8. OpenDone(p) => NoLostWakeup'
  BY WakeupMoves DEF OpenDone
<1>9. ASSUME ReadStart(p) PROVE NoLostWakeup'
  <2>1. PICK to \in Holding : pc' = [pc EXCEPT ![p] = to] /\ to \notin Asleep /\ pc[p] \in Holding
    BY <1>9 DEF ReadStart
  <2>2. \A q \in Procs : pc'[q] \notin Asleep
    BY <2>1, OwnerAwake
  <2> QED BY <1>9, <2>1, <2>2, WakeupMoves DEF ReadStart
<1>10. ReadCopy(p) => NoLostWakeup'
  BY WakeupMoves DEF ReadCopy
<1>11. ReadCheck(p) => NoLostWakeup'
  BY WakeupMoves DEF ReadCheck
<1>12. ReadGain(p) => NoLostWakeup'
  BY WakeupMoves DEF ReadGain
<1>13. ASSUME ReadWait(p) PROVE NoLostWakeup'
  <2>1. CASE data = "new" \/ disconnected
    <3>1. pc' = [pc EXCEPT ![p] = "r_woke"] /\ pc[p] \in Holding
      BY <1>13, <2>1 DEF ReadWait
    <3>2. "r_woke" \in Holding /\ "r_woke" \notin Asleep
      OBVIOUS
    <3>3. UNCHANGED <<core, data, disconnected>>
      BY <1>13 DEF ReadWait
    <3> QED BY <3>1, <3>2, <3>3, WakeupMoves
  <2>2. CASE ~(data = "new") /\ ~disconnected
    <3>1. \A q \in Procs : pc'[q] = IF q = p THEN "r_sleep" ELSE pc[q]
      BY <1>13, <2>2 DEF ReadWait, TypeOK
    <3>2. UNCHANGED <<core, data, disconnected>>
      BY <1>13 DEF ReadWait
    <3>3. core = "rm_sleep" => \E q \in Procs : pc'[q] \in Holding \cup TailPcs
      BY <3>1
    <3> QED BY <2>2, <3>1, <3>2, <3>3 DEF NoLostWakeup
  <2> QED BY <2>1, <2>2
<1>14. ASSUME ReadWoke(p) PROVE NoLostWakeup'
  <2>1. PICK to \in {"open", "r_recopy"} : pc' = [pc EXCEPT ![p] = to]
    BY <1>14 DEF ReadWoke
  <2>2. pc[p] \in Holding /\ to \in Holding /\ to \notin Asleep
    BY <1>14, <2>1 DEF ReadWoke
  <2>3. \A q \in Procs : pc'[q] \notin Asleep
    BY <2>1, <2>2, OwnerAwake
  <2> QED BY <1>14, <2>1, <2>2, <2>3, WakeupMoves DEF ReadWoke
<1>15. IoctlStart(p) => NoLostWakeup'
  BY WakeupMoves DEF IoctlStart
<1>16. ASSUME IoctlCheck(p) PROVE NoLostWakeup'
  <2>1. PICK to \in {"open", "c_gain"} : pc' = [pc EXCEPT ![p] = to]
    BY <1>16 DEF IoctlCheck
  <2>2. pc[p] \in Holding /\ to \in Holding /\ to \notin Asleep
    BY <1>16, <2>1 DEF IoctlCheck
  <2> QED BY <1>16, <2>1, <2>2, WakeupMoves DEF IoctlCheck
<1>17. IoctlGain(p) => NoLostWakeup'
  BY WakeupMoves DEF IoctlGain
<1>18. Close(p) => NoLostWakeup'
  BY WakeupMoves DEF Close
<1>19. ASSUME ReleaseCheck(p) PROVE NoLostWakeup'
  <2>1. PICK to \in {"l_lock", "l_mask"} : pc' = [pc EXCEPT ![p] = to]
    BY <1>19 DEF ReleaseCheck
  <2>2. pc[p] \in Holding /\ to \in Holding /\ to \notin Asleep
    BY <1>19, <2>1 DEF ReleaseCheck
  <2> QED BY <1>19, <2>1, <2>2, WakeupMoves DEF ReleaseCheck
<1>20. ReleaseMask(p) => NoLostWakeup'
  BY WakeupMoves DEF ReleaseMask
<1>21. ReleaseLock(p) => NoLostWakeup'
  BY WakeupMoves DEF ReleaseLock
<1>22. ReleaseClear(p) => NoLostWakeup'
  BY WakeupMoves DEF ReleaseClear
<1>23. ReleaseUnlock(p) => NoLostWakeup'
  BY WakeupMoves DEF ReleaseUnlock
<1>24. ASSUME ReleaseWake(p) PROVE NoLostWakeup'
  <2>1. \A q \in Procs : pc'[q] = IF q = p THEN "closed" ELSE pc[q]
    BY <1>24 DEF ReleaseWake, TypeOK
  <2>2. core' = (IF core = "rm_sleep" THEN "rm_wait" ELSE core)
    BY <1>24 DEF ReleaseWake
  <2>3. UNCHANGED <<data, disconnected>>
    BY <1>24 DEF ReleaseWake
  <2> QED BY <2>1, <2>2, <2>3 DEF NoLostWakeup
<1>25. Signal(p) => NoLostWakeup'
  BY WakeupMoves DEF Signal
<1> QED
  BY <1>1, <1>2, <1>3, <1>4, <1>5, <1>6, <1>7, <1>8, <1>9, <1>10, <1>11,
     <1>12, <1>13, <1>14, <1>15, <1>16, <1>17, <1>18, <1>19, <1>20, <1>21,
     <1>22, <1>23, <1>24, <1>25 DEF Process, Open, Read, Ioctl, Release

LEMMA WakeupOther ==
  ASSUME TypeOK, OwnerInv, NoLostWakeup,
         Handler \/ Probe \/ Undo \/ Remove \/ Recovery \/ Power \/ Card \/ Sysfs
  PROVE  NoLostWakeup'
<1>1. IrqEnter => NoLostWakeup'
  BY WakeupAside DEF IrqEnter
<1>2. IrqReadMask => NoLostWakeup'
  BY WakeupAside DEF IrqReadMask
<1>3. ASSUME IrqPage PROVE NoLostWakeup'
  BY <1>3, WakeupAll, TailPoints DEF IrqPage, NoLostWakeup
<1>4. IrqAck => NoLostWakeup'
  BY WakeupAside DEF IrqAck
<1>5. IrqError => NoLostWakeup'
  BY WakeupAside DEF IrqError
<1>6. IrqMaskErrors => NoLostWakeup'
  BY WakeupAside DEF IrqMaskErrors
<1>7. ProbePublish => NoLostWakeup'
  BY WakeupAside DEF ProbePublish
<1>8. ProbeUnmask => NoLostWakeup'
  BY WakeupAside DEF ProbeUnmask
<1>9. RemoveStart => NoLostWakeup'
  BY WakeupAside DEF RemoveStart
<1>10. RemoveQuiesce => NoLostWakeup'
  BY WakeupAside DEF RemoveQuiesce
<1>11. RemoveMaster => NoLostWakeup'
  BY WakeupAside DEF RemoveMaster
<1>12. RemoveSysfs => NoLostWakeup'
  BY WakeupAside DEF RemoveSysfs
<1>13. RemoveDrainSysfs => NoLostWakeup'
  BY WakeupAside DEF RemoveDrainSysfs
<1>14. RemoveUnlink => NoLostWakeup'
  BY WakeupAside DEF RemoveUnlink
<1>15. RemoveEvict => NoLostWakeup'
  BY DEF RemoveEvict, NoLostWakeup
<1>16. ASSUME RemoveWake PROVE NoLostWakeup'
  BY <1>16, WakeupAll, TailPoints DEF RemoveWake, NoLostWakeup
<1>17. ASSUME RemoveWaitClose PROVE NoLostWakeup'
  <2>1. inUse => \E p \in Procs : pc[p] \in Holding
    BY DEF OwnerInv, SingleOwner
  <2> QED BY <1>17, <2>1 DEF RemoveWaitClose, NoLostWakeup
<1>18. RemoveFreeIrq => NoLostWakeup'
  BY WakeupAside DEF RemoveFreeIrq
<1>19. RemoveSyncIrq => NoLostWakeup'
  BY WakeupAside DEF RemoveSyncIrq
<1>20. RemoveUnmap => NoLostWakeup'
  BY WakeupAside DEF RemoveUnmap
<1>21. RemoveKfree => NoLostWakeup'
  BY WakeupAside DEF RemoveKfree
<1>22. ErrorDetected => NoLostWakeup'
  BY DEF ErrorDetected, NoLostWakeup
<1>23. ErrorQuiesce => NoLostWakeup'
  BY WakeupAside DEF ErrorQuiesce
<1>24. ASSUME ErrorWake PROVE NoLostWakeup'
  BY <1>24, WakeupAll, TailPoints DEF ErrorWake, NoLostWakeup
<1>25. Suspend => NoLostWakeup'
  BY WakeupAside DEF Suspend
<1>26. Resume => NoLostWakeup'
  BY WakeupAside DEF Resume
<1>27. ResumeUnmask => NoLostWakeup'
  BY WakeupAside DEF ResumeUnmask
<1>28. Shutdown => NoLostWakeup'
  BY WakeupAside DEF Shutdown
<1>29. PageDone => NoLostWakeup'
  BY WakeupAside DEF PageDone
<1>30. DmaFault => NoLostWakeup'
  BY WakeupAside DEF DmaFault
<1>31. CardDies => NoLostWakeup'
  BY WakeupAside DEF CardDies
<1>32. SysfsEnter => NoLostWakeup'
  BY WakeupAside DEF SysfsEnter
<1>33. SysfsLeave => NoLostWakeup'
  BY WakeupAside DEF SysfsLeave
<1>34. ProbeEnable => NoLostWakeup'
  BY WakeupAside DEF ProbeEnable
<1>35. ProbeRegion => NoLostWakeup'
  BY WakeupAside DEF ProbeRegion
<1>36. ProbeAlloc => NoLostWakeup'
  BY WakeupAside DEF ProbeAlloc
<1>37. ProbeMinor => NoLostWakeup'
  BY WakeupAside DEF ProbeMinor
<1>38. ProbeSysfs => NoLostWakeup'
  BY WakeupAside DEF ProbeSysfs
<1>39. ProbeRing => NoLostWakeup'
  BY WakeupAside DEF ProbeRing
<1>40. ProbeMap => NoLostWakeup'
  BY WakeupAside DEF ProbeMap
<1>41. ProbeCheck => NoLostWakeup'
  BY WakeupAside DEF ProbeCheck
<1>42. ProbeMaster => NoLostWakeup'
  BY WakeupAside DEF ProbeMaster
<1>43. ProbeStart => NoLostWakeup'
  BY WakeupAside DEF ProbeStart
<1>44. ProbeIrq => NoLostWakeup'
  BY WakeupAside DEF ProbeIrq
<1>45. ProbeNode => NoLostWakeup'
  BY WakeupAside DEF ProbeNode
<1>46. ProbeDrvdata => NoLostWakeup'
  BY WakeupAside DEF ProbeDrvdata
<1>47. UndoIrq => NoLostWakeup'
  BY WakeupAside DEF UndoIrq
<1>48. UndoSyncIrq => NoLostWakeup'
  BY WakeupAside DEF UndoSyncIrq
<1>49. UndoHw => NoLostWakeup'
  BY WakeupAside DEF UndoHw
<1>50. UndoMaster => NoLostWakeup'
  BY WakeupAside DEF UndoMaster
<1>51. UndoMap => NoLostWakeup'
  BY WakeupAside DEF UndoMap
<1>52. UndoRing => NoLostWakeup'
  BY WakeupAside DEF UndoRing
<1>53. UndoSysfs => NoLostWakeup'
  BY WakeupAside DEF UndoSysfs
<1>54. UndoDrainSysfs => NoLostWakeup'
  BY WakeupAside DEF UndoDrainSysfs
<1>55. UndoMinor => NoLostWakeup'
  BY WakeupAside DEF UndoMinor
<1>56. UndoAlloc => NoLostWakeup'
  BY WakeupAside DEF UndoAlloc
<1>57. UndoRegion => NoLostWakeup'
  BY WakeupAside DEF UndoRegion
<1>58. UndoEnable => NoLostWakeup'
  BY WakeupAside DEF UndoEnable
<1> QED
  BY <1>1, <1>2, <1>3, <1>4, <1>5, <1>6, <1>7, <1>8, <1>9, <1>10, <1>11,
     <1>12, <1>13, <1>14, <1>15, <1>16, <1>17, <1>18, <1>19, <1>20, <1>21,
     <1>22, <1>23, <1>24, <1>25, <1>26, <1>27, <1>28, <1>29, <1>30, <1>31,
     <1>32, <1>33, <1>34, <1>35, <1>36, <1>37, <1>38, <1>39, <1>40, <1>41,
     <1>42, <1>43, <1>44, <1>45, <1>46, <1>47, <1>48, <1>49, <1>50, <1>51,
     <1>52, <1>53, <1>54, <1>55, <1>56, <1>57, <1>58
     DEF Handler, Probe, Undo, Remove, Recovery, Power, Card, Sysfs

LEMMA WakeupStep ==
  ASSUME TypeOK, OwnerInv, NoLostWakeup, [Next]_vars PROVE NoLostWakeup'
<1>1. UNCHANGED vars => NoLostWakeup'
  BY DEF vars, NoLostWakeup
<1> QED
  BY <1>1, WakeupProcess, WakeupOther DEF Next

(* No wake-up is lost.  A process that sleeps in open() or read() has seen *)
(* no newer position; when the card has gone, error_detected or remove has *)
(* still to wake it; and while remove sleeps, somebody who has not yet     *)
(* passed release()'s wake_up is on his way there.                         *)
THEOREM WakeupsReach == Spec => []NoLostWakeup
  BY WakeupInit, WakeupStep, TypeCorrect, Ownership, PTL DEF Spec

=============================================================================
