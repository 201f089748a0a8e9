# A TLA+ model of cxadc-linux

cxadc-linux turns CX2388x TV cards into raw sample recorders. This directory
models its driver, its capture tools, the firmware of its clock generator and
its deployment in TLA+, checks them with TLC on small instances, and proves with
TLAPS, for every instance, the safety properties and action properties that the
passing runs check (three of them under hypotheses that section 5 names). Where
the code keeps a promise of its own text only with an exception, the property
states the exception, and section 6 lists it.

    tlc -workers 2 -config CxadcDriver_safety.cfg MCCxadcDriver
    tlapm CxadcDriverProofs.tla

`PROJECT.json` lists the runs, the mutant of each property, the lines every
definition models, the findings, the hazards and the theorems. Paths below are
relative to the repository; `cxadc.c` is `src/kernel/cxadc.c`, firmware files
are in `clockgen/firmware/src`, tools in `src/tools`.

## 1. The system

| Part | State | Operations | Hard to test |
|---|---|---|---|
| **Driver: card life cycle** (`cxadc.c`) | `cxadcs` registry, `in_use`, `disconnected`, `err_irq_masked`, two mutexes, two wait queues, the card's mask, status and DMA registers, the bus-master bit, what `probe` has acquired | `probe` and its unwinding, `remove`; `open`, `read`, `ioctl`, `release`, the interrupt handler, sysfs show/store; `error_detected`, `suspend`, `resume`, `shutdown` | processes, handler and PCI core share one object; `remove` frees it while a file may be open; `probe` may fail at each of a dozen steps, with attributes and interrupts already live; the card may stop answering at any read |
| **Driver: ring and overrun accounting** (`cxadc.c`) | 64 MB ring, `lgpcnt`, `writer_laps`, `last_irq_gp_cnt`, `writer_total_pages`, `initial_page`, `reader_base_pages`, `overrun_count`, the file offset | the RISC engine fills pages and interrupts every period; the handler publishes a position and a total; `open` resets and anchors; `read` checks, copies, zeroes | engine, handler and reader run unsynchronised; positions are rounded, wrapped and read at different moments |
| **cx-capture** | stop flag, outputs and their peers, copies of level and offset, exit code | parameters, read loop, write out, best-effort outputs, automatic adjustment, final overrun check | signals against system calls, short writes, clients that leave, a counter read after the device is closed |
| **leveladj, level and offset controllers** (`common/cx_analyze.c`) | level, visited levels, best level; direction and last error | measure, step, settle | oscillation, limits, another writer of the same parameter |
| **Clock generator: buffer pool** (`fifo.c`, `main1.c`, `usb_audio.c`) | two pointer queues, `mode`, core 1's buffer, `audio_buffer` and `off` | core 1: take, fill, put; core 0: the USB transmit callback, the mute control | two cores, blocking puts inside a USB callback, partial writes, a silent ADC |
| **Clock generator: PCM receiver** (`pcm1802.c`, `.pio`) | PIO queue, channel flag, attempts | receive a left/right pair, resynchronise, give up | dropped words, channel swap, an ADC without a clock |
| **Clock generator: clocks** (`clock_gen.c`, `libsi5351`) | cached setups, configured PLLs, the chip's registers | start-up, set ADC rate and card clocks, report them | I2C errors behind a cache; a Pico that restarts while the chip does not |
| **Deployment** (`deploy_dkms_install.sh`, `deploy.yml`) | DKMS records, `/usr/src` trees, module files, kernels, the stamp | stage, remove, build, install, check, prune, verify, stamp | failed builds, kills, kernels that come and go, a file that versions share |
| **The rest**: register map, USB descriptors, levelmon, status and capture scripts, udev rules, build CI | none another part depends on | - | - |

How they interact. A tool opens `/dev/cxadcN`; `open` arms the card and sleeps
on `readQ` until the handler has seen the first period. `read` copies the pages
up to the position the handler published and sleeps for more. `remove` and
`error_detected` set `disconnected` and wake `readQ`; `release` clears `in_use`
and wakes `close_waitq`, on which `remove` waits. Tools set `level` and
`center_offset` through sysfs while the device is open; `cx-capture` reads
`overrun_count` there when it has finished and makes it its exit code. The clock
generator is a separate device: it clocks the cards, and its ADC's words go
through the PIO queue and the buffer pool to the host over USB, in the same
firmware that programs that ADC's clock. The deployment replaces the driver
under all of this, on every kernel a host can boot.

What makes each part correct:

- *life cycle*: one owner; nothing freed while in use, by code or by DMA; a
  failed probe gives back exactly what it took and leaves the card quiet; a session stays armed; blocked
  calls return when the card goes; an unbind ends.
- *ring*: no page before it is filled and no overrun reported that did not
  happen, but for a page the counter shows early; none missed beyond a known
  bound.
- *tools*: the file is complete, the exit code tells what happened, the
  controllers settle wherever they can steer, a stop or an unbind is never held up.
- *pool*: one owner per buffer; no blocking in the callback; a gap-free stream
  of whole frames; both cores go on.
- *receiver*: a channel swap means loss and does not last; buffers keep coming.
- *clocks*: what is reported is what comes out, as long as no transfer failed;
  a change repairs an output that a failure spoiled.
- *deployment*: no kernel a run found with another version's driver loses it
  without having the new one; a stamp is true; a clean run leaves one version,
  but for registrations that were never built; retries converge.

## 2. Plan

| Module | Models | Depends on | Status |
|---|---|---|---|
| A `CxadcDriver` | life of a card, probe to remove | - | done; safety, armed sessions and wake-ups proved |
| B `CxadcRing` | ring and accounting | - | done, safety proved |
| C `ClockgenFifo`, `FrameChannel` | the pool and what it promises | - | done; safety, refinement and the gap-free stream proved |
| D `ClockgenPcm` | PIO queue and pair receiver | composed in E | done, safety proved |
| E `ClockgenClock`, `ClockgenAdc` | clocks over a failing bus; clocks and receiver together | D | done, safety proved |
| F `CxTools` | cx-capture, leveladj and their controllers on one card | the card as A promises it | done, safety proved |
| G `DkmsDeploy` | deployment over kernels and versions | - | done, safety proved |

A component's theorems are in `<module>Proofs`, those of D and E in
`ClockgenAdcProofs`. Left of the plan: a second card in the registry (minors,
hazard at `cxadc.c:1514`), a new module beside A.

## 3. The modules and the code

### CxadcDriver

One action per step of a handler, cut where another actor can see or disturb it:
at lock operations, at reads of `disconnected` and `in_use`, at register writes.

| Variables | Code |
|---|---|
| `pc[p]`, `want[p]` | where process p is in `open` (`o_`), `read` (`r_`), `ioctl` (`c_`), `release` and the failing tail of `open` (`l_`); how much of its `count` is left |
| `core`, `faulted` | the device-lock holder: `probe` (`pb_`), its labels (`un_`), `remove` (`rm_`), `error_detected` (`er_`), power management; `remove`'s snapshot |
| `irq`, `ostat` | the handler, and its local status word |
| `sysfs` | one show or store of a parameter; `"crashed"` on a device without drvdata |
| `linked`, `inUse`, `disconnected`, `errMasked` | registry membership and the fields of the same names |
| `data` | `lgpcnt` as the sleepers see it: -1, the value sampled, another value |
| `listLock`, `ctdLock` | `cxadc_list_lock`, `ctd->lock` |
| `alloc` | what probe has acquired: device, region, object, minor, attributes, ring, mapping, interrupt, node, drvdata |
| `link`, `pciMsk`, `vidMsk`, `intstat`, `engine`, `busMaster` | the card |

The wait queues are the states `o_sleep`, `r_sleep` and `rm_sleep`: a waiter
evaluates its condition in one step, as the kernel does after it has queued
itself, and a wake-up sends it back to that step. A card whose link is down
reads as all-ones and loses writes. `Events` names the environment events an
instance allows; every step of `probe` that can fail may fail in every instance.

Fairness (`Fairness`): the scheduler runs a started system call, a started PCI
callback and a raised interrupt; a running engine on a live card completes
pages; a sysfs access ends; the list mutex hands itself over, so `RemoveUnlink`
is strongly fair. One choice of user space is fair: a process whose card is gone
does eventually close the file (`README.md`, "the unbind blocks until the reader
closes"). No process has to open, read or be signalled.

### CxadcRing

The ring has `N` pages and an interrupt every `P`. Pages are numbered from the
first one ever filled; variables that hold such numbers (`habs`, `labs`, `tabs`,
`start`, `anchor`) are history, as is `late` (a handler ran between `open`'s
reset and its enabling of interrupts), and no guard reads them. The handler's
update is seven steps, because `open` reads and writes the same words without a
lock; `writer_laps++` is a load and a store. `MO_VBI_GPCNT` may be a page ahead
of memory, as the comment at `cxadc.c:1027` says, and that at any page, the last
one of a period too: a handler that was started by an earlier interrupt, or by
another device on the line, then counts the period before its last page is in
memory and before its own interrupt. `CountedEarly` names that page in the
properties. `MaxUnseen` is the number of interrupts the handler may be late by;
an acknowledgement that clears a newer interrupt with the one it saw
(`cxadc.c:1048`) is one way to be late. `MaxFilled`, at least a lap, ends the
model. `MCCxadcRing` has the view of the run `ring`: states are merged that
differ only in what memory holds or, on a dead card, in page numbers, which
neither a guard nor one of its properties reads then.

### ClockgenFifo and FrameChannel

`empty` and `full` are `pipe_empty` and `pipe_full`, sequences of buffer
numbers. `data` says which frame a buffer holds and of which kind, `"torn"`
while core 1 fills it. Core 1 (`pc1`, `buf1`) loops through take, mode, fill and
put; core 0 (`pc0`, `buf0`, `off`) runs the transmit callback, in which
`tud_audio_write` takes between nothing and all of what is left of a payload.
`wire` is the last transfer. `FrameChannel` knows no buffers: a bounded
first-in first-out queue of frames, sent chunk by chunk. The refinement maps its
queue to the contents of core 0's buffer followed by those of `full`.

Fairness: core 1 has nothing else to do; the host polls the isochronous endpoint
every millisecond, so the callback keeps running, and its transfers make room,
so a write that makes progress is not refused for ever.

### ClockgenClock, ClockgenPcm and ClockgenAdc

`ClockgenClock` has core 0's start-up one call at a time (`boot`), the cached
setups (`cache`), the PLLs the chip's driver takes for configured (`known`) and
the chip's registers (`chip`). A call of `si5351.c` is the set of its outcomes:
one without a failure, and those that stop after part of the writes. Results are
ignored where the code ignores them. `ClockReboot` restarts the Pico and keeps
`chip`. `luck` is history and says what transfers have failed.

`ClockgenPcm` has the PIO's next channel and queue, and core 1 in
`fill_buffer`. A word is its channel flag and whether words were dropped before
it. Core 1 polls faster than words come, so a word is pushed into a queue that
is not empty only while core 1 is away (printing, debug output, waiting for a
buffer): the comment at `pcm1802.c:130` measures 150 polls for a word.

`ClockgenAdc` composes the two: words come while output 2 may have a clock, and
core 1's time-outs happen only when it has none. Fairness: core 0 goes through
its start-up; an ADC with a clock sends words; core 1 never stops polling
(strong fairness, since each word that arrives disables a time-out for a
moment).

### CxTools

`cpc` goes through `main` of cx-capture: options, parameters, read-back, open,
loop (test, read, poll, write, monitor, adjust), close, report. A read is two
steps, the test of a leaving card (`CapRead`) and what comes back (`CapData`):
a whole block, a short one when a signal or a removal cut it off, or an error.
`stop` is
`g_stop`, `intr` a signal during the current system call, `left` what
`write_all` still has to write of a block of two units, `client` the peer of a
best-effort output. `apc` goes through leveladj. Both use the controllers of
`cx_analyze.c` as operators: a signal is the level below which it under-fills
the range, the level from which it clips, the level from which it clips badly,
its DC error at offset 0 (`dc`) and what a step of the offset changes (`slope`).
The offset that centres it need not be a whole number, nor be there at all.
The level and the offset at the start belong to the setup. The card is what `CxadcDriver` promises: one
opener, overruns counted since the last open, an unbind that takes the
attributes away and waits for the opener (`Unbind`, `UnbindDone`).

Fairness: both programs are scheduled and `remove` goes on once the file is
closed. No fairness makes the signal, the client or the unbind come.

### DkmsDeploy

One action per command of the helper that changes the host. Revisions are
numbered in the order the checkout has them. `status` is what
`dkms status` reports for a version and a kernel, `file` the one module file a
kernel has, tagged with the revision it was built from: versions share it, so
the two can disagree, and removing one version's record removes the file another
version wrote. A command may fail, also a removal after some kernels, and a failing
`dkms status` lists nothing; the run may be killed between two commands,
and kernels are installed meanwhile or removed between runs, leaving a directory
without `modules.dep` when a foreign module file stays behind. `Start` has
deploy.yml's comparison of the stamp; `WriteStamp` its reload of the module,
which may fail, and its checks after the helper.

Fairness: a run that has started goes on unless it is killed, and automatic
runs keep being started (`SF`: a run can start only while none is running).

## 4. Runs

| Run | Question | Bounds | Result |
|---|---|---|---|
| `driver_safety` | is anything used after it is freed, owned twice, written by DMA after it is freed, or left behind by a failed probe? | 2 processes, every event, shared line | holds |
| `driver_live` | do calls, wake-ups, `remove` and an unwinding terminate, does a session stay armed? | 2 processes; removal, PCI error, dead card, shutdown | holds |
| `driver_tail` | is the object live to the end of `release`? | 1 process | violated, finding 1 |
| `driver_resume` | does a session survive suspend? | 1 process | violated, finding 2 |
| `driver_plugin` | does a setting stored on plugin reach the card? | 1 process, a store at any time | violated, finding 3 |
| `ring` | is a page handed out early, an overrun invented or missed? | N=6, P=2, 13 pages, 2 sessions, late handler, shared line, early counter, dying card | holds, 6.9 M states |
| `ring_clean` | does a clean session lose nothing? | N=4, P=2, 14 pages | violated, finding 4 |
| `fifo_pool` | aliasing, blocking, gaps, refinement, progress | 3 buffers, 2 chunks | holds |
| `tools` | completeness of the file, exit code, settling, stopping, unbinding | 28 setups: three signals with and without automatic adjustment, leveladj beside it and alone from three levels, both kinds of best-effort output, 17 starts of the offset controller | holds, 803 k states |
| `adc` | reported clocks, repairs, channel order, flow of buffers, debug output | one card output and the ADC's, 3 selections, 3 rates, queue of 2, 2 frames a buffer, 2 attempts | holds, 1.1 M states |
| `deploy` | drivers kept, a true stamp, one version left, convergence | 2 kernels, 3 revisions of 2 versions, 2 faults, 2 kernel changes | holds, 3.1 M states |
| `deploy_forced` | is a stamp true when a stamped revision is deployed again? | 1 fault | violated, finding 5 |

Why the bounds are enough. *Driver*: two processes are the fewest that compete
for a session, and every lock and flag is binary; a `read` of one period already
sleeps, is woken and copies. *Ring*: three periods are the smallest ring in which
a handler may be late by one interrupt and the count a period early and still be
late by less than a lap (`NoStall`); thirteen pages are two laps over two
sessions. `LossIsNoticed` states how late the check may notice, `Blind` =
(2 `MaxUnseen` + 1) `P` - 1 pages. *Pool*: three buffers let each core hold one
with one in a queue. *Receiver*: the queue has 8 places and a buffer 64 frames
in the code; a queue of two overflows on an odd and on an even word, and a
buffer of two frames has one after a swap. `Tries` is 65536 in the code; two
let an attempt fail and be repeated, and fail for good. *Clocks*: the rules do
not relate the two card outputs, so one stands for both; selections 0, 1 and 3
are the value that wraps, the setup that differs from the default in its PLL
alone, and one with another divider. *Tools*: a block of two units has a
short write; levels and offsets have their full ranges; the signals have a
window of levels that fit, none, and clipping throughout. The offset cases have
centres at and next to both limits, between two offsets, and below and above the
start, with slopes up to two dead bands, the steepest `Steerable` admits; some
start where it does not steer, which `OffsetSettles` leaves open. *Deployment*: two kernels are a
target and a fallback; three revisions of two versions have both an upgrade and
a new build of the same version; two faults are a failure and a failed retry.

`CHECK_DEADLOCK FALSE` is set where the card is removed or switched off, a probe
has failed, both tools have ended, a deployed host has nothing left to do, or
the page bound ends the model. `SYMMETRY` is used in `driver_safety` only, over
processes no action tells apart; not with liveness. Mutants are operators next
to the definition they replace (`RemoveAtOnce`, `Unrounded`, `CapWriteOnce`...);
no action uses them.

## 5. What is proved

`CxadcDriverProofs`, from `DriverAssumption` alone (any set of processes, any
`MaxWant`, any events):

- `TypeCorrect`, `OwnerIsSingle`, `MemorySafety`, `DmaSafety`, `ProbeUndone`:
  `TypeOK`, `SingleOwner`, `NoUseAfterFree`, `NoDmaIntoFreedMemory` and
  `UnwindExact` always hold, and `ClaimsArePublished`: every step satisfies
  `ClaimOnlyPublished`.
- The properties are not inductive. `NoUseAfterFree` says nothing of why
  `remove` may free: the invariant adds that from unlink on the card is not in
  the registry, that a process between lookup and claim holds the list lock
  (so it is not there once the card is unlinked), that past its wait `in_use` is
  false and stays so, that the handler is idle and unregistered past `free_irq`,
  that bus mastering has been off since `pci_clear_master`, and, for every step
  of `probe` and every label, exactly which resources are live. Each action is
  one step of the proof. `ProbeUndone` needs one thing more: the engine that
  `ProbeStart` starts is off again once the labels have run, on a card that
  still answers (`EngineInv`); on one that does not, bus mastering is off.
- `SessionsStayArmed`: `SessionArmed` always holds if the machine never
  suspends (`NoSuspend`). The hypothesis is needed: `driver_resume` is the
  counterexample (finding 2). `ArmedInv` follows the mask, the engine and the bus
  master through `probe` and says that a process in a session has its two masks
  open, whatever other processes do on their way out of a failed `open`.
- `WakeupsReach`: `NoLostWakeup`, the safety half of `DisconnectReleases`,
  `RemoveCompletes` and `CallsReturn`. Whoever sleeps in `open` or `read` has not
  been passed by a newer position; if the card is disconnected, the code that
  disconnected it has its `wake_up` still to come; and while `remove` sleeps,
  somebody has `release`'s `wake_up` still to come.

`CxadcRingProofs`, from `RingAssumption` (any ring of more than one period, any
number of pages, sessions and late interrupts):

- `RingTypeCorrect`, `NoPageIsEarly`, `OverrunIsReal`: `RingTypeOK` and
  `NoEarlyPage` always hold and every step satisfies `NoFalsePositive`, both
  with the page counted early as their only exception.
- The code sees slots (a page number modulo `N`); the properties are about page
  numbers. `Located` connects the two: what the handler has in hand and what it
  has published are slots of recorded pages no later than the running period
  (`Where`), and the reader is at or before its snapshot, which is at or before
  what is published (`Placed`), though the two were read at different times. So
  the slot test in `read` stops at the right page. No position is past the pages
  the counter may show (`Ahead`), so what is not in memory is the last page of
  the running period and no other. `CountInv` adds the totals: a
  reset that no handler overlapped ends in zeroes, the handler's half-done update
  keeps laps times `N` plus the last count equal to the total (`Sums`), and the
  total never gains more than the pages it stands for (`Behind`), because two
  pages are at least as far apart as their slots show (`SlotGap`). So the check
  in `read` may come late, and early by the transfer of one page at most.
- `RingLossIsSeen`: every step satisfies `LossIsNoticed` if the handler is late
  by less than a lap less one period (`NoStall`; the comment at `cxadc.c:1037`
  gives a lap, and a count that comes a period early takes the rest). Then the total is exact (`Exact`), and a check misses only the pages
  it has not been told of (`Lags`), twice over: once when the session was
  anchored, once now.

`ClockgenFifoProofs`, from `FifoAssumption` (a pool of any size, any payload):

- `FifoTypeCorrect`, `EveryBufferHasOneOwner`, `PutsFindRoom`. The invariant
  is `OneOwner` with a count: the two queues and the two hands hold `Space`
  buffers. A core that is about to put one has it in its hand, so neither queue
  can be full.
- `PoolImplementsChannel`: every step is a step of `FrameChannel` or a stutter.
  It needs `OneOwner`: a write into a buffer in core 1's hand changes nothing
  the channel sees.
- `StreamHasNoGap`: every step satisfies `StreamContinuous`. The frames that wait
  are numbered in a row up to the next one to be made, and the first of them
  follows the last transfer or is what that transfer left unfinished.

`ClockgenAdcProofs`, from the assumptions of the three modules (any card
outputs, selections, queue depth, buffer size and number of attempts, any
failures and restarts):

- `AdcTypeCorrect`: `AdcTypeOK`.
- `SwapsAreLosses`: `SwapNeedsLoss`. In the queue, and from its end to the PIO's
  next word, channels alternate except where words were dropped, and while core 1
  waits for a right word the next one follows a left one (`InTurn`).
- `ReportsAreTrue`, `RequestsRepair`: `ReportIsOutput` always holds and every step
  satisfies `ChangeRepairs`. A PLL taken for configured is locked even after
  failures (`Configured`), since each is set up once a start; without a failure
  the cache of every output is what its registers hold (`Lucky`). Setting up one
  output leaves the others as they were, whichever of its writes fails.

`CxToolsProofs`, from `ToolsAssumption` (any setups and level options: any
signals, and any legal level and offset at the start):

- `ToolsTypeCorrect`: `ToolsTypeOK`; the controllers never leave the legal
  levels and offsets.
- `FileIsComplete`, `ExitCodeIsTrue`: `FileComplete` and `ExitCodeTells`. Before
  its session a program has seen no error; during it no other opener can move
  the count; after it the count stays until an opener that `blind` records
  resets it (`CountIsMine`); the exit code is 1 from the first error on
  (`ErrorKept`).
- `SearchSettles`: `LevelSettles`. Every level tried that under-fills the range
  has its successor tried too (`Upwards`); as long as all have clipped, the
  search goes down (`Downwards`); the best level is the highest tried that did
  not clip (`BestIsBest`). If it under-fills the range its successor was tried and
  clipped, and then so does every level above.

`DkmsDeployProofs`, from `DeployAssumption` (any kernels, revisions, versions
and plans, any number of faults and kernel changes):

- `DeployTypeCorrect`: `DeployTypeOK`.
- `DriverIsKept`: `OldDriverKept`. Up to the prune every kernel the run spares has
  a file, and the prune starts only with the new version installed on all of
  them (`Kept`). It rests on `HostInv`: what is installed of the current version
  after `dkms add` was built by this run, and no record names a version DKMS
  does not know.
- `StampTells`: `StampIsTrue`, if no stamped revision is deployed again and
  automatic runs are of every kernel (`Careful`, what `deploy.yml` does when
  nobody overrides it). `deploy_forced` shows the first condition is needed.
- `PruneIsComplete`: `OneVersionLeft`. Each step of the prune leaves one thing
  for good: no old record but on a kernel that came since and no old registration
  but of a version that was never built, one tree, one revision's files; the
  checks at the end find such a kernel.

A theorem holds without the bounds of the run that checks its property, so
together they leave to TLC alone:

- liveness (`DisconnectReleases`, `RemoveCompletes`, `CallsReturn`,
  `BuffersFlow`, `AudioFlows`, `OffsetSettles`, `RetryConverges` and the others),
  since TLAPS does not reason about fairness and `ENABLED`;
- the violations of section 6, which are counterexamples.

## 6. Findings

1. **`release` outlives its protection** (`cxadc.c:862`). After `in_use = false`
   it still unlocks `ctd->lock` and wakes `close_waitq`; `remove` reads `in_use`
   without the lock and may free the object first.
2. **A session does not survive suspend** (`cxadc.c:1717`). `disable_card` clears
   `MO_PCI_INTMSK`, `resume` restores only `MO_VID_INTMSK`; `open` alone sets
   the other. A reader on a file that was open sleeps until a signal.
3. **Settings on plugin meet a half-made device** (`cxadc.c:1423`,
   `README.md:732`). The node and the attributes exist before drvdata does, and
   a store uses it without a test.
4. **A clean capture is not provably continuous** (`cxadc.c:891`, `README.md:429`).
   The check comes before the copy and uses a total rounded down to the last
   interrupt; the `memset` after the copy can also wipe newer samples.
5. **A stamp can be false after a forced deployment**
   (`deploy_dkms_install.sh:141`, `deploy.yml:301`). The module is removed from
   all kernels before it is rebuilt, the old stamp names the same revision, and
   the next automatic run skips the host.

Divergences the modelling met that have no run:

- `read`, `ioctl` and `release` test `disconnected` and write registers
  afterwards, so MMIO can still be issued once the card is gone (the mapping is
  valid, `NoUseAfterFree`).
- `probe` writes `MO_VID_INTMSK` after it has published the card
  (`cxadc.c:1424`): error interrupts that a session has masked "for the rest of
  the session" (`cxadc.c:124`) are unmasked again.
- The last page of a period can be handed out before it is in memory: a handler
  started by an earlier interrupt reads the counter when it already shows that
  page, and rounding down, which is to leave "the last page that we know should
  have triggered an interrupt" (`cxadc.c:1027-1032`), keeps it. `NoEarlyPage`
  excepts this page. By the same count an overrun can be reported one page
  transfer before the page is overwritten, where `cxadc.c:888` says "this can
  never false-positive"; `NoFalsePositive` excepts this moment.
- leveladj "converges on the highest non-clipping level" (`leveladj.c:6`): it
  stops at the first level that fits the range, and the next may not clip either.
  `LevelSettles` states what it finds.
- The offset controller takes a first step up and reverses when the error grows
  (`cx_analyze.c:189`). Started at 255 with the centre below it does not move;
  started where the error is at its limit with the centre below it goes up to
  255, as that error cannot grow; where a step of the offset changes the error by
  more than twice the dead band it can go to and fro. `OffsetSettles` is stated
  for the other starts (`Steerable`).
- A handler still in flight when the next `open` resets the accounting
  (`cxadc.c:804`) adds a stale lap to it, and an overrun is counted that did not
  happen; and an interrupt between `open`'s two reads (`cxadc.c:839-845`) anchors
  the count a period ahead. `NoFalsePositive` and `LossIsNoticed` are stated
  without the first and hold with the second.
- After a card's death its all-ones count is published as -512, a position no
  page number reaches, and `read` serves stale pages: `NoEarlyPage` is stated
  for a card that answers.
- `cx-capture` reads `overrun_count` after its close: another opener resets it,
  an unbind removes it, and the exit code is 0 (`ExitCodeTells` excepts this).
- A best-effort write that is cut short can leave a client in the middle of a
  16-bit sample, and nothing realigns it (`cx-capture.c:111`).
- leveladj writes the level before its `open` fails with `EBUSY`
  (`leveladj.c:106`), so it disturbs a capture it cannot join.
- After a failed transfer the same clock request again is taken for done
  (`clock_gen.c:155`), although the reported setup is not what comes out; only
  another setup repairs the output.
- A version that is only registered (the run was killed between `dkms add` and
  the first build) is not pruned, as `all_dkms_versions` reads another field of
  its status line (`deploy_dkms_install.sh:186`). The script
  promises "exactly one version" (line 43) and to remove "every trace" of the
  others (line 236), `INSTALL.md:166` that a healthy host shows "only the current
  version". `OneVersionLeft` states the exception.
- A deliberately narrow run writes the stamp although other kernels lost the
  driver at line 141.
- `OldDriverKept` is about kernels that are bootable when a run starts and carry
  another version's driver. A rebuild of the same version takes the old module
  first (line 141), and the prune takes the module of a kernel that arrives while
  the helper runs; the run then fails or the next one repairs it (`StampIsTrue`,
  `RetryConverges`).

## 7. Not modelled

Sample values, gains, AGC and picture registers (one step of `open` and of
`resume` stands for them), the arithmetic of the Si5351's register values;
partial pages in `read`; what `cx_analyze` computes from samples (its verdict is
an input); levelmon and cxadc-status, which only display; option parsing and
path handling, beyond how they fail; several cards and minors; module init and
exit, straight-line code nothing interleaves with; the tools and configuration
files the deployment copies unconditionally; several lossless outputs of one
capture; compiler reordering and weak memory between the handler and the readers
(steps are atomic and in program order); TinyUSB, the Pico SDK, the PCI core,
the VFS, DKMS itself and the wait queues, which appear as the services the code
relies on. The register map, USB descriptors, scripts over sysfs, udev rules and
build CI keep no state.
