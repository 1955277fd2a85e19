# A verification of the CNC mill's PetaLinux software

This directory holds TLA+ specifications of the software in this repository,
the TLC configurations that check them, and theorems about them that TLAPS
checks.  The repository is a PetaLinux project for a Zynq board that drives a
CNC mill and an HDMI monitor.  Its own code is a handful of out-of-tree kernel
modules and small programs, and the board's initialisation, tables of register
operations with an interpreter; everything else is generated, vendored or
configuration.  Below, `RM` stands for
`src/project-spec/meta-user/recipes-modules` and `RA` for
`src/project-spec/meta-user/recipes-apps`, `HD` for `src/project-spec/hw-description`.

## 1. Inventory

| component | state it keeps | operations | status |
|---|---|---|---|
| `RM/axidmaout` (`axidmaout.c`) | two DMA buffers, fill position, fill and active buffer, length of the waiting buffer, cookie | `write`, `poll`, attribute `write_dma`, DMA callback, open, release, probe, remove | modelled but for a remove while it is used |
| `RM/axidmaout` (`axidmaout copy.c`) | | | an older design, not built, not modelled |
| `RM/cnccontroller` | the control register and its mutex | attributes `reset`, `stop_clear`, `stop_reset`, `enable_reverse`, `opcount`; probe, remove | modelled |
| `RA/axidmapolltest` | loop counter, two descriptors | resets the stop, then polls and writes buffers | modelled |
| `RM/dynclk` | rate reported, registers of a clock manager (MMCM) | `set_rate`, `round_rate`, `recalc_rate`, `enable`, `disable`; probe, remove | modelled |
| `RM/digilentencoder` | `clk_enabled` | `mode_set`, `enable`, `disable`; EDID, mode filter; probe, bind, unbind, remove | modelled but for the queries (EDID, mode filter) |
| `RA/libvrc`, `RA/kmsdemo` | frame buffers, CRTC, current buffer, memory allocated | init, page flip, copy, close, new resolution | modelled |
| `RM/dmalooptest` | two channels, two completions | one loopback transfer inside probe; remove | modelled |
| `RM/testadder` | four registers | attributes, interrupt, probe, remove | probe and remove modelled |
| `RA/DMApolltest`, `RA/dmatest`, `RA/peekpoke`, `RA/gpio-demo` | none to speak of | register or file accesses in sequence | not modelled |
| `HD/ps7_init.c`, the board's initialisation | five tables at work, a position, the registers of the chip | `ps7_init`, `ps7_post_config`, `ps7_debug`, for three versions of the silicon | modelled |
| `HD/ps7_init_gpl.c` | | the same file under another licence | (the same) |
| device trees, `configs`, kernel and u-boot fragments | | configuration | not modelled, but `pcw.dtsi` is compared with the tables |

### How the parts interact

* `axidmapolltest` stores to an attribute of `cnccontroller` (sysfs), then polls
  and writes the device of `axidmaout`.  The two drivers do not know of each
  other; in hardware the stream of the second feeds the block the first controls.
* `axidmaout` calls the DMA engine (prep, submit, issue); the engine calls back
  `tx_transfer_complete` in a tasklet.  Writers, flushers, pollers and the tasklet
  share the driver's state under one mutex (`buff_ctrl_mutex`, held over a whole
  write) and one spinlock (`buff_ctrl_lock`, held for a few lines at a time).
  `setup_DMA_transfer` runs under neither.
* `digilentencoder` sets the rate of the clock that `dynclk` provides and enables
  it, through the kernel's clock framework, which calls `set_rate` under a
  prepare lock and `enable`/`disable` under an enable lock.  By
  `system-user.dtsi:113-116` another driver (the timing controller) uses the same
  clock.
* The driver core calls each driver's probe when a device and everything it needs may
  be there, again when a probe asked to be deferred, and its remove when it is unbound
  or its module is unloaded.  Attributes and interrupts are reachable from within
  the probe until within the remove.
* `libvrc` talks to the DRM subsystem, which binds the encoder driver and calls its
  `mode_set`, `enable` and `disable`.
* The first stage boot loader calls `ps7_init` before anything else runs, then
  `ps7_post_config` when the fabric is loaded.  What Linux finds (clocks, pins,
  memory, level shifters) is what they left.

### What is hard, and what makes each part correct

* **axidmaout.**  Who sends a full buffer, the writer or the callback, is decided
  from two indices; both read and act on them under different locks.  Right means:
  never two transfers and never none (`OneTransfer`), no write into a buffer the
  engine reads (`FillerOwnsBuffer`, `BufferStable`), no poller asleep beside a free
  buffer (`NoLostWakeup`, `PollerWakes`), and, over all, that the device is a
  stream: what is written comes out once, in order, cut into padded bursts
  (`StreamSafe`, `StreamLive`).
* **cnccontroller.**  Read, change and write back of a shared register: no store
  lost, no other bit changed (`ValueIsFresh`, `StoresAreAtomic`), no store stuck
  (`StoreReturns`).
* **axidmapolltest.**  It acts on an answer that may be stale and ignores results:
  right only if each write is taken whole (`WholeWrites`), the stop is reset first
  and stays so if its attribute could be opened (`StopResetFirst`), and what is
  queued when it exits or aborts is still sent (`EverythingSent`).
* **dynclk, the arithmetic.**  A search in integer arithmetic with roundings and
  limits: a legal result (`PickIsLegal`, for references of up to 900 MHz), the best one (`NoBetterMode`,
  `SearchFindsMode`), encoded in registers that mean it (`RegistersMatch`), and
  the same one for a rate already rounded (`RoundedRateIsReached`).
* **dynclk, the operations.**  Six registers written one by one while an enable may
  start the hardware, and loops that wait without a limit: a running clock runs at
  the rate reported (`RunsAtReportedRate`), an enabled one runs
  (`EnabledClockRuns`), and the callers return (`CallersReturn`).
* **Probes and removes.**  Every call may fail, and the labels that undo the earlier ones
  are written by hand: nothing is left behind however many probes fail
  (`NothingLeaked`), nothing is released that is not held (`ReleasesOnlyHeld`), no kernel
  object outlives what it refers to (`NothingDangles`), and a store or an
  interrupt that comes in between finds what it uses (`CallersAreSafe`).
* **dmalooptest.**  The probe judges a transfer by a wait that a timeout or a late
  callback of an earlier probe may end: what it logs must be true
  (`TruthfulVerdict`, `FreedWhenDone`, `NoFalseTimeout`).

* **libvrc.**  A structure describes a screen that follows it a vertical sync later, and a
  change of resolution frees that structure, allocates another and copies it back
  over the freed one.  Right means that the caller's pointer stays good and nothing
  leaks (`OwnsItsMemory`), that structure and screen agree (`ScreenIsCurrent`), and
  that one who waits for the sync shows no half picture (`NeverTorn`).
* **The board's initialisation.**  Several hundred writes in a fixed order to hardware that
  answers in its own time: nothing is taken into use before it is ready
  (`ClocksFromRunningPll`, `ReleasedWhenReady`), the reset pulse of the USB
  transceiver is long enough (`PhyResetPulse`), a success means that not one write was lost
  (`ConfiguredOnSuccess`), that the clocks are what the header says
  (`RunsAtHeaderFrequencies`) and that the devices Linux will use have clocks and pins
  (`EnabledDevicesReady`), and every call returns (`CallReturns`).

`PROJECT.json` lists every hazard at its line, those no property covers yet with
the reason.

## 2. The modules

| module | what it is | extends |
|---|---|---|
| `BurstStream` | abstract: what the axidmaout device promises | |
| `AxiDmaOut` | the driver: `axidmaout.c`, lines 104-372 | refines `BurstStream` |
| `ControlBits` | abstract: atomic stores to bits of a register | |
| `CncController` | the four stores of `cnccontroller.c` | refines `ControlBits` |
| `CncController_proofs` | theorems about it | `CncController` |
| `PollApp` | `axidmapolltest.c` over the two drivers | `AxiDmaOut`, `CncController` (INSTANCE) |
| `AxiDmaOut_proofs` | theorems about the driver, its refinement, and the program over both drivers | `PollApp`, `CncController_proofs` (INSTANCE) |
| `Mmcm` | the pure functions of `dynclk.c` | |
| `Mmcm_proofs` | lemmas and theorems about them | `Mmcm` |
| `FindModeSearch` | the loops of `dglnt_dynclk_find_mode`, step by step | `Mmcm` |
| `FindModeSearch_proofs` | theorems about it | `FindModeSearch`, `Mmcm_proofs` |
| `DynClk` | `dynclk.c` and `digilentencoder.c` under the clock framework | `Mmcm` |
| `DynClk_proofs` | theorems about it | `DynClk`, `Mmcm_proofs` |
| `DriverLifecycle` | init, probe, bind, unbind, remove and exit of the six platform drivers | |
| `DmaLoopTest` | the transfer in the probe of `dmalooptest.c` | |
| `DmaLoopTest_proofs` | theorems about it | `DmaLoopTest` |
| `LibVrc` | `libvrc.c` and `kmsdemo.c` with the allocator and the DRM | |
| `LibVrc_proofs` | theorems about it | `LibVrc` |
| `Ps7Ops` | the operations of a table, and runs of them that come back | |
| `Ps7Data_3_0`, `_2_0`, `_1_0` | the seven tables of each silicon version | `Ps7Ops` (the later ones INSTANCE the earlier) |
| `Ps7Init` | `ps7_init.c`: the interpreter, the three functions, the hardware | `Ps7Ops`, the tables (INSTANCE) |
| `Ps7Init_proofs` | theorems about it | `Ps7Init` |
| `MC...` | values of constants for TLC | |

### AxiDmaOut

Variables carry the names of `struct device_data`.  A thread's locals
(`bufnumber`, `count`, `dma_data`) are functions of the thread; `pc` says where it
is.  A step is a stretch of code that nobody can observe half done: a critical
section of the spinlock is one step; the mutex is held over several;
`setup_DMA_transfer` is three (`Pad`, `Submit`, `Issue`).

| code | actions |
|---|---|
| `dma_write` 293-356 | `WriteLock`, `WriteCheck` (busy test), `WriteCopy` (cut to the room left, copy, may fault), `WriteQueue` (claim or leave to the callback), `Unlock` |
| `write_dma_store` 104-155 | `FlushLock`, `Flush`, `Unlock` |
| `setup_DMA_transfer` 237-292 | `Pad`, `Submit`, `Issue` |
| `tx_transfer_complete` 175-219 | `CallbackStatus` (returns on an error), `CallbackClaim`, then the setup steps, then `CallbackWake` |
| `dma_poll` 357-372 and poll(2) | `PollWait`, `PollCheck`, `PollAgain`, `PollTimeout` |
| DMA engine (external) | `HwTransfer`, `HwFail` |

Byte number k accepted from user space is the number k, so that content and order on the
stream can be compared with what was written; a copy that faults leaves `Junk`.
Cookies are counted, `completed` is the last the engine finished, so that the status
the callback asks for is the status of the cookie the driver stored last.

Left out: what is logged; `dmaengine_prep_slave_single` returning NULL, which the
driver does not handle; the return value of the store of `write_dma`.

### CncController

A store is `Store`, `Lock`, `Read`, `Write`, `Unlock`.  The four functions differ in their
bit only, so bit and value are parameters of `Write`.  The register is the set of
its bits that are 1.

### PollApp

`step` is where `main` is; its calls run the actions of the two drivers for the
thread `App`.  `Operator` is any other program that stores to the other attributes.
Opens may fail, and the program goes on without the descriptor, as it does.  `PollFails`
is the call of poll that fails, before the driver is asked or with the thread asleep: the
assertion ends the program (`aborted`) with whatever it wrote still under way.

### Mmcm, FindModeSearch and DynClk

`Mmcm` translates the arithmetic line by line except `FindMode`, which says what the
two nested loops return (the first of the best candidates) without them;
`FindModeSearch` is the loops, one iteration to a step, with their early exit, and is
checked against `FindMode`.  Integers are unbounded in both; that the code's u32 do
not wrap is a theorem (`ArithmeticFits`).  The registers are what the code computes,
and `RunsAt` is how the clock manager reads them.  `Legal` is the manager's limits as the code
defines them (lines 44-54): the numbers exist, oscillator and phase detector are in range.  Of the two tables of lock and
filter constants the model keeps which row is taken.

`DynClk` has one step per register write.  `Finish` is what the framework does when the
operation returns; `Lock` is the clock manager, which locks if the registers it was
started with are a mode within its limits.

### DriverLifecycle and DmaLoopTest

The probes differ in what they acquire, in which order, and where their labels go, so
each function is a table: a sequence of calls with what a call acquires and what its
error path releases (`AxidmaoutProbe`, ... , `EncoderRemove`).  The tables name one
resource per kernel object and leave out calls that cannot fail and leave nothing.
The rest of the module is the driver core, external: it runs the tables call by call,
releases what `devm_` functions acquired, tries a failed probe again, unbinds and unloads.
Releasing waits for functions that run through what is released, as `device_unregister`
and `free_irq` do; `Needs` is what a kernel object refers to.  Releasing what is not there
stops the model, as it stops the kernel, but for `free_irq`, which only warns.  The
device tree of the board names the monitor's bus, so the encoder's probe takes it.
When the display is complete the component framework binds the encoder (`Bind`), the
display switches its clock on and off (`SwitchClock`) and goes again (`Unbind`), at which
`digilent_hdmi_unbind` must give the clock back.

In `DmaLoopTest` the probe, the engine and its callbacks are the actions; `Remove` leads
to another probe, which finds the completion objects, two globals, as the last one left
them.  Memory that cannot be allocated or mapped is left out: the code does not look.

### LibVrc

The heap is kept because the code depends on it: `drmControlClose` frees the caller's
structure last, so that the `malloc` of the following `drmControlInit` returns the same
block, and the copy in `setNewResolution` copies the structure onto itself.  `mem` is what
the blocks of that size hold, `bin` the free ones in the order they are taken again.  The
model assumes an allocator that reuses what was freed last for the next request of the
same size (the cache of glibc does), that three structures share one size on the 32 bit
processor (a `drm_cntrl` and a mode have 68 bytes, the card's resources 64, one chunk of
72), and that the program itself frees nothing of that size in between.  The reading of a
buffer's size after its structure is freed (line 269) is then harmless too: freeing
overwrites the first eight bytes of a block, where the size is not.

`Exit` is every `exit(EXIT_FAILURE)` and `Killed` a signal; both leave the rest to the kernel,
as the code does.  The first requests for resources and connector (lines 45-47 and 75-83)
pass blocks as `malloc` returned them, after a change of resolution with what their last use left in
them: counts and pointers the kernel may write through.  The model has only one outcome of that
besides success, the refused request (`Exit`); what a kernel that follows a stale pointer
would overwrite is not modelled.  `Flipper` is a program that does what the comments of the library offer;
`KmsDemo` is the one in the repository.  `Half` is a picture being written.

### Ps7Ops, Ps7Data and Ps7Init

A table is a sequence of records, one per `EMIT_` line; a register is a name, and what is
written to it a function from the fields the comments name to their values.  Each table is
the concatenation of named parts.  The three versions repeat each other over 12 000 lines;
`Ps7Data_2_0` and `_1_0` say which parts are equal and what differs in the others.  The
value and mask of every operation were compared with the fields in the comments.

`Ps7Init` interprets the tables: one step per operation, a poll one step per read.
`damaged` is an entry that has no opcode (`PS7_INIT_CORRUPT`).  `OPCODE_CLEAR` is left out, no
table contains one.  The hardware is external and only as detailed as the properties
need: the lock of the SLCR loses writes, a PLL locks some time after its reset is lifted
or never, the calibration of the pins and the DDR controller need their clocks, the global
timer counts.  The boot ROM leaves the PLLs running or bypassed, and the timer used.

A table is also a program without jumps, and what has been done when a function comes to one of
its steps can be read off its text: `Was` is the last value put into a field before the step,
`Seen` a poll answered since which a field was not set, `Effect` all that was put.
`TablesAssumption` says in these words what the authors of the tables took care of: a write
comes with the SLCR unlocked, a PLL is bypassed before its reset and taken into use after its poll,
a release after what it needs, nothing that can fail stands inside the reset pulse.
TLC evaluates it over every table of every version before the run `boot`.

## 3. The runs

| run | states | shows |
|---|---|---|
| `driver` | 2.2 million | two threads that write, flush and poll in any mix, an engine that may fail: type, `OneTransfer`, `FillerOwnsBuffer`, `FillPosition`, `NoLostWakeup`, `BufferStable`, and the refinement `StreamSafe` |
| `driver_live` | 124 000 | without failures: `PollerWakes`, `StreamLive` |
| `driver_error` | violation | `WaitingBufferQueued`: see Findings |
| `control` | 2 900 | three threads, four attributes, a reserved bit: `ValueIsFresh`, refinement `StoresAreAtomic`, `StoreReturns` |
| `poll_app` | 22 000 | the program over both drivers, with opens and polls that fail: `WholeWrites`, `StopResetFirst`, `EverythingSent` |
| `find_mode` | 240 000 | 72 rates, each with the design's reference and with 13 others at and past the limits: `PickIsLegal`, `RegistersMatch`, `RoundedRateIsReached`, `SearchFindsMode`, `NoBetterMode` |
| `find_mode_clkdiv` | violation | `BestClkDivForEachFb`: see Findings |
| `dynclk` | 5 500 | encoder and two other consumers, three pixel clocks: `RunsAtReportedRate`, `EnabledClockRuns`, `CallersReturn` |
| `lifecycle` | 689 | six drivers, every failure, attributes and interrupts of `cnccontroller` and `testadder` in use: `NothingLeaked`, `ReleasesOnlyHeld`, `NothingDangles`, `CallersAreSafe` |
| `loop_test` | 200 | probes with errors, timeouts and late callbacks: `TruthfulVerdict`, `FreedWhenDone`, `NoFalseTimeout` |
| `boot` | 47 000 | all tables of all versions, hardware that answers late or never, two calls: `ConfiguredOnSuccess`, `RunsAtHeaderFrequencies`, `EnabledDevicesReady`, `ClocksFromRunningPll`, `ReleasedWhenReady`, `PhyResetPulse`, `CallReturns` |
| `libvrc` | 294 | two modes, two pictures, both programs, failures and kills at any moment: `OwnsItsMemory`, `ScreenIsCurrent`, `NeverTorn` |

### Bounds, and why they are enough

* A buffer of 4 bytes with an alignment of 2 has full bursts, short ones and ones
  that need padding; 6 bytes in all (`MaxBytes`) fill one buffer and part of the
  other, or several flushed bursts, so both buffers are used in both roles and the
  indices wrap.  Liveness has no symmetry and uses 2-byte buffers; with 5 bytes both
  buffers are filled, waited for and used again.  The theorems hold for all values.
* Two threads beside the tasklet: one in the mutex and one that waits, flushes or
  polls.  Two sleeping pollers tell waking one from waking all.
* `PollApp` has 4 rounds for the program's 100: fill, queue, wait, and once around.
* `find_mode` takes the reference of the design (`pl.dtsi`, `ps7_init.h:91`) with rates over
  the whole output range and past its ends, and references around each limit the
  search cuts at.  `NoBetterMode` is claimed for the reference of the design,
  `PickIsLegal` for references of up to 900 MHz; the two above it for which there are
  candidates break the detector's limit (see Findings) and are taken for the other properties.
* `dynclk`: three rates give modes that differ in every register, so that mixed
  registers exist that do and that do not lock.
* `lifecycle`, `loop_test` and `libvrc` have no bounds: failures, probes, unbinds and
  unloads repeat without limit.  The drivers do not share anything, so each behaviour has
  one of them.
* The failures the code does not handle (`Mishandled`) happen too, but after one
  (`spoilt`) leaks and double releases are not held against the rest of the run: a failed
  registration of `axidmaout`, `cnccontroller` or `testadder` leaks their class; a failed
  device of `cnccontroller` leaks the mapping, one of `testadder` is kept as an error
  pointer that the remove unregisters; `testadder` without an interrupt number
  is bound without a device, and without its interrupt frees it nevertheless; a
  failed component of the encoder keeps its reference to the bus.  No property covers
  what these failures do, `NothingDangles` included.
* `lifecycle` calls into `cnccontroller` and `testadder` (`Called`).  It does not call
  into `axidmaout`: its device is there before its channel is and outlives it, so a write
  at that moment uses a channel that is not there.
* `boot`: a poll gives up after 2 reads (`POLL_TIME`) instead of 100 000 000; what counts is
  that an answer may come before, between and after its reads.  The timer advances 200 000
  cycles at a time (`TICK`) and stops being counted at 800 000 (`MAX_COUNT`), of which a
  millisecond is 333 333: a delay that starts from a stale count ends at once.
  Two calls (`MAX_CALLS`) are a boot, a boot that fails and is repeated, and a
  `ps7_post_config` or `ps7_debug` after it.  The version register is 0, 1, 2 or unknown; at most one
  entry is damaged, in one of two tables (`Damages`).  The tables are whole.

`CHECK_DEADLOCK FALSE` in `lifecycle`, where some of those failures end in a kernel that
stops; in `boot`, `libvrc` and the runs of the search, which end; and in those of `DynClk`: a
`set_rate` whose clock another consumer disables at the wrong moment really hangs, and
`CallersReturn` says when.

### Fairness

* `AxiDmaOut`: threads that run a system call go on (the kernel schedules them), the
  tasklet runs when it is due, the engine finishes what it was given.  Nothing obliges a
  thread to call, and a poll is not assumed to time out.
* `CncController`: a thread inside a store goes on; the mutex, a kernel mutex that hands
  over to its waiters, is strongly fair to each.
* `PollApp`: the same, and the timeout of a poll is relied on only when there is no device
  to poll.  That a poll fails is never relied on.
* `Ps7Init`: the processor goes on and the timer, once started, counts.  Nothing makes a PLL lock,
  a calibration end or the memory come up: `CallReturns` rests on the polls' limit alone.
* `DriverLifecycle`, `DmaLoopTest` and `LibVrc` claim no liveness and assume none.
* `DynClk`: callers go on, the clock manager locks if it can, and the enable lock, a
  queued spinlock, is strongly fair.  Nothing obliges a consumer to call.

## 4. Findings

* **`axidmaout.c:190`.**  On a failed transfer the callback returns before it touches
  `DMA_active_buffer`.  The comment in `dma_write` (line 328) counts on the callback to queue
  a buffer left to it; after one error that never happens, writes return 0 and polls
  sleep for ever.  Run `driver_error`.
* **`dynclk.c:344`.**  The comment promises the best divider for each multiplier.  The code
  rounds the ratio of two frequencies, which is not the divider with the nearest
  frequency when the divider is small: for 427500 from 100000 with multiplier 6 it takes 1
  (off by 172500), 2 is off by 127500.  Run `find_mode_clkdiv`.  The search as a whole
  still finds the best mode for the reference of the design (`NoBetterMode`).

Seen in reading, and not given a run of their own: the failures listed under Bounds;
`cnccontroller.c:229` returns the error of the wrong pointer; `dynclk.c:328` starts the search
at a main divider of 2 at most, so that for a reference above 900 MHz it tries and picks modes with the phase
detector above the 450 MHz of line 47 (no reference of this board, 100 MHz, comes near); `dmalooptest.c:163` frees
buffers the engine may still write to; `libvrc.c:269` and `:301` use freed structures, which
the allocator happens to make harmless (`OwnsItsMemory`).  Comments that do not describe
the code: `libvrc.c:6` and `:109` say four dumb buffers (two), `:9` that buffer 1 is mapped first (0),
`:12` and `:207` that a failure returns -1 (it ends the process), `libvrc.h:39` that
`current_fb` is the buffer mapped to the CRTC (not while a flip is pending);
`ps7_init.h:58` and `:60` give codes of their own to polls of the DDR and the PLLs (all report 2),
and the texts for 4 and 5 are exchanged in `ps7_init.c:12113` and `:12114`.

## 5. What is proved

All theorems hold for every value of the constants, under the named assumptions the
modules declare: the tasklet and "nobody" are not threads, the buffer is a positive
multiple of the alignment (`SizeAssumption`), attribute bits are not reserved bits
(`BitAssumption`), rates and references are natural numbers (`RatesAssumption`), the clock's reference is
not 0 kHz (`ParentAssumption`), the program is not the other process (`AppAssumption`), the bounds of
the boot sequence are natural numbers (`Ps7Assumption`) and its tables are as `TablesAssumption` says.

**The driver** (`AxiDmaOut_proofs`): `TypeCorrect`, `TransferIsUnique`, `FillerIsOwner`,
`PositionInRange`, `WakeupsArrive`, `TransferIsStable`.  The inductive invariant `IInv` joins
`TypeOK`, `OneTransfer`, `FillerOwnsBuffer`, `FillPosition` and `NoLostWakeup` with `Control`
(who is in the mutex, what locals hold at each label).  They need one another: a
writer may claim only because the buffer it fills is not the active one
(`FillerOwnsBuffer`), which stays true under the callback only because the life of
the one transfer is known (`OneTransfer`), which stays true at a claim only because
locals were not left over (`Control`).  `OneTransfer` names the four stages of
a transfer; one lemma per action shows that it moves the transfer from
a stage to the next or leaves it.  `BufferStable` follows because whoever writes
to a buffer (`Store`, `Pad`) is, by `IInv`, not in a stage with a submitted transfer of it.

`DriverImplementsStream` is the refinement: `Spec => StreamSafe`.  It needs to know what is in the
buffers: `Data` says that the bytes accepted are those sent, those of the claimed burst, those
waiting and those being filled, in this order (`Accounted`), and that each buffer holds
the bytes it stands for (`ActiveData`, `WaitingData`, `FillingData`); `BytesAccounted` is that this
is invariant.  Then `WriteCopy` maps to `Accept`, the claim and the hand-over to the callback to
`HandOver`, `HwTransfer` to `Transmit`, and every other step to a stutter, one lemma each.

**The control register** (`CncController_proofs`): `NoStaleWrite`, and from it the refinement
`StoresImplementBits` of the abstract `ControlBits`: `Lock`, `Read` and `Unlock`
map to stutters or returns, `Write` to the atomic change, because the
value changed is the register's.

**The streaming program** (the last part of `AxiDmaOut_proofs`): `UsesTheDrivers` shows that each
step of the program and its environment is a step of each driver or leaves it alone, so that the
drivers' invariants hold of the composition. With them `AppInv` follows a round from the poll to
the write: between a POLLOUT and the write nothing but the callback moves, and it only frees
buffers (`WritesAreWhole`); and `NoStaleWrite`'s invariant keeps the other process from storing
back a register without the stop bit (`StreamsAfterReset`).

**The functions of the clock driver** (`Mmcm_proofs`), for every frequency and reference:

* `CandidateLegal`: rounding up the lower limit and down the upper keeps the oscillator in range and
  the phase detector above its minimum for every reference, and the detector below its maximum for references of up
  to twice that maximum, 900 MHz, since the first main divider is at most 2 (`WithinLoops`).
  `ModesHaveRegisters`, `DividerRoundTrip` and `CountRoundTrip`: the
  hardware reads back the divider that was encoded, for all 128.
* `ArithmeticFits`: nothing wraps in 32 bits.  For references above 1.2 GHz there is no candidate
  (`NoCandidateAbove`).
* `ErrorBelow`: every candidate is closer than `OUTMAX`, the error the search starts with, so that the
  first is always kept.  A divider of 1 is rounded to only near the oscillator's frequency
  (`ClkDivOne`); any other divider halves it at least.
* `BestExists`, `BestUnique` and `FindModeIs`: the `CHOOSE` of `FindMode` means the one first best pair.
* `AnswerIsReached`: `find_mode` asked for what it answered answers the same.  The ratio that is
  rounded to a divider is the true one within 32 thousandths (`RatioBounds`: half a thousandth for each
  of up to 64 counts of the multiplier); an answer is at least 4000 and its divider at most 128, so its
  own ratio is within 64 thousandths of that divider and rounds to it (`SameDivider`).  An answer
  above `OUTMAX` is asked for as `OUTMAX`: asking for more never raises a divider (`ClkDivAntitone`), and
  the two or three dividers then left allow no closer pair (`AboveMaximum`).

**The search** (`FindModeSearch_proofs`): `PicksAreLegal` for every rate and every reference of
up to 900 MHz, `RegistersAlwaysMatch` for every rate and reference.  `IInv` adds to the type the ranges of the two
loop variables at each label, what they make of the pick (`PickWithinLoops`, from which both follow) and that
the pick's frequency is what its numbers give (`PickOutput`).
`SearchIsFindMode`, that the loops return what `FindMode` defines, adds `SearchState`: of the pairs the
search is past (`Tried`), the one kept precedes all others, and at the end those not tried cannot
precede it, because they come later and the match was exact, or because there are none.
`RoundedRatesAreReached` adds that the second search is for an answer of the first (`AsksForAnswer`), and
is `AnswerIsReached` then.

**The clock driver** (`DynClk_proofs`): `ReportsItsRate` and `EnabledMeansOn`, for any consumers, rates and
reference.  The invariant says which registers are written so far (`Writing`), that outside
the writes they are those of the rate reported (`RegsMatch`), that the manager runs with the
registers it has unless a `set_rate` is between its first write and its stop (`RunsOnRegs`), and that
it is on if used, unless `set_rate` is about to start it again (`IsOn`).  That the registers of a
mode give its frequency is `ModesHaveRegisters`.

**The loopback driver** (`DmaLoopTest_proofs`): `VerdictsAreTrue`, `BuffersOutliveTransfers` and
`TimeoutsAreReal`.  `Current` is what matters: from `init_completion` on, a completion object has been
completed, is about to be, or has been waited for, exactly if this probe's transfer has ended, so that
nothing an earlier probe left there can end a wait.

**The frame buffer library** (`LibVrc_proofs`): `PointerStaysGood`, `StructureMatchesScreen` and
`WaitingNeverTears`, for any modes and pictures, under `PicturesAssumption` (a picture is not a half
one).  The invariant is `Heap` (the structure is block 1 at any moment, mode and resources
exchange 2 and 3, so the stack of free blocks is one of two), `Kernel` (what is
scanned out against what the structure says) and `Drawing` (a half picture is the job's
buffer, which is neither shown nor about to be).

**The boot sequence** (`Ps7Init_proofs`), for any damage of an entry, any limit of the polls, any
hardware that is late or silent and any number of calls: `SuccessIsConfigured`, `ClocksRun`,
`ReleasesAreReady` and `PulseIsLong`.  They are about the interpreter and the hardware; what
they take from the tables is `TablesAssumption` and no entry of them.  `IInv` says that
while a function has not failed, the hardware is as the steps before its `Cursor` say (`Follows`):
registers hold the effect of those steps, a PLL that was seen to lock is locked, what was
calibrated is, the lock is as it was last set.  A failure makes `Follows` false and that is
allowed, because nothing is done after it but another call, before whose first step there are
no steps.  `HardwareInv` is what holds without regard to the program: a PLL in reset is not locked and
one that is not locked is bypassed.  One lemma says what a write changes
(`WritePllsFollow`, `WriteDdrFollows`, `WriteLockFollows` in `WriteKeeps`), one each what a poll, an
exit, a failure and a call do; `NextOpFollows` and `ExitFollows` that the
cursor moves to the next step of the text.

`PulseIsLong` needs `PulseInv` besides: the pin is set low only inside the pulse, and a delay that is over
has lasted as long as the timer counted since it was started, at no more than the rate it was
computed for (`SpeedHolds`).  It assumes that no entry of the peripherals table is damaged
(`UsbTableIntact`): a failure inside the pulse would leave the pin low, and the next call
could raise it at once.

`TypeOK` of `FindModeSearch` is a conjunct of its inductive invariant and proved with it; no
run lists it.

**Only model-checked:**

* all liveness (`PollerWakes`, `StreamLive`, `StoreReturns`, `EverythingSent`, `CallersReturn`,
  `CallReturns`), which is out of the prover's reach;
* `DriverLifecycle`, which is finite: its constants only choose among drivers, failures and entries,
  the run takes all there are, and a theorem would have no more values to speak of;
* `RunsAtHeaderFrequencies` and `EnabledDevicesReady`: after `SuccessIsConfigured` they are facts of
  the numbers in the tables, which TLC computes and a prover would have to assume;
* `NoBetterMode`, which is a fact of one reference clock and not of the algorithm: with
  others, such as 10 MHz, it is false.

## 6. Not modelled, and what is left

* **A remove of `axidmaout` in use.**  The remove gives back the channel before the device is
  gone and frees the buffers with files open and transfers under way.  What follows
  is decided by the DMA engine's driver and the freed memory, not by this code; the order is
  visible in `AxidmaoutRemove`.  Open and release of the device only find its data.
* **`dmaengine_prep_slave_single` returning nothing** (`axidmaout.c:276`): the pointer is
  dereferenced and the kernel stops; there is no reaction to model.
* **`axidmaout copy.c`** is not built.  **`DMApolltest`** does to the driver what `axidmapolltest` does.
  **`dmatest`**, **`peekpoke`**, **`gpio-demo`** and the bare metal self test access memory or
  files in sequence, with no state and nobody beside them.
* **The encoder's queries** (detection, EDID, mode filter) return something and change nothing.
* **`testadder`'s registers** are single accesses to an adder in the fabric.
* **Device trees and configuration** are data; what the models need of them is named above.
