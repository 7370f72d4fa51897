# Verification of the CnxADSL driver

CnxADSL is a Linux kernel driver for PCI ADSL modems with Conexant's AccessRunner
("Tigris", P46) chip.  The driver carries ATM cells between the chip and the Linux ATM
stack: it segments packets into AAL5 frames and cells, hands the cells to the chip's ARM
processor over DMA rings, and reassembles what comes back.  This directory holds TLA+
models of its core, TLC configurations that check them on small instances, and theorems
about them that TLAPS checks for every value of the constants.

Every definition is translated from the C source under `src/KernelModule` and, for the firmware
loader, `src/DownLoadApp`.  Two things
are external and modelled only from how the driver uses them: the firmware of the ARM
and the line behind it.  `dpcontroller.o`, the data pump controller, is a binary without
source and is not modelled at all.

Contents:

1. [The system](#1-the-system)
2. [The modules and the code](#2-the-modules-and-the-code)
3. [What the runs check](#3-what-the-runs-check)
4. [Assumptions: bounds, fairness, processors](#4-assumptions)
5. [What is proved](#5-what-is-proved)
6. [Where code and comments disagree](#6-where-code-and-comments-disagree)
7. [What is not modelled, and the plan](#7-what-is-not-modelled-and-the-plan)


## 1. The system

### Layers

    Linux ATM stack        open/close/send (SmLnxIf.c)           push frame
      |                                                             ^
    Card management        CardMgmt.c  CardMgmtVc.c  CardMgmtLink.c  |
      |                                                             |
    Buffer management      BufMgmt.c   per-circuit packet queues     |
      |                                                             |
    AAL layer              FrameALAAL.c  cells <-> frames            |
      |                                                             |
    ATM layer              FrameALATM.c  FrameALATMShaper.c  FrameALATMOAM.c  FrameALHec.c
      |                    (FrameAl.c: the frame abstraction around AAL and ATM)
    Chip abstraction       ChipALCdsl.c  (adapter, link, ISR, DPCs)
      |
    DMA channels           ChipALDMAChanP46.c  transmit ring, receive ring
      |
    ARM command path       ChipALIoP46.c (commands, responses)  ChipALBusCtlP46.c (interrupts)
      |
    ===== PCI =====        chip, ARM firmware, line

Calls go down the layers for configuration, but data is *pulled*: the transmit handler of
the DMA channel asks upwards for one cell at a time, through the ATM and AAL layers, to
the packet at the head of a circuit's queue.  The receive handler pushes cells up the same
way.  So the layers meet in three execution contexts: the thread of the caller (open,
close, send), the DPC (tasklet) of a channel, and the interrupt.

### Components

For each: what it keeps, what it does, what is hard about it, what makes it correct.

**DMA channels** (`ChipALDMAChanP46.c`; modelled).
State: a ring of segments, each ready, pending or with the ARM, with a stored command;
`NextSegment`, `CurrentSegment`; the channel state; `Busy` and `SegmentLock`.
Operations: the transmit and receive data handlers, the complete and full handlers called
from the interrupt, Enable, Disable, Open, Close.
Hard: the data handlers hold a lock, the interrupt handlers and Disable do not; several
callers enter a data handler; commands can be refused, acknowledgements lost, segments
rejected, the channel stopped with segments in flight.
Correct when: the ARM and the host never use the same segment at once, cells keep their
order and appear once, nothing is stuck while the channel is enabled.

**Virtual circuits and buffer management** (`BufMgmt.c`, `CardMgmtVc.c`; modelled but for
diagnostics and configuration strings).
State: per circuit four queues (ready and in-use, both directions), a context in each
layer, the flags Connected and VF_READY.
Operations: BufMgmtSend, and the four calls of the AAL layer that take and return buffers;
allocate, activate, shut down.
Hard: set-up and teardown take several steps in a thread while interrupt handlers call
into the circuit; `InVCALCNXT` is the only guard; a return takes the oldest buffer, whichever
one the caller means; allocations fail.
Correct when: both layers agree on the buffer in use, no packet is lost, duplicated,
reordered or leaked, nothing is left behind by a close.

**AAL layer** (`FrameALAAL.c`; AAL5 modelled).
State: per circuit the packet being cut and the buffer being filled, pointers and
remaining lengths.
Operations: pad and trail a packet, hand out its cells, collect cells, check length and
CRC, flush.
Hard: the padding and trailer lie in the packet's own memory or in scratch memory, in four
combinations; the walk over the two is spread over one call per cell; cells get lost and
frames get too long for the buffer.
Correct when: the cells sent are those the CRC covers, and a frame passed up is one sent.

**ATM layer** (`FrameALATM.c`; the choice of the next cell is in `Shaper`, the search for a
cell's circuit and the order of OAM cells in `Oam`, its calls into a circuit in `BufMgmt`).
State: the table of circuits, the transmit slots, `InVCALCNXT`.
Operations: ask circuits for a cell in the shaper's order, build headers, demultiplex by
VPI/VCI, dispatch OAM cells.
Hard: circuits come and go while cells are demultiplexed; a search that fails leaves its
variables on the last slot; handles of circuits are kept.
Correct when: a cell goes to the open circuit with its VPI/VCI or to none.

**Traffic shaper** (`FrameALATMShaper.c`; modelled).
State: a slot table shared by all circuits, in which each slot names the slot to try next; per circuit a
step size and a credit in fixed-point numbers; a flag that says whether shaping is on.
Operations: add and withdraw a circuit, compute the steps, build the table, add
credit at each tick, check the line's rate, choose the circuit for the next cell.
Hard: the thread that opens a circuit and the timer that checks the line compute the same
table, and only turn the flag off meanwhile; pointers into a table that has shrunk; rounding.
Correct when: every active circuit has its slots and is reached from any slot, and no
circuit with a cell waits for ever.

**OAM cells** (`FrameALATMOAM.c`; which cells are owed and when they go, in `Oam`).
State: one loopback reply with the handle of its circuit, a counter of circuits that owe their
first cell, a cell that announces the link.
Hard: the reply outlives the circuit it names; the counter stands for circuits that are
closed before they have sent.
Correct when: each owed cell goes out once, and none is counted to a circuit that is gone.

**HEC** (`FrameALHec.c`; not modelled): the header checksum, which this hardware computes
itself.

**Frame abstraction** (`FrameAl.c`; its circuits are in `BufMgmt`, `Oam` and
`Shaper`, its set-up, shutdown and timer in `Driver`): joins AAL and ATM layers, link events,
statistics that are swapped from a timer.

**Card management** (`CardMgmt.c`, `CardMgmtLink.c`; loading, starting and unloading the driver is
in `Driver`, the life of a circuit in `BufMgmt`, link up and down in `Link`).
State: configuration, link state, the circuit list, the main timer.
Hard: a start can fail at any allocation and can be tried again; unloading races timers,
threads and interrupts.
Correct when: nothing is used that is not there, what is brought up is taken down once and in
the right order, and all parts of the driver agree about the link.

**Chip abstraction** (`ChipALCdsl.c`; its link enable, link disable and soft timer are
actions of the DMA modules, its ISR and the ARM's tasklet are in `ArmIo`, its start and
stop in `Driver`).
State: event handlers, the event words of ISR and tasklets, the adapter's state.
Hard: handler lists and event words are changed without a lock, or with a lock on one
side only; halt races timers and tasklets.
Correct when: an event that is set is handled, and no handler runs after the adapter is gone.

**ARM command path** (`ChipALIoP46.c`) and **bus control** (`ChipALBusCtlP46.c`; modelled for
the ARM function of the chip).
State: one command register, a software FIFO behind it, one slot per kind of response;
interrupt masks and a disable count shared by two functions of the chip.
Hard: boot loader commands mask an interrupt that the end of any other interrupt unmasks
again; callers race the interrupt that empties the FIFO; one FIFO entry is written per interrupt.
Correct when: commands reach the ARM once and in order - this is what `armq` in the DMA modules
and the FIFO of `ArmLoad` assume - and none of them waits for ever.

**ARM abstraction** (`ARMAbstract.c`) and **firmware loader** (`src/DownLoadApp/cnxadslload.c`;
modelled in `ArmLoad`).
State: the position in the firmware file, the step of the load in the driver, commands and
response handlers that hold a pointer to the waiter's event.
Hard: a wait that ends after a second, or because cnxadslload got a signal, has its event on the caller's stack, while the
command and the response that signal it are still on their way; a load given up half way leaves
commands and words behind for the next one, and their completions look like its own.
Correct when: the ARM starts only what was loaded completely, and a signal finds its waiter.

**Timers** (`UtilTmr.c`; `Link`), **threads and events** (`KThread.c`, `LnxTools.c`; as steps of
`Driver` and `ArmLoad`).
State: a block of timer slots that the main timer's softirq runs down, and threads search and
change.
Hard: a handler that starts its own timer again, a thread that clears or starts a slot in
three assignments without a lock.
Correct when: a timer that was cleared does not run, one that was started does.

**Board and modem drivers** (`CardAL*.c`): set-up and shutdown in `Driver`, the indications of
the line in `Link`; registers and diagnostics are not modelled.
**Linux and PCI interfaces** (`SmLnxIf.c`, `SmSysIf.c`): set-up and shutdown in `Driver`; the rest is not modelled.
**EEPROM** (`ChipALSEmw.c`), **console** (`CnxTTY.c`), **diagnostics**, **cell test generator**, **string
helpers** and the other **user tools** are not modelled; section 7 says why.


## 2. The modules and the code

| module | models | its state | its actions |
|---|---|---|---|
| `CellPipe` | what a DMA channel promises | cells taken, cells out, whether it may lose cells | Take, Emit, Lose |
| `DmaTx` | transmit ring | ring, lock, callers, disable, ARM queue, line | Enter .. Advance: the loop of DmaTxDataHandler; Enable; DisableMark/Stop/Reset; the two interrupt handlers; the ARM |
| `DmaRx` | receive ring | the same, with cells stored and passed up | the same for DmaRxDataHandler |
| `BufMgmt` | a circuit's life, its queues, and the AAL layer's hold on them | stage, contexts, four queues, calls in progress | Open*, Close*, Send, Enter/Return and the cases of each call |
| `Aal5` | AAL5 segmentation and reassembly | packet, plan of its cells, walk, line, receive buffer | TakePacket, GetCell, PutPacket, LoseCell, RxCell, RxFrame, RxDiscard, RxTooLong |
| `CmdChannel` | what the command path promises | commands sent, commands got | Send, Deliver |
| `ArmIo` | command register, `WriteFifo`, interrupts, event words | register, FIFO, masks, latched interrupts, ISR, tasklet | Lock/Queue/NoMemory/Write: CalP46ArmWrite; Isr*; Dpc*; the ARM |
| `Driver` | load, start and unload of the driver | which objects are allocated, which pointers are set, timers, threads, the interrupt and its lists of handlers | one per step of CmgmtOpen's ioctls and CnxtDsl_exit; Expire, Restart, Interrupt, ThreadWork |
| `Link` | the connect timer and what says that the link is up | timer slots, five flags, the indicating thread | IndicateLinkUp/Down, Clear*, StoreErrors, Start*, LinkDownStep; Expire, Noise |
| `Shaper` | traffic shaping and the choice of the next circuit | circuits with steps and credit, slot table, position in it | Open, Add, Close, Withdraw, Steps*, FillTable, SetFlag; Tick, CheckLine; TakeTurns, Shape |
| `Oam` | OAM cells and the search for a cell's circuit | circuits, the counter of first cells, the reply, the link's cell | Open .. CountFirst, Close, Free; SendReply, SendFirst, SendLink, ClearCount; RxLoopback |
| `ArmLoad` | loading and starting the firmware | the loader, the driver's step, events, command FIFO, handlers, the ARM's memory | LoadStart, Read*, Record*; Send*, DataSent, GotRoutine, NotifyArmReady, Ready, Timeout; Killed; the interrupt; the ARM |
| `MC*` | instances for TLC (`Driver` and `Link` need none) | | the properties of each component |
| `DmaTxProofs`, `DmaRxProofs`, `BufMgmtProofs`, `Aal5Proofs`, `ArmIoProofs`, `DriverProofs`, `LinkProofs`, `ArmLoadProofs` | theorems of `DmaTx`, `DmaRx`, `BufMgmt`, `Aal5`, `ArmIo`, `Driver`, `Link` and `ArmLoad` | | |

How they fit: `DmaTx` and `DmaRx` implement `CellPipe` (checked by TLC and proved).
`BufMgmt` uses the transmit pipe as `wire` and cuts a packet into a number of cells without
looking inside; `Aal5` looks inside a packet and its cells, and uses a line that loses cells
but keeps their order, which is what a `CellPipe` that is `lossy` gives it.  `ArmIo` implements
`CmdChannel` (checked by TLC and proved): commands arrive once and in order, which is what the
DMA modules assume of `armq` and what `ArmLoad` assumes of its register and FIFO.  A refused command of
the DMA modules and `WriteRefused` of `ArmLoad` are `NoMemory` of `ArmIo`.  `Shaper` decides which circuit is
asked for the next cell, `Oam` which cells go before that question is asked; both see of a circuit
the steps of its set-up that matter to them, `BufMgmt` sees the rest of it.  `Driver` is the frame in which all of
this happens: the other modules start when it has brought the adapter up.  `Link` tells when the channels of the DMA
modules are enabled and disabled.

Definitions whose name contains an underscore after a definition's name
(`Post_...`, `DisableReset_IndicesOnly`) are not part of a model.  They are variants with a plausible
bug; replacing the original by the variant makes a property of the module's run fail, which
shows that the property depends on that piece of code.

### DmaTx and DmaRx

`env` is a variable that never changes: it says on what machine the behaviour runs (several processors
or one, cells per segment) and how often each failure may happen.  Initially it is any element of the constant
`Settings`, so that one run covers several instances, and a property can be stated for those it is meant for.

`seg` is `pChanExt->Segment`, with the state and the fields of the stored command that matter;
`next` and `cur` are `NextSegment` and `CurrentSegment`.  `DmaTxDataHandler` is split where other
contexts can see a difference: at the test of Busy and State before the lock (`Enter`),
at the lock, at the fill, at the marking of the segment, at the write of the command, and at the step to
the next segment.  A command's handle is computed from `NextSegment`, its memory from `pSegment`; the
model keeps both, since they differ once Disable has reset the ring under a handler.
The interrupt handlers are one action each: nothing interrupts them on their own processor, and
each completes within a few assignments.  Interleavings of *parts* of an interrupt handler with a data handler
on another processor are not modelled.

The ARM (`ArmTake`, `ArmStop`, `ArmSend`/`ArmFill`, `LoseAck`) takes commands in the order written, works
on segments in that order, may have no room for one (the "queue full" response) and reports a stopped segment
with what was done of it.  These are the responses the driver's handlers are written for.

### BufMgmt

A circuit is closed, being opened (`init`), open, or in one of the steps of a close
(`check`, `release`, `drain`, `free`).  `sap` stands for the two function pointers that let the
handlers in; `active` is `InVCALCNXT`.  A call into the circuit is three steps - look for the
function pointer (`Enter` makes it `found`), raise the flag, return - because that is the window between the
check and the flag.  The work of each call is one step even with several processors; races *inside*
the queue operations (which take a lock) are not modelled.  A call whose context has been freed stops in the model: what freed memory does is
not modelled, only whether the code gets there.

### Aal5

Payload is a range of offsets, a cell is the range it carries, where it lay
(`[mem, off]`) and whether it has the trailer.  `FrameALAALTxProcessBuf` is `Plan`: how many bytes stay in the
packet's memory, how many go to `ExtraPad`, and from where payload was moved.  The CRC
covers the cells of the plan in order, and is ideal: it tells different frames apart.
The peer is another such driver.

### ArmIo

`reg` is the command register; the hardware bit CMDE of STAT is `reg = NoCmd`.  `latched` is the
interrupt status register, `ier` the mask, `event` and `post` the two parts of `IsrEvent` (hardware events,
and the one event decoded from a response).  `CalP46ArmWrite` is two steps, since on another processor
the ARM and the ISR go on between its read of STAT and its write: `Lock` reads STAT, and one of
`Queue`, `NoMemory` and `Write` does the rest.  A step of the ISR is one handler or one access to a
shared word.  The master enable bit and `DisableCount` are not variables: `irq # "idle"` says the same as
long as only the ISR nests a disable.

`InterruptStatus` is read and written in separate steps on both sides: by the tasklet in `DpcMask` and
`DpcStore`, by the ISR in `IsrDecode` (which reads) and `IsrSetEvent` (which writes).  The code sets the bit of a
decoded event twice in a row, at `ChipALIoP46.c:1313` and `ChipALCdsl.c:2873`; the model once, over the
time of both.  Bits of events without a handler in the tasklet are left out: they make it loop once
more and do nothing.  On one processor a writer or a tasklet does not run while the ISR does, but the model lets
a writer and the tasklet interleave, which real threads and tasklets do a little less freely.

The ARM takes a command and raises CMDE; the boot loader answers each of its commands, does not take another
before it has, and does not queue its answers (the comment at `ChipALIoP46.c:875-876`); events are reported
at any time.

### Driver

`live` is the set of objects that are allocated, `ptr` the set of those whose pointer is not NULL.  The
two differ where the code frees and does not clear, or clears before it frees.  `Use(who, os)` records in `fault`
everything `who` uses that is not both.  Each action is one routine, or the part of it up to
the next allocation, the next free, or the next place where it waits.  A routine that fails goes on where the code's
error path goes.  The contexts of the three register controllers and the two DMA channels are objects of their own, which are
allocated one after the other: without one of the controllers ChipAL is halted, without one of the channels the link's shutdown closes the other.
`hooks` are the objects that have handlers in the lists of the interrupt; the interrupt gives a handler its object without looking at any
pointer, so that the handlers have to be out of the lists before the object is freed.  `FailAt` leaves out the allocations whose failure the code does not survive (section 6).  One task runs the
loader's ioctls in any order and as often as it likes, or unloads; the three timers that start themselves again, the interrupt and the
three kernel threads run beside it.  On one processor a timer's handler ends before the task goes on, on several
(`smp`) it does not.  The circuits' memory belongs to `BufMgmt`; a second task in an ioctl at the
same time is not modelled.

### Link

A slot of the timer block is two facts: it has a function (`act`), and its references are the connect timer's (`ref`).
`UtilTmrClearTmr` and `UtilTmrStartTmr` look at one slot after the other and change the one they find in two further assignments,
and the main timer's softirq may run between any two of these steps, which are `ClearFind` (one slot each time, by `Search`), `ClearAction`, `ClearRest`
and `StartFind`, `StartAction`, `StartRest`.  A timer that expires during a search and starts itself again in a slot already passed
is not found.
`up` holds the five flags and channels that say the link is up; the handler sets them at once, the thread clears
them one by one (`LinkDownStep`).  Errors are a flag, `noisy`: more of them than the limit have been counted
since they were stored.  `raced` is history: a timer expired while the thread was `Inside` ClearTmr or StartTmr, from the moment it had
passed its first slot.  `cardALChkAdptrStrucsOkNotDnldgDP`, which the indications and the timer's handler ask first, looks only whether
pointers are NULL in spite of its name (`CardALTigrisLC.c:1109-1118`); none of them is while they run.

### Shaper

Numbers are the code's fixed-point numbers with `One` for FRACTIZE(1).  `Layout` is the slot table as
`FrATMShBuildSlotTable` leaves it, in two functions: the owners of the slots, by rounds in which the circuit
with the most slots left takes the next one, and the pointers to the next active circuit.  The
thread's computation is three steps, since the softirqs may come in between: the circuit's entry (`Add`,
`Withdraw`), the step sizes of all circuits (`Steps`), and the table (`FillTable`).  `CheckLine` is the timer's
recomputation, `Tick` its credit.
`Overlap` says whether the line may be checked while the thread builds the table (section 6).

### Oam

Cells are not looked into: a received cell is its address, a reply is the handle of its circuit
(`Link` for VCI 3 and 4, `NoReply` for none), a circuit's first cell is a flag.  `Found` is the search of
`FrameALATMDeMUX` with what it leaves behind when nothing matches: the last slot.  That matters for OAM cells only: a cell
with data is compared again before it is passed up, and is not modelled here.  `inits` is
`VCWithInitCellsToSend`, which `Close` leaves alone and `ClearCount` clears when no circuit has a cell to send.
`CloseOwing` says whether a circuit may be closed while the reply names it.

### ArmLoad

The loader's file is a sequence of records: addresses, data, goto, end.  A data record is as many
`SendWord`s as it has words, each with a wait for its completion, as in `processDataRec`, which counts the bytes
of a record down by words; that a record is made of whole words is part of the module's assumption.  `HoldsFile` says what
the file wants in memory, and `WellFormed` of which files that can be said: they give a byte one value, and
no data follow the record that starts the program.  TLC evaluates it for the instance's files.  What signals an event
is `note`: in a queued command (`fifo`, `reg`) or in the handler of a response (`onRead`, `onConf`).
It is "live" as long as the function that waits has not returned, and "dead" after; `dead` records that a dead one
was signalled.  The ARM (external) stores words, starts at an address, and answers.

A wait is `wait_event_interruptible_timeout`: it ends without its event after a second (`TimesOut`), and at once when the program
gets a signal (`Interrupted`).  In both cases the function returns and leaves its command and its handlers behind.  `faults` is
the set of what may go wrong in a behaviour, in any combination, and never changes: with "late" the ARM is as slow as it
likes, so that a wait may time out while commands are under way; with "signal" the program may get one at any time; with "memory"
commands can be refused; and a "dud" firmware may answer with 0 when it is asked for its command routine (`routine`).
Without "late" a second is long enough for all that is under way.

Three variables are history, and only properties read them: `cut`, a wait was given up while something was under
way; `vain`, the last command of the data record was refused; `misled`, the function that waited for such a
command was woken all the same.  LOAD_START can follow a load that was completed: the code takes it until
DSL has started.  The command HW_COMMAND_SYNC is never written (the call is commented out), and the handler that is added
for its response is removed after a millisecond without having been called, so that both are left out.


## 3. What the runs check

| run | instance | question and answer |
|---|---|---|
| `tx` | 3 segments, 5 cells; (a) several processors, 2 cells per segment, a refused command and a lost acknowledgement; (b) one processor, 1 cell per segment, with a stop and a rejection besides | The data handler never touches a segment under the ARM's hands, and the ring's two counters enclose exactly the ARM's segments (`RingSound`); the ring does not wedge (`NeverWedged`); the channel is a `CellPipe` that loses nothing without a stop or a rejection (`CellsInOrder`), and then every cell is sent (`EveryCellSent`). Holds. |
| `rx` | 3 segments, 4 cells; (a) several processors, 2 cells per segment, a lost report; (b) one processor, 1 cell per segment, stop, rejection, refusal | The same for the receive ring: `RingSound`, `CellsInOrder`, `OnlyNewCells`, the ARM gets its segments back (`NeverStarved`), and what it hands over is passed up (`EveryCellDelivered`). Holds, under the conditions written in the properties. |
| `bm_vc` | 3 packets of 1 or 2 cells, 3 buffers, 2 opens, one failing allocation, one processor | The life of a circuit: queues in sync with the AAL layer (`TxInSync`, `RxInSync`), nothing lost, mixed up, left behind or returned too soon, every packet released. Holds. |
| `bm_races` | 2 packets, 2 buffers, several processors, early cells, late sends | What survives all races: `EachBufferOnce`. Holds. |
| `aal5` | lengths 40, 41, 88, 140; five kinds of room; two buffer sizes; 3 frames; 2 lost cells | Cells are what the CRC covers (`CellsAsCovered`), frames passed up are intact and in order (`FramesIntact`), and good frames arrive (`GoodFramesArrive`). Holds. |
| `arm_run` | 3 calls with a boot loader command and an ordinary one, 2 reports of 2 events, one processor and several | The command path is a `CmdChannel` (`CommandsInOrder`), what waits is always due (`NextCommandDue`), the ARM catches up with the callers (`EveryCommandTaken`), and on one processor no event loses its bit (`EventsKept`). Holds. |
| `driver` | one processor and several, 3 runs of the loader's start, up to 2 failed allocations out of 11 kinds | Whatever fails, however often the start is tried and whenever the driver is unloaded: nothing is used that is not there (`NoFault`), and at the end nothing runs and nothing is left (`UnloadsCleanly`). Holds. |
| `link` | 3 timer slots, 4 indications, 3 bursts of errors | The thread's view, the timer block and the five places that know about the link agree between indications (`LinkAgrees`); a line that stays up brings the link up, races or not (`LinkComesUp`). Holds. |
| `shaper` | 3 circuits with a rate or none, table of 6 slots, a rate that is shaped and one that is not, 2 opens, one training | The slot table belongs to the circuits there are, and from any slot all of them are reached (`TableServes`); every cell is sent while the line stays up (`EveryCellSent`). Holds. |
| `oam` | 2 slots, 3 addresses, 3 opens, 2 trainings, 2 loopbacks, no close of a circuit that owes a reply | The counter of first cells is never too small for the circuits that owe one (`FirstCellsCounted`); every cell the ATM layer owes goes out (`EveryOamCellSent`). Holds. |
| `oam_close` | the same, circuits close at any time | The comment's "Get a cell from one of the active VCs" for a reply. Violated. |
| `armload` | 3 files, 2 pins, 2 runs of the loader, words of 2 bytes; a late ARM, signals, 2 refused commands, a firmware without a routine, in any combination | The ARM starts only what was loaded, every byte at its address, unless a stale completion passed for that of a refused command (`StartsWhatWasLoaded`); no event is signalled after its waiter returned unless a wait was given up with something under way, and the firmware's go follows its configuration (`SignalsReachWaiters`); every load ends, and succeeds if nothing goes wrong (`LoadEnds`). Holds. |

Each property is stated, with the behaviour it is about, in the MC module of its component,
or at the end of the component's module where there is none or where it is also proved.

### Conditions inside properties

Some properties hold only outside of certain cases, and say so:

- `RingOrder` and `ArmOwnsSegments` (in `RingSound` of the receive ring) leave out `rejects > 0`: a
  segment the ARM had no room for is handed out again behind later ones, so that receive
  order and ring order part.  `RingSound` of the transmit ring leaves out nothing.
- `OnlyNewCells` leaves out refused commands and stops: after those the receive handler takes the size
  stored with the command for a count of new cells and passes old cells up again (section 6).  That no
  cell is passed up a second time leaves out rejected segments, too, for another reason given there.
  `CellsInOrder` of the receive ring leaves out the setting in which any of the three can happen.
- `EveryCellDelivered` leaves out lost reports, whose cells are lost, stops, and rejected segments and refused
  commands, after which a filled segment waits for the completion of another one.
- `EventsKept` says that a bit is kept on one processor only: on several it is not (section 6).
- `NoFault` is stated for one processor, where the handler of a timer ends before the task goes on, and
  leaves out a link that comes up while it is being shut down (`Late`): the connect timer is not cleared, and its handler
  can find the channels' and the frame layer's memory freed.
- `UnloadsCleanly` leaves out the main and the frame timer on several processors (section 6).
- `LinkAgrees` leaves out behaviours in which a timer expired inside ClearTmr or StartTmr, their searches included (section 6); `LinkComesUp`
  holds in these too.
- `SignalsReachWaiters` allows a signal to an event that is gone once a wait was given up, by its time or by a signal to the
  program, while the ARM had not done all it was given (`cut`; section 6).  What it claims is that nothing else leads there:
  no refused command, no answer of a dud, no load that fails or is run again.
- `StartsWhatWasLoaded` allows the one start of an incomplete image that the code makes possible (`misled`; section 6).  It holds
  with a late ARM alone, with signals alone, and with refused commands alone, and after loads given up half way.
- `CellPipe` is lossy after a stop or a rejection (transmit), and after a lost report (receive).


## 4. Assumptions

### Bounds

Numbers of cells, packets, opens and of each kind of failure are bounded by constants, in
the guards of the actions that count them.  They are large enough for the cases at issue:

- Three segments are the fewest for which "the next", "the current" and "another one" differ,
  and four or five cells with up to two per segment wrap the ring at least once and leave a segment half full.
- One failure of each kind, at any moment, with the others: each handler
  of a failure runs in each state of the ring, and again after it has recovered.
  The runs have two callers, the smallest number that race.
- Two opens let a circuit inherit what the first close left behind; three packets fill the
  in-use queue, the ready queue and the list of those that have gone back at once.
- Lengths 40 and 41 are the two sides of the boundary between one cell of padding and two,
  88 is that boundary in the second cell, and 140 takes four cells, more than either buffer
  holds.  Three cells, which two frames merged by a loss make, fit a buffer of 160 bytes and fill one of 144.  Rooms 0, 6, 7, 9 and 56 reach all four branches for padding and trailer.
- Three calls put one command into the register and two into `WriteFifo`, so that order matters there;
  two reports let an event be decoded while the tasklet handles another or the same one.
  Four calls were checked once for the safety properties, with the same result.
- Three runs of the loader and two failures let a start fail, be tried again, fail elsewhere and succeed or be unloaded.
  Three controllers and two channels let a failure come before, between and after the others.
- Three timer slots let the timer be found in the first, the last and between free ones, and start itself again before or behind the search; four indications are two
  whole cycles of the line, so that one inherits what the last one left.
- Two opens of three circuits, with a rate or without, give tables with one owner, with two of equal and of
  different shares, and a table that shrinks under the position in it.  `One = 6` is the smallest
  unit that `ShaperAssumption` allows for three circuits at a limit of 2.
- Two slots and three addresses let an unknown address meet a table whose last slot is used, and one where it is not; two
  loopback cells are one too many for the buffer.
- The firmware files have a linear address, a segment address with a jump, and no end; data records have one word and two.
  Two runs of the loader are a load that is given up or completed, and one that meets what it left behind; with two refused
  commands a record of either can lack its address and a word.
  The loader runs again only after it has ended.

### Processors

`Smp` says whether other processors run while one holds a lock with interrupts off.
Where the code is right only on one processor, the run says so.  With `Smp` TRUE and a stop, the
transmit ring wedges and reorders: Disable takes no lock, and a data handler that
marked a segment before the reset posts it after.  The driver was written for single-processor
machines; the models show which of its guarantees depend on that.

`Settle` says that the ARM has finished with the old session when the link comes up again.
Retraining an ADSL line takes seconds, and segments milliseconds.  Without it a completion of
the old session is taken for one of the new.

The two conditions together are `Calm` in the theorems of the DMA modules: until the link has gone down
once, nothing is assumed; after that, that there is one processor and that the ARM settles.  Both runs are
of machines for which it always holds.

`Machines` in `ArmIo` and `Driver` is the set of both kinds of machine; `Link`, `Shaper` and `Oam` are for one processor.

`EarlyCells` (the peer sends while the circuit is being opened) and `LateSends` (Linux sends
while it is being closed) are FALSE in `bm_vc` and TRUE in `bm_races`.  Section 6 says what
an early cell does.  A late send is accepted and freed with the context.

### Fairness

- The ARM takes commands and sends or stores cells (weak fairness): it is a processor of
  its own with nothing else to do.
- Interrupt handlers have strong fairness: on one processor a lock with interrupts
  off disables them again and again, but a pending interrupt stays pending.
- A handler that has entered runs to its end (weak fairness).
- The soft timer enters the transmit handler again and again (strong fairness): `chipAlSoftTimer` restarts
  itself every 40 ms.  Nothing is assumed of the other callers, so `EveryCellSent` rests on the
  timer and the completion events alone.  The same goes for a packet waiting in
  `BufMgmt`: nothing tells the channel that it is there.
- The DPC of the receive channel runs when its event is set (Linux runs scheduled tasklets).
- In `ArmIo` a caller that holds WriteLock goes on, the ISR runs when an interrupt is pending and it may,
  a scheduled tasklet runs, and the ARM takes and answers commands (weak fairness each: none of
  them is disabled again and again).  Nothing makes a caller call or the ARM report.
- A thread that opens or closes a circuit runs on (strong fairness where handlers may hold it up).
- In `Link` an indication that has begun ends, and a timer that is set expires (weak fairness): the
  main timer restarts itself.  Nothing makes the line go up or down.
- In `Shaper` and `Oam` the thread goes on, the frame layer's timer ticks and checks the line, and the transmit channel
  asks for cells while the line is up (weak fairness): in the code it asks every 40 ms at the latest.
- In `ArmLoad` the loader, the driver, the interrupt and the ARM go on (weak fairness); waits end by themselves.
- `Driver` is checked for safety only.

### Deadlock

TLC checks for deadlock except where the bounded system stops by design: in `rx` when
the line has no more cells (or, after a refused stop, the ARM keeps its segments), in the
circuit runs after the last close the bound allows, in `aal5` when all frames are sent, in `arm_run`
after the last call and report, in `driver` once the driver is gone, in `link` after the last indication,
in `oam` when nothing is owed, and in `armload` after the last run of the loader.
`tx` and `shaper` check it.


## 5. What is proved

All theorems hold for every value of the constants the modules' assumptions allow: any number of
packets, cells, buffers, opens and failures, any packet lengths below 2^16, any memory room, any sets of
commands and events, any number of timer slots above one, any number of calls, reports and indications, any number of runs of the loader, any firmware files of whole words, any ring of at
least two segments with up to 255 cells each, any number of handlers that race for it, and any number of
refused commands, rejected segments, lost acknowledgements and stops.  A proof module begins with the facts about its data that
its proofs need: queues in a row, what Tail, Append and \o make of a sequence, distances modulo the size of a ring.

### DmaTxProofs

| theorem | statement |
|---|---|
| `TxTypeCorrect` | `Spec => [](Calm => TypeOK)` |
| `TxRingIsSound` | `Spec => [](Calm => RingSound)` |
| `TxCellsInOrder` | `Spec /\ []Calm => CellsInOrder`, the refinement of `CellPipe` |

`RingSound` says where the segments are, and nothing of the order in which the ARM has them; but
the handler of a completion only steps to `CurrentSegment` + 1, so that it is right only if completions come in
the order of the ring.  The invariant is therefore about a window of w places, counted from `cur` around the ring:

    Ring(w)    the segments marked as the ARM's are the w places from cur on, and next stands at their end
    Inside(w)  each command and response on its way is about a segment in the window, and says what is stored with it
    InOrder    commands and completions on their way follow each other in the order of the places
    RingOK  == state = "enabled" => \E w \in 0 .. N : Ring(w) /\ Inside(w) /\ InOrder

A window of N places and one of none look the same to the two counters; the segments' states tell them apart, which
is why w is a parameter and not computed.  A completion for another segment than `cur` (one before it lost its acknowledgement) moves
`cur` past several at once, and a rejected segment comes back as pending at `next` only: these are the two steps that
need `InOrder`.  `Local`, the part about types, the lock's holder and the steps of Disable, comes first; it gives `TxTypeCorrect`.

For the refinement, cells are numbered as supplied.  Each segment on its way holds consecutive numbers (`Numbering`);
the segments' ranges follow each other from the ARM through its queue to the one being filled (`Sequence`), behind what is on
the line (`OnLine`); and until the link goes down or a segment is rejected each number not on the line is in one of them (`NoGap`).

### DmaRxProofs

| theorem | statement |
|---|---|
| `RxTypeCorrect` | `Spec => []TypeOK` |
| `RxRingIsSound` | `Spec => [](Calm => RingSound)` |
| `RxOnlyNewCells` | `Spec => []OnlyNewCells` |
| `RxCellsInOrder` | `Spec => CellsInOrder`, the refinement of `CellPipe` |

The receive ring is tighter: what is reported, being filled and queued are, one after the other, the last places of the window
from `cur` on (`Queued(w, b)`), and the b places before them are those whose reports were lost, which
the next completion makes up for.  `RxOnlyNewCells` and the refinement number the cells as received: a
segment the host has not passed up yet, or whose report is on its way, holds a batch of consecutive numbers above all that went
up (`Batch`); batches follow each other around the ring and from the ring to the reports (`FreshOrder`,
`FreshFirst`, `ReportOrder`); and while no report is lost every number received is in one of them (`AllThere`).
That each batch *was* received holds with rejected segments too, by an invariant of its own (`CellsStored`).
`OnlyNewCells` and `CellsInOrder` are for machines on which no stop happens, or claim nothing after one, so that they need no `Calm`.

### BufMgmtProofs

| theorem | statement |
|---|---|
| `TypeCorrect` | `Spec => []TypeOK` |
| `TxStaysInSync` | on one processor, `Spec => []TxInSync` |
| `RxStaysInSync` | on one processor and without early cells, `Spec => []RxInSync` |
| `NoPacketLost` | on one processor and without late sends, `Spec => []NothingLost` |
| `NothingIsLeft` | on one processor, without early cells and late sends, `Spec => []ClosedLeavesNothing` |
| `NoBufferTwice` | `Spec => []EachBufferOnce` |
| `WireHasFrames` | on one processor, `Spec => []FramesOnWire` |
| `ReleasedLast` | on one processor, `Spec => ReleasedAfterLastCell` |

`NothingLost` - the packets released, in use and ready are, in that order, those accepted - is not inductive
by itself.  Returning a packet takes the *oldest* of the in-use queue, so order is preserved only
if that queue holds just the packet the AAL layer returns (`TxInSync`).  That in turn holds
only because a handler does not overlap the steps of a close, where the pointers are
cleared (`CallsInsideCircuit`), and because a close leaves no packets for the next open
to forget (`Remains`).  The conjunction of these is the inductive invariant

    IInv == TypeOK /\ CallsInsideCircuit /\ Remains /\ TxInSync
            /\ (~EarlyCells => RxInSync) /\ (~LateSends => NothingLost)

and the proof goes through the actions one by one.  The run `bm_vc` checks the four conjuncts the proof is for.

`NothingIsLeft` adds what each step of a close has emptied (`Emptied`).  `WireHasFrames` and `ReleasedLast` add
that the last cell on the wire is the one the packet under way was left at, that all packets waiting are later than it, and
that with no packet under way the last one ended with its end-of-frame bit or was sent in an earlier opening (`WireInv`, `Ended`).
A cell in `wire` says in which opening it was sent; only the properties look at that.
`NoBufferTwice` needs none of this, and no condition at all: the elements of the three queues of a direction are
disjoint and each occurs once (`Once`), which every step keeps that takes an element off the head of one queue
and puts it, or another one, at the end of the next.  So what races with a close can lose a buffer or return
the wrong one, and never returns one twice.

### Aal5Proofs

| theorem | statement |
|---|---|
| `FewestCells` | for every length and room, the plan has the fewest cells that hold the payload and the trailer |
| `TypeCorrect` | `Spec => []TypeOK` |
| `CellsCovered` | `Spec => []CellsAsCovered` |
| `FramesComeIntact` | `Spec => []FramesIntact` |
| `GoodFramesCome` | `Spec => []GoodFramesArrive` |

`CellsAsCovered` says that the walk of `FrameALAALTxGetFullBuf`, spread over one call per cell,
sends what `FrameALAALTxProcessBuf` computed the CRC over and stays in memory.  The strengthening
(`WalkOK`) ties the two counters, the pointer and the number of cells already sent together:
after k cells the walk stands where cell k+1 of the plan begins.  `PlanFits` shows that in
each of the four branches the plan's parts are whole cells; `WalkArithmetic` does the
step from one cell to the next, over the change of memory.

The last two are about both ends of the line.  A cell is named by its frame and its number; it is *cut* when the
walk has passed it and *gone* when it was cut and is not on the line.  The line keeps the order (`InOrder`): its first
cell is the one after all that are gone (`HeadCell`, `GoneBefore`).  With `CoveredWhole` - what the CRC covers is the whole
payload in order, the trailer in its last cell only, over a length that the receiver's check accepts, in each of the four
branches - a frame that matches its CRC is one that was sent, and its last cell has just come, so that it is later than those passed
up before (`PassedUp`).  For what arrives, the buffer has to be known between cells (`Collected`):

    UpTo(k, r)   the cells that are gone are those up to the r-th of frame k
    Fine(k, r)   none of the first r cells of frame k was lost, nor the last one of frame k - 1
    Collected == \A k, r : UpTo(k, r) /\ Fine(k, r) /\ (frame k fits) => rx holds the first r cells of frame k

With r = 0 it says that the buffer is empty when the last cell of the frame before was not lost, whatever that
frame was: passed up, refused, or too long.  So the next frame starts clean, which is why only that one cell of it matters.

### ArmIoProofs

| theorem | statement |
|---|---|
| `TypeCorrect` | `Spec => []TypeOK` |
| `NextCommandIsDue` | `Spec => []NextCommandDue` |
| `EventsAreKept` | `Spec => []EventsKept` |
| `CommandsReachTheArm` | `Spec => CommandsInOrder`, the refinement of `CmdChannel` |

All four rest on one inductive invariant,

    IInv == TypeOK /\ NoneLost /\ StatHolds /\ NextCommandDue /\ InTurn /\ Undisturbed /\ EventsKept

`NoneLost` says that the commands taken, in the register and in `WriteFifo` are, in that order, those accepted;
a step of the ARM then delivers the next one, which is the refinement.  `Write` keeps it only because a
register that was found empty stays empty while WriteLock is held, and nothing waits then.  That is `StatHolds`, and its
other half - a register found full has been emptied only if CMDE has occurred since and its handler has not
run - is what `Queue` needs for `NextCommandDue`: the handler takes WriteLock, so that
it cannot have come and gone between the caller's read of STAT and its insertion.  `EventsKept` rests on
`Undisturbed`: on one processor ISR and tasklet each read and write `InterruptStatus` without the other in
between, the tasklet because it holds IsrLock and the ISR because nothing runs over it.

### DriverProofs

| theorem | statement |
|---|---|
| `NothingMissing` | `Spec => []NoFault`, if `FailAt \subseteq Survived` |
| `UnloadIsClean` | `Spec => []UnloadsCleanly`, if `FailAt \subseteq Survived` |

They hold for any number of failures, of runs of the loader, and of starts that are given up and tried again.  `Survived` is the value that
`FailAt` has in the run, and cannot be larger: with any one of the other objects that are allocated TLC finds `NoFault`
violated (section 6).  On several processors `NoFault` claims nothing, and `UnloadsCleanly` covers threads, interrupt,
soft timer and memory.

The inductive invariant is a description of the start and the unload step by step:

    Where             which flags are set at each step, and where a routine called from several places returns to
    ChipThere, ModemThere, LinkThere
                      what is allocated and pointed to at each step, and what whenever a flag is set
    OthersOK, HooksOK, CalTimerOK, TimersOK
                      at which steps interrupt, threads and timers can be active and handlers in the
                      interrupt's lists, and what is there then
    NothingForgotten  if nothing failed: the start goes through, and unload has released what its steps came past

The steps of the task are taken in seven groups, the order of the start and of the unload.  What is delicate are the
states a failure leaves: a start that fails once `AdapterInitComplete` is set leaves a modem without a link, and is run again over
it; the link's shutdown runs in the middle of the start, with `shutdown` not set; and ChipAL can be halted there, only with `DownloadInitComplete` not set.  `BesideUses` then
says that interrupt, timers and threads find what they use.  For the main timer and FrameAL's this
needs one processor: on several, the task goes on while a handler runs.

### LinkProofs

| theorem | statement |
|---|---|
| `TheLinkAgrees` | `Spec => []LinkAgrees` |

Between two indications at most one timer runs, and its function and its references are in the same
slot.  That is lost and restored within an indication, so that the inductive invariant says what holds
at each step of the thread: `Idle`, `Find` (a timer that runs is not in a slot already passed) and `Clear` before and while the timer is cleared, `Start` while it is
started, and `Down`, by which each step of the shutdown finds cleared what came before it.  `ExpireMoves` shows that a timer that
expires outside ClearTmr and StartTmr is the only one and either ends or moves to another slot, for which a
second slot is needed.

### ArmLoadProofs

| theorem | statement |
|---|---|
| `SignalsInTime` | `Spec => []SignalsReachWaiters` |
| `LoadedBeforeStart` | `Spec => StartsWhatWasLoaded`, if every file is `WellFormed` |

`SignalsReachWaiters` says that no completion and no response signals the event of a function that has
returned, unless a wait was given up with something under way (`cut`); and that the firmware's go follows a configuration the ARM
has seen, unless such a signal woke the function that gives it.  `SignalInv`
strengthens it with what makes it so: as long as no wait was cut short, a command that will signal is the last one in the queue and its function waits for
it, and while a command that is answered or its response is under way the function waits and its handler signals it
(`InTime`); and the last wait,
for the configuration, is one whose earlier commands signal nothing any more (`GoesLast`).  So a wait can end only
with its event, or when nothing is under way.  A refused command leaves nothing that could signal: its function
waits in vain (`InVain`).

`StartsWhatWasLoaded` says that the ARM starts a program only when its memory holds the file.
`LoadInv` relates the three places where the file's bytes can be, memory, queued words and the record being sent:

    Addresses      the loader's two address parts are those of the records it has read
    Trail          at[i] is where the ARM will write when it comes to the i-th command under way
    RightWords     a word under way holds what the file says of the place it will be written to
    SentWords      a byte that was sent is in memory, or a word under way brings it
    NextAddress    the next word goes where the file wants it
    StartsAfter    when a goto is under way, every byte of the file is in memory or in a word before it

`at` is not a variable of the model: the invariant says that there is such a sequence, and each step of the proof
names the one after the step.  The ARM takes commands in order, so a goto finds every word written.
The theorem holds for any combination of a late ARM, signals and refused commands.  The completion of an older command can wake
the function, but the words it sent are ahead in the queue, whatever woke it, as long as none of them was refused; and if
one was refused, either nothing wakes it, and the load ends there, or the theorem's second case holds, `misled`.  So `LoadInv` has `misled`
beside what it says of the words, and says nothing of the next address after a refused command (`vain`).
`WellFormed` is needed because a file that gives a
byte two values cannot be in memory whole.

### Only model-checked

Liveness (`EveryCellSent`, `EveryCellDelivered`, `NeverWedged`, `NeverStarved`,
`EveryPacketReleased`, `EveryCommandTaken`, `LinkComesUp`, `EveryOamCellSent`, `LoadEnds`) is out of
the prover's reach.  Two safety invariants stay with TLC.  `TableServes` is about a table laid out by a
recursive function over the circuits; what that computes for every number of circuits needs induction over
data, which the provers cannot do here.  `FirstCellsCounted` counts a set of circuits, and is inductive; it is next
in the plan.


## 6. Where code and comments disagree

Shown by the run `oam_close`:

- `FrameALATM.c:1273-1276`: the circuit of a loopback reply is taken from the handle stored when the loopback
  cell came in (`FrameALATMOAM.c:563-565`), and the cell is counted through its `FrameALVCMod`, although the circuit may have
  been closed; the comment at 405 says "Get a cell from one of the active VCs".

Excluded by a condition or a constant of the models, which says where.  Lifting it makes TLC find them:

- `ChipALDMAChanP46.c:1342` marks a segment reported as partly sent pending, and 1351 overwrites that with ready,
  so that its rest is dropped (`DmaTx` allows that: after a stop its pipe is
  lossy).  The comment at 1335-1338: "back up NextSegment pointer to the partially transmitted segment, then  mark as Pending".
- `ChipALDMAChanP46.c:873` stores the command's count in the field that counts received cells, and the failure path at
  892 leaves it there, so that old cells are passed up again, where the comment at 889-890 says "Mark the Ready
  Segment as containing no data."  (`OnlyNewCells` without `fails = 0`.)
- `ChipALDMAChanP46.c:943-968`: the completion handler declares ready each segment between `CurrentSegment` and the one reported,
  as one whose interrupt was missed.  A rejected segment that has been handed out again looks the same: one queued before it completes, the
  rejected one is declared ready while the ARM has it, handed out a second time, and its cells are passed up twice.  One
  rejected segment is enough, with one processor and nothing lost.  (`OnlyNewCells` without `rejects = 0`, with 3
  segments of 2 cells and 11 cells.)
- `FrameALATMVCInit` lets the receive handler in before `FrameALAALVCInit` sets `AALxRxBfr` to NULL
  (`FrameALAAL.c:503`); the buffer in use is then forgotten, although "The packet removed from the queue and BufDescPtr
  should be the same" (`BufMgmt.c:513-514`).  (`RxInSync` with `EarlyCells`.)
- `ChipALCdsl.c:2289` sets bits of `InterruptStatus` in the ISR without the lock under which the tasklet
  clears others (1523).  On several processors a bit is lost and its event never handled, in spite of the comments at 1509
  and 1534-1536.  (`EventsKept` without its condition on processors.)
- `CardMgmt.c:1955` tests the main timer's state and 1969 stores TMR_TIMING, which can overwrite the TMR_UNLOADING that
  `CnxtDsl_exit` has stored meanwhile (386): on several processors the timer outlives the driver, where 374 says "Cancel
  'MainTimer' events associated with this adapter."  (`UnloadsCleanly` without `~smp`.)
- `UtilTmr.c:115` searches and clears a timer without a lock, while the timer's handler may start it again in another slot, one already passed or not
  (`CardALTigrisDp.c:215`, `UtilTmr.c:409`): the connect timer survives the comment "Clear any outstanding Connect
  timer" (`CardALTigrisDp.c:329`), and the link comes up on a line that is down.  (`LinkAgrees` without `raced`.)
- `LnxTools.c:77` waits with `wait_event_interruptible_timeout`.  A wait that ends by its time, or by a signal to cnxadslload, returns
  (`ARMAbstract.c:906-914`, and likewise 1127-1132, 1164-1178, 1544-1570) while its command is queued, or its handler set, with a pointer to the
  event in the frame of the function; the completion signals memory that is no longer an event, or the event of
  a later wait.  The comment at 853-854 says "When wirtten, it signals the local thread to continue processing."
  (`SignalsReachWaiters` without `cut`.)  What such a signal does to the stack is not modelled, but for the case that it finds
  the event that is waited for now.
- `ARMAbstract.c:898` and `939` take the status of ChipALWrite, and the wait that follows overwrites it.  A load that timed out or was
  interrupted leaves a word queued; the address or a word of the next load is refused for want of memory; the old word's completion
  wakes the function that waits for the refused command; the words that follow go to wrong addresses, and the
  ARM is started.  The comment at 1097-1100 says "In such a case we will Timeout and not download the code".
  (`StartsWhatWasLoaded` without `misled`, with "late" and "memory".)
- If the frame layer's timer checks the line while the thread is about to build the slot table, it leaves
  `VCSlotsUsed` at 0, and the thread's do-while loop (`FrameALATMShaper.c:733`) never ends.  (`Shaper` with `Overlap` TRUE.)

Met while reading.  DMA, circuits, commands (kept as they are in the models):

- Disable takes no lock although the handlers rely on one (`ChipALDMAChanP46.c:1093` and `632-633`),
  ignores the status of the stop command (`692`), and sets segments ready with
  the commands' counts in place (`715` and the comment at `703-705`).
- `DmaTxFullHandler` does nothing if the response has the count and the handle of the segment's command, as that of a refused segment has, and marks segments
  pending only if they differ (`ChipALDMAChanP46.c:1413-1419`), where 1357-1364 say that "it marks the state as Pending for this segment and all
  additional segments that were sent to the ARM."  A refused segment then stays with the ARM for the driver, until a later one completes;
  its cells are lost.  (`DmaTx` does as the code does, and its pipe is lossy after a rejection.)
- `MaxBlocksPerSegment` is `(BYTE)Count` (`ChipALDMAChanP46.c:1487`): 256 becomes 0.  The models assume at most 255.
- BufMgmtSend does not "tickle" the transmitter (`BufMgmt.c:185-192`); the limit on
  receive buffers is not enforced (`387-397`); when it fails, the packet's memory is leaked (`CardMgmt.c:1080-1084`).
- `FRAMEAL_VC_DEACTIVE_PEND` is set when a call is active during a close (on several processors only), and nothing reads it.
- `CardMgmtVc.c:195`: the failure to allocate a context is overwritten by the success of the clean-up, and the
  circuit counts as allocated, where the comment at 134-135 promises NULL.
- CMDE is masked "until the response is received" (`ChipALIoP46.c:875-876`), but the mask does not outlast the next interrupt of the ARM: Enable(0)
  at its end writes all of `InterruptReg` (`ChipALBusCtlP46.c:465-471`), which the mask did not change, although
  the comment at 536-538 calls such a disable permanent.  A boot loader command can then be
  taken while the answer to an earlier one is unread.  No command is lost or reordered for it.
- "This should not happen" (`ChipALIoP46.c:1421`) does, on one processor too: a caller writes the register
  between the interrupt and its handler.  The command goes back to its place.
- `ArmReady` is set and never looked at, where 1387-1389 say that the queue is processed only if it is TRUE.
- The handler of HW_LOGICAL_TIMER_EXPIRY that `calP46AttachInterrupt` adds (945-951) is not removed on release.
- ChipALDisableInterruptHandler masks the ARM function only (`ChipALCdsl.c:827-851`).
- CmgmtOpen ignores that no circuit was allocated (`CardMgmt.c:599` and `547-549`).

Driver:

- Failures at other allocations than those of `FailAt` are not survived: of the adapter's frame layer, the message system, the
  hardware abstraction, the line card and the modem.
- `start_kthread` waits for ever when the thread could not be created.
- The main timer is started before its state is TIMING: a tick in between finds the wrong state, and the timer stops for good.
- The file operations allocated at load are never freed; a start that is tried again forgets what the last one
  allocated; unloading without a full start frees neither the frame layer nor the message system.
- The connect timer is not cleared at unload, so that the link can come up while it is shut down (`Late`).

Firmware load:

- LOAD_START always answers "download needed": the query of the ARM is commented out.  The loader takes any other
  failure of it for "already loaded".  `Loading` is never cleared.
- `processDataRec` ignores the status of its write, and a record whose length is not a multiple of four bytes makes it
  loop for ever (the vendor's file has none).
- `ARMALNotifyArmReady` returns nothing: a load whose configuration response times out is reported complete although
  the firmware has no go.
- The handler of HW_CONFIGURATION_COMPLETE is never removed.

Shaper, ATM layer, OAM:

- The peak cell rate is given in cells per second and used as a number of table slots, where the comment at
  `FrameALATMShaper.h:86` counts in units of 16k: a rate above the table's size does not fit (`ShaperAssumption` excludes it).
- Opening or closing any circuit turns shaping off for all of them meanwhile.  `CurrentSlot` can lie beyond a table
  that has shrunk, for one poll.
- HandleLoopBack answers loopback cells whose indication is 0 and rejects those with 1; GenerateInitLoopBack computes
  the CRC over the pointer variable instead of the cell.
- When no circuit matches, the search of FrameALATMDeMUX leaves its variables on the last slot; a management cell of an unknown
  circuit is attributed to that slot's.
- Loopback replies go first and are not limited: endless loopback cells would starve all others (`MaxLoop` bounds them).

Diagnostics (not modelled):

- When the queue of text messages is full, `CardALTextLogMsgQPutMsg` (`CardALTigrisLC.c:867-893`) removes the oldest messages by
  reading their first dword into the header of the *new* message, which is then queued with the old one's size.
  With messages of different lengths the framing of the queue is lost, where 864 says "If queue is too full, remove oldest
  log msgs until there is room in the queue".  Put is called by the data pump, Get by an ioctl, without a lock.
- A write to the EEPROM that never becomes ready still returns success.


## 7. What is not modelled, and the plan

### Abstracted in the modelled parts

Statistics, traces, byte order, and Close of a channel (which frees memory after
Disable).  In `Aal5`: bytes, the bits of the CRC, AAL0, the compiled-out padding and
reassembly timer.  In `BufMgmt`: several circuits at once (they share nothing there
but the transmit channel) and races inside a queue's lock.  In `ArmIo`: the registers and the tasklet
of the DSL function, the sync command and the ARM's timer response,
attaching and removing handlers, and shutdown, which frees the FIFO.  In `Driver`: open circuits, two tasks at
once, the module's use count, an entry of a handler list whose allocation fails (the callers ignore that, and the handler is never
called), the steps in which an entry is linked and unlinked (the handlers of an object come and go at once), and the tasklet, which goes through
the same lists as the interrupt.  In `Link`: several processors.  In `Shaper`: LinkState and
StartTx, several processors.  In `Oam`: contents of cells.  In `ArmLoad`: two loaders at once (they share the static variables of
`ARMAbstract.c`) and the debug buffer.

### Left out

- EEPROM (`ChipALSEmw.c`): bits and fixed delays of a serial protocol, called by one thread at a time; its
  queue and thread are compiled out.
- Diagnostics (`CardALADSLDiag.c`, `CardALTigrisDiag.c`): formatting of what the data pump keeps; the
  queue of text messages has a state of its own and could be modelled.
- The dispatch of messages in `SmSysIf.c`: on Linux a request to another layer completes within its call or fails at
  once, so that SendComplete, IndicateComplete and pending I/O are dead code; what is left are calls of one handler.
- HEC and the CRC-10 of OAM cells: computations on bits without state.
- Console, string helpers, `xcvrinfo.h` (tables): no state.
- The cell test generator: a test facility that is off.
- The other user tools: they read a file and write it to the driver.
- The data pump controller: a binary without source.
- Most of what is left in the modelled files are these: trace statements, statistics and their formatting, comments,
  and variants of the code that are compiled out (other operating systems, other chips).

### Plan

The behaviour that carries cells, circuits, commands, timers, set-up and firmware is modelled.  What follows is proof, in this order:

1. `Oam`: `FirstCellsCounted`, with the library's facts about the cardinality of a set that loses or gains a member.
2. `Shaper`: that the position stays within the array `VCSlotTable`, with bounds of the layout as lemmas about one step.

Candidates for more models are the text message queue and handlers that are added and removed while the ISR runs.
