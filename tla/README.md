# A verification of the can4linux driver

can4linux is a Linux kernel driver for boards with Philips SJA1000 CAN
controllers (PeliCAN mode).  A process opens a channel, writes and reads
messages, waits with `select` and configures the controller with `ioctl`; the
driver queues messages in two rings per channel, moves them between the rings
and the controller in an interrupt thread, and can postpone a message by means
of a timer.

This directory holds TLA+ modules that model the driver, configurations for the
model checker TLC, and proofs for the proof system TLAPS.  File and line numbers
below refer to the driver's sources.

## 1. The system

### Components

| component | source | state | operations |
|---|---|---|---|
| message queue | `msgq.c`, `msgq.h` | `data`, `produced`, `consumed`, `mask`, `idle`, `lk` | `qproduce`, `qconsume`, `qlen`, `qsize`, `qcreate`, `qfree` |
| transmit path | `write.c`, `sja1000funcs.c`, `select.c` | `dev->txq`, `dev->txinprogress`, `dev->delayedwork`, the transmit buffer | `can_write`, `sendcanmsg`, `delayedmsgworker`, error and transmit branches of `CAN_Interrupt` |
| receive path | `sja1000funcs.c`, `read.c`, `select.c` | `dev->rxq`, `dev->rxstatus`, the receive FIFO and the bus state | `rxproduce`, `readcanmsg`, `errmsg`, receive, error and overrun branches of `CAN_Interrupt`, `can_read` |
| waiting | `select.c` | `dev->wq` | `can_select` against the wake-ups of the two paths |
| frame registers, acceptance filter | `sja1000funcs.c`, `sja1000.h`, `can4linux.h` | the SJA1000's frame and acceptance registers | the conversions in `sendcanmsg`, `readcanmsg`, `CAN_SetMask` |
| device life cycle | `open.c`, `close.c`, `core.c`, `util.c` | `dev->isopen`, regions, interrupt, queues, use count | `can_open`, `can_close`, `core_init` |
| controller control | `ioctl.c`, `sja1000funcs.c`, `sja1000.h` | mode, bit timing, acceptance and output control of the controller | `can_Command`, `can_Config`, `CAN_StartChip`, `CAN_StopChip`, `CAN_ChipReset` |
| settings | `sysctl.c`, `sysctl.list`, `utils/cansetup` | the entries of `/proc/sys/Can` | reading and writing an entry |
| delayed work | `linux_2.6.c`, `sja1000funcs.c` | a pool of timers | `kapi_schedule_delayed`, `dlyworker`, the delay in `sendcanmsg` |
| PCI scan | `util.c` | tables of boards and channels | `pcimod_scan`, `controller_available` |
| examples | `examples/can_send.c`, `can_verify.c`, `transmit*.c` ... | counters, identifiers, what is still to be written | the tests of `can_send`, `verify_message`, loops around `write` and `read` |
| software message filter | `util.c`, `defs.h` | `Rx_Filter` | compiled only with `CAN_USE_FILTER`, which no build defines |
| kernel 2.4 layer, register access, diagnostics | `linux_2.4.c`, `io.h`, `error.c` ... | none of their own | wrappers, macros, printing |
| script wrappers, board set-up | `examples/canLtwo_wrap.c`, `trm816/` | none | generated code, registers written once |

### Interactions

- A process in `can_write` is the producer of `txq`.  Its consumer is whoever
  calls `qconsume(&dev->txq, sendcanmsg, dev)`: the process itself when it finds
  `txq.idle` set, the interrupt thread at the end of a transmission, or the timer
  of a postponed message.  No lock is held around that call; `txq.idle`,
  `txinprogress` and the timer hand the right to make it from one to the next.
- The interrupt thread is the producer of `rxq`, a process in `can_read` its
  consumer; `rxq` has no lock at all (`qcreate(..., 0)`).
- Both paths wake the processes that sleep in `dev->wq`: for every message stored
  in `rxq`, and whenever `txq` is at most half full after a transmission.
- `utils/cansetup` writes a channel's entries one by one, at any time; the driver
  reads `Base` and `IRQ` when it opens and again when it closes the channel, the
  others when it opens or resets it, and `CONFIG` writes them too.
- All channels take their timers from one pool, without a lock.
- The examples see the driver through `write`, which may store less than it was
  given, and `read`, which may return less than it was asked for.
- The controller signals by an interrupt register that is cleared when read, and
  by a status register that is not; the handler reads both, at different times.

### What is hard

- *Concurrency*: four contexts (processes, interrupt thread, timer, controller)
  share the queues almost without locks.
- *Ordering*: requests and book-keeping in `sendcanmsg`, status bits that one
  branch of the handler clears and a later one reads.
- *Failure*: bus errors, bus-off with or without a transmit interrupt, receive
  overruns, full queues, failed opens, stops and restarts during a transmission.
- *Time*: delays, and code that relies on a frame lasting longer than a few
  instructions.
- *Arithmetic*: free-running counters that wrap, identifiers spread over
  registers, length codes above eight.

### What makes each component correct

- Queue: a bounded FIFO for one producer and one consumer; no slot is used by
  both sides at once; lengths never leave `0..size` when the counters wrap.
- Transmit path: the right to send is always held by exactly one party; nothing
  that was queued stays there for ever; frames leave in order, once each; the
  driver's idea of the controller is right.  All of this holds until the handler
  races with the end of a transmission, and not after.
- Receive path: what the controller accepted reaches the reader once and in
  order, above all when `rxq` is full; losses are reported in the flags.
- Waiting: no sleeper misses the change it waits for.
- Frames: a message survives both conversions; the filter selects what the
  manual says.
- Life cycle: what an open acquires is released once, by the failed open or by
  the close, and not while it is in use; only one process opens a channel.  Moving
  a channel that is open, and an open that fails half-way, are the exceptions.
- Control: a channel that is stopped and started goes on sending.
- Settings: the bus runs at the rate that was given last; what was given is in
  force after every reset, but for two races about the output control.
- Delayed work: the timers suffice for all channels, whichever channels choose at
  once; where no two of them got the same one, a message is complete neither before
  its time nor later than necessary, and it does get sent.
- PCI scan: one channel for each controller, with its own board's registers.
- Examples: whatever `write` and `read` return, a test has everything stored that
  it was told to send, and ends; the verifier complains if and only if messages were
  lost, and for nothing else but the driver's own messages about that.

## 2. The modules

| module | models | remarks |
|---|---|---|
| `MsgRing` | counters, slots, length of a ring | shared by everything with a queue |
| `MsgFifo` | what a queue promises | abstract, one step per completed call |
| `MsgQ` | `qproduce`, `qconsume` | one step per access to shared memory; implements `MsgFifo` |
| `TxPath` | the transmit path and the controller's transmit side | |
| `RxPath` | the receive path and the controller's receive side | |
| `SjaFrame` | frame and acceptance registers | |
| `ChipControl` | `START`, `STOP`, `RESET`, acceptance filter | extends `TxPath` |
| `DevLife` | opening and closing a channel | |
| `DelayTimers` | the pool of timers and the arithmetic of the delay | several channels, time is counted |
| `Settings` | bit timing, filter and output control, and their entries | a process and `cansetup` |
| `PciScan` | the scan for PCI boards | a register is the set of its bits |
| `CanSend`, `CanVerify` | the programs that send, and those that receive | |
| `LoadTest` | both and a bus | extends the two |
| `MsgRing_proofs`, `MsgQ_proofs`, `TxPath_proofs`, `RxPath_proofs`, `Registers_proofs`, `DevLife_proofs`, `DelayTimers_proofs`, `LoadTest_proofs` | theorems | `TxPath_proofs` has those about `ChipControl` as well, `Registers_proofs` those about `Settings`, `SjaFrame` and `PciScan` |
| `MCMsgQ`, `MCTxPath`, `MCRxPath`, `MCSjaFrame`, `MCChipControl`, `MCDevLife`, `MCDelayTimers`, `MCSettings`, `MCPciScan`, `MCLoadTest` | instances for TLC | |

**MsgRing.**  The counters are C `int`s; they are held as bit patterns in
`0..Wrap-1`, so an overflow of the running driver (2^32 messages) is a step of the
model like any other.  `QLen` is the signed difference the code computes.  `& mask`
is `% Size`: `qcreate` is only called with powers of two.  The C standard leaves
the overflow of `produced++` undefined; the model takes the wrap-around of the
kernel's build (`-fno-strict-overflow`).

**MsgQ.**  `qproduce` is `ProduceRefused`, or `ProduceBegin` (room test),
`ProduceCopy` (the callback fills the slot), `ProducePublish` (`produced++`).
`qconsume` is `ConsumeRefused`, or `ConsumeBegin`, `ConsumeUse` (the callback sees
the slot), and `ConsumeTaken` or `ConsumeKept` depending on what the callback
returned.  `pret` and `cret` record how the last call of each side ended and make
the results visible to `MsgFifo`; `Contents` is the refinement mapping.  The lock
and `idle` matter to the transmit path only and are modelled there.

**TxPath.**  `pc[c]` says where each context is: a writer in `can_write`
(`user copy publish testidle clearidle`), any context in `qconsume`/`sendcanmsg`
(`test send request mark advance`), the interrupt thread in `CAN_Interrupt`
(`errmode errstat errtxp errtbs errmsg txint`, then `wake` and `loop`).  A message
is the value of `produced` it was written at, plus whether it asks for a delay;
that is enough to see order, loss and repetition.  `tbs`, `ir`, `es`, `bs`,
`reset` are the controller's bits; a write to a locked transmit buffer is ignored
as in the hardware.  The lock of `txq` makes `ConsumeEmpty` (test for emptiness
and setting of `idle`) atomic against `WritePublish`.  The receive branch of the
handler is left out because it shares only `dev->wq` with this module, and a
wake-up it causes is no different from the one in `IrqErrMsg`.

A transmission may end at any time.  The handler is a preemptible thread that
reads `canirq` and `canstat` at different times, and `sendcanmsg` requests the
transmission before it sets `txinprogress`; so the handler may act on a
transmission it knows half of.  `raced` is history and says that it has:

- `Overtakes`, in `IrqTxInt`: the frame has ended, and the handler calls `qconsume`,
  before its sender has done the book-keeping;
- `Overlooks`, in `IrqErrProgress`: bus-off has ended the transmission, and the
  handler finds `txinprogress` still clear and does not simulate an interrupt;
- `FakesBeside`, in `IrqErrFake`: the frame ends between the two reads, and the
  handler simulates an interrupt beside the real one.

The properties speak of a driver in which none of this has happened; they include
every frame and bus-off that ends between the two reads without doing harm.  What
happens after each of the races is told below.

**RxPath.**  The loop of `CAN_Interrupt` has three stages that may store a
message: `rx`, `err`, `ovr`.  Each one is skipped, or goes through `rxproduce`:
`Refuse`, or `Accept`, `StoreFrame`/`StoreError`, `Publish`, `Stored`; then
`EndBranch` does what follows (clearing the overrun status).  `flags` is
`msginf.flags`, preset once per iteration and added to by the branches.  The
receive interrupt is a level (a frame is in the FIFO), the other two are latched
until `canirq` is read.  `bus` is what the status register tells of the
controller: error status and bus-off, and after bus-off the reset mode until
`UndoReset`, the beginning of the error branch.  Going off the bus empties the
FIFO (external); `BusOff` gives the numbers of these frames again, for the driver
has no part in their loss.  `next` and `last` number the frames the controller
accepted and the reader got, `unreported` remembers a dropped error message; they
are history and no guard reads them except through the frame numbers.

**SjaFrame.**  Registers and identifiers are sets of bit positions, so shifts
and conversions to `uint8` are what they are in C without enumerating 2^29
identifiers.  A message is encoded by `sendcanmsg`, or sent by a foreign node with
any length code; it passes the acceptance filter and is decoded by `readcanmsg`.
Of the data the first two bytes are kept, as far as the message has them, and the
length of the others.  `Code` and `Mask` are the words of the tables of the manual
page in `ioctl.c` for a filter: identifier, remote flag, and the bits below these
(`low`, `anylow`), which the page calls unused (`ioctl.c:114-115`) and which
`CAN_SetMask` passes on.  `Accepts` is the single-filter mode of the controller
(external).  In a standard frame it compares those bits with the first two data
bytes, as the page says elsewhere (`ioctl.c:79-82`); `Compared` has them, and
`FilterExact` says what passes for each value they may have.

**ChipControl.**  A step is a step of `TxPath` (`TxStep`) or of a system call
that controls the channel.  `CMD_START` is `StartChip` (clear interrupts) and
`StartOperation` (leave reset mode); `CMD_RESET` is `ResetChip`, `ResetPresent`,
`ResetSetup` and `SetMask`; `CONF_ACC*` is `ConfigAcc` and `SetMask`; between any
two of them the interrupt thread, the timer and the controller run.  What entering
reset mode does to the controller (`EnterReset`) is external: the transmission is
aborted, the buffer released, pending interrupts may get lost.  The registers of
the transmit buffer and of the acceptance filter share their addresses, and the
mode decides which of them a write reaches: `Beside` says so for `sendcanmsg`,
`SetMask` for `CAN_SetMask`.  With `Care` the process does what the example in
`ioctl.c:121-140` does, stop, configure, start, and moreover waits until the
channel is at rest; without, it issues commands at any time.

**DevLife.**  `pc[p]` walks through `can_open` (`mark region map irq rxq txq reset
start`) and `can_close` (`relregion cleanup freeirq sync unmark`), one step per
access to `isopen`, `Base` or `IRQ` or request to the kernel; a process that is
`refused` is on its way out with `ENXIO`.  `region` and `irq` hold the process whose
request for an address or interrupt is in force, because the kernel grants each
once.  `SetupBase` and `SetupLine` are the lines of `cansetup` that write `base` and
`line` (`utils/cansetup:60-61`), which the kernel runs at any time; open and close
read them anew at each step, as the code does, and `CloseRegion` and `CloseIrq`
release what they say by then, whosever it is.  `moved` remembers that a channel in
use was changed this way.  The controller is `Reached` only where the address in
use, the current `Base` or, in builds that map memory, the one that was `mapped`, is
its own.  The interrupt thread appears with its receive branch, since `free_irq`
waits for it (`waits`), and with its error branch, which undoes a reset request;
`undone` remembers that it has undone the one of a close.  Reset mode empties the
receive FIFO, and bus-off puts the controller there (external).  `Build` chooses
between port, memory and PCI access, which differ in what they request and release.
`spoiled` remembers that an open has failed half-way: nothing is given back then.
`incusers` and `decusers` are empty in `linux_2.6.c` and left out.

**DelayTimers.**  `TxPath` has one channel, whose timer may expire at any time;
here the channels share `idly`, the number of timers taken, and `Elapse` lets time
pass to the next event while everyone waits.  `kapi_schedule_delayed` is `Choose`
(which timer?), `Take` (`delayedwork = &delayed[idly]`), `Count` (`idly++` and
`hrtimer_init`), `StartFor` (the timer's data) and `Start`.  It has no lock, so the
channels go through these steps at the same time; and as the code names `idly` three
times, each time it may be read anew or taken from a register (`Reread`), so that
increments get lost as well.  Two channels may end up with the same timer: `Shares`
says that they do, `overlapped` remembers that their choices overlapped.  `Bits` is
the length `sendcanmsg` computes, `WireBits` the one a frame has at least; `Expiry`
is the product `usec*1000` in an `int`.

**Settings.**  `baud`, `code`, `mask`, `outc` are the channel's entries, `tim`,
`acc`, `out` the registers, which take a value in reset mode only.
`CAN_ChipReset` is `Request`, `OutputTest`, `OutputDefault`, `OutputControl`,
`ReadTiming`, `SetTiming`, `ReadWord` (for each argument of `CAN_SetMask`) and
`SetMask`; `CONF_TIMING` is `ConfigTiming` and `SetTiming`, `CONF_ACC*` is
`ConfigAcc` and the last two.  `Setup...` are the lines of `cansetup`, which the
kernel runs between any two of these: a value is read from its entry in one step and
written to its register in another.  The two tables are those of `sja1000.h` for 8
and 10 MHz.  `given`, `stale` and `raced` are history: the value given last for each
setting; the settings that were not read since, or whose register ignored the write;
and whether the value of `Outc` came between the steps of the reset that test and
replace it (`"lost"`: it is overwritten; `"zero"`: a 0 gets into the register).
`RateInUse` computes the rate from the registers as the manual of the controller
does, and not by the tables.

**PciScan.**  A board says whether it can be enabled, whether it carries the
signature of EMS and what sits at its two positions.  `Registers` are the values
`controller_available` may read there: those of a controller fresh from power-on,
those of one a driver has used, whose status tells of its past, or lines that are
all high.  The values are those of the controller's data sheet.  For a fresh
controller's status that is 0x0c, as in the code (`util.c:305`); the comment before
the function says 0xc0 (`util.c:279`), and is wrong: with `FreshAsCommented` the
scan finds no fresh controller.  A register is the set of its bits that are 1, so
that the masks of `Available` are set differences.  Indexes beyond the tables are
collected in `outside`.

**CanSend, CanVerify, LoadTest.**  `write` is `WriteStores` for each message it
stores, while there is room, and `WriteReturns` at any time the queue is full;
the queue drains while the program is in it.  What a program does with the result
is an action of its own for each test.  `Msg` tells the messages of test 10 apart by
identifier, length and counter, and by a number that no program sees.  `Close`
comes at any time after the last call, for the programs sleep for a fixed time and
close the channel without looking at the queue (`can_send.c:410,940,1040,1091`); what
is in it then is gone.  Between the two programs are a bus, the receiver's controller
with its FIFO, and the handler in short: `Store` moves a message to the queue, and
`Report` stores the driver's message about an overrun, whose identifier 0xffffffff
(-1 here) `can_verify` takes for that of a message.  A receiver that is too slow
loses what does not fit into the FIFO.  Options that only change what is printed, and
`-t`, which test is run, are the choice of `prog`.

## 3. The runs

| run | question | bounds | states |
|---|---|---|---|
| `msgq` | does the ring implement a bounded FIFO, and never share a slot? | 2 slots, counters of 8 values, 2 messages | 5 thousand |
| `txpath` | is the right to send single, do driver and controller agree, is every end noticed, is no kick and no wake-up lost, is the order kept, until a race? | 1 writer, 2 slots, 8 values, delays, a poller, 2 bus errors | 1.2 million |
| `rxpath` | is no accepted frame lost or repeated, no wake-up missed, never a frame read from an empty FIFO, and does every frame reach a process that keeps reading? | 2 slots, 6 values, FIFO of 2 frames, 1 overrun or 1 error phase with at most one bus-off | 2.7 million |
| `frame` | does a message survive encoding and decoding, does the filter select what it should? | 12 identifiers around every register boundary, lengths 0, 1, 2, 9, foreign length codes 0, 1, 15, 2 data bytes, filters with and without each part | 696 thousand |
| `control` | do commands given at rest leave the filter as configured, and is everything queued eventually sent, through delays, a bus error, bus-off, stops and resets? | 1 writer, 1 slot, 4 values, 1 bus error, 2 filter settings | 170 thousand |
| `life` | has whoever opened the channel all of its resources, does the close give everything back and return, can a free channel be opened? | 2 processes, 1 refused request, 2 addresses, 1 interrupt, 3 changes by `cansetup`, port access | 919 thousand |
| `timers` | do the timers suffice, is only a channel called back that waits, is a message complete at its time, does every message get on the wire? | 2 channels, 2 timers, delays -1, 60 and 1000, 2 messages of each, 300 kbit/s | 153 thousand |
| `settings` | does the bus run at the rate given last, do settings survive stop, reset and close? | 4 rates, one unknown rate, both clocks, 2 filter words, 3 output controls, 2 files | 5.7 million |
| `pciscan` | is every controller one channel with the registers of its own board? | up to 3 boards of every kind, 4 channels | 11 thousand |
| `loadtest` | do sequences stay whole, is everything stored, is the verdict of `can_verify` right, do tests end? | sequences of 2, identifiers wrap after 2 sequences, queues of 2, FIFO of 1, 3 rounds, 1 failing call | 1.0 million |
| `control_stall` *(violation)* | does a channel go on sending that was stopped or started at any time? | as `control`, without care, no delays, no errors | |
| `life_enxio` *(violation)* | does `ENXIO` mean that the device does not exist or is in use? | 2 processes, nothing refused, 2 changes by `cansetup` | |

**Why the bounds are enough.** Two slots make the queue empty, half full and full,
with both slots in use by different parties at once; a counter of three or four
times the queue's size meets the wrap at every alignment of slots and counters. Two
bus errors are enough for bus-off followed by recovery and another error while the
first one is handled; transmissions, delays and receptions are unbounded. In
`rxpath` the single fault is an overrun, or an error with everything it leads to:
bus-off, recovery and the way back to normal. A FIFO of two frames has a frame
behind the one being read. `control` has one slot, which is full while its message
is under way and empty afterwards; the order of two messages on the wire is what
`txpath` checks. In `life` the two processes can be at any two steps of open and
close; `cansetup` may configure the channel and move it once, or, while it has no
interrupt, move it twice, to another address and back. The identifiers have bits on
both sides of every boundary between registers, in both formats, and above the
identifier. In `timers` each channel uses its timer a second time, and 300 kbit/s
make the divisions inexact; two channels are enough to share a timer, and a pool of
two is the smallest that suffices. `settings` has 4 of the nine rates, with
prescalers that differ, and `RunsAtRate` is proved for all of them. Three boards are
more than the four channels can hold. In `loadtest` the queue may hold messages
already when a sequence of as many is written, so that `write` stops anywhere in it,
and three sequences wrap the identifiers. Every property has a faulty variant of the
code (in the modules, marked as such) that breaks it under the same bounds.

Two constraints keep TLC from following behaviours of which the properties say
nothing any more: `NotRaced` (`txpath`, `control`) stops at a race, `NotBoth`
(`life`) where an open has failed half-way and the channel has moved as well.  Each
of the two alone is followed to the end.

**Deadlock** is checked where the poller, the controller or a process that may
open or close always has a step.  Three runs may stop: `timers` when the bounded
messages are sent, `pciscan` when the scan is done, `loadtest` when the programs
have ended.

**Fairness.**  `ChipControl!CtlFairSpec` (and `TxPath!FairSpec`, for the transmit
path alone): the kernel schedules a writer inside
`can_write`, the interrupt thread and expired timers (weak fairness of each); on a
working bus a requested frame is acknowledged, error counters fall, and a bus
that is quiet lets the controller recover (weak fairness of `TxDone`,
`ErrorClear`, `Recover`); a system call that has begun goes on (`Continue`).
Nobody is obliged to write or to poll, and nothing is
assumed about errors except the bound.  `RxPath!FairSpec`: the interrupt thread
is scheduled and a process keeps reading; without the reader a full queue stays
full and the handler spins for ever, which is what the code does.
`DevLife!FairSpec`: a system call that has begun and the interrupt thread go on;
nobody has to read, so that `CloseReturns` depends on the order of `can_close`.
`DelayTimers!FairSpec`: code that may go on goes on, a timer that has expired
calls back, time passes; nobody has to write.  `LoadTest!FairSpec`: both programs
and the handler are scheduled, and a bus whose ends operate at one rate transports messages;
`TestEnds` does not need the receiver.

### What the violations mean

1. `control_stall`: `CAN_StartChip` reads `canirq` to clear it.  If a message was
   under way, its transmit interrupt is gone, and with it the only context that
   would serve the queue: `txq.idle` is clear and no writer looks further.
2. `life_enxio`: `isopen` is set before the checks that may fail and cleared by
   `can_close` only, which nobody calls after a failed open.  Opening a channel
   once before `utils/cansetup` has written its address makes it unusable until
   the module is loaded again.

### What the passing runs assume, and what happens otherwise

The modules can be instantiated so that these assumptions are dropped; TLC then
finds the following.

- *The handler has not raced with the end of a transmission.*  It may (`raced`), and
  TLC then finds one of three things.  A frame ends before its sender has set
  `txinprogress` and incremented `consumed`: the handler calls `qconsume` beside the
  sender, on the same message (`TxPath!OneConsumer` without its premise fails).
  Bus-off ends the transmission before `txinprogress` is set: the handler simulates no
  interrupt, none follows, and the queue is not served any more (`HeadIsSent` fails).
  A frame ends between the reads of `canirq` and `canstat`: the handler simulates an
  interrupt, finds the real one in its next iteration, and sends a message twice or
  hands one to a buffer that is locked, which loses it (`WireInOrder` without its
  premise fails).  A preemptible kernel and a `printk` between the two reads make room
  for all three.
- *One writing thread.*  With two `Writers` both copy into the same slot
  (`TxPath!OneProducer` fails): `can_write` takes no lock.
- *Nothing is asked about the announcement of dropped messages.*  The flags of
  an iteration of the handler are older than the drops in it; with one bus error
  and one overrun (`MaxFaults = 2`) a drop followed by a message of the same
  iteration is never reported (`RxPath!RefusalFlagged` fails).
- *Nothing is asked about the flag of an overrun.*  The receive branch clears the
  overrun status, and the overrun branch then finds nothing to report
  (`RxPath!OverrunFlagged` fails), although its message says "CAN controller Msg
  overflow error" (`can4linux.h:20`).
- *The controller does not go off the bus while a frame is being read.*  It empties
  its FIFO then, and what `readcanmsg` makes of its registers is a message that
  nobody sent; `FrameToRead` excepts this moment.
- *Length codes up to 8.*  `reg %= 9` makes 0..6 of the codes 9..15, which mean
  eight bytes on the bus (`SjaFrame!CountLimited` fails with such `Dlcs`).
- *No negative length.*  It passes the test at `sja1000funcs.c:395`, and its bits
  get into the format and remote bits of the frame (line 414).
- *A careful process.*  Without `Care`, a message written to a stopped channel ends
  in the acceptance registers, and a filter configured on a running one never gets
  there (`ChipControl!AccAsConfigured` fails); and a transmission that a command
  aborts may leave the queue without anybody to serve it (`control_stall`).
- *The handler leaves a reset request alone.*  Its error branch undoes any it finds,
  the process's included (`sja1000funcs.c:612-617`): a channel that was being
  configured operates, with the old filter; one that was being closed receives, fills
  `rxq`, which nobody reads any more, and the handler that `free_irq` waits for spins
  for ever.  `undone` remembers it, in `ChipControl` and in `DevLife`, and
  `AccAsConfigured` and `CloseReturns` except it.
- *Nobody moves a channel in use.*  `cansetup` may, "at any time"
  (`core.c:132-133`).  The close then releases the region and the interrupt that
  `Base` and `IRQ` name by now (`close.c:48,61`): those of the open leak.  `moved`
  remembers it; the queues are freed all the same.
- *Port or PCI access.*  With `Build = "mem"` no close releases the region, and
  the second open returns `EBUSY` (`NothingLeaks` and `FreeDeviceOpens` fail).
- *Quiet closes.*  `can_close` frees the queues before it frees the interrupt: a
  handler at work in between uses freed memory.  A timer of a postponed message is
  never cancelled and does the same (not modelled).  The opposite order would be
  wrong as well: the interrupt is what keeps the next opener out.
- *Port accesses in one piece.*  With indexed ports a register access is a write of
  the index and an access to the data (`io.h:45`); the handler may come in between
  and use another index.  The modules take every access as one step.
- *No race of two opens.*  One that has tested `isopen` before another process
  opened and closed leaves it at 0 with the channel open; its close then returns
  `EBADF`.  The properties of `life` hold all the same.
- *Channels that share no timer.*  Two channels that postpone their first message
  together may be given the same timer (`linux_2.6.c:143-151`); the later start
  replaces the earlier one, whose message stays at the head of its queue for ever, and
  nothing ever separates the two.  `OnTime` and `HeadGoesOut` except them (`Shares`),
  and `OwnTimer` says that it takes an overlap for this to happen.
- *Delays below 2.1 seconds.*  `usec*1000` overflows an `int` beyond
  (`linux_2.6.c:159`), and the message goes out early or at once.
- *Data frames.*  The delay of a remote frame is reduced by the duration of data
  that it does not carry, and it is early (`OnTime` fails with
  `Remotes = {TRUE, FALSE}`).
- *A bit rate the driver knows.*  `sendcanmsg` divides by `Baud`
  (`sja1000funcs.c:406`), which may be 0, or the contents of the timing registers.
- *Rates of the tables.*  Any other number is written to the registers: 40, which
  some files in `etc/` list, becomes 0x00 and 0x28, some 615 kbit/s at 8 MHz;
  `CAN_TIM0_40K` (`sja1000.h:320`) is used nowhere.  The entry for 800 kbit/s at
  10 MHz, "not configured", is the one for 1000.
- *`Outc` is not written while the controller is reset.*  `CAN_ChipReset` tests the
  entry, replaces a 0 and reads it again (`sja1000funcs.c:147-150`).  A value that
  `cansetup` writes between the test and the replacement is lost, for every later reset
  as well; a 0 that it writes before the second read switches the output off until the
  next one.  `SettingsKept` says that these are the only two exceptions.
- *An output control other than 0.*  `CONF_OMODE` writes what it is given, 0 included,
  and one board's default is 0 (`defs.h:127`); nothing is said of whether the output
  is driven, only that the register has the value it was given.
- *What the low bits of a filter do.*  In base format "the content of bits 0...20 is of
  no interest" (`ioctl.c:114-115`) is not so: where the mask has a 0 there, the
  controller compares the code with the first two data bytes, as `ioctl.c:79-82` says.
  `FilterExact` is stated with these bits.
- *The entries are not what the controller does.*  After a `CONFIG` in operating
  mode, or a run of `cansetup`, the registers follow at the next reset only; until
  then `STATUS` returns the new `Baud` as the "actual bit rate" (`can4linux.h:80`).
  `CONF_OMODE` is the converse: it sets the register and no entry, and is gone with
  the next reset.
- *Room for the channels, first positions first.*  The scan tests the number of
  channels with `>` (`util.c:357,401,417`): with more controllers than channels it
  writes one entry beyond each table.  A board with only its second position
  populated takes the control register of the channel before it, another board's,
  or the word before the table (`util.c:422`).  `core_init` ignores what the scan
  returns (`core.c:216`).
- *Tests that retry.*  Tests 1 to 3 take a burst of which `write` stored a part for
  a whole one and exit without waiting for the queue; test 20 never ends if its
  quotient of quotients (`can_send.c:958`) is 0, as for low rates, and divides by
  zero above 1000 kbit/s.
- *Stored is not sent.*  The programs sleep one second before they close the channel
  (`can_send.c:940,1040,1091`), or 50 ms (`can_send.c:410`), and look at nothing; the
  close throws away what is still queued.  At 10 kbit/s 128 messages need about 1.4
  seconds, and test 11 does not initialize the time stamp of its messages
  (`can_send.c:995`), so that they may be postponed further.  `CompleteTest` is about
  what `write` has stored.
- *The driver's own messages.*  `can_verify` takes the message about an overrun for one
  of the test with a wrong identifier, and expects 0 next: up to two complaints for
  each of them, besides that for the gap (`VerdictRight`).
- *What the language leaves open.*  `message.id = message.id++ % 2000`
  (`can_send.c:1037`) is undefined; `RetryDone` takes every value a build may
  produce.

## 4. The proofs

TLC looks at small instances; TLAPS proves the following for every value of the
constants: any size of the queues and width of the counters with the relation the
code needs, any number of processes, channels and timers, any bound on faults.

| theorem | states | assumes |
|---|---|---|
| `MsgQ_proofs!TypeCorrect`, `LengthBounded`, `SlotsSeparate` | types, `LengthInBounds`, `NoSlotShared` | |
| `MsgQ_proofs!RingImplementsFifo` | `ImplementsFifo`: the refinement of `MsgFifo` | |
| `TxPath_proofs!TypeCorrect` | types | |
| `TxPath_proofs!TokenIsSingle`, `ViewsAgree`, `NoEndIsMissed`, `ConsumerIsSingle`, `KickIsNotLost` | `SingleToken`, `ChipAgrees`, `EndIsTold`, `OneConsumer`, `NoLostKick`, each until a race | `OneWriter` |
| `TxPath_proofs!SentInOrder` | `WireInOrder`, until a race | `OneWriter` |
| `TxPath_proofs!WriterIsWoken` | `NoLostWakeup`, until a race | `OneWriter`, `Size >= 2` |
| `RxPath_proofs!TypeCorrect`, `FrameIsThere`, `FramesInOrder`, `PollerIsWoken` | types, `FrameToRead`, `NoFrameLost`, `NoLostWakeup` | |
| `TxPath_proofs!ControlKeepsToken`, `AccIsConfigured`, `ControlKeepsOrder` | `SingleToken`, `AccAsConfigured`, `WireInOrder` | `OneWriter`, `Care` |
| `Registers_proofs!MessageSurvives`, `FilterSelects` | `RoundTrip`, `FilterExact` | |
| `DevLife_proofs!TypeCorrect`, `HolderOwns` | types, `HolderHasAll` | |
| `DevLife_proofs!NothingIsLeaked`, `FreeOpens` | `NothingLeaks`, `FreeDeviceOpens` | `Build # "mem"` |
| `Registers_proofs!TypeCorrect`, `KeepsSettings`, `RunsAtRate` | types, `SettingsKept`, `RateInUse` | |
| `Registers_proofs!ScanTypeCorrect`, `ScanFindsAll`, `ScanOwnsBoard` | types, `OnePerController`, `OwnBoard` | |
| `DelayTimers_proofs!TypeCorrect`, `PoolIsEnough`, `TimersAreOwned` | types, `PoolSuffices`, `OwnTimer` | |
| `DelayTimers_proofs!DelaysAreKept` | `OnTime` | `Exact` |
| `LoadTest_proofs!SequencesStayWhole`, `TestsComplete`, `VerdictIsRight` | `SequencesWhole`, `CompleteTest`, `VerdictRight` | |

Section 3 tells what TLC finds without these assumptions, and what the exceptions
are that the properties themselves name.  The modules state what the constants must
satisfy: `PoolAssumption`, for one, that there are as many timers as channels
(`linux_2.6.c:126` has `MAX_CHANNELS` of them).  `Exact` says that no frame is a
remote one and no delay is beyond what an `int` holds in nanoseconds.  A queue of
one slot is at most half full only when it is empty, and a writer that sends its own
message empties it without waking anybody; with two slots it was low enough before.
The driver's are larger (`MAX_TX_BUFSIZE`).

`MsgRing_proofs`: lemmas about the arithmetic of wrapping counters.  `ModNear`
and `IncrCases` say what `%` does near its boundaries, `Ahead(p, c, k)` says that
`p` is `k` steps ahead of `c`, `LenIsDistance` that `QLen` is then `k`,
`SlotsDiffer` and `SlotsDistinct` that counters less than `Size` apart designate
different slots, `SlotShift` and `SlotAfterIncr` where the slot `k` steps on is.
They need the wrap to be a multiple of the size and more than twice as large
(`RingAssumption`), which is so for 2^32 and any power of two below 2^31.

`MsgQ_proofs`: the invariant is
`QInv`: the producer is some `k <= Size` steps ahead of the consumer, `k < Size`
while the producer is in the middle of a call, `k > 0` while the consumer is.
`LengthInBounds` alone is not inductive: an increment keeps the bounds only
because the test that allowed it still holds, whatever the other side did since.
The refinement has one step for each action: `ProducePublish` and `ConsumeTaken`
change `Contents` and are the steps of `MsgFifo`, refused calls are calls that
the FIFO refuses in that very state, and the others, the copying into a slot
among them, are stutters, because the slot in work is none of those in `Contents`.
`Held` says that what the consumer works on is the head of `Contents`, so that
`ConsumeKept` keeps what it should.

`TxPath_proofs`: `TypeCorrect` holds for any number of writers and after any race,
the others until one (`RaceLasts`: a race is never forgotten).  The invariant is
`~raced => TxInv`, and `TxInv` has these parts:

- `OneHolder`: the right to send is held by exactly one of the contexts in
  `qconsume`, `txq.idle`, the timer, the controller.  Each step either leaves it
  where it is (`TokenStays`) or hands it over (`TokenMoves`).
- `ViewsMatch`: without it the handler could not know that the interrupt it
  handles, or simulates, belongs to the transmission in progress.
- `EndTold`: a transmission that has ended is bound to be noticed, also while its
  sender has still to set `txinprogress` (`Noted`), which `EndIsTold` does not speak
  of.  Where it would fail is `Overlooks`.
- `KickHasIdle`: a writer about to clear `idle` finds it set, for nobody else
  clears it.

`KickIsNotLost` adds to this that an idle queue with a message in it has a writer
on its way to test `idle`: the empty test and the setting of `idle` are one step
because of the lock.  `SentInOrder` and `WriterIsWoken` add `QueueInv`: the
counters are some distance apart, as in `MsgQ` (`Distance`), and the slots in
between hold the messages numbered by them (`Stored`).  `OnBus` then says which
message the controller has: the one at the head of the queue while its sender has
not done the book-keeping, the one before the head afterwards.

For `ChipControl`, in the same module, `CtlInv` says that the channel is `Quiet`
from the stop or reset to the end of the start, and that `TxInv` holds, as it
stands, at any other time.  Quiet means that the next writer has the right to send,
nobody writes, and no transmission's end is still to be told.  `RestIsQuiet` and
`QuietGoesOn` lead from one to the other: a careful process stops a channel at
rest, and a quiet one that operates is one the transmit path can go on with.
`Masked` says between which steps the acceptance registers may differ from what was
configured, and that a stopped channel operates only if the handler has undone its
reset request.

`RxPath_proofs`: `NoFrameLost` says that the numbers of the frames form one
unbroken line: `last`, which the reader has got, the slots of the queue it has
not copied yet, the one the handler has stored and not published, the FIFO, and
`next`, which comes next on the bus.  The proof follows the line while the steps
of handler and reader move a frame along it, one place at a time: `StoreFrameLine`,
`PublishLine`, `ReadCopyLine`, `ReadAdvanceLine` say that the line stays, or loses
its first number, `FrameArrivesLine` that it grows by one, `BusOffLine` that it
loses what was in the FIFO, at the end.  Error messages are gaps in it.  `RxInv`
has besides what the two sides tested and may rely on (`Distance`), the numbers in
the FIFO (`FifoRuns`), and what the handler found (`Progress`): a receive
interrupt, once read, has a frame behind it until it is read, unless the
controller left the bus.

`Registers_proofs`, the part about `SjaFrame`: the state says little (`InTransit`),
the operators are what matters.  `ByteOfWord` and `LowBitsOfByte` say which bits a
shift followed by the opposite one keeps; `IdentifierSurvives` puts the registers of
both formats together from that, for each of the 2^32 words a program may write.
`AcceptsByPosition` reads the four filter registers as one word, in which the
identifier begins at bit `Shift` with the remote flag below it: `ComparedHeaderBits`
says that what the controller compares are these positions and no others,
`RegisterBit`, `FrameBit` and `WordBit` what registers, frame and the words of the
manual page have there; `LowBit` does the same for the positions below the remote
flag, the data bytes of a standard frame.

`DevLife_proofs`: the test of `isopen` proves nothing, for it is not made together
with the assignment.  The invariant is `Owned`: as long as nobody has moved the
channel, a process between the request and the release of a resource is the one in
whose name the kernel granted it, at the address and interrupt that the entries
still name.  The interrupt is requested before the queues and the controller are
touched and freed after, so `irq[line] = p` keeps every other process away from
them.  `Running` says that an open channel's controller is in reset mode only while
the handler has still to undo it, after bus-off.  `Released` is the converse, a
region or interrupt taken has a process that will release it; it holds until an open
fails half-way or the channel is moved, and not for memory access.  `QueuesReleased`
says the same of the memory of the queues, and needs no address: it survives a move.
`FreeOpens` adds `Marked`, the same for the flag: `isopen` is set only while a
process is past the point where it sets it.  That one of two racing processes clears
it for both does no harm here.  `EndsOfOpen` lists the steps by which an open may
fail; whoever is alone, and is refused nothing, cannot take any of them.

`Registers_proofs`, the part about `Settings`: for all rates, filters, output
controls and files.  `SettingsKept` speaks of a channel in
operation and at rest; its strengthening `IInv` says what each step may rely on:

- `EntriesGiven`: the entries are what was given last; `outc` may have the default in
  place of a 0, or, after one of the two races, the value that race leaves there.
- `RegistersSet`: a setting that is not stale is in its register, or on its way there:
  read as an argument of `CAN_SetTiming` or `CAN_SetMask` and not yet written.  What
  cansetup writes in between makes it stale again.  `Expected` is the output control
  to find, with the two races by name.

`RunsAtRate` follows with `Table8` and `Table10`: each entry of the two tables of
`sja1000.h` gives, by the formula of the controller's manual, the rate it stands
for, save the one of 800 kbit/s at 10 MHz.

The part about `PciScan` holds for any boards, in any order, and any number of
channels.  `ScanInv` counts the controllers the scan has passed, `Seen`:

- `CountedSeen`: `candev` is their number, even where the tables have no entry left
  for the last one, and each entry is one of them.  `SeenStays` and `ChannelEntered`
  say how a step changes `Seen`: not at all, or by the one controller that is
  entered.  A controller is entered because `AvailableIsThere`: of all the values
  `controller_available` may read, it accepts those of a controller and no others.
- `Entered`: the channels in use are those below `candev`, in the order of the scan.
- `Clean`: so far every enabled board was one of EMS, so `Seen` becomes `Present`
  when the last board is passed, or `Present` has no more to offer when a foreign
  board ends the scan (`Complete`).
- `Owned`: the channel before the second position of a board is the first position
  of the same board, if that is populated: the entry that is copied is its own.
- `Room`: no board takes more than two channels; with two for each board, every
  index is inside the tables.

`DelayTimers_proofs`: the invariant has three parts besides the types.

- `Counted`: `idly`, and every value of it that a channel may still use, is at most
  the number of channels that are done with it.  Increments that get lost make
  `idly` only smaller, so this holds however the choices overlap; a channel that
  still chooses is one more, and as there are as many timers as channels, it finds
  one (`FirstFits`).
- `Single`: as long as no two choices have overlapped, one channel at a time chooses
  (`Alone`) and no two have the same timer (`Distinct`).
- `Owned`: a timer calls back a channel that has it, and, unless that shares it, only
  while it waits; whoever waits has its timer running and pointing to it.

`DelaysAreKept` follows one message of a channel that shares no timer through
`Timed`: asked for, handed to the timer, awaited, on the wire.  That a channel shares
its timer never ends (`SharesLasts`), so the exception excuses nothing before it.
`DelayAddsUp` is the arithmetic: what `sendcanmsg` subtracts for the duration of
the frame is what the frame takes, up to what the two divisions of
`sja1000funcs.c:406` cut off.

`LoadTest_proofs`: all lengths of a sequence, ranges of identifiers that end with a
sequence, queues, options and programs.  The three properties are the ends of one
line of argument, and none of them is inductive:

- `Progress`: what a test has had stored is `round` times its messages, what lies
  before `start`, and what the call of `write` in progress has stored and not yet
  returned.  `CompleteTest` is this at the end.
- `Based`: `update_seq`, which only compares and adds, makes `base` the remainder of
  `round` sequences by the number of identifiers.  `NextBaseFollows` needs that the
  range of identifiers ends with a sequence (2043 and 536870907 are multiples of
  9); otherwise a sequence would run past the limit.
- `Streams`: message `n` has identifier, length and counter computed from `n`, in
  the queues, in the controller and in the buffer of the receiver, where the driver's
  messages are the only others.  `StoresIdeal` follows from `Progress` and `Based`.
- `Contiguous`: as long as nothing was lost there is no message of the driver, and the
  numbers run on from the last message handled through all the queues to what was
  stored last.
- `Expecting`: what `verify_message` expects.  `Counting` has two cases: the
  identifier of the successor of the last message it was given, or 0 after a message
  of the driver (`ErrorsAreOther`: no message of the test is one), which has then
  cost one complaint and may cost another.  Length and counter are those of the
  successor as long as nothing was lost.  `WrongIdentifier` turns the comparison
  into one of numbers of messages: the identifiers differ iff the number of those
  missing is no multiple of a round of identifiers.
- `Reading`: `can_verify` reads only when there is something to read.

The lemmas about `%` and `\div` start from what TLA+ defines of them (`DivMod`):
quotient and remainder are unique, and both follow when a number is increased.

**Only model-checked**, and why:

- liveness (`StartedSends`, `FrameIsRead`, `CloseReturns`, `HeadGoesOut`,
  `TestEnds`): it rests on fairness, and ENABLED is beyond the provers used.

Every safety property of a passing run is a theorem.

## 5. What is not modelled, and the plan

The queue, both paths, the control of a channel in use, its opening and closing,
its settings, delayed messages, the PCI scan and the load test are modelled.
Planned, in this order:

1. `DevLife` with the contents of the queues: `qcreate` does not reset the
   counters (`msgq.c:63`), so messages of an earlier open are left in `rxq` and
   `txq`; and with the timer that `can_close` does not cancel.
2. Both halves of the handler composed into one module.

Partly modelled: of the life cycle the registration of the driver is missing; of the
settings `IRQ` and `Base` are in `DevLife`, `Timeout` is read by nobody, and the
counters and `dbgMask` are for display.  Of the examples the printing and the
messages about bus errors are missing; `acceptance` and `baud` make calls that
`Settings` has.  The bindings in `CanSupport.c` and `canLtwo.c` ignore what `write`
returns; the first returns an old message after a timeout, the second reads
uninitialized variables (`canLtwo.c:246`); only their loops are modelled.

Left out for good: printing (`error.c`, `debug*`), macros
and wrappers (`io.h`, `kapi.h`, `linux_2.4.c`), the software filter, which no
build contains, generated code (`canLtwo_wrap.c`, `trm816/cmdline.c`, the output of
`sysctl.awk`), the set-up of one board (`trm816/`) and configuration files.  Time
stamps of received messages, the contents of messages and the timing of the bus,
except in `DelayTimers`, are abstracted from.

## 6. Use

    tlc -config MCTxPath.cfg MCTxPath
    tlapm TxPath_proofs.tla

`PROJECT.json` lists the runs, the properties each checks, the faulty variants
that break them, and the lines of the source each definition models.
