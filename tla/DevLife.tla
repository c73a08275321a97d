------------------------------ MODULE DevLife ------------------------------
(***************************************************************************)
(* Opening and closing a channel: can_open and can_close with what they    *)
(* request from the kernel (I/O region, interrupt, memory of the two       *)
(* queues), and the interrupt thread as far as it matters to them.         *)
(*                                                                         *)
(* Processes call can_open and can_close concurrently: the kernel holds no *)
(* lock around them.  dev->isopen is tested in one step and set in         *)
(* another one.  An open that fails returns without giving back what it    *)
(* has got, and without clearing isopen.  At any time cansetup may write   *)
(* the entries Base and IRQ, which open and close read anew each time they *)
(* need an address or an interrupt.  The minor number is legal.            *)
(***************************************************************************)
EXTENDS Integers

CONSTANTS
  Procs,           \* processes
  None,            \* nobody, no address, no interrupt
  Build,           \* register access the driver was compiled for
  Addrs, Home,     \* addresses somebody may configure, and that of the controller
  Lines, HomeLine, \* interrupts somebody may configure, and that of the controller
  RxSize,          \* slots of rxq
  MaxFaults,       \* bound on requests the kernel or the board refuses
  MaxSetups        \* bound on changes made by cansetup

ASSUME LifeAssumption ==
  /\ None \notin Procs \cup Addrs \cup Lines
  /\ Build \in {"port", "mem", "pci"}
  /\ Home \in Addrs /\ HomeLine \in Lines
  /\ RxSize \in Nat \ {0} /\ MaxFaults \in Nat /\ MaxSetups \in Nat

VARIABLES
  pc,          \* the step of can_open or can_close each process is at
  base, line,  \* Base[minor] and IRQ[minor], None if 0
  mapped,      \* can_base[minor], which a build for ports does not use
  isopen,      \* dev->isopen
  mem,         \* memory of the queues
  region, irq, \* who requested an address, whose handler an interrupt calls
  waits,       \* whose handler a process in free_irq waits for
  chip,        \* is the controller in reset mode, as after bus-off, or running?
  frames,      \* there is a frame in its receive FIFO
  warn,        \* its error warning interrupt is pending
  len,         \* qlen(&dev->rxq): survives a close
  handler,     \* whose interrupt thread is in CAN_Interrupt
  src,         \* bits of irqsrc it has still to treat
  faults,      \* requests refused so far
  spoiled,     \* history: an open has failed after it set isopen
  setups,      \* changes made so far
  moved,       \* history: Base or IRQ changed while the channel was in use
  undone       \* history: the handler has undone the reset request of a close

entryVars  == <<base, line, setups, moved>>
devVars    == <<mapped, isopen, mem>>
kernelVars == <<region, irq, waits>>
chipVars   == <<chip, frames, warn>>
rxVars     == <<len, handler, src, undone>>
failVars   == <<faults, spoiled>>
vars == <<pc, entryVars, devVars, kernelVars, chipVars, rxVars, failVars>>

Opening == {"mark", "region", "map", "irq", "rxq", "txq", "reset", "start"}
Closing == {"relregion", "cleanup", "freeirq", "sync", "unmark"}

(* core_init; a PCI build finds address and interrupt itself. *)
Init ==
  /\ pc = [p \in Procs |-> "closed"]
  /\ base = IF Build = "pci" THEN Home ELSE None
  /\ line = IF Build = "pci" THEN HomeLine ELSE None
  /\ mapped = None /\ isopen = 0 /\ mem = [q \in {"rx", "tx"} |-> "none"]
  /\ region = [a \in Addrs |-> None] /\ irq = [l \in Lines |-> None]
  /\ waits = [p \in Procs |-> None]
  /\ chip = "reset" /\ frames = FALSE /\ warn = FALSE
  /\ len = 0 /\ handler = None /\ src = {}
  /\ faults = 0 /\ setups = 0 /\ spoiled = FALSE /\ moved = FALSE /\ undone = FALSE

-----------------------------------------------------------------------------
At(p, here) == pc[p] = here
Goto(p, there) == pc' = [pc EXCEPT ![p] = there]

(* A process whose open is being refused is not at work on the channel. *)
Idle == {"closed", "refused"}
Nobody == \A p \in Procs : pc[p] \in Idle
Alone(p) == \A q \in Procs \ {p} : pc[q] \in Idle

(* can_open returns an error after isopen has been set: nothing is undone. *)
Fail(p) ==
  /\ Goto(p, "closed")
  /\ spoiled' = TRUE
  /\ UNCHANGED <<entryVars, devVars, kernelVars, chipVars, rxVars>>

(* The kernel, or the board, refuses what it was asked for. *)
Fault == faults < MaxFaults /\ faults' = faults + 1

(* The registers accessed by the driver are those of the controller: a     *)
(* build for ports uses Base each time, the others what open has mapped.   *)
Reached == (IF Build = "port" THEN base ELSE mapped) = Home

-----------------------------------------------------------------------------
(* can_open *)

(* ENXIO *)
OpenRefused(p) ==
  /\ At(p, "closed") /\ isopen = 1
  /\ Goto(p, "refused")
  /\ UNCHANGED <<entryVars, devVars, kernelVars, chipVars, rxVars, failVars>>

OpenGiveUp(p) ==
  /\ At(p, "refused")
  /\ Goto(p, "closed")
  /\ UNCHANGED <<entryVars, devVars, kernelVars, chipVars, rxVars, failVars>>

OpenTest(p) ==
  /\ At(p, "closed") /\ isopen # 1
  /\ Goto(p, "mark")
  /\ UNCHANGED <<entryVars, devVars, kernelVars, chipVars, rxVars, failVars>>

(* Faulty variant: opens are counted, and the flag is never 1 for two. *)
OpenMarkCounting(p) ==
  /\ At(p, "mark") /\ base # None
  /\ isopen' = isopen + 1
  /\ Goto(p, "region")
  /\ UNCHANGED <<entryVars, mapped, mem, kernelVars, chipVars, rxVars, failVars>>

OpenMark(p) ==
  /\ At(p, "mark") /\ base # None
  /\ isopen' = 1
  /\ Goto(p, "region")
  /\ UNCHANGED <<entryVars, mapped, mem, kernelVars, chipVars, rxVars, failVars>>

(* ENXIO *)
OpenNoDevice(p) ==
  /\ At(p, "mark") /\ base = None
  /\ isopen' = 1
  /\ Goto(p, "closed")
  /\ spoiled' = TRUE
  /\ UNCHANGED <<entryVars, mapped, mem, kernelVars, chipVars, rxVars, faults>>

(* CAN_VendorInit: a PCI build requests no region.  Of a region at 0 the   *)
(* kernel knows nothing.                                                   *)
OpenRegion(p) ==
  /\ At(p, "region")
  /\ IF Build = "pci" \/ base = None THEN region' = region
     ELSE region[base] = None /\ region' = [region EXCEPT ![base] = p]
  /\ Goto(p, "map")
  /\ UNCHANGED <<entryVars, devVars, irq, waits, chipVars, rxVars, failVars>>

(* EBUSY *)
RegionBusy(p) ==
  /\ At(p, "region") /\ Build # "pci" /\ base # None /\ region[base] # None
  /\ Fail(p)
  /\ UNCHANGED faults

OpenMap(p) ==
  /\ At(p, "map")
  /\ mapped' = IF Build = "port" THEN mapped ELSE base
  /\ Goto(p, "irq")
  /\ UNCHANGED <<entryVars, isopen, mem, kernelVars, chipVars, rxVars, failVars>>

(* Faulty variant: the interrupt is requested with IRQF_SHARED. *)
OpenIrqShared(p) ==
  /\ At(p, "irq")
  /\ irq' = IF line = None THEN irq ELSE [irq EXCEPT ![line] = p]
  /\ Goto(p, "rxq")
  /\ UNCHANGED <<entryVars, devVars, region, waits, chipVars, rxVars, failVars>>

(* The interrupt, if there is one, is not shared: flags are 0. *)
OpenIrq(p) ==
  /\ At(p, "irq")
  /\ IF line = None THEN irq' = irq
     ELSE irq[line] = None /\ irq' = [irq EXCEPT ![line] = p]
  /\ Goto(p, "rxq")
  /\ UNCHANGED <<entryVars, devVars, region, waits, chipVars, rxVars, failVars>>

(* EBUSY *)
IrqBusy(p) ==
  /\ At(p, "irq") /\ line # None
  /\ (irq[line] # None /\ UNCHANGED faults) \/ Fault
  /\ Fail(p)

(* Can_FifoInit *)
OpenQueue(p, q, next) ==
  /\ mem' = [mem EXCEPT ![q] = "live"]
  /\ Goto(p, next)
  /\ UNCHANGED <<entryVars, mapped, isopen, kernelVars, chipVars, rxVars, failVars>>

OpenRxq(p) == At(p, "rxq") /\ OpenQueue(p, "rx", "txq")
OpenTxq(p) == At(p, "txq") /\ OpenQueue(p, "tx", "reset")

(* ENOMEM *)
NoMemory(p) ==
  /\ At(p, "rxq") \/ At(p, "txq")
  /\ Fault
  /\ Fail(p)

(* CAN_ChipReset; reset mode empties the receive FIFO. *)
OpenReset(p) ==
  /\ At(p, "reset")
  /\ IF Reached THEN chip' = "reset" /\ frames' = FALSE ELSE UNCHANGED <<chip, frames>>
  /\ Goto(p, "start")
  /\ UNCHANGED <<entryVars, devVars, kernelVars, warn, rxVars, failVars>>

(* EINVAL *)
NoBoard(p) ==
  /\ At(p, "reset")
  /\ (~Reached /\ UNCHANGED faults) \/ Fault
  /\ Fail(p)

(* CAN_StartChip also clears the interrupts. *)
OpenStart(p) ==
  /\ At(p, "start")
  /\ IF Reached THEN chip' = "run" /\ warn' = FALSE ELSE UNCHANGED <<chip, warn>>
  /\ Goto(p, "open")
  /\ UNCHANGED <<entryVars, devVars, kernelVars, frames, rxVars, failVars>>

-----------------------------------------------------------------------------
(* can_close *)

(* Faulty variant: the controller is not stopped. *)
CloseNoStop(p) ==
  /\ At(p, "open")
  /\ Goto(p, "relregion")
  /\ UNCHANGED <<entryVars, devVars, kernelVars, chipVars, rxVars, failVars>>

CloseStop(p) ==
  /\ At(p, "open")
  /\ IF Reached THEN chip' = "reset" /\ frames' = FALSE ELSE UNCHANGED <<chip, frames>>
  /\ Goto(p, "relregion")
  /\ UNCHANGED <<entryVars, devVars, kernelVars, warn, rxVars, failVars>>

(* What Base says now is released, by whomever it was requested.  A build  *)
(* for memory access does not release its region.                          *)
CloseRegion(p) ==
  /\ At(p, "relregion")
  /\ region' = IF Build = "mem" \/ base = None THEN region
               ELSE [region EXCEPT ![base] = None]
  /\ Goto(p, "cleanup")
  /\ UNCHANGED <<entryVars, devVars, irq, waits, chipVars, rxVars, failVars>>

(* Faulty variant: the memory of rxq is not freed. *)
CloseOneQueue(p) ==
  /\ At(p, "cleanup")
  /\ mem' = [mem EXCEPT !["tx"] = "freed"]
  /\ Goto(p, "freeirq")
  /\ UNCHANGED <<entryVars, mapped, isopen, kernelVars, chipVars, rxVars, failVars>>

(* Can_FifoCleanup *)
CloseQueues(p) ==
  /\ At(p, "cleanup")
  /\ mem' = [q \in {"rx", "tx"} |-> "freed"]
  /\ Goto(p, "freeirq")
  /\ UNCHANGED <<entryVars, mapped, isopen, kernelVars, chipVars, rxVars, failVars>>

(* free_irq, of what IRQ says now: the handler is called no more, ... *)
CloseIrq(p) ==
  /\ At(p, "freeirq")
  /\ IF line = None THEN UNCHANGED <<irq, waits>>
     ELSE /\ irq' = [irq EXCEPT ![line] = None]
          /\ waits' = [waits EXCEPT ![p] = irq[line]]
  /\ Goto(p, "sync")
  /\ UNCHANGED <<entryVars, devVars, region, chipVars, rxVars, failVars>>

(* ... and if it runs, free_irq waits for its end. *)
CloseSync(p) ==
  /\ At(p, "sync") /\ (waits[p] = None \/ handler # waits[p])
  /\ waits' = [waits EXCEPT ![p] = None]
  /\ Goto(p, "unmark")
  /\ UNCHANGED <<entryVars, devVars, region, irq, chipVars, rxVars, failVars>>

(* Faulty variant: isopen stays set. *)
CloseKeepMark(p) ==
  /\ At(p, "unmark")
  /\ Goto(p, "closed")
  /\ UNCHANGED <<entryVars, devVars, kernelVars, chipVars, rxVars, failVars>>

CloseUnmark(p) ==
  /\ At(p, "unmark")
  /\ isopen' = IF isopen > 0 THEN isopen - 1 ELSE isopen
  /\ Goto(p, "closed")
  /\ UNCHANGED <<entryVars, mapped, mem, kernelVars, chipVars, rxVars, failVars>>

-----------------------------------------------------------------------------
(* cansetup writes Base, then IRQ; writing what is there changes nothing.  *)
(* In a PCI build the two are read-only.  The channel moves if an address  *)
(* is replaced, or the interrupt set, while a process is at work.          *)
SetupBase(a) ==
  /\ Build # "pci" /\ base # a
  /\ setups < MaxSetups /\ setups' = setups + 1
  /\ base' = a
  /\ moved' = (moved \/ (~Nobody /\ base # None))
  /\ UNCHANGED <<pc, line, devVars, kernelVars, chipVars, rxVars, failVars>>

SetupLine(l) ==
  /\ Build # "pci" /\ line # l
  /\ setups < MaxSetups /\ setups' = setups + 1
  /\ line' = l
  /\ moved' = (moved \/ ~Nobody)
  /\ UNCHANGED <<pc, base, devVars, kernelVars, chipVars, rxVars, failVars>>

-----------------------------------------------------------------------------
(* An open channel. *)

FrameArrives ==
  /\ chip = "run"
  /\ frames' = TRUE
  /\ UNCHANGED <<pc, entryVars, devVars, kernelVars, chip, warn, rxVars, failVars>>

(* A change of the error status, or bus-off, which is followed by reset    *)
(* mode.                                                                   *)
ErrorStatus ==
  /\ chip = "run"
  /\ warn' = TRUE
  /\ (chip' = "reset" /\ frames' = FALSE) \/ UNCHANGED <<chip, frames>>
  /\ UNCHANGED <<pc, entryVars, devVars, kernelVars, rxVars, failVars>>

Read(p) ==
  /\ At(p, "open") /\ len > 0
  /\ len' = len - 1
  /\ UNCHANGED <<pc, entryVars, devVars, kernelVars, chipVars, handler, src, undone, failVars>>

-----------------------------------------------------------------------------
(* CAN_Interrupt.  The receive interrupt stays on until the FIFO is empty. *)

Pending == (IF frames THEN {"rx"} ELSE {}) \cup (IF warn THEN {"warn"} ELSE {})

HandlerEnter ==
  /\ handler = None /\ irq[HomeLine] # None /\ Pending # {}
  /\ handler' = irq[HomeLine]
  /\ UNCHANGED <<pc, entryVars, devVars, kernelVars, chipVars, len, src, undone, failVars>>

(* It reads what is pending, at the wrong place anything, and leaves if    *)
(* that is nothing.                                                        *)
HandlerSource ==
  /\ handler # None /\ src = {}
  /\ IF Reached THEN src' = Pending /\ warn' = FALSE
     ELSE src' \in SUBSET {"rx", "warn"} /\ warn' = warn
  /\ handler' = IF src' = {} THEN None ELSE handler
  /\ UNCHANGED <<pc, entryVars, devVars, kernelVars, chip, frames, len, undone, failVars>>

(* A frame stays in the FIFO while rxq is full. *)
HandlerStore ==
  /\ "rx" \in src
  /\ IF len < RxSize THEN len' = len + 1 /\ frames' = (frames /\ ~Reached)
     ELSE UNCHANGED <<len, frames>>
  /\ src' = src \ {"rx"}
  /\ UNCHANGED <<pc, entryVars, devVars, kernelVars, chip, warn, handler, undone, failVars>>

(* The error branch undoes a reset request, whoever made it, and stores an *)
(* error message.                                                          *)
HandlerUndo ==
  /\ src = {"warn"}
  /\ chip' = IF Reached THEN "run" ELSE chip
  /\ undone' = (undone \/ (Reached /\ chip = "reset" /\ \E p \in Procs : pc[p] \in Closing))
  /\ len' = IF len < RxSize THEN len + 1 ELSE len
  /\ src' = {}
  /\ UNCHANGED <<pc, entryVars, devVars, kernelVars, frames, warn, handler, failVars>>

-----------------------------------------------------------------------------
OpenStep(p) ==
  \/ OpenGiveUp(p) \/ OpenMark(p) \/ OpenNoDevice(p)
  \/ OpenRegion(p) \/ RegionBusy(p) \/ OpenMap(p) \/ OpenIrq(p) \/ IrqBusy(p)
  \/ OpenRxq(p) \/ OpenTxq(p) \/ NoMemory(p)
  \/ OpenReset(p) \/ NoBoard(p) \/ OpenStart(p)

CloseStep(p) ==
  CloseRegion(p) \/ CloseQueues(p) \/ CloseIrq(p) \/ CloseSync(p) \/ CloseUnmark(p)

HandlerStep == HandlerSource \/ HandlerStore \/ HandlerUndo

Next ==
  \/ \E p \in Procs :
       \/ OpenRefused(p) \/ OpenTest(p) \/ OpenStep(p)
       \/ CloseStop(p) \/ CloseStep(p) \/ Read(p)
  \/ \E a \in Addrs \cup {None} : SetupBase(a)
  \/ \E l \in Lines \cup {None} : SetupLine(l)
  \/ FrameArrives \/ ErrorStatus \/ HandlerEnter \/ HandlerStep

Spec == Init /\ [][Next]_vars

(* A system call that has begun goes on, and the interrupt thread runs.    *)
(* Nobody is obliged to open, to read or to close.                         *)
FairSpec ==
  /\ Spec
  /\ \A p \in Procs : WF_vars(OpenStep(p)) /\ WF_vars(CloseStep(p))
  /\ WF_vars(HandlerStep)

-----------------------------------------------------------------------------
TypeOK ==
  /\ pc \in [Procs -> Idle \cup {"open"} \cup Opening \cup Closing]
  /\ base \in Addrs \cup {None} /\ line \in Lines \cup {None}
  /\ mapped \in Addrs \cup {None}
  /\ isopen \in 0..1
  /\ mem \in [{"rx", "tx"} -> {"none", "live", "freed"}]
  /\ region \in [Addrs -> Procs \cup {None}] /\ irq \in [Lines -> Procs \cup {None}]
  /\ waits \in [Procs -> Procs \cup {None}]
  /\ chip \in {"reset", "run"} /\ frames \in BOOLEAN /\ warn \in BOOLEAN
  /\ len \in 0..RxSize
  /\ handler \in Procs \cup {None} /\ src \subseteq {"rx", "warn"}
  /\ faults \in 0..MaxFaults /\ setups \in 0..MaxSetups
  /\ spoiled \in BOOLEAN /\ moved \in BOOLEAN /\ undone \in BOOLEAN

(* On a channel with an interrupt whose address and interrupt nobody       *)
(* changes while it is in use, a process whose open has succeeded has the  *)
(* region, the interrupt, the memory of both queues and a controller that  *)
(* nobody has stopped until it closes, and so no two processes have the    *)
(* channel open.  What keeps them apart is not isopen, which two of them   *)
(* may find clear (open.c:72-77), but that the kernel grants region and    *)
(* interrupt once, and that can_close frees the interrupt last             *)
(* (close.c:48-61).                                                        *)
HolderHasAll ==
  (line # None /\ ~moved) =>
    \A p \in Procs : At(p, "open") =>
      /\ Build # "pci" => region[base] = p
      /\ irq[line] = p
      /\ mem["rx"] = "live" /\ mem["tx"] = "live"
      /\ base = Home => chip = "run" \/ warn \/ "warn" \in src

(* When every process has closed the channel and no open has failed        *)
(* half-way, the memory of both queues was freed, whatever cansetup did;   *)
(* and no region or interrupt is left behind, unless Base or IRQ changed   *)
(* while the channel was in use: close releases what they say then         *)
(* (close.c:48,61).                                                        *)
NothingLeaks ==
  (Nobody /\ ~spoiled) =>
    /\ mem["rx"] # "live" /\ mem["tx"] # "live"
    /\ ~moved => (\A a \in Addrs : region[a] = None) /\ (\A l \in Lines : irq[l] = None)

(* A configured channel that nobody else uses can be opened, whatever      *)
(* opens and closes have raced before, unless an open has failed half-way  *)
(* or the channel has moved while it was in use.                           *)
FreeDeviceOpens ==
  [][\A p \in Procs :
       (Alone(p) /\ base = Home /\ ~spoiled /\ ~moved' /\ faults' = faults)
         => ~(pc[p] \in Opening \cup {"closed"} /\ pc'[p] \in Idle /\ pc'[p] # pc[p])]_vars

(* close returns, even if rxq is full and nobody reads any more, because   *)
(* the controller was stopped first (close.c:43): the handler free_irq     *)
(* waits for leaves its loop.  It need not return if the channel has moved *)
(* while it was in use; if another process opens the channel while the     *)
(* handler still runs, which then serves the frames of that process; and   *)
(* if the error branch of the handler has undone the reset request of the  *)
(* close (sja1000funcs.c:612-617) and frames have filled rxq since.        *)
CloseReturns ==
  \A p \in Procs :
    (pc[p] \in Closing /\ base = Home) ~>
      (At(p, "closed") \/ ~Alone(p) \/ moved \/ (undone /\ len = RxSize))

(* open returns ENXIO only if "no corresponding device exists"             *)
(* (open.c:43-44) or the device is open or being opened or closed ("should *)
(* be used only by one process", open.c:70).                               *)
EnxioIsTrue ==
  [][\A p \in Procs :
       (At(p, "closed") /\ pc'[p] = "refused") => base = None \/ ~Alone(p)]_vars
=============================================================================
