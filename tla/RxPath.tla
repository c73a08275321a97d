------------------------------- MODULE RxPath -------------------------------
(***************************************************************************)
(* The receive path: how a frame gets from the receive FIFO of the SJA1000 *)
(* through the interrupt thread (CAN_Interrupt, rxproduce, readcanmsg,     *)
(* errmsg in sja1000funcs.c) and dev->rxq to the process in can_read       *)
(* (read.c), and how a poller (select.c) learns about it.                  *)
(*                                                                         *)
(* The interrupt thread is the only producer of rxq and the reader its     *)
(* only consumer; rxq has no lock.  One iteration of the loop in           *)
(* CAN_Interrupt is three stages, "rx", "err" and "ovr", each of which may *)
(* store a message; the transmit branch between the last two is in TxPath. *)
(*                                                                         *)
(* Frames the controller accepts are numbered.                             *)
(***************************************************************************)
EXTENDS MsgRing, Sequences

CONSTANTS
  ChipSize,  \* frames the receive FIFO of the controller holds
  Frames,    \* frame numbers are 0 .. Frames - 1, then start again
  MaxFaults  \* bound on the error phases and overruns of a behaviour

ASSUME RxAssumption ==
  /\ ChipSize \in Nat \ {0}
  /\ Frames \in Nat /\ Frames > Size + ChipSize + 1
  /\ MaxFaults \in Nat

Frame == 0 .. Frames - 1
NoFrame == Frames            \* in the messages errmsg makes
Flag == {"BOVR", "PASSIVE", "BUSOFF", "OVR"}
Message == [frame : Frame \cup {NoFrame}, flags : SUBSET Flag]

(* Bits of the interrupt register: CAN_RECEIVE_INT, CAN_ERROR_WARN_INT,    *)
(* CAN_OVERRUN_INT.                                                        *)
RI == "RI"
EI == "EI"
DOI == "DOI"

VARIABLES
  \* struct MsgQ rxq, and dev->rxstatus
  data, produced, consumed,
  overrun,     \* dev->rxstatus = BUF_OVERRUN
  \* the interrupt thread
  stage,       \* "off", "loop", or the branch it is in
  step,        \* where it is in the branch's rxproduce
  irqsrc,      \* the interrupts of this iteration
  flags,       \* msginf.flags
  \* the process in can_read, and a process in can_select
  rpc,         \* where the reader is in qconsume
  poll, woken, \* as in TxPath
  \* the SJA1000
  fifo,        \* frames in the receive FIFO, oldest first
  latched,     \* interrupt bits that reading canirq clears
  dos,         \* data overrun status
  bus,         \* "active", "warn" (error status), "reset" (bus-off, in reset
               \* mode), "off" (bus-off, out of reset mode)
  faults,      \* bound: error phases and overruns so far
  \* history
  next,        \* number of the next frame the controller accepts
  last,        \* the last frame the reader got
  unreported   \* an error message was dropped since one was last stored

qVars    == <<data, produced, consumed, overrun>>
irqVars  == <<stage, step, irqsrc, flags>>
userVars == <<rpc, poll, woken>>
chipVars == <<fifo, latched, dos, bus, faults>>
history  == <<next, last, unreported>>
vars == <<qVars, irqVars, userVars, chipVars, history>>

Init ==
  /\ data = [s \in Slot |-> [frame |-> NoFrame, flags |-> {}]]
  /\ produced = 0 /\ consumed = 0 /\ overrun = FALSE
  /\ stage = "off" /\ step = "begin" /\ irqsrc = {} /\ flags = {}
  /\ rpc = "user" /\ poll = "off" /\ woken = FALSE
  /\ fifo = <<>> /\ latched = {} /\ dos = FALSE /\ bus = "active" /\ faults = 0
  /\ next = 0 /\ last = Frames - 1 /\ unreported = FALSE

(* CAN_RECEIVE_INT stays set while there is a frame in the FIFO. *)
Pending == latched \cup (IF fifo # <<>> THEN {RI} ELSE {})

(* wake_up_interruptible(&dev->wq) *)
WakeUp == woken' = (woken \/ poll # "off")

-----------------------------------------------------------------------------
(* CAN_Interrupt *)

(* Read canirq, on entry and at the end of the loop; preset the flags. *)
IrqRead ==
  /\ stage \in {"off", "loop"}
  /\ Pending # {}
  /\ irqsrc' = Pending /\ latched' = {}
  /\ flags' = IF overrun THEN {"BOVR"} ELSE {}
  /\ stage' = "rx" /\ step' = "begin"
  /\ UNCHANGED <<qVars, userVars, fifo, dos, bus, faults, history>>

IrqLeave ==
  /\ stage = "loop"
  /\ Pending = {}
  /\ stage' = "off" /\ irqsrc' = {} /\ flags' = {}
  /\ UNCHANGED <<qVars, step, userVars, chipVars, history>>

Cause(s) == CASE s = "rx" -> RI [] s = "err" -> EI [] s = "ovr" -> DOI
After(s) == CASE s = "rx" -> "err" [] s = "err" -> "ovr" [] s = "ovr" -> "loop"

(* The interrupt of this branch is not pending. *)
Skip(s) ==
  /\ stage = s /\ step = "begin"
  /\ Cause(s) \notin irqsrc
  /\ stage' = After(s)
  /\ UNCHANGED <<qVars, step, irqsrc, flags, userVars, chipVars, history>>

(* The error branch first undoes a reset request; it is the controller's,  *)
(* see ChipControl for those of a process.                                 *)
UndoReset ==
  /\ stage = "err" /\ step = "begin"
  /\ EI \in irqsrc
  /\ bus' = IF bus = "reset" THEN "off" ELSE bus
  /\ step' = "status"
  /\ UNCHANGED <<qVars, stage, irqsrc, flags, userVars, fifo, latched, dos, faults,
                 history>>

(* Then a branch reads canstat and calls rxproduce. *)
Ready(s) ==
  /\ stage = s /\ step = IF s = "err" THEN "status" ELSE "begin"
  /\ Cause(s) \in irqsrc

(* What it finds there: "err = + MSG_BUSOFF" replaces MSG_PASSIVE. *)
Found(s) ==
  CASE s = "rx"  -> {}
    [] s = "err" -> CASE bus = "active" -> {} [] bus = "warn" -> {"PASSIVE"} [] OTHER -> {"BUSOFF"}
    [] s = "ovr" -> IF dos THEN {"OVR"} ELSE {}

(* Faulty variant: the receive buffer is released all the same. *)
RefuseAndRelease(s) ==
  /\ Ready(s)
  /\ QFull(produced, consumed)
  /\ flags' = flags \cup Found(s)
  /\ overrun' = TRUE /\ unreported' = (unreported \/ s # "rx")
  /\ fifo' = IF s = "rx" /\ fifo # <<>> THEN Tail(fifo) ELSE fifo
  /\ step' = "end"
  /\ UNCHANGED <<data, produced, consumed, stage, irqsrc, userVars, latched, dos,
                 bus, faults, next, last>>

(* rxproduce: the queue is full, nothing is stored.  A frame stays in the  *)
(* controller, an error message is gone.                                   *)
Refuse(s) ==
  /\ Ready(s)
  /\ QFull(produced, consumed)
  /\ flags' = flags \cup Found(s)
  /\ overrun' = TRUE /\ unreported' = (unreported \/ s # "rx")
  /\ step' = "end"
  /\ UNCHANGED <<data, produced, consumed, stage, irqsrc, userVars, chipVars,
                 next, last>>

(* Faulty variant: the branch is taken whatever the interrupt was. *)
AcceptAlways(s) ==
  /\ stage = s /\ step = "begin"
  /\ ~QFull(produced, consumed)
  /\ flags' = flags \cup Found(s)
  /\ step' = "store"
  /\ UNCHANGED <<qVars, stage, irqsrc, userVars, chipVars, history>>

Accept(s) ==
  /\ Ready(s)
  /\ ~QFull(produced, consumed)
  /\ flags' = flags \cup Found(s)
  /\ step' = "store"
  /\ UNCHANGED <<qVars, stage, irqsrc, userVars, chipVars, history>>

(* readcanmsg: copy the oldest frame, CAN_RELEASE_RECEIVE_BUFFER.  When    *)
(* there is none, what the registers hold is no frame, but a message.      *)
StoreFrame ==
  /\ stage = "rx" /\ step = "store"
  /\ data' = [data EXCEPT ![SlotOf(produced)] =
                [frame |-> IF fifo = <<>> THEN NoFrame ELSE Head(fifo), flags |-> flags]]
  /\ fifo' = IF fifo = <<>> THEN fifo ELSE Tail(fifo)
  /\ step' = "publish"
  /\ UNCHANGED <<produced, consumed, overrun, stage, irqsrc, flags, userVars,
                 latched, dos, bus, faults, history>>

(* errmsg *)
StoreError ==
  /\ stage \in {"err", "ovr"} /\ step = "store"
  /\ data' = [data EXCEPT ![SlotOf(produced)] =
                [frame |-> NoFrame, flags |-> flags]]
  /\ step' = "publish"
  /\ UNCHANGED <<produced, consumed, overrun, stage, irqsrc, flags, userVars,
                 chipVars, history>>

Publish ==
  /\ step = "publish"
  /\ produced' = Incr(produced)
  /\ unreported' = FALSE
  /\ step' = "stored"
  /\ UNCHANGED <<data, consumed, overrun, stage, irqsrc, flags, userVars,
                 chipVars, next, last>>

(* Faulty variant: nobody is woken up. *)
StoredSilently ==
  /\ step = "stored"
  /\ overrun' = FALSE
  /\ step' = "end"
  /\ UNCHANGED <<data, produced, consumed, stage, irqsrc, flags, userVars,
                 chipVars, history>>

Stored ==
  /\ step = "stored"
  /\ overrun' = FALSE
  /\ WakeUp
  /\ step' = "end"
  /\ UNCHANGED <<data, produced, consumed, stage, irqsrc, flags, rpc, poll,
                 chipVars, history>>

(* The end of a branch.  The receive and the overrun branch issue          *)
(* CAN_CLEAR_OVERRUN_STATUS.                                               *)
EndBranch(s) ==
  /\ stage = s /\ step = "end"
  /\ dos' = (dos /\ s = "err")
  /\ stage' = After(s) /\ step' = "begin"
  /\ UNCHANGED <<qVars, irqsrc, flags, userVars, fifo, latched, bus, faults,
                 history>>

Branch(s) == Skip(s) \/ Refuse(s) \/ Accept(s) \/ EndBranch(s)

Interrupt ==
  \/ IrqRead \/ IrqLeave
  \/ \E s \in {"rx", "err", "ovr"} : Branch(s)
  \/ UndoReset \/ StoreFrame \/ StoreError \/ Publish \/ Stored

-----------------------------------------------------------------------------
(* can_read: qconsume(&dev->rxq, copymsgtouser, ...).  On an empty queue   *)
(* the call returns and changes nothing but rxq.idle, which nobody reads.  *)

ReadBegin ==
  /\ rpc = "user"
  /\ ~QEmpty(produced, consumed)
  /\ rpc' = "copy"
  /\ UNCHANGED <<qVars, irqVars, poll, woken, chipVars, history>>

ReadCopy ==
  /\ rpc = "copy"
  /\ LET f == data[SlotOf(consumed)].frame
     IN  last' = IF f = NoFrame THEN last ELSE f
  /\ rpc' = "advance"
  /\ UNCHANGED <<qVars, irqVars, poll, woken, chipVars, next, unreported>>

(* Faulty variant: copymsgtouser returns 0, "not consumed". *)
ReadNotConsumed ==
  /\ rpc = "advance"
  /\ rpc' = "user"
  /\ UNCHANGED <<qVars, irqVars, poll, woken, chipVars, history>>

ReadAdvance ==
  /\ rpc = "advance"
  /\ consumed' = Incr(consumed)
  /\ rpc' = "user"
  /\ UNCHANGED <<data, produced, overrun, irqVars, poll, woken, chipVars, history>>

Read == ReadBegin \/ ReadCopy \/ ReadAdvance

-----------------------------------------------------------------------------
(* can_select, its receive half *)

PollRegister ==
  /\ poll = "off" \/ (poll = "asleep" /\ woken)
  /\ poll' = "registered" /\ woken' = FALSE
  /\ UNCHANGED <<qVars, irqVars, rpc, chipVars, history>>

PollCheck ==
  /\ poll = "registered"
  /\ IF QLen(produced, consumed) > 0
     THEN poll' = "off" /\ woken' = FALSE
     ELSE poll' = "asleep" /\ UNCHANGED woken
  /\ UNCHANGED <<qVars, irqVars, rpc, chipVars, history>>

Poller == PollRegister \/ PollCheck

-----------------------------------------------------------------------------
(* The controller and the bus, as far as the driver depends on them. *)

OnBus == bus \in {"active", "warn"}

FrameArrives ==
  /\ OnBus /\ Len(fifo) < ChipSize
  /\ fifo' = Append(fifo, next)
  /\ next' = (next + 1) % Frames
  /\ UNCHANGED <<qVars, irqVars, userVars, latched, dos, bus, faults, last,
                 unreported>>

(* The frame is lost; the interrupt comes with the change of the status. *)
FrameOverruns ==
  /\ OnBus /\ Len(fifo) = ChipSize
  /\ faults < MaxFaults
  /\ ~dos
  /\ faults' = faults + 1
  /\ dos' = TRUE /\ latched' = latched \cup {DOI}
  /\ UNCHANGED <<qVars, irqVars, userVars, fifo, bus, history>>

(* A step between the error states is announced by an interrupt. *)
ErrorStep(from, to) ==
  /\ bus = from /\ bus' = to
  /\ latched' = latched \cup {EI}
  /\ UNCHANGED <<qVars, irqVars, userVars, last, unreported>>

ErrorWarn ==
  /\ faults < MaxFaults /\ faults' = faults + 1
  /\ ErrorStep("active", "warn")
  /\ UNCHANGED <<fifo, dos, next>>

ErrorClear ==
  /\ ErrorStep("warn", "active")
  /\ UNCHANGED <<fifo, dos, faults, next>>

(* Bus-off: the controller enters reset mode, which empties its FIFO.      *)
(* Nobody gets these frames; their numbers are given again.                *)
BusOff ==
  /\ ErrorStep("warn", "reset")
  /\ fifo' = <<>> /\ dos' = FALSE
  /\ next' = (next - Len(fifo)) % Frames
  /\ UNCHANGED faults

(* Out of reset mode, the controller saw enough of a quiet bus. *)
Recover ==
  /\ ErrorStep("off", "active")
  /\ UNCHANGED <<fifo, dos, faults, next>>

Chip ==
  \/ FrameArrives \/ FrameOverruns
  \/ ErrorWarn \/ ErrorClear \/ BusOff \/ Recover

-----------------------------------------------------------------------------
Next == Interrupt \/ Read \/ Poller \/ Chip

Spec == Init /\ [][Next]_vars

(* The interrupt thread is scheduled, and a process keeps reading. *)
FairSpec == Spec /\ WF_vars(Interrupt) /\ WF_vars(Read)

-----------------------------------------------------------------------------
(* Types of the queue, the interrupt thread, the reader, the controller.   *)
TypeOK ==
  /\ data \in [Slot -> Message]
  /\ produced \in Counter /\ consumed \in Counter /\ overrun \in BOOLEAN
  /\ stage \in {"off", "loop", "rx", "err", "ovr"}
  /\ step \in {"begin", "status", "store", "publish", "stored", "end"}
  /\ irqsrc \subseteq {RI, EI, DOI} /\ flags \subseteq Flag
  /\ rpc \in {"user", "copy", "advance"}
  /\ poll \in {"off", "registered", "asleep"} /\ woken \in BOOLEAN
  /\ fifo \in Seq(Frame) /\ Len(fifo) <= ChipSize
  /\ latched \subseteq {EI, DOI}
  /\ dos \in BOOLEAN /\ bus \in {"active", "warn", "reset", "off"} /\ faults \in 0 .. MaxFaults
  /\ next \in Frame /\ last \in Frame /\ unreported \in BOOLEAN

(* The messages of rxq the reader has not got yet: without the one it has  *)
(* copied already, and with the frame readcanmsg has stored already.       *)
Copied == IF rpc = "advance" THEN 1 ELSE 0
Unpublished == IF stage = "rx" /\ step = "publish" THEN 1 ELSE 0
Waiting == QLen(produced, consumed) - Copied + Unpublished

(* The way of the frames: the last one the reader got, what waits in rxq,  *)
(* what waits in the controller, the next one the controller accepts.      *)
LineEnd == Waiting + Len(fifo) + 1
Line ==
  [i \in 0 .. LineEnd |->
     IF i = 0 THEN last
     ELSE IF i <= Waiting THEN data[SlotOf(consumed + Copied + i - 1)].frame
     ELSE IF i < LineEnd THEN fifo[i - Waiting]
     ELSE next]

(* In a line of n + 1 messages, each frame is followed by its successor,   *)
(* whatever error messages stand between them.                             *)
Chained(line, n) ==
  \A i \in 0 .. n : line[i] # NoFrame =>
    \A j \in i + 1 .. n :
      (line[j] # NoFrame /\ \A k \in i + 1 .. j - 1 : line[k] = NoFrame)
        => line[j] = (line[i] + 1) % Frames

(* Once the controller accepted a frame, the driver neither loses nor      *)
(* repeats nor reorders it, in particular when rxq is full: what is in     *)
(* rxq and in the controller is exactly what the reader has not got yet    *)
(* (rxproduce and readcanmsg, sja1000funcs.c:448-515).                     *)
NoFrameLost == Chained(Line, LineEnd)

(* The interrupt thread reads a frame only when the controller holds one,  *)
(* whatever has changed since it read canirq, except that the controller   *)
(* went off the bus this moment.                                           *)
FrameToRead == (stage = "rx" /\ step = "store") => (fifo # <<>> \/ bus = "reset")

(* A poller sleeps through a message in rxq only while the interrupt       *)
(* thread is on its way to wake it up (can_select against rxproduce).      *)
NoLostWakeup ==
  (poll = "asleep" /\ ~woken /\ QLen(produced, consumed) > 0) => step = "stored"

(* The error message the overrun branch inserts says so: "CAN controller   *)
(* Msg overflow error" (can4linux.h:20).                                   *)
OverrunFlagged ==
  (stage = "ovr" /\ step = "publish")
    => "OVR" \in data[SlotOf(produced)].flags

(* After a message was dropped for want of room, the next one says so:     *)
(* "receive/transmit buffer overflow" (can4linux.h:25).                    *)
RefusalFlagged ==
  (step = "publish" /\ unreported) => "BOVR" \in data[SlotOf(produced)].flags

(* Every frame the controller accepted reaches the reader: it cannot be    *)
(* that frames wait from some time on and the reader gets none of them.    *)
(* (Bus-off may take them away as long as they are in the controller.)     *)
FrameIsRead ==
  []<>(next = (last + 1) % Frames) \/ []<><<ReadCopy>>_last
=============================================================================
