------------------------------- MODULE TxPath -------------------------------
(***************************************************************************)
(* The transmit path: how a message written by can_write (write.c) gets    *)
(* through dev->txq and sendcanmsg (sja1000funcs.c) into the one transmit  *)
(* buffer of the SJA1000, and who sends the next one.                      *)
(*                                                                         *)
(* qconsume(&dev->txq, sendcanmsg, dev) is called from three contexts that *)
(* run concurrently: the process in can_write, the interrupt thread in     *)
(* CAN_Interrupt, and the timer of a postponed message in                  *)
(* delayedmsgworker.  No lock is held around it; the flag q->idle, the     *)
(* transmit interrupt and the timer together hand the right to call it     *)
(* from one context to the next.  Every access to shared state, and every  *)
(* access to a register of the controller, is a step of its own.           *)
(*                                                                         *)
(* A message is identified by the value "produced" had when it was         *)
(* written; the only other thing about it is whether it asks for a delay.  *)
(***************************************************************************)
EXTENDS MsgRing

CONSTANTS
  Writers,    \* the processes and threads in can_write
  Delays,     \* what a writer may ask for: a subset of BOOLEAN
  Polls,      \* does a process poll for room in the queue?
  MaxFaults   \* bound on the bus errors of a behaviour

Irq == "irq"
Tmr == "tmr"
Contexts == Writers \cup {Irq, Tmr}

ASSUME TxAssumption ==
  /\ Irq \notin Writers /\ Tmr \notin Writers
  /\ {"idle", "timer", "chip"} \cap Writers = {}
  /\ Delays \subseteq BOOLEAN
  /\ Polls \in BOOLEAN
  /\ MaxFaults \in Nat

(* Bits of the interrupt register: CAN_TRANSMIT_INT, CAN_ERROR_WARN_INT. *)
TI == "TI"
EI == "EI"

VARIABLES
  \* struct MsgQ txq, and what struct Dev keeps about transmission
  data,          \* txq.data: [seq, delay] per slot
  produced,      \* txq.produced
  consumed,      \* txq.consumed
  idle,          \* txq.idle
  txinprogress,  \* dev->txinprogress
  armed,         \* the timer behind dev->delayedwork runs
  \* control
  pc,            \* where each context is
  irqsrc,        \* the local variable of CAN_Interrupt
  poll,          \* can_select: "off", "registered" in dev->wq, or "asleep"
  woken,         \* dev->wq was woken up since the poller registered
  \* the SJA1000
  ir,            \* interrupt register: set bits, cleared when read
  tbs,           \* transmit buffer status: TRUE = released, writable
  txbuf,         \* the message in the transmit buffer
  es, bs,        \* error status, bus(-off) status
  reset,         \* the controller is in reset mode
  wire,          \* the last message that left the transmit buffer
  faults,        \* bus errors so far
  \* history
  raced          \* the handler acted on a half-known transmission, see below

qVars    == <<data, produced, consumed, idle>>
pollVars == <<poll, woken>>
chipVars == <<ir, tbs, txbuf, es, bs, reset, wire, faults>>
vars == <<qVars, txinprogress, armed, pc, irqsrc, pollVars, chipVars, raced>>

Message == [seq : Counter, delay : BOOLEAN]

Init ==
  /\ data = [s \in Slot |-> [seq |-> 0, delay |-> FALSE]]
  /\ produced = 0 /\ consumed = 0 /\ idle = TRUE
  /\ txinprogress = FALSE /\ armed = FALSE
  /\ pc = [c \in Contexts |-> IF c \in Writers THEN "user" ELSE "off"]
  /\ irqsrc = {}
  /\ poll = "off" /\ woken = FALSE
  /\ ir = {} /\ tbs = TRUE /\ txbuf = Wrap - 1
  /\ es = FALSE /\ bs = FALSE /\ reset = FALSE
  /\ wire = Wrap - 1 /\ faults = 0
  /\ raced = FALSE

Goto(c, from, to) == pc[c] = from /\ pc' = [pc EXCEPT ![c] = to]

(* wake_up_interruptible(&dev->wq) *)
WakeUp == woken' = (woken \/ poll # "off")

-----------------------------------------------------------------------------
(* can_write: one message of the user's buffer *)

(* Refused when the queue is full: can_write then returns, nothing changes. *)
WriteBegin(w) ==
  /\ ~QFull(produced, consumed)
  /\ Goto(w, "user", "copy")
  /\ UNCHANGED <<qVars, txinprogress, armed, irqsrc, pollVars, chipVars, raced>>

WriteCopy(w) ==
  /\ \E d \in Delays :
       data' = [data EXCEPT ![SlotOf(produced)] = [seq |-> produced, delay |-> d]]
  /\ Goto(w, "copy", "publish")
  /\ UNCHANGED <<produced, consumed, idle, txinprogress, armed, irqsrc,
                 pollVars, chipVars, raced>>

WritePublish(w) ==
  /\ produced' = Incr(produced)
  /\ Goto(w, "publish", "testidle")
  /\ UNCHANGED <<data, consumed, idle, txinprogress, armed, irqsrc,
                 pollVars, chipVars, raced>>

WriteTestIdle(w) ==
  /\ Goto(w, "testidle", IF idle THEN "clearidle" ELSE "user")
  /\ UNCHANGED <<qVars, txinprogress, armed, irqsrc, pollVars, chipVars, raced>>

(* Faulty variant: q->idle is not cleared. *)
WriteKeepIdle(w) ==
  /\ Goto(w, "clearidle", "test")
  /\ UNCHANGED <<qVars, txinprogress, armed, irqsrc, pollVars, chipVars, raced>>

WriteClearIdle(w) ==
  /\ idle' = FALSE
  /\ Goto(w, "clearidle", "test")
  /\ UNCHANGED <<data, produced, consumed, txinprogress, armed, irqsrc,
                 pollVars, chipVars, raced>>

Write(w) ==
  \/ WriteBegin(w) \/ WriteCopy(w) \/ WritePublish(w)
  \/ WriteTestIdle(w) \/ WriteClearIdle(w)

-----------------------------------------------------------------------------
(* qconsume(&dev->txq, sendcanmsg, dev), in any context *)

Return(c) == IF c \in Writers THEN "user" ELSE "wake"

(* Faulty variant: without the lock, a message may be published and q->idle *)
(* tested by its writer between the test for emptiness and the assignment. *)
ConsumeEmptyUnlocked(c) ==
  /\ QLen(produced, consumed) <= 1
  /\ idle' = TRUE
  /\ Goto(c, "test", Return(c))
  /\ UNCHANGED <<data, produced, consumed, txinprogress, armed, irqsrc,
                 pollVars, chipVars, raced>>

(* The section under q->lk. *)
ConsumeEmpty(c) ==
  /\ QEmpty(produced, consumed)
  /\ idle' = TRUE
  /\ Goto(c, "test", Return(c))
  /\ UNCHANGED <<data, produced, consumed, txinprogress, armed, irqsrc,
                 pollVars, chipVars, raced>>

ConsumeHead(c) ==
  /\ ~QEmpty(produced, consumed)
  /\ Goto(c, "test", "send")
  /\ UNCHANGED <<qVars, txinprogress, armed, irqsrc, pollVars, chipVars, raced>>

(* A delay was asked for: forget it, start the timer, "not consumed". *)
SendPostpone(c) ==
  /\ data[SlotOf(consumed)].delay
  /\ data' = [data EXCEPT ![SlotOf(consumed)] = [seq |-> @.seq, delay |-> FALSE]]
  /\ armed' = TRUE
  /\ Goto(c, "send", Return(c))
  /\ UNCHANGED <<produced, consumed, idle, txinprogress, irqsrc, pollVars,
                 chipVars, raced>>

(* The frame registers.  The controller ignores what is written to them    *)
(* while the transmit buffer is locked, or in reset mode.                  *)
SendLoad(c) ==
  /\ ~data[SlotOf(consumed)].delay
  /\ txbuf' = IF tbs /\ ~reset THEN data[SlotOf(consumed)].seq ELSE txbuf
  /\ Goto(c, "send", "request")
  /\ UNCHANGED <<qVars, txinprogress, armed, irqsrc, pollVars,
                 ir, tbs, es, bs, reset, wire, faults, raced>>

(* CAN_TRANSMISSION_REQUEST *)
SendRequest(c) ==
  /\ tbs' = (tbs /\ reset)
  /\ Goto(c, "request", "mark")
  /\ UNCHANGED <<qVars, txinprogress, armed, irqsrc, pollVars,
                 ir, txbuf, es, bs, reset, wire, faults, raced>>

SendMark(c) ==
  /\ txinprogress' = TRUE
  /\ Goto(c, "mark", "advance")
  /\ UNCHANGED <<qVars, armed, irqsrc, pollVars, chipVars, raced>>

ConsumeAdvance(c) ==
  /\ consumed' = Incr(consumed)
  /\ Goto(c, "advance", Return(c))
  /\ UNCHANGED <<data, produced, idle, txinprogress, armed, irqsrc,
                 pollVars, chipVars, raced>>

Consume(c) ==
  \/ ConsumeEmpty(c) \/ ConsumeHead(c)
  \/ SendPostpone(c) \/ SendLoad(c) \/ SendRequest(c) \/ SendMark(c)
  \/ ConsumeAdvance(c)

-----------------------------------------------------------------------------
(* CAN_Interrupt, without its receive and overrun branches, which touch    *)
(* nothing of this module but dev->wq.                                     *)

(* The handler reads canirq, canstat and dev->txinprogress at different    *)
(* times, and a sender requests a transmission before it sets              *)
(* dev->txinprogress and counts the message as consumed; a transmission    *)
(* may end at any time in between.  "raced" records that the handler acted *)
(* on what such reads made of it:                                          *)
(*   - it took the end of a transmission that its sender has still to note *)
(*     for its own turn to send,                                           *)
(*   - it overlooked such an end, with no interrupt left to come, or       *)
(*   - it simulated a transmit interrupt although the controller has one   *)
(*     to tell, or is back in reset mode.                                  *)
Noting(c) == pc[c] \in {"mark", "advance"}

Overtakes  == \E c \in Contexts \ {Irq} : Noting(c)
Overlooks  == tbs /\ ir = {} /\ TI \notin irqsrc /\ \E c \in Contexts : pc[c] = "mark"
FakesBeside == tbs /\ (TI \in ir \/ reset)

(* irqsrc = CANin(minor, canirq), on entry and at the end of the loop *)
IrqRead ==
  /\ ir # {}
  /\ irqsrc' = ir /\ ir' = {}
  /\ pc[Irq] \in {"off", "loop"}
  /\ pc' = [pc EXCEPT ![Irq] = IF EI \in ir THEN "errmode" ELSE "txint"]
  /\ UNCHANGED <<qVars, txinprogress, armed, pollVars,
                 tbs, txbuf, es, bs, reset, wire, faults, raced>>

IrqLeave ==
  /\ ir = {}
  /\ irqsrc' = {}
  /\ Goto(Irq, "loop", "off")
  /\ UNCHANGED <<qVars, txinprogress, armed, pollVars, chipVars, raced>>

(* "undo reset request" *)
IrqErrMode ==
  /\ reset' = FALSE
  /\ Goto(Irq, "errmode", "errstat")
  /\ UNCHANGED <<qVars, txinprogress, armed, irqsrc, pollVars,
                 ir, tbs, txbuf, es, bs, wire, faults, raced>>

(* s = CANin(minor, canstat): is the controller error active again? *)
IrqErrStat ==
  /\ Goto(Irq, "errstat", IF ~es /\ ~bs THEN "errtxp" ELSE "errmsg")
  /\ UNCHANGED <<qVars, txinprogress, armed, irqsrc, pollVars, chipVars, raced>>

(* Faulty variant: dev->txinprogress is not tested. *)
IrqErrAnyTime ==
  /\ raced' = (raced \/ Overlooks)
  /\ Goto(Irq, "errtxp", IF TI \notin irqsrc THEN "errtbs" ELSE "errmsg")
  /\ UNCHANGED <<qVars, txinprogress, armed, irqsrc, pollVars, chipVars>>

(* if (dev->txinprogress && !(irqsrc & CAN_TRANSMIT_INT) ... *)
IrqErrProgress ==
  /\ raced' = (raced \/ Overlooks)
  /\ Goto(Irq, "errtxp",
          IF txinprogress /\ TI \notin irqsrc THEN "errtbs" ELSE "errmsg")
  /\ UNCHANGED <<qVars, txinprogress, armed, irqsrc, pollVars, chipVars>>

(* Faulty variants: the buffer's status is not tested; nothing simulated. *)
IrqErrFakeBlind ==
  /\ raced' = (raced \/ FakesBeside)
  /\ irqsrc' = irqsrc \cup {TI}
  /\ Goto(Irq, "errtbs", "errmsg")
  /\ UNCHANGED <<qVars, txinprogress, armed, pollVars, chipVars>>

IrqErrNoFake ==
  /\ raced' = (raced \/ FakesBeside)
  /\ Goto(Irq, "errtbs", "errmsg")
  /\ UNCHANGED <<qVars, txinprogress, armed, irqsrc, pollVars, chipVars>>

(* ... && canstat & CAN_TRANSMIT_BUFFER_ACCESS) irqsrc |= CAN_TRANSMIT_INT *)
IrqErrFake ==
  /\ raced' = (raced \/ FakesBeside)
  /\ irqsrc' = IF tbs THEN irqsrc \cup {TI} ELSE irqsrc
  /\ Goto(Irq, "errtbs", "errmsg")
  /\ UNCHANGED <<qVars, txinprogress, armed, pollVars, chipVars>>

(* rxproduce(dev, errmsg, ...) wakes the waiters unless rxq is full. *)
IrqErrMsg ==
  /\ WakeUp \/ UNCHANGED woken
  /\ Goto(Irq, "errmsg", "txint")
  /\ UNCHANGED <<qVars, txinprogress, armed, irqsrc, poll, chipVars, raced>>

IrqTxInt ==
  /\ TI \in irqsrc
  /\ raced' = (raced \/ Overtakes)
  /\ txinprogress' = FALSE
  /\ Goto(Irq, "txint", "test")
  /\ UNCHANGED <<qVars, armed, irqsrc, pollVars, chipVars>>

IrqNoTxInt ==
  /\ TI \notin irqsrc
  /\ Goto(Irq, "txint", "loop")
  /\ UNCHANGED <<qVars, txinprogress, armed, irqsrc, pollVars, chipVars, raced>>

(* Faulty variant: waiters are woken up below one half, not at one half. *)
WakeIfLower(c) ==
  /\ IF QLen(produced, consumed) < Size \div 2 THEN WakeUp ELSE UNCHANGED woken
  /\ Goto(c, "wake", IF c = Irq THEN "loop" ELSE "off")
  /\ UNCHANGED <<qVars, txinprogress, armed, irqsrc, poll, chipVars, raced>>

(* if (qlen(&dev->txq) <= qsize(&dev->txq)/2) wake_up_interruptible(...);  *)
(* also the end of delayedmsgworker.                                       *)
WakeIfLow(c) ==
  /\ IF QLow(produced, consumed) THEN WakeUp ELSE UNCHANGED woken
  /\ Goto(c, "wake", IF c = Irq THEN "loop" ELSE "off")
  /\ UNCHANGED <<qVars, txinprogress, armed, irqsrc, poll, chipVars, raced>>

Interrupt ==
  \/ IrqRead \/ IrqLeave
  \/ IrqErrMode \/ IrqErrStat \/ IrqErrProgress
  \/ IrqErrFake \/ IrqErrMsg
  \/ IrqTxInt \/ IrqNoTxInt \/ WakeIfLow(Irq)

-----------------------------------------------------------------------------
(* The timer expires: dlyworker calls delayedmsgworker. *)
TimerFires ==
  /\ armed
  /\ armed' = FALSE
  /\ Goto(Tmr, "off", "test")
  /\ UNCHANGED <<qVars, txinprogress, irqsrc, pollVars, chipVars, raced>>

Timer == TimerFires \/ WakeIfLow(Tmr)

-----------------------------------------------------------------------------
(* can_select, its transmit half: register in dev->wq, then look. *)

PollRegister ==
  /\ Polls
  /\ poll = "off" \/ (poll = "asleep" /\ woken)
  /\ poll' = "registered" /\ woken' = FALSE
  /\ UNCHANGED <<qVars, txinprogress, armed, pc, irqsrc, chipVars, raced>>

PollCheck ==
  /\ poll = "registered"
  /\ IF QLow(produced, consumed)
     THEN poll' = "off" /\ woken' = FALSE
     ELSE poll' = "asleep" /\ UNCHANGED woken
  /\ UNCHANGED <<qVars, txinprogress, armed, pc, irqsrc, chipVars, raced>>

Poller == PollRegister \/ PollCheck

-----------------------------------------------------------------------------
(* The controller and the bus, as far as the driver depends on them. *)

(* The frame is acknowledged: buffer released, transmit interrupt. *)
TxDone ==
  /\ ~tbs /\ ~reset /\ ~bs
  /\ tbs' = TRUE /\ ir' = ir \cup {TI} /\ wire' = txbuf
  /\ UNCHANGED <<qVars, txinprogress, armed, pc, irqsrc, pollVars,
                 txbuf, es, bs, reset, faults, raced>>

(* The error counters pass the warning limit, in either direction. *)
ErrorWarn ==
  /\ faults < MaxFaults /\ ~es /\ ~reset
  /\ faults' = faults + 1 /\ es' = TRUE /\ ir' = ir \cup {EI}
  /\ UNCHANGED <<qVars, txinprogress, armed, pc, irqsrc, pollVars,
                 tbs, txbuf, bs, reset, wire, raced>>

ErrorClear ==
  /\ es /\ ~bs /\ ~reset
  /\ es' = FALSE /\ ir' = ir \cup {EI}
  /\ UNCHANGED <<qVars, txinprogress, armed, pc, irqsrc, pollVars,
                 tbs, txbuf, bs, reset, wire, faults, raced>>

(* Bus-off: the transmission is aborted and the controller enters reset    *)
(* mode; the buffer is released with or without a transmit interrupt.      *)
BusOff ==
  /\ ~tbs /\ es /\ ~bs
  /\ bs' = TRUE /\ reset' = TRUE /\ tbs' = TRUE /\ wire' = txbuf
  /\ \E i \in {{EI}, {EI, TI}} : ir' = ir \cup i
  /\ UNCHANGED <<qVars, txinprogress, armed, pc, irqsrc, pollVars,
                 txbuf, es, faults, raced>>

(* Out of reset mode, the controller saw enough of a quiet bus. *)
Recover ==
  /\ bs /\ ~reset
  /\ bs' = FALSE /\ es' = FALSE /\ ir' = ir \cup {EI}
  /\ UNCHANGED <<qVars, txinprogress, armed, pc, irqsrc, pollVars,
                 tbs, txbuf, reset, wire, faults, raced>>

Chip == TxDone \/ ErrorWarn \/ ErrorClear \/ BusOff \/ Recover

-----------------------------------------------------------------------------
Next ==
  \/ \E w \in Writers : Write(w)
  \/ \E c \in Contexts : Consume(c)
  \/ Interrupt
  \/ Timer
  \/ Poller
  \/ Chip

Spec == Init /\ [][Next]_vars

(* Processes, the interrupt thread and timers are scheduled; a frame       *)
(* that was requested on a working bus is sent; the bus recovers.  A       *)
(* writer need not write, a poller need not poll.                          *)
Fairness ==
  /\ \A w \in Writers :
       WF_vars(WriteCopy(w) \/ WritePublish(w) \/ WriteTestIdle(w)
               \/ WriteClearIdle(w))
  /\ \A c \in Contexts : WF_vars(Consume(c))
  /\ WF_vars(Interrupt)
  /\ WF_vars(Timer)
  /\ WF_vars(TxDone) /\ WF_vars(ErrorClear) /\ WF_vars(Recover)

FairSpec == Spec /\ Fairness

-----------------------------------------------------------------------------
(* Types of the queue, the contexts, the poller and the controller. *)
TypeOK ==
  /\ data \in [Slot -> Message]
  /\ produced \in Counter /\ consumed \in Counter
  /\ idle \in BOOLEAN /\ txinprogress \in BOOLEAN /\ armed \in BOOLEAN
  /\ pc \in [Contexts -> {"user", "copy", "publish", "testidle", "clearidle",
                          "test", "send", "request", "mark", "advance",
                          "off", "wake", "loop", "errmode", "errstat",
                          "errtxp", "errtbs", "errmsg", "txint"}]
  /\ irqsrc \subseteq {TI, EI}
  /\ poll \in {"off", "registered", "asleep"} /\ woken \in BOOLEAN
  /\ ir \subseteq {TI, EI}
  /\ tbs \in BOOLEAN /\ es \in BOOLEAN /\ bs \in BOOLEAN /\ reset \in BOOLEAN
  /\ txbuf \in Counter /\ wire \in Counter
  /\ faults \in 0 .. MaxFaults
  /\ raced \in BOOLEAN

Consuming == {"test", "send", "request", "mark", "advance"}

(* Who may send the next message: q->idle says that the next writer does;  *)
(* a context is doing it; the timer will; or the interrupt that ends the   *)
(* transmission in progress will.                                          *)
Holds(h) ==
  CASE h \in Contexts -> pc[h] \in Consuming
    [] h = "idle"     -> idle
    [] h = "timer"    -> armed
    [] h = "chip"     -> txinprogress /\ \A c \in Contexts : pc[c] # "advance"

Holders == Contexts \cup {"idle", "timer", "chip"}

(* The right to send is held in exactly one place. *)
OneHolder ==
  \E h \in Holders : Holds(h) /\ \A g \in Holders \ {h} : ~Holds(g)

(* The right to send is never lost and never doubled, through delays,      *)
(* transmissions, bus-off and the simulated transmit interrupt, unless the *)
(* handler raced with the end of a transmission: a lost one stalls the     *)
(* queue for ever, a doubled one sends a message twice or skips one (the   *)
(* uses of q->idle, dev->txinprogress and qconsume).                       *)
SingleToken == ~raced => OneHolder

(* The handler knows of the end of a transmission and has not acted yet. *)
TxIntRead ==
  pc[Irq] \in
    {"errmode", "errstat", "errtxp", "errtbs", "errmsg", "txint"} /\ TI \in irqsrc

(* What the driver and the controller know of a transmission.  A locked    *)
(* buffer belongs to a transmission in progress; whoever tells of the end  *)
(* of one, by an interrupt that is pending or read, finds the buffer       *)
(* released, and tells of it once; after bus-off the handler has still to  *)
(* be told of the reset mode.                                              *)
ViewsMatch ==
  /\ ~tbs => (txinprogress \/ \E c \in Contexts : pc[c] = "mark")
  /\ (TI \in ir \/ TxIntRead) =>
       /\ tbs
       /\ txinprogress \/ \E c \in Contexts : pc[c] = "mark"
  /\ ~(TI \in ir /\ TxIntRead)
  /\ pc[Irq] = "errtbs" => (txinprogress /\ ~TxIntRead)
  /\ \A c \in Contexts :
       /\ pc[c] = "advance" => txinprogress
       /\ pc[c] \in {"test", "send", "request"} => (tbs /\ ~reset)
  /\ reset => /\ tbs
              /\ txinprogress \/ \E c \in Contexts : pc[c] = "mark"
              /\ pc[Irq] = "errmode" \/ (EI \in ir /\ ~TxIntRead)

(* Unless they raced, the driver's and the controller's views of a         *)
(* transmission match (the steps of CAN_Interrupt and sendcanmsg,          *)
(* sja1000funcs.c:608-660).                                                *)
ChipAgrees == ~raced => ViewsMatch

(* A transmission whose end is still to be told: by a transmit interrupt,  *)
(* by an error interrupt that is pending, being handled, or bound to come  *)
(* when the error clears up.                                               *)
Told ==
  \/ TxIntRead \/ ir # {} \/ es \/ bs
  \/ pc[Irq] \in {"errmode", "errstat", "errtxp", "errtbs"}

(* A transmission that ended without a transmit interrupt does not "lock   *)
(* the tx queue" (sja1000funcs.c:637-642): whenever the buffer is writable *)
(* and dev->txinprogress still set, something will make the handler look.  *)
EndIsTold == (~raced /\ txinprogress /\ tbs) => Told

(* A queue left idle while it holds a message is about to be served: the   *)
(* writer of that message is still on its way to test q->idle.  This is    *)
(* what the lock in qproduce and qconsume is for (msgq.c:30-32).           *)
NoLostKick ==
  (~raced /\ idle /\ ~QEmpty(produced, consumed))
    => \E w \in Writers : pc[w] \in {"testidle", "clearidle"}

(* A poller sleeps through a half-empty queue only while the context that  *)
(* made it so is on its way to wake it up (can_select against the wake-ups *)
(* of CAN_Interrupt and delayedmsgworker).                                 *)
NoLostWakeup ==
  (~raced /\ poll = "asleep" /\ ~woken /\ QLow(produced, consumed))
    => \E c \in {Irq, Tmr} : pc[c] = "wake"

(* Messages leave the transmit buffer in the order they were written, none *)
(* twice and none skipped; an aborted one counts as having left.           *)
WireInOrder == [][(~raced' /\ ~tbs /\ tbs') => wire' = Incr(wire)]_vars

(* qconsume is never active in two contexts at once: "one producer, one    *)
(* consumer only!" (msgq.c:6).                                             *)
OneConsumer ==
  ~raced =>
    \A c, d \in Contexts : (pc[c] \in Consuming /\ pc[d] \in Consuming) => c = d

(* qproduce is never active in two contexts at once (msgq.c:6 again). *)
OneProducer ==
  \A v, w \in Writers :
    (pc[v] \in {"copy", "publish"} /\ pc[w] \in {"copy", "publish"}) => v = w

(* No message stays at the head of the queue: through a delay, a full      *)
(* controller and a bounded number of bus errors it is eventually handed   *)
(* to the controller.                                                      *)
HeadIsSent ==
  \A n \in Counter :
    (consumed = n /\ ~QEmpty(produced, consumed)) ~> consumed # n
=============================================================================
