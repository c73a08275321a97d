--------------------------- MODULE TxPath_proofs ---------------------------
(* Proofs about TxPath, for every queue size, any number of writers where  *)
(* the statement allows it, and any number of bus errors; then about       *)
(* ChipControl, which adds the commands of a process to the same state.    *)
EXTENDS ChipControl, MsgRing_proofs

(* The smallest and the largest counter. *)
LEMMA CounterNonEmpty == 0 \in Counter /\ Wrap - 1 \in Counter
BY RingAssumption DEF Counter

-----------------------------------------------------------------------------
(* The types hold in every reachable state (TypeOK). *)
LEMMA InitTypeOK == Init => TypeOK
<1> SUFFICES ASSUME Init PROVE TypeOK
  OBVIOUS
<1>1. data \in [Slot -> Message]
  BY CounterNonEmpty DEF Init, Message
<1>2. faults \in 0 .. MaxFaults
  BY TxAssumption DEF Init
<1> QED BY <1>1, <1>2, CounterNonEmpty DEF Init, TypeOK

(* The steps of a writer keep the types, ... *)
LEMMA WriteTypeOK ==
  ASSUME TypeOK, NEW w \in Writers, Write(w)
  PROVE  TypeOK'
<1> USE TxAssumption, RingTypes DEF TypeOK, Message, Goto, qVars, pollVars, chipVars, Contexts
<1>1. CASE WriteBegin(w) BY <1>1 DEF WriteBegin
<1>2. CASE WriteCopy(w) BY <1>2 DEF WriteCopy
<1>3. CASE WritePublish(w) BY <1>3 DEF WritePublish
<1>4. CASE WriteTestIdle(w) BY <1>4 DEF WriteTestIdle
<1>5. CASE WriteClearIdle(w) BY <1>5 DEF WriteClearIdle
<1> QED BY <1>1, <1>2, <1>3, <1>4, <1>5 DEF Write

(* ... those of a sender do, ... *)
LEMMA ConsumeTypeOK ==
  ASSUME TypeOK, NEW c \in Contexts, Consume(c)
  PROVE  TypeOK'
<1> USE RingTypes DEF TypeOK, Message, Goto, qVars, pollVars, chipVars, Return
<1>1. CASE ConsumeEmpty(c) BY <1>1 DEF ConsumeEmpty
<1>2. CASE ConsumeHead(c) BY <1>2 DEF ConsumeHead
<1>3. CASE SendPostpone(c)
  <2> DEFINE s == SlotOf(consumed)
  <2>1. data[s].seq \in Counter /\ s \in Slot OBVIOUS
  <2>2. data' \in [Slot -> Message] BY <1>3, <2>1 DEF SendPostpone
  <2> QED BY <1>3, <2>2 DEF SendPostpone
<1>4. CASE SendLoad(c)
  <2>1. data[SlotOf(consumed)].seq \in Counter OBVIOUS
  <2> QED BY <1>4, <2>1 DEF SendLoad
<1>5. CASE SendRequest(c) BY <1>5 DEF SendRequest
<1>6. CASE SendMark(c) BY <1>6 DEF SendMark
<1>7. CASE ConsumeAdvance(c) BY <1>7 DEF ConsumeAdvance
<1> QED BY <1>1, <1>2, <1>3, <1>4, <1>5, <1>6, <1>7 DEF Consume

(* ... those of the handler, ... *)
LEMMA InterruptTypeOK ==
  ASSUME TypeOK, Interrupt
  PROVE  TypeOK'
<1> USE DEF TypeOK, Goto, qVars, pollVars, chipVars
<1>11. raced' \in BOOLEAN
  BY Zenon DEF Interrupt, IrqRead, IrqLeave, IrqErrMode, IrqErrStat, IrqErrProgress, IrqErrFake,
     IrqErrMsg, IrqTxInt, IrqNoTxInt, WakeIfLow
<1>1. CASE IrqRead BY <1>1, <1>11 DEF IrqRead
<1>2. CASE IrqLeave BY <1>2, <1>11 DEF IrqLeave
<1>3. CASE IrqErrMode BY <1>3, <1>11 DEF IrqErrMode
<1>4. CASE IrqErrStat BY <1>4, <1>11 DEF IrqErrStat
<1>10. CASE IrqErrProgress BY <1>10, <1>11 DEF IrqErrProgress
<1>5. CASE IrqErrFake BY <1>5, <1>11 DEF IrqErrFake, TI, EI
<1>6. CASE IrqErrMsg
  <2>1. woken' \in BOOLEAN
    BY <1>6, Zenon DEF IrqErrMsg, WakeUp
  <2> QED BY <1>6, <2>1 DEF IrqErrMsg
<1>7. CASE IrqTxInt BY <1>7, <1>11 DEF IrqTxInt
<1>8. CASE IrqNoTxInt BY <1>8, <1>11 DEF IrqNoTxInt
<1>9. CASE WakeIfLow(Irq)
  <2>1. woken' \in BOOLEAN
    BY <1>9, Zenon DEF WakeIfLow, WakeUp
  <2> QED BY <1>9, <1>11, <2>1 DEF WakeIfLow
<1> QED BY <1>1, <1>2, <1>3, <1>4, <1>5, <1>6, <1>7, <1>8, <1>9, <1>10 DEF Interrupt

(* ... those of timer, poller and controller, ... *)
LEMMA OtherTypeOK ==
  ASSUME TypeOK, Timer \/ Poller \/ Chip
  PROVE  TypeOK'
<1> USE TxAssumption DEF TypeOK, Goto, qVars, pollVars, chipVars
<1>1. CASE TimerFires BY <1>1 DEF TimerFires
<1>2. CASE WakeIfLow(Tmr)
  <2>1. woken' \in BOOLEAN /\ raced' \in BOOLEAN
    BY <1>2, Zenon DEF WakeIfLow, WakeUp
  <2> QED BY <1>2, <2>1 DEF WakeIfLow
<1>3. CASE PollRegister BY <1>3 DEF PollRegister
<1>4. CASE PollCheck BY <1>4 DEF PollCheck
<1>5. CASE TxDone BY <1>5 DEF TxDone, TI, EI
<1>6. CASE ErrorWarn BY <1>6 DEF ErrorWarn, TI, EI
<1>7. CASE ErrorClear BY <1>7 DEF ErrorClear, TI, EI
<1>8. CASE BusOff BY <1>8 DEF BusOff, TI, EI
<1>9. CASE Recover BY <1>9 DEF Recover, TI, EI
<1> QED BY <1>1, <1>2, <1>3, <1>4, <1>5, <1>6, <1>7, <1>8, <1>9
        DEF Timer, Poller, Chip

(* ... and so does every step. *)
LEMMA NextTypeOK == TypeOK /\ [Next]_vars => TypeOK'
<1> SUFFICES ASSUME TypeOK, [Next]_vars PROVE TypeOK'
  OBVIOUS
<1>1. CASE UNCHANGED vars
  BY <1>1 DEF vars, qVars, pollVars, chipVars, TypeOK
<1> QED
  BY <1>1, WriteTypeOK, ConsumeTypeOK, InterruptTypeOK, OtherTypeOK DEF Next

(* Every variable keeps its type, for every instance of the module. *)
THEOREM TypeCorrect == Spec => []TypeOK
BY InitTypeOK, NextTypeOK, PTL DEF Spec

-----------------------------------------------------------------------------
(* The right to send (SingleToken), until a race.  The proofs assume one   *)
(* writer; TLC finds the property violated with two.                       *)

OneWriter == \A v, w \in Writers : v = w

(* A writer that is about to clear q->idle finds it set. *)
KickHasIdle == \A w \in Writers : pc[w] = "clearidle" => idle

(* A transmission that the driver counts as in progress, or is about to. *)
Noted == txinprogress \/ \E c \in Contexts : pc[c] = "mark"

(* Its end is told, also while its sender has still to note it. *)
EndTold == (tbs /\ Noted) => Told

TxInv == TypeOK /\ OneHolder /\ ViewsMatch /\ EndTold /\ KickHasIdle

(* A race is never forgotten. *)
LEMMA RaceLasts == [Next]_vars => (raced => raced')
BY Zenon DEF Next, vars, Write, WriteBegin, WriteCopy, WritePublish, WriteTestIdle, WriteClearIdle,
   Consume, ConsumeEmpty, ConsumeHead, SendPostpone, SendLoad, SendRequest, SendMark,
   ConsumeAdvance, Interrupt, IrqRead, IrqLeave, IrqErrMode, IrqErrStat, IrqErrProgress,
   IrqErrFake, IrqErrMsg, IrqTxInt, IrqNoTxInt, WakeIfLow, Timer, TimerFires, Poller,
   PollRegister, PollCheck, Chip, TxDone, ErrorWarn, ErrorClear, BusOff, Recover

(* The places that may hold the right to send have different names. *)
LEMMA HolderNames ==
  /\ Irq \in Contexts /\ Tmr \in Contexts /\ Irq # Tmr
  /\ Writers \subseteq Contexts
  /\ "idle" \notin Contexts /\ "timer" \notin Contexts /\ "chip" \notin Contexts
  /\ Holders = Contexts \cup {"idle", "timer", "chip"}
BY TxAssumption DEF Contexts, Irq, Tmr, Holders

(* What Holds says of each holder. *)
LEMMA HoldsWhat ==
  /\ \A c \in Contexts : Holds(c) <=> pc[c] \in Consuming
  /\ Holds("idle") <=> idle
  /\ Holds("timer") <=> armed
  /\ Holds("chip") <=> txinprogress /\ \A c \in Contexts : pc[c] # "advance"
BY HolderNames DEF Holds

(* The same after a step. *)
LEMMA HoldsWhatNext ==
  /\ \A c \in Contexts : Holds(c)' <=> pc'[c] \in Consuming
  /\ Holds("idle")' <=> idle'
  /\ Holds("timer")' <=> armed'
  /\ Holds("chip")' <=> txinprogress' /\ \A c \in Contexts : pc'[c] # "advance"
BY HolderNames DEF Holds

(* A step that gives and takes nothing keeps the token where it is. *)
LEMMA TokenStays ==
  ASSUME OneHolder, \A h \in Holders : Holds(h)' <=> Holds(h)
  PROVE  OneHolder'
BY DEF OneHolder, Holders, Contexts

(* A step that hands the token over keeps it single. *)
LEMMA TokenMoves ==
  ASSUME OneHolder,
         NEW a \in Holders, NEW b \in Holders, a # b,
         Holds(a), ~Holds(a)', Holds(b)',
         \A h \in Holders \ {a, b} : Holds(h)' <=> Holds(h)
  PROVE  OneHolder'
<1>1. \A g \in Holders \ {a} : ~Holds(g)
  BY DEF OneHolder
<1>2. \A g \in Holders \ {b} : ~Holds(g)'
  BY <1>1
<1> QED BY <1>2 DEF OneHolder, Holders, Contexts

(* While one holds the token, nobody else does. *)
LEMMA TokenExcludes ==
  ASSUME OneHolder, NEW a \in Holders, Holds(a), NEW g \in Holders, g # a
  PROVE  ~Holds(g)
BY DEF OneHolder

(* A context at work on a message has the right to send; until it requests *)
(* the transmission the controller is idle and writable.                   *)
LEMMA SenderFindsChipIdle ==
  ASSUME TxInv, NEW c \in Contexts, pc[c] \in {"test", "send", "request", "mark"}
  PROVE  /\ ~txinprogress
         /\ pc[c] # "mark" => tbs /\ ~reset /\ TI \notin ir /\ ~TxIntRead /\ ~Noted
         /\ \A d \in Contexts \ {c} : pc[d] \notin Consuming
         /\ ~idle /\ ~armed
<1>1. Holds(c) /\ c \in Holders
  BY HoldsWhat, HolderNames DEF Consuming
<1>2. \A g \in Holders \ {c} : ~Holds(g)
  BY <1>1, TokenExcludes DEF TxInv
<1>3. \A d \in Contexts \ {c} : pc[d] \notin Consuming
  BY <1>2, HoldsWhat, HolderNames
<1>4. ~idle /\ ~armed
  BY <1>2, HoldsWhat, HolderNames
<1>5. \A d \in Contexts : pc[d] # "advance"
  BY <1>3 DEF Consuming
<1>6. ~txinprogress
  BY <1>2, <1>5, HoldsWhat, HolderNames
<1>7. pc[c] # "mark" => \A d \in Contexts : pc[d] # "mark"
  BY <1>3 DEF Consuming
<1> QED BY <1>3, <1>4, <1>6, <1>7 DEF TxInv, ViewsMatch, TypeOK, Noted

(* While nobody sends and no transmission is noted, the controller is idle *)
(* and writable.                                                           *)
LEMMA NotedOrIdle ==
  ASSUME ViewsMatch, ~Noted
  PROVE  tbs /\ ~reset /\ TI \notin ir /\ ~TxIntRead
BY DEF ViewsMatch, Noted

-----------------------------------------------------------------------------
(* Each step keeps the invariant. *)

(* While q->idle or the timer has the right to send, no transmission is    *)
(* noted.                                                                  *)
LEMMA IdleHolds ==
  ASSUME OneHolder, Holds("idle") \/ Holds("timer")
  PROVE  ~Noted
<1>1. PICK a \in {"idle", "timer"} : Holds(a)
  OBVIOUS
<1>2. \A g \in Contexts \cup {"chip"} : ~Holds(g)
  BY <1>1, TokenExcludes, HolderNames
<1>3. \A c \in Contexts : pc[c] \notin {"mark", "advance"}
  BY <1>2, HoldsWhat DEF Consuming
<1> QED BY <1>2, <1>3, HoldsWhat DEF Noted

(* The invariant is kept by the steps of a writer, ... *)
LEMMA WriteTxInv ==
  ASSUME TxInv, OneWriter, NEW w \in Writers, Write(w)
  PROVE  OneHolder' /\ ViewsMatch' /\ EndTold' /\ KickHasIdle'
<1> USE HolderNames DEF TxInv, TypeOK, Goto, qVars, pollVars, chipVars
<1>0. /\ UNCHANGED <<txinprogress, armed, irqsrc, chipVars>>
      /\ \A c \in Contexts \ {w} : pc'[c] = pc[c]
      /\ pc[w] \notin Consuming /\ pc'[w] \in {"user", "copy", "publish", "testidle", "clearidle", "test"}
      /\ pc'[w] = "test" => pc[w] = "clearidle"
  BY DEF Write, WriteBegin, WriteCopy, WritePublish, WriteTestIdle, WriteClearIdle, Consuming
<1>1. \A c \in Contexts : \A l \in {"send", "request", "mark", "advance"} : pc'[c] = l <=> pc[c] = l
  BY <1>0 DEF Consuming
<1>2. pc'[Irq] = pc[Irq] /\ TxIntRead' = TxIntRead /\ Noted' = Noted /\ Told' = Told
  <2>1. pc'[Irq] = pc[Irq]
    BY <1>0, TxAssumption
  <2> QED BY <1>0, <1>1, <2>1 DEF TxIntRead, Noted, Told
<1>3. EndTold'
  BY <1>0, <1>2 DEF EndTold
<1>4. ASSUME pc'[w] = "test" => ~Noted
      PROVE  ViewsMatch'
  <2>1. (\E c \in Contexts : pc'[c] = "mark") <=> (\E c \in Contexts : pc[c] = "mark")
    BY <1>1
  <2>2. \A c \in Contexts : pc'[c] \in {"test", "send", "request"} => tbs /\ ~reset
    BY <1>0, <1>4, NotedOrIdle DEF ViewsMatch
  <2> QED BY <1>0, <1>1, <1>2, <2>1, <2>2 DEF ViewsMatch
<1>5. CASE ~WriteClearIdle(w)
  <2>1. UNCHANGED idle /\ pc'[w] \notin Consuming /\ (pc'[w] = "clearidle" => idle)
    BY <1>5 DEF Write, WriteBegin, WriteCopy, WritePublish, WriteTestIdle, Consuming
  <2>2. \A h \in Holders : Holds(h)' <=> Holds(h)
    BY <1>0, <1>1, <2>1, HoldsWhat, HoldsWhatNext
  <2>3. OneHolder'
    BY <2>2, TokenStays
  <2>4. KickHasIdle'
    BY <1>0, <2>1 DEF KickHasIdle
  <2>5. pc'[w] # "test"
    BY <2>1 DEF Consuming
  <2> QED BY <1>3, <1>4, <2>3, <2>4, <2>5
<1>6. CASE WriteClearIdle(w)
  <2>1. idle /\ pc[w] = "clearidle" /\ ~idle' /\ pc'[w] = "test"
    BY <1>6 DEF WriteClearIdle, KickHasIdle
  <2>2. \A h \in Holders \ {"idle", w} : Holds(h)' <=> Holds(h)
    BY <1>0, <1>1, HoldsWhat, HoldsWhatNext
  <2>3. Holds("idle") /\ ~Holds("idle")' /\ Holds(w)'
    BY <2>1, HoldsWhat, HoldsWhatNext DEF Consuming
  <2>4. OneHolder'
    BY <2>2, <2>3, TokenMoves
  <2>5. ~Noted
    BY <2>3, IdleHolds
  <2>6. KickHasIdle'
    BY <1>0, <2>1 DEF KickHasIdle, OneWriter
  <2> QED BY <1>3, <1>4, <2>4, <2>5, <2>6
<1> QED BY <1>5, <1>6

(* ... of a sender, ... *)
LEMMA ConsumeTxInv ==
  ASSUME TxInv, NEW c \in Contexts, Consume(c)
  PROVE  OneHolder' /\ ViewsMatch' /\ EndTold' /\ KickHasIdle'
<1> USE HolderNames DEF TxInv, TypeOK, Goto, qVars, pollVars, chipVars
<1>1. pc[c] \in Consuming /\ Holds(c) /\ c \in Holders
  BY HoldsWhat DEF Consume, ConsumeEmpty, ConsumeHead, SendPostpone, SendLoad,
     SendRequest, SendMark, ConsumeAdvance, Consuming
<1>2. \A d \in Contexts \ {c} : pc[d] \notin Consuming
  BY <1>1, TokenExcludes, HoldsWhat
<1>3. \A d \in Contexts \ {c} : pc'[d] = pc[d]
  BY DEF Consume, ConsumeEmpty, ConsumeHead, SendPostpone, SendLoad,
     SendRequest, SendMark, ConsumeAdvance
<1>4. pc[c] # "clearidle" /\ pc'[c] # "clearidle"
  BY DEF Consume, ConsumeEmpty, ConsumeHead, SendPostpone, SendLoad,
     SendRequest, SendMark, ConsumeAdvance, Return
<1>5. KickHasIdle'
  <2>1. idle => idle'
    BY DEF Consume, ConsumeEmpty, ConsumeHead, SendPostpone, SendLoad,
       SendRequest, SendMark, ConsumeAdvance
  <2> QED BY <1>3, <1>4, <2>1 DEF KickHasIdle
<1>6. Return(c) \in {"user", "wake"} /\ (c \in Writers \/ c \in {Irq, Tmr})
  BY DEF Return, Contexts
<1>7. ASSUME pc'[c] \in Consuming, UNCHANGED <<idle, armed>>,
             \A d \in Contexts : pc[d] # "advance",
             ~txinprogress,
             txinprogress' => pc'[c] = "advance"
      PROVE  OneHolder'
  <2>1. ~Holds("chip")
    BY <1>7, HoldsWhat
  <2>2. ~Holds("chip")'
    BY <1>7, HoldsWhatNext
  <2>3. \A h \in Holders : Holds(h)' <=> Holds(h)
    BY <1>1, <1>3, <1>7, <2>1, <2>2, HoldsWhat, HoldsWhatNext
  <2> QED BY <2>3, TokenStays
<1>8. pc[Irq] # pc'[Irq] => pc[Irq] \in Consuming /\ pc'[Irq] \in Consuming \cup {"user", "wake"}
  <2>1. pc'[c] \in Consuming \cup {"user", "wake"}
    BY <1>6 DEF Consume, ConsumeEmpty, ConsumeHead, SendPostpone, SendLoad, SendRequest, SendMark,
       ConsumeAdvance, Consuming
  <2> QED BY <1>1, <1>3, <2>1
<1>9. UNCHANGED <<irqsrc, ir, es, bs, reset>>
  BY DEF Consume, ConsumeEmpty, ConsumeHead, SendPostpone, SendLoad, SendRequest, SendMark,
     ConsumeAdvance
<1>10. TxIntRead' = TxIntRead /\ Told' = Told /\ (pc'[Irq] = "errtbs" <=> pc[Irq] = "errtbs")
       /\ (pc'[Irq] = "errmode" <=> pc[Irq] = "errmode")
  BY <1>8, <1>9 DEF TxIntRead, Told, Consuming
<1>11. CASE pc[c] \in {"test", "send", "request"}
  <2>1. /\ ~txinprogress /\ tbs /\ ~reset /\ TI \notin ir /\ ~TxIntRead /\ ~Noted
        /\ ~idle /\ ~armed /\ pc[Irq] # "errtbs"
    BY <1>11, SenderFindsChipIdle DEF ViewsMatch
  <2>2. \A d \in Contexts : pc[d] # "advance"
    BY <1>2, <1>11 DEF Consuming
  <2>3. ASSUME pc'[c] \notin {"mark", "advance"}, UNCHANGED <<txinprogress, tbs>>
        PROVE  ViewsMatch' /\ EndTold'
    <3>1. \A d \in Contexts : pc'[d] \notin {"mark", "advance"}
      BY <1>2, <1>3, <2>3 DEF Consuming
    <3>2. ~Noted'
      BY <2>1, <2>3, <3>1 DEF Noted
    <3>3. EndTold'
      BY <3>2 DEF EndTold
    <3>4. ViewsMatch'
      BY <1>9, <1>10, <2>1, <2>3, <3>1 DEF ViewsMatch
    <3> QED BY <3>3, <3>4
  <2>4. CASE ConsumeEmpty(c)
    <3>1. pc[c] = "test" /\ pc'[c] \notin Consuming /\ idle'
      BY <2>4 DEF ConsumeEmpty, Return, Consuming
    <3>2. \A d \in Contexts : pc'[d] # "advance"
      BY <1>3, <2>2, <3>1 DEF Consuming
    <3>3. \A h \in Holders \ {c, "idle"} : Holds(h)' <=> Holds(h)
      BY <1>3, <2>2, <2>4, <3>2, HoldsWhat, HoldsWhatNext DEF ConsumeEmpty
    <3>4. OneHolder'
      BY <1>1, <3>1, <3>3, TokenMoves, HoldsWhatNext
    <3> QED BY <1>5, <2>3, <2>4, <3>1, <3>4 DEF ConsumeEmpty, Consuming
  <2>5. CASE ConsumeHead(c)
    <3>1. OneHolder'
      BY <1>7, <2>1, <2>2, <2>5 DEF ConsumeHead, Consuming
    <3> QED BY <1>5, <2>3, <2>5, <3>1 DEF ConsumeHead
  <2>6. CASE SendPostpone(c)
    <3>1. pc[c] = "send" /\ pc'[c] \notin Consuming /\ armed'
      BY <2>6 DEF SendPostpone, Return, Consuming
    <3>2. \A d \in Contexts : pc'[d] # "advance"
      BY <1>3, <2>2, <3>1 DEF Consuming
    <3>3. \A h \in Holders \ {c, "timer"} : Holds(h)' <=> Holds(h)
      BY <1>3, <2>2, <2>6, <3>2, HoldsWhat, HoldsWhatNext DEF SendPostpone
    <3>4. OneHolder'
      BY <1>1, <3>1, <3>3, TokenMoves, HoldsWhatNext
    <3> QED BY <1>5, <2>3, <2>6, <3>1, <3>4 DEF SendPostpone, Consuming
  <2>7. CASE SendLoad(c)
    <3>1. OneHolder'
      BY <1>7, <2>1, <2>2, <2>7 DEF SendLoad, Consuming
    <3> QED BY <1>5, <2>3, <2>7, <3>1 DEF SendLoad
  <2>8. CASE SendRequest(c)
    <3>1. OneHolder'
      BY <1>7, <2>1, <2>2, <2>8 DEF SendRequest, Consuming
    <3>2. ~tbs' /\ pc'[c] = "mark" /\ UNCHANGED txinprogress
      BY <2>1, <2>8 DEF SendRequest
    <3>3. \A d \in Contexts : pc'[d] \notin {"advance", "test", "send", "request"}
      BY <1>2, <1>3, <3>2 DEF Consuming
    <3>4. ViewsMatch'
      BY <1>9, <1>10, <2>1, <3>2, <3>3 DEF ViewsMatch
    <3> QED BY <1>5, <3>1, <3>2, <3>4 DEF EndTold
  <2> QED BY <1>11, <2>4, <2>5, <2>6, <2>7, <2>8 DEF Consume, SendMark, ConsumeAdvance
<1>12. CASE pc[c] \in {"mark", "advance"}
  <2>1. /\ txinprogress' /\ UNCHANGED <<tbs, idle, armed>>
        /\ pc'[c] \in {"advance", "user", "wake"}
    BY <1>6, <1>12 DEF Consume, ConsumeEmpty, ConsumeHead, SendPostpone, SendLoad, SendRequest,
       SendMark, ConsumeAdvance, ViewsMatch
  <2>2. \A d \in Contexts : pc'[d] \notin {"mark", "test", "send", "request"}
    BY <1>2, <1>3, <2>1 DEF Consuming
  <2>3. Noted /\ Noted'
    BY <1>12, <2>1 DEF Noted, ViewsMatch
  <2>4. EndTold'
    BY <1>10, <2>1, <2>3 DEF EndTold
  <2>5. ViewsMatch'
    BY <1>9, <1>10, <2>1, <2>2, <2>3 DEF ViewsMatch, Noted
  <2>6. CASE SendMark(c)
    <3>1. ~txinprogress /\ pc[c] = "mark" /\ pc'[c] = "advance"
      BY <2>6, SenderFindsChipIdle DEF SendMark
    <3>2. \A d \in Contexts : pc[d] # "advance"
      BY <1>2, <3>1 DEF Consuming
    <3>3. OneHolder'
      BY <1>7, <2>1, <3>1, <3>2 DEF Consuming
    <3> QED BY <1>5, <2>4, <2>5, <3>3
  <2>7. CASE ConsumeAdvance(c)
    <3>1. pc[c] = "advance" /\ pc'[c] \notin Consuming
      BY <2>7 DEF ConsumeAdvance, Return, Consuming
    <3>2. \A d \in Contexts : pc'[d] # "advance"
      BY <1>2, <1>3, <3>1 DEF Consuming
    <3>3. \A h \in Holders \ {c, "chip"} : Holds(h)' <=> Holds(h)
      BY <1>3, <2>1, HoldsWhat, HoldsWhatNext
    <3>4. OneHolder'
      BY <1>1, <2>1, <3>1, <3>2, <3>3, TokenMoves, HoldsWhatNext
    <3> QED BY <1>5, <2>4, <2>5, <3>4
  <2> QED
    BY <1>12, <2>6, <2>7 DEF Consume, ConsumeEmpty, ConsumeHead, SendPostpone, SendLoad, SendRequest
<1> QED BY <1>1, <1>11, <1>12 DEF Consuming

(* The steps of CAN_Interrupt outside qconsume: only IrqTxInt moves the    *)
(* token, from the controller to the interrupt thread.                     *)
LEMMA InterruptTxInv ==
  ASSUME TxInv, Interrupt, ~raced'
  PROVE  OneHolder' /\ ViewsMatch' /\ EndTold' /\ KickHasIdle'
<1> USE HolderNames DEF TxInv, TypeOK, Goto, qVars, pollVars, chipVars
<1>1. pc[Irq] \notin Consuming /\ \A d \in Contexts \ {Irq} : pc'[d] = pc[d]
  BY DEF Interrupt, IrqRead, IrqLeave, IrqErrMode, IrqErrStat, IrqErrProgress, IrqErrFake,
     IrqErrMsg, IrqTxInt, IrqNoTxInt, WakeIfLow, Consuming
<1>2. UNCHANGED <<idle, armed, tbs, es, bs>>
  BY DEF Interrupt, IrqRead, IrqLeave, IrqErrMode, IrqErrStat, IrqErrProgress, IrqErrFake,
     IrqErrMsg, IrqTxInt, IrqNoTxInt, WakeIfLow
<1>3. KickHasIdle'
  BY <1>1, <1>2, TxAssumption DEF KickHasIdle
<1>4. CASE IrqTxInt
  <2>1. TxIntRead /\ tbs /\ TI \notin ir /\ ~reset
    BY <1>4 DEF IrqTxInt, TxIntRead, ViewsMatch
  <2>2. \A d \in Contexts : pc[d] \notin {"mark", "advance"}
    BY <1>1, <1>4 DEF IrqTxInt, Overtakes, Noting, Consuming
  <2>3. pc'[Irq] = "test" /\ ~txinprogress' /\ txinprogress
    BY <1>4, <2>1, <2>2 DEF IrqTxInt, ViewsMatch
  <2>4. Holds("chip") /\ ~Holds("chip")' /\ Holds(Irq)'
    BY <2>2, <2>3, HoldsWhat, HoldsWhatNext DEF Consuming
  <2>5. \A h \in Holders \ {"chip", Irq} : Holds(h)' <=> Holds(h)
    BY <1>1, <1>2, HoldsWhat, HoldsWhatNext
  <2>6. OneHolder'
    BY <2>4, <2>5, TokenMoves
  <2>7. \A d \in Contexts : pc'[d] \notin {"mark", "advance"}
    BY <1>1, <2>2, <2>3
  <2>8. ~TxIntRead' /\ TI \notin ir' /\ ~reset' /\ tbs'
    BY <1>4, <2>1, <2>3 DEF IrqTxInt, TxIntRead
  <2>9. ViewsMatch' /\ EndTold'
    BY <2>3, <2>7, <2>8 DEF ViewsMatch, EndTold, Noted
  <2> QED BY <1>3, <2>6, <2>9
<1>5. CASE ~IrqTxInt
  <2>1. UNCHANGED txinprogress /\ pc'[Irq] \notin Consuming
    BY <1>5 DEF Interrupt, IrqRead, IrqLeave, IrqErrMode, IrqErrStat, IrqErrProgress, IrqErrFake,
       IrqErrMsg, IrqNoTxInt, WakeIfLow, Consuming
  <2>2. \A d \in Contexts : \A l \in Consuming : pc'[d] = l <=> pc[d] = l
    BY <1>1, <2>1
  <2>3. \A h \in Holders : Holds(h)' <=> Holds(h)
    BY <1>1, <1>2, <2>1, <2>2, HoldsWhat, HoldsWhatNext DEF Consuming
  <2>4. OneHolder'
    BY <2>3, TokenStays
  <2>5. Noted' = Noted
    BY <2>1, <2>2 DEF Noted, Consuming
  <2>6. ASSUME /\ (TI \in ir' \/ TxIntRead') => (tbs /\ Noted)
               /\ ~(TI \in ir' /\ TxIntRead')
               /\ pc'[Irq] = "errtbs" => (txinprogress /\ ~TxIntRead')
               /\ reset' => reset /\ (pc'[Irq] = "errmode" \/ (EI \in ir' /\ ~TxIntRead'))
               /\ tbs /\ Noted => Told'
        PROVE  ViewsMatch' /\ EndTold'
    <3>1. EndTold'
      BY <1>2, <2>5, <2>6 DEF EndTold
    <3>2. \A l \in {"test", "send", "request", "mark", "advance"} :
            \A d \in Contexts : pc'[d] = l <=> pc[d] = l
      BY <2>2 DEF Consuming
    <3>3. ViewsMatch'
      BY <1>2, <2>1, <2>6, <3>2 DEF ViewsMatch, Noted
    <3> QED BY <3>1, <3>3
  <2>7. /\ (TI \in ir \/ TxIntRead) => (tbs /\ Noted)
        /\ ~(TI \in ir /\ TxIntRead)
        /\ pc[Irq] = "errtbs" => (txinprogress /\ ~TxIntRead)
        /\ reset => (tbs /\ Noted /\ (pc[Irq] = "errmode" \/ (EI \in ir /\ ~TxIntRead)))
        /\ tbs /\ Noted => Told
    BY DEF ViewsMatch, EndTold, Noted
  <2>8. ViewsMatch' /\ EndTold'
    <3>1. CASE IrqRead
      BY <1>2, <2>6, <2>7, <3>1 DEF IrqRead, TxIntRead, TI, EI, Told
    <3>2. CASE IrqLeave
      BY <1>2, <2>6, <2>7, <3>2 DEF IrqLeave, TxIntRead, Told
    <3>3. CASE IrqErrMode
      BY <1>2, <2>6, <2>7, <3>3 DEF IrqErrMode, TxIntRead, Told
    <3>4. CASE IrqErrStat
      BY <1>2, <2>6, <2>7, <3>4 DEF IrqErrStat, TxIntRead, Told
    <3>5. CASE IrqErrProgress
      <4>1. ~(tbs /\ ir = {} /\ TI \notin irqsrc /\ \E c \in Contexts : pc[c] = "mark")
        BY <3>5 DEF IrqErrProgress, Overlooks
      <4>2. tbs /\ Noted /\ ~txinprogress => TI \in irqsrc \/ ir # {}
        BY <4>1 DEF Noted
      <4> QED BY <1>2, <2>6, <2>7, <3>5, <4>2 DEF IrqErrProgress, TxIntRead, Told
    <3>6. CASE IrqErrFake
      <4>1. ~(tbs /\ (TI \in ir \/ reset))
        BY <3>6 DEF IrqErrFake, FakesBeside
      <4>2. txinprogress /\ Noted
        BY <2>7, <3>6 DEF IrqErrFake, Noted
      <4> QED BY <1>2, <2>6, <2>7, <3>6, <4>1, <4>2 DEF IrqErrFake, TxIntRead, Told
    <3>7. CASE IrqErrMsg
      BY <1>2, <2>6, <2>7, <3>7 DEF IrqErrMsg, TxIntRead, Told
    <3>8. CASE IrqNoTxInt
      BY <1>2, <2>6, <2>7, <3>8 DEF IrqNoTxInt, TxIntRead, Told
    <3>9. CASE WakeIfLow(Irq)
      BY <1>2, <2>6, <2>7, <3>9 DEF WakeIfLow, TxIntRead, Told
    <3> QED BY <1>5, <3>1, <3>2, <3>3, <3>4, <3>5, <3>6, <3>7, <3>8, <3>9 DEF Interrupt
  <2> QED BY <1>3, <2>4, <2>8
<1> QED BY <1>4, <1>5

(* ... and of the timer. *)
LEMMA TimerTxInv ==
  ASSUME TxInv, Timer
  PROVE  OneHolder' /\ ViewsMatch' /\ EndTold' /\ KickHasIdle'
<1> USE HolderNames DEF TxInv, TypeOK, Goto, qVars, pollVars, chipVars
<1>1. /\ pc[Tmr] \notin Consuming /\ \A d \in Contexts \ {Tmr} : pc'[d] = pc[d]
      /\ pc'[Tmr] \in {"test", "off"} /\ (pc'[Tmr] = "test" => Holds("timer"))
      /\ UNCHANGED <<idle, txinprogress, irqsrc, chipVars>>
  BY HoldsWhat DEF Timer, TimerFires, WakeIfLow, Consuming, Irq, Tmr
<1>2. KickHasIdle'
  BY <1>1, TxAssumption DEF KickHasIdle
<1>3. \A d \in Contexts : \A l \in {"send", "request", "mark", "advance"} : pc'[d] = l <=> pc[d] = l
  BY <1>1 DEF Consuming
<1>4. TxIntRead' = TxIntRead /\ Noted' = Noted /\ Told' = Told /\ pc'[Irq] = pc[Irq]
  BY <1>1, <1>3 DEF TxIntRead, Noted, Told
<1>5. ViewsMatch' /\ EndTold'
  <2>1. \A c \in Contexts : pc'[c] \in {"test", "send", "request"} => tbs /\ ~reset
    BY <1>1, <1>3, IdleHolds, NotedOrIdle DEF ViewsMatch
  <2>2. ViewsMatch'
    BY <1>1, <1>3, <1>4, <2>1 DEF ViewsMatch, Noted
  <2> QED BY <1>1, <1>4, <2>2 DEF EndTold
<1>6. CASE TimerFires
  <2>1. \A h \in Holders \ {"timer", Tmr} : Holds(h)' <=> Holds(h)
    BY <1>1, <1>3, HoldsWhat, HoldsWhatNext
  <2>2. Holds("timer") /\ ~Holds("timer")' /\ Holds(Tmr)'
    BY <1>6, HoldsWhat, HoldsWhatNext DEF TimerFires, Consuming
  <2> QED BY <1>2, <1>5, <2>1, <2>2, TokenMoves
<1>7. CASE WakeIfLow(Tmr)
  <2>1. pc'[Tmr] \notin Consuming /\ armed' = armed
    BY <1>7 DEF WakeIfLow, Consuming, Irq, Tmr
  <2>2. \A h \in Holders : Holds(h)' <=> Holds(h)
    BY <1>1, <1>3, <2>1, HoldsWhat, HoldsWhatNext
  <2> QED BY <1>2, <1>5, <2>2, TokenStays
<1> QED BY <1>6, <1>7 DEF Timer

(* The poller, the controller and a stuttering step leave the contexts     *)
(* where they are.                                                         *)
LEMMA OutsideTxInv ==
  ASSUME TxInv, Poller \/ Chip \/ UNCHANGED vars
  PROVE  OneHolder' /\ ViewsMatch' /\ EndTold' /\ KickHasIdle'
<1> USE HolderNames DEF TxInv, TypeOK, qVars, pollVars, chipVars
<1>1. UNCHANGED <<idle, txinprogress, armed, pc, irqsrc>>
  BY DEF Poller, PollRegister, PollCheck, Chip, TxDone, ErrorWarn, ErrorClear,
     BusOff, Recover, vars
<1>2. OneHolder'
  <2>1. \A h \in Holders : Holds(h)' <=> Holds(h)
    BY <1>1, HoldsWhat, HoldsWhatNext
  <2> QED BY <2>1, TokenStays
<1>3. KickHasIdle'
  BY <1>1 DEF KickHasIdle
<1>4. TxIntRead' = TxIntRead /\ Noted' = Noted
  BY <1>1 DEF TxIntRead, Noted
<1>5. ViewsMatch' /\ EndTold'
  <2>1. CASE UNCHANGED chipVars
    BY <1>1, <1>4, <2>1 DEF ViewsMatch, EndTold, Told
  <2>2. CASE TxDone
    BY <1>1, <1>4, <2>2 DEF TxDone, ViewsMatch, EndTold, Told, TI, EI
  <2>3. CASE ErrorWarn
    BY <1>1, <1>4, <2>3 DEF ErrorWarn, ViewsMatch, EndTold, Told, TI, EI
  <2>4. CASE ErrorClear
    BY <1>1, <1>4, <2>4 DEF ErrorClear, ViewsMatch, EndTold, Told, TI, EI
  <2>5. CASE BusOff
    BY <1>1, <1>4, <2>5 DEF BusOff, ViewsMatch, EndTold, Told, TI, EI
  <2>6. CASE Recover
    BY <1>1, <1>4, <2>6 DEF Recover, ViewsMatch, EndTold, Told, TI, EI
  <2> QED
    BY <2>1, <2>2, <2>3, <2>4, <2>5, <2>6
       DEF Poller, PollRegister, PollCheck, Chip, vars
<1> QED BY <1>2, <1>3, <1>5

(* At first the right to send is in txq.idle. *)
LEMMA InitTxInv == Init => TxInv
<1> SUFFICES ASSUME Init PROVE TxInv
  OBVIOUS
<1>1. \A c \in Contexts : pc[c] \in {"user", "off"}
  BY DEF Init
<1>2. Holds("idle") /\ \A g \in Holders \ {"idle"} : ~Holds(g)
  BY <1>1, HoldsWhat, HolderNames DEF Init, Consuming
<1>3. OneHolder
  BY <1>2, HolderNames DEF OneHolder
<1>4. ViewsMatch /\ EndTold
  BY <1>1, HolderNames DEF ViewsMatch, EndTold, Noted, TxIntRead, Init
<1>5. KickHasIdle
  BY <1>1, HolderNames DEF KickHasIdle
<1> QED BY <1>3, <1>4, <1>5, InitTypeOK DEF TxInv

(* Every step keeps the invariant, ... *)
LEMMA NextTxInv ==
  ASSUME OneWriter, TxInv, [Next]_vars, ~raced'
  PROVE  TxInv'
<1>1. TypeOK'
  BY NextTypeOK DEF TxInv
<1>2. OneHolder' /\ ViewsMatch' /\ EndTold' /\ KickHasIdle'
  BY WriteTxInv, ConsumeTxInv, InterruptTxInv, TimerTxInv, OutsideTxInv DEF Next
<1> QED BY <1>1, <1>2 DEF TxInv

(* ... and it holds until a race. *)
LEMMA Invariance ==
  ASSUME OneWriter
  PROVE  Spec => [](~raced => TxInv)
<1>1. (~raced => TxInv) /\ [Next]_vars => (~raced' => TxInv')
  BY NextTxInv, RaceLasts
<1> QED BY <1>1, InitTxInv, PTL DEF Spec

(* The right to send is held in exactly one place at all times, for every  *)
(* queue size, delay and number of bus errors, and wherever a transmission *)
(* ends, until the handler acts on a half-known one.                       *)
THEOREM TokenIsSingle ==
  ASSUME OneWriter
  PROVE  Spec => []SingleToken
<1>1. (~raced => TxInv) => SingleToken
  BY DEF TxInv, SingleToken
<1> QED BY <1>1, Invariance, PTL

(* The driver's flag, the interrupt bits and the state of the transmit     *)
(* buffer agree (ChipAgrees) until then, also while a frame or bus-off     *)
(* ends between any two steps of sendcanmsg and CAN_Interrupt.             *)
THEOREM ViewsAgree ==
  ASSUME OneWriter
  PROVE  Spec => []ChipAgrees
<1>1. (~raced => TxInv) => ChipAgrees
  BY DEF TxInv, ChipAgrees
<1> QED BY <1>1, Invariance, PTL

(* A transmission that ended without a transmit interrupt is always going  *)
(* to be noticed (EndIsTold, sja1000funcs.c:637-642).                      *)
THEOREM NoEndIsMissed ==
  ASSUME OneWriter
  PROVE  Spec => []EndIsTold
<1>1. (~raced => TxInv) => EndIsTold
  BY DEF TxInv, EndTold, Noted, EndIsTold
<1> QED BY <1>1, Invariance, PTL

(* No two contexts are in qconsume at once: "one consumer only" (msgq.c:6) *)
(* holds with one writer until a race.                                     *)
THEOREM ConsumerIsSingle ==
  ASSUME OneWriter
  PROVE  Spec => []OneConsumer
<1>1. (~raced => TxInv) => OneConsumer
  <2> SUFFICES ASSUME TxInv, NEW c \in Contexts, NEW d \in Contexts,
                      pc[c] \in Consuming, pc[d] \in Consuming, c # d
               PROVE  FALSE
    BY DEF OneConsumer
  <2>1. Holds(c) /\ Holds(d) /\ c \in Holders /\ d \in Holders
    BY HoldsWhat, HolderNames
  <2> QED BY <2>1, TokenExcludes DEF TxInv
<1> QED BY <1>1, Invariance, PTL

-----------------------------------------------------------------------------
(* No kick is lost: the flag q->idle and the counters are only ever        *)
(* changed in the order that lets a writer see an idle queue               *)
(* (msgq.c:30-32).                                                         *)
KickComes ==
  (idle /\ ~QEmpty(produced, consumed))
    => \E w \in Writers : pc[w] \in {"testidle", "clearidle"}

(* Each step keeps it. *)
LEMMA NextNoLostKick ==
  ASSUME OneWriter, TxInv, KickComes, [Next]_vars
  PROVE  KickComes'
<1> USE HolderNames DEF TxInv, TypeOK, Goto, qVars, pollVars, chipVars
<1> DEFINE Kicking == \E w \in Writers : pc[w] \in {"testidle", "clearidle"}
<1>1. ASSUME NEW w \in Writers, Write(w)
      PROVE  KickComes'
  <2>1. \A v \in Writers : v = w
    BY DEF OneWriter
  <2>2. CASE WriteBegin(w) \/ WriteCopy(w)
    BY <2>1, <2>2 DEF WriteBegin, WriteCopy, KickComes, QEmpty
  <2>3. CASE WritePublish(w)
    BY <2>3 DEF WritePublish, KickComes
  <2>4. CASE WriteTestIdle(w)
    BY <2>4 DEF WriteTestIdle, KickComes
  <2>5. CASE WriteClearIdle(w)
    BY <2>5 DEF WriteClearIdle, KickComes
  <2> QED BY <1>1, <2>2, <2>3, <2>4, <2>5 DEF Write
<1>2. ASSUME NEW c \in Contexts, Consume(c)
      PROVE  KickComes'
  <2>1. Kicking => Kicking'
    <3> SUFFICES ASSUME NEW w \in Writers, pc[w] \in {"testidle", "clearidle"}
                 PROVE  pc'[w] = pc[w]
      OBVIOUS
    <3> QED BY <1>2 DEF Consume, ConsumeEmpty, ConsumeHead, SendPostpone,
               SendLoad, SendRequest, SendMark, ConsumeAdvance
  <2>2. CASE ConsumeEmpty(c)
    BY <2>2 DEF ConsumeEmpty, KickComes, QEmpty
  <2>3. CASE ConsumeAdvance(c)
    <3>1. Holds(c) /\ c \in Holders
      BY <2>3, HoldsWhat DEF ConsumeAdvance, Consuming
    <3>2. ~idle
      BY <3>1, TokenExcludes, HoldsWhat
    <3> QED BY <2>3, <3>2 DEF ConsumeAdvance, KickComes
  <2>4. CASE ~ConsumeEmpty(c) /\ ~ConsumeAdvance(c)
    BY <1>2, <2>1, <2>4 DEF Consume, ConsumeHead, SendPostpone, SendLoad,
       SendRequest, SendMark, KickComes, QEmpty
  <2> QED BY <2>2, <2>3, <2>4
<1>3. ASSUME Interrupt \/ Timer \/ Poller \/ Chip \/ UNCHANGED vars
      PROVE  KickComes'
  <2>1. UNCHANGED <<idle, produced, consumed>>
    BY <1>3 DEF Interrupt, IrqRead, IrqLeave, IrqErrMode, IrqErrStat, IrqErrProgress, IrqErrFake,
       IrqErrMsg, IrqTxInt, IrqNoTxInt, WakeIfLow, Timer, TimerFires, Poller,
       PollRegister, PollCheck, Chip, TxDone, ErrorWarn, ErrorClear, BusOff,
       Recover, vars
  <2>2. \A w \in Writers : pc'[w] = pc[w]
    BY <1>3, TxAssumption
       DEF Interrupt, IrqRead, IrqLeave, IrqErrMode, IrqErrStat, IrqErrProgress, IrqErrFake,
       IrqErrMsg, IrqTxInt, IrqNoTxInt, WakeIfLow, Timer, TimerFires, Poller,
       PollRegister, PollCheck, Chip, TxDone, ErrorWarn, ErrorClear, BusOff,
       Recover, vars
  <2> QED BY <2>1, <2>2 DEF KickComes, QEmpty
<1> QED BY <1>1, <1>2, <1>3 DEF Next

(* Until a race an idle, non-empty queue has a writer on its way. *)
LEMMA KickInvariance ==
  ASSUME OneWriter
  PROVE  Spec => [](~raced => KickComes)
<1>1. Init => KickComes
  BY DEF Init, KickComes, QEmpty
<1>2. (~raced => TxInv) /\ (~raced => KickComes) /\ [Next]_vars => (~raced' => KickComes')
  BY NextNoLostKick, RaceLasts
<1> QED BY <1>1, <1>2, Invariance, PTL DEF Spec

(* A queue left idle with a message in it is about to be served            *)
(* (NoLostKick, msgq.c:30-32), for every queue size.                       *)
THEOREM KickIsNotLost ==
  ASSUME OneWriter
  PROVE  Spec => []NoLostKick
<1>1. (~raced => KickComes) => NoLostKick
  BY DEF KickComes, NoLostKick
<1> QED BY <1>1, KickInvariance, PTL

-----------------------------------------------------------------------------
(* The queue as its users see it: k messages between the counters, each    *)
(* where its counter designates; whoever writes one has room for it, whoever *)
(* sends one has one, and while the next writer is to start the sender, or *)
(* does, there is at most the message it has just written.                 *)
Distance(k) ==
  /\ Ahead(produced, consumed, k)
  /\ (\E w \in Writers : pc[w] \in {"copy", "publish"}) => k < Size
  /\ (\E c \in Contexts : pc[c] \in Consuming \ {"test"}) => k > 0
  /\ (idle \/ \E w \in Writers : pc[w] \in Consuming) => k <= 1

Stored(k) ==
  /\ \A x \in Counter, i \in 0 .. k - 1 : Ahead(x, consumed, i) => data[SlotOf(x)].seq = x
  /\ \A w \in Writers : pc[w] = "publish" => data[SlotOf(produced)].seq = produced

QueueInv == \E k \in 0 .. Size : Distance(k) /\ Stored(k)

(* Each kind of step leaves the contexts of the others alone. *)
LEMMA OtherContexts ==
  ASSUME TypeOK, Interrupt \/ Timer \/ Poller \/ Chip \/ UNCHANGED vars
  PROVE  /\ \A c \in Contexts : /\ pc'[c] \in Consuming => pc'[c] \in {"test", pc[c]}
                                /\ pc'[c] \in {"copy", "publish"} <=> pc[c] \in {"copy", "publish"}
                                /\ pc'[c] = "publish" <=> pc[c] = "publish"
         /\ \A w \in Writers : pc'[w] = pc[w]
         /\ UNCHANGED qVars
<1> USE TxAssumption, HolderNames DEF TypeOK, Goto, qVars, pollVars, chipVars, Consuming, Irq, Tmr
<1>1. CASE Interrupt
  BY <1>1 DEF Interrupt, IrqRead, IrqLeave, IrqErrMode, IrqErrStat, IrqErrProgress, IrqErrFake,
     IrqErrMsg, IrqTxInt, IrqNoTxInt, WakeIfLow
<1>2. CASE Timer
  BY <1>2 DEF Timer, TimerFires, WakeIfLow
<1>3. CASE Poller \/ Chip \/ UNCHANGED vars
  BY <1>3 DEF Poller, PollRegister, PollCheck, Chip, TxDone, ErrorWarn, ErrorClear, BusOff,
     Recover, vars
<1> QED BY <1>1, <1>2, <1>3

(* A message is put behind those that wait. *)
LEMMA CopyStored ==
  ASSUME TypeOK, NEW k \in 0 .. Size - 1, Ahead(produced, consumed, k), Stored(k),
         NEW m \in Message, m.seq = produced, data' = [data EXCEPT ![SlotOf(produced)] = m],
         UNCHANGED <<produced, consumed>>
  PROVE  Stored(k)'
<1>1. produced \in Counter /\ consumed \in Counter /\ SlotOf(produced) \in Slot
  BY RingTypes DEF TypeOK
<1>2. data'[SlotOf(produced)].seq = produced
  BY <1>1 DEF TypeOK
<1>3. ASSUME NEW x \in Counter, NEW i \in 0 .. k - 1, Ahead(x, consumed, i)
      PROVE  data'[SlotOf(x)].seq = x
  <2>1. k - i \in 1 .. Size - 1 /\ Ahead(produced, x, k - i)
    BY <1>1, <1>3, RingAssumption DEF Ahead, Counter
  <2>2. SlotOf(x) # SlotOf(produced) /\ SlotOf(x) \in Slot
    BY <1>1, <2>1, SlotsDiffer, RingTypes
  <2>3. data'[SlotOf(x)] = data[SlotOf(x)]
    BY <2>2 DEF TypeOK
  <2> QED BY <1>3, <2>3 DEF Stored
<1> QED BY <1>2, <1>3 DEF Stored

(* A message that is published is stored. *)
LEMMA PublishStored ==
  ASSUME TypeOK, NEW k \in 0 .. Size - 1, Ahead(produced, consumed, k), Stored(k),
         NEW w \in Writers, pc[w] = "publish", \A v \in Writers : pc'[v] # "publish",
         UNCHANGED <<data, consumed>>
  PROVE  Stored(k + 1)'
<1>1. ASSUME NEW x \in Counter, NEW i \in 0 .. k, Ahead(x, consumed, i)
      PROVE  data[SlotOf(x)].seq = x
  <2>1. CASE i = k
    <3>1. x = produced
      BY <1>1, <2>1, RingAssumption DEF TypeOK, Ahead, Counter
    <3> QED BY <3>1 DEF Stored
  <2>2. CASE i < k
    <3>1. i \in 0 .. k - 1
      BY <2>2
    <3> QED BY <1>1, <3>1 DEF Stored
  <2> QED BY <2>1, <2>2
<1>2. \A i : i \in 0 .. (k + 1) - 1 => i \in 0 .. k
  OBVIOUS
<1> QED BY <1>1, <1>2 DEF Stored

(* A message that is consumed leaves the others stored. *)
LEMMA AdvanceStored ==
  ASSUME TypeOK, NEW k \in 1 .. Size, Stored(k), consumed' = Incr(consumed),
         \A w \in Writers : pc'[w] = "publish" => pc[w] = "publish",
         UNCHANGED <<data, produced>>
  PROVE  Stored(k - 1)'
<1>1. ASSUME NEW x \in Counter, NEW i \in 0 .. k - 1 - 1, Ahead(x, consumed', i)
      PROVE  data[SlotOf(x)].seq = x
  <2>1. consumed \in Counter /\ (consumed' = consumed + 1 \/ (consumed = Wrap - 1 /\ consumed' = 0))
    BY IncrCases, RingAssumption DEF TypeOK, Counter
  <2>2. i + 1 \in 0 .. k - 1 /\ Ahead(x, consumed, i + 1)
    BY <1>1, <2>1, RingAssumption DEF Ahead, Counter
  <2> QED BY <2>2 DEF Stored
<1> QED BY <1>1 DEF Stored

-----------------------------------------------------------------------------
(* Each step keeps the queue in order. *)
LEMMA WriteQueue ==
  ASSUME TxInv, OneWriter, KickComes, QueueInv, NEW w \in Writers, Write(w)
  PROVE  QueueInv'
<1> USE HolderNames DEF TxInv, TypeOK, Goto, qVars, pollVars, chipVars
<1>1. PICK k \in 0 .. Size : Distance(k) /\ Stored(k)
  BY DEF QueueInv
<1>2. produced \in Counter /\ consumed \in Counter /\ \A v \in Writers : v = w
  BY DEF OneWriter
<1>3. CASE WriteBegin(w)
  <2>1. k < Size
    BY <1>1, <1>2, <1>3, LenIsDistance, RingAssumption DEF WriteBegin, QFull, Distance
  <2>2. Distance(k)'
    BY <1>1, <1>2, <1>3, <2>1 DEF WriteBegin, Distance, Consuming
  <2>3. Stored(k)'
    BY <1>1, <1>2, <1>3 DEF WriteBegin, Stored
  <2> QED BY <2>2, <2>3 DEF QueueInv
<1>4. CASE WriteCopy(w)
  <2>1. k \in 0 .. Size - 1 /\ Ahead(produced, consumed, k)
    BY <1>1, <1>4, RingAssumption DEF WriteCopy, Distance
  <2>2. Distance(k)'
    BY <1>1, <1>4, <2>1 DEF WriteCopy, Distance, Consuming
  <2>3. PICK d \in Delays : data' = [data EXCEPT ![SlotOf(produced)] = [seq |-> produced, delay |-> d]]
    BY <1>4 DEF WriteCopy
  <2>4. [seq |-> produced, delay |-> d] \in Message
    BY <1>2, TxAssumption DEF Message
  <2>5. UNCHANGED <<produced, consumed>>
    BY <1>4 DEF WriteCopy
  <2>6. Stored(k)'
    BY <1>1, <2>1, <2>3, <2>4, <2>5, CopyStored
  <2> QED BY <2>2, <2>6 DEF QueueInv
<1>5. CASE WritePublish(w)
  <2>1. k \in 0 .. Size - 1 /\ Ahead(produced, consumed, k)
    BY <1>1, <1>5, RingAssumption DEF WritePublish, Distance
  <2>2. k + 1 \in 0 .. Size /\ Ahead(produced', consumed', k + 1)
    BY <1>2, <1>5, <2>1, AheadAfterProduce, RingAssumption DEF WritePublish
  <2>3. idle' => k + 1 <= 1
    <3> SUFFICES ASSUME idle, k # 0 PROVE FALSE
      BY <1>5, <2>1 DEF WritePublish
    <3>1. produced # consumed
      BY <1>2, <2>1, RingAssumption DEF Ahead, Counter
    <3>2. pc[w] \in {"testidle", "clearidle"}
      BY <1>2, <3>1 DEF KickComes, QEmpty
    <3> QED BY <1>5, <3>2 DEF WritePublish
  <2>4. /\ \A v \in Writers : pc'[v] = "testidle"
        /\ \A c \in Contexts : pc'[c] \in {"testidle", pc[c]}
    BY <1>2, <1>5 DEF WritePublish
  <2>5. Distance(k + 1)'
    BY <1>1, <2>1, <2>2, <2>3, <2>4 DEF Distance, Consuming
  <2>6. Stored(k + 1)'
    BY <1>1, <1>5, <2>1, <2>4, PublishStored DEF WritePublish
  <2> QED BY <2>2, <2>5, <2>6 DEF QueueInv
<1>6. CASE WriteTestIdle(w) \/ WriteClearIdle(w)
  <2>1. /\ pc[w] \in {"testidle", "clearidle"} /\ pc'[w] \notin {"copy", "publish"}
        /\ pc'[w] \in Consuming => idle /\ pc'[w] = "test"
        /\ \A c \in Contexts \ {w} : pc'[c] = pc[c]
        /\ idle' => idle
        /\ UNCHANGED <<data, produced, consumed>>
    BY <1>6 DEF WriteTestIdle, WriteClearIdle, KickHasIdle, Consuming
  <2>2. Distance(k)'
    BY <1>1, <1>2, <2>1 DEF Distance, Consuming
  <2>3. Stored(k)'
    BY <1>1, <1>2, <2>1 DEF Stored
  <2> QED BY <2>2, <2>3 DEF QueueInv
<1> QED BY <1>3, <1>4, <1>5, <1>6 DEF Write

(* A sender takes only what is there. *)
LEMMA ConsumeQueue ==
  ASSUME TxInv, QueueInv, NEW c \in Contexts, Consume(c)
  PROVE  QueueInv'
<1> USE HolderNames DEF TxInv, TypeOK, Goto, qVars, pollVars, chipVars
<1>1. PICK k \in 0 .. Size : Distance(k) /\ Stored(k)
  BY DEF QueueInv
<1>2. /\ produced \in Counter /\ consumed \in Counter
      /\ pc[c] \in Consuming
      /\ \A d \in Contexts \ {c} : pc'[d] = pc[d]
      /\ pc'[c] \notin {"copy", "publish"}
  BY DEF Consume, ConsumeEmpty, ConsumeHead, SendPostpone, SendLoad, SendRequest, SendMark,
     ConsumeAdvance, Consuming, Return
<1>3. \A d \in Contexts \ {c} : pc[d] \notin Consuming
  <2>1. Holds(c) /\ c \in Holders
    BY <1>2, HoldsWhat
  <2> QED BY <2>1, TokenExcludes, HoldsWhat
<1>4. \A w \in Writers : pc'[w] = "publish" => pc[w] = "publish"
  BY <1>2
<1>5. ASSUME k = 0 \/ UNCHANGED idle, pc'[c] \in Consuming \ {"test"} => k > 0,
             UNCHANGED <<produced, consumed>>
      PROVE  Distance(k)'
  BY <1>1, <1>2, <1>3, <1>5 DEF Distance, Consuming
<1>6. ASSUME UNCHANGED <<data, produced, consumed>>
      PROVE  Stored(k)'
  BY <1>1, <1>4, <1>6 DEF Stored
<1>7. CASE ConsumeEmpty(c)
  <2>1. k = 0
    BY <1>1, <1>2, <1>7, RingAssumption DEF ConsumeEmpty, QEmpty, Distance, Ahead, Counter
  <2> QED BY <1>5, <1>6, <1>7, <2>1 DEF ConsumeEmpty, Return, Consuming, QueueInv
<1>8. CASE ConsumeHead(c)
  <2>1. k > 0
    BY <1>1, <1>2, <1>8, RingAssumption DEF ConsumeHead, QEmpty, Distance, Ahead, Counter
  <2> QED BY <1>5, <1>6, <1>8, <2>1 DEF ConsumeHead, QueueInv
<1>9. CASE SendPostpone(c)
  <2>1. Distance(k)'
    BY <1>5, <1>9 DEF SendPostpone, Return, Consuming
  <2>2. \A s \in Slot : data'[s].seq = data[s].seq
    <3> DEFINE h == SlotOf(consumed)
    <3>1. data'[h] = [seq |-> data[h].seq, delay |-> FALSE] /\ h \in Slot
      BY <1>2, <1>9, RingTypes DEF SendPostpone
    <3>2. \A s \in Slot \ {h} : data'[s] = data[s]
      BY <1>9 DEF SendPostpone
    <3> QED BY <3>1, <3>2
  <2>3. \A x \in Counter : data'[SlotOf(x)].seq = data[SlotOf(x)].seq
    BY <2>2, RingTypes
  <2>4. Stored(k)'
    BY <1>1, <1>2, <1>4, <1>9, <2>3 DEF SendPostpone, Stored
  <2> QED BY <2>1, <2>4 DEF QueueInv
<1>10. CASE SendLoad(c) \/ SendRequest(c) \/ SendMark(c)
  <2>1. pc[c] # "test" /\ UNCHANGED <<data, produced, consumed, idle>>
    BY <1>10 DEF SendLoad, SendRequest, SendMark
  <2>2. k > 0
    BY <1>1, <1>2, <2>1 DEF Distance, Consuming
  <2> QED BY <1>5, <1>6, <2>1, <2>2 DEF QueueInv
<1>11. CASE ConsumeAdvance(c)
  <2>1. k \in 1 .. Size
    BY <1>1, <1>11 DEF ConsumeAdvance, Distance, Consuming
  <2>2. k - 1 \in 0 .. Size /\ Ahead(produced', consumed', k - 1)
    BY <1>1, <1>2, <1>11, <2>1, AheadAfterConsume, RingAssumption DEF ConsumeAdvance, Distance
  <2>3. pc'[c] \notin Consuming /\ idle' = idle
    BY <1>11 DEF ConsumeAdvance, Return, Consuming
  <2>4. Distance(k - 1)'
    <3>1. \A d \in Contexts : pc'[d] \notin Consuming
      BY <1>2, <1>3, <2>3
    <3>2. k - 1 < Size /\ (k <= 1 => k - 1 <= 1)
      BY <2>1, RingAssumption
    <3>3. idle' => k <= 1
      BY <1>1, <2>3 DEF Distance
    <3> QED BY <2>2, <3>1, <3>2, <3>3 DEF Distance
  <2>5. Stored(k - 1)'
    BY <1>1, <1>4, <1>11, <2>1, AdvanceStored DEF ConsumeAdvance
  <2> QED BY <2>2, <2>4, <2>5 DEF QueueInv
<1> QED BY <1>7, <1>8, <1>9, <1>10, <1>11 DEF Consume

(* The others leave the queue, and who is in it, alone. *)
LEMMA OtherQueue ==
  ASSUME TypeOK, QueueInv, Interrupt \/ Timer \/ Poller \/ Chip \/ UNCHANGED vars
  PROVE  QueueInv'
<1>1. PICK k \in 0 .. Size : Distance(k) /\ Stored(k)
  BY DEF QueueInv
<1>2. /\ \A c \in Contexts : pc'[c] \in Consuming => pc'[c] \in {"test", pc[c]}
      /\ \A w \in Writers : pc'[w] = pc[w]
      /\ UNCHANGED <<data, produced, consumed, idle>>
  BY OtherContexts DEF qVars
<1>3. Distance(k)'
  BY <1>1, <1>2 DEF Distance
<1>4. Stored(k)'
  BY <1>1, <1>2 DEF Stored
<1> QED BY <1>3, <1>4 DEF QueueInv

(* Every step keeps the invariant of the queue, ... *)
LEMMA NextQueue ==
  ASSUME OneWriter, TxInv, KickComes, QueueInv, [Next]_vars
  PROVE  QueueInv'
BY WriteQueue, ConsumeQueue, OtherQueue DEF Next, TxInv

(* ... which holds at first ... *)
LEMMA InitQueue == Init => QueueInv
<1> SUFFICES ASSUME Init PROVE QueueInv
  OBVIOUS
<1>1. Ahead(produced, consumed, 0) /\ 0 \in 0 .. Size
  BY RingAssumption DEF Init, Ahead
<1>2. \A c \in Contexts : pc[c] \in {"user", "off"}
  BY DEF Init
<1>3. Distance(0) /\ Stored(0)
  BY <1>1, <1>2, HolderNames, RingAssumption DEF Distance, Stored, Consuming
<1> QED BY <1>1, <1>3 DEF QueueInv

-----------------------------------------------------------------------------
(* A poller that sleeps is going to be woken up. *)
WakeComes ==
  (poll = "asleep" /\ ~woken /\ QLow(produced, consumed))
    => \E c \in {Irq, Tmr} : pc[c] = "wake"

(* The poller.  A queue of one slot is not enough: the writer that empties *)
(* it wakes nobody up.                                                     *)
LEMMA NextNoLostWakeup ==
  ASSUME Size >= 2, TxInv, QueueInv, WakeComes, [Next]_vars
  PROVE  WakeComes'
<1> USE HolderNames DEF TxInv, TypeOK, Goto, qVars, pollVars, chipVars
<1> DEFINE Waking == \E c \in {Irq, Tmr} : pc[c] = "wake"
<1>1. PICK k \in 0 .. Size : Distance(k)
  BY DEF QueueInv
<1>2. QLow(produced, consumed) <=> k <= Size \div 2
  BY <1>1, LenIsDistance DEF QLow, Distance
<1>3. 1 <= Size \div 2 /\ Size \div 2 \in Int
  BY RingAssumption
<1>4. ASSUME poll' = "asleep" => poll = "asleep", woken => woken',
             QLow(produced, consumed)' => QLow(produced, consumed), Waking => Waking'
      PROVE  WakeComes'
  BY <1>4 DEF WakeComes
<1>5. ASSUME NEW w \in Writers, Write(w)
      PROVE  WakeComes'
  <2>1. Waking => Waking'
    BY <1>5, TxAssumption DEF Write, WriteBegin, WriteCopy, WritePublish, WriteTestIdle, WriteClearIdle
  <2>2. UNCHANGED <<poll, woken, consumed>>
    BY <1>5 DEF Write, WriteBegin, WriteCopy, WritePublish, WriteTestIdle, WriteClearIdle
  <2>3. CASE WritePublish(w)
    <3>1. k \in 0 .. Size - 1
      BY <1>1, <2>3, RingAssumption DEF WritePublish, Distance
    <3>2. k + 1 \in 0 .. Size /\ Ahead(produced', consumed', k + 1)
      BY <1>1, <2>3, <3>1, AheadAfterProduce, RingAssumption DEF WritePublish, Distance
    <3>3. produced' \in Counter /\ consumed' \in Counter
      BY <2>3, RingTypes DEF WritePublish
    <3>4. QLow(produced, consumed)' <=> k + 1 <= Size \div 2
      BY <3>2, <3>3, LenIsDistance DEF QLow
    <3>5. QLow(produced, consumed)' => QLow(produced, consumed)
      BY <1>2, <3>1, <3>4, RingAssumption
    <3> QED BY <1>4, <2>1, <2>2, <3>5
  <2>4. CASE ~WritePublish(w)
    <3>1. produced' = produced
      BY <1>5, <2>4 DEF Write, WriteBegin, WriteCopy, WriteTestIdle, WriteClearIdle
    <3> QED BY <1>4, <2>1, <2>2, <3>1 DEF QLow
  <2> QED BY <2>3, <2>4
<1>6. ASSUME NEW c \in Contexts, Consume(c)
      PROVE  WakeComes'
  <2>1. pc[c] \in Consuming /\ UNCHANGED <<poll, woken, produced>>
    BY <1>6 DEF Consume, ConsumeEmpty, ConsumeHead, SendPostpone, SendLoad, SendRequest, SendMark,
       ConsumeAdvance, Consuming
  <2>2. Waking => Waking'
    BY <1>6, <2>1 DEF Consume, ConsumeEmpty, ConsumeHead, SendPostpone, SendLoad, SendRequest,
       SendMark, ConsumeAdvance, Consuming
  <2>3. CASE ConsumeAdvance(c)
    <3>1. CASE c \in Writers
      <4>1. k <= 1
        BY <1>1, <2>1, <3>1 DEF Distance
      <4>2. QLow(produced, consumed)
        <5>1. k <= Size \div 2
          BY <1>3, <4>1
        <5> QED BY <1>2, <5>1
      <4> QED BY <1>4, <2>1, <2>2, <4>2
    <3>2. CASE c \in {Irq, Tmr}
      <4>1. c \notin Writers
        BY <3>2, TxAssumption
      <4>2. pc'[c] = "wake"
        BY <2>3, <4>1 DEF ConsumeAdvance, Return
      <4> QED BY <3>2, <4>2 DEF WakeComes
    <3> QED BY <3>1, <3>2 DEF Contexts
  <2>4. CASE ~ConsumeAdvance(c)
    <3>1. consumed' = consumed
      BY <1>6, <2>4 DEF Consume, ConsumeEmpty, ConsumeHead, SendPostpone, SendLoad, SendRequest, SendMark
    <3> QED BY <1>4, <2>1, <2>2, <3>1 DEF QLow
  <2> QED BY <2>3, <2>4
<1>7. ASSUME NEW c \in {Irq, Tmr}, WakeIfLow(c)
      PROVE  WakeComes'
  BY <1>7 DEF WakeIfLow, WakeUp, WakeComes, QLow
<1>8. ASSUME Interrupt \/ Timer, ~WakeIfLow(Irq), ~WakeIfLow(Tmr)
      PROVE  WakeComes'
  <2>1. Waking => Waking'
    BY <1>8 DEF Interrupt, IrqRead, IrqLeave, IrqErrMode, IrqErrStat, IrqErrProgress, IrqErrFake,
       IrqErrMsg, IrqTxInt, IrqNoTxInt, Timer, TimerFires
  <2>2. UNCHANGED <<produced, consumed, poll>> /\ (woken => woken')
    BY <1>8 DEF Interrupt, IrqRead, IrqLeave, IrqErrMode, IrqErrStat, IrqErrProgress, IrqErrFake,
       IrqErrMsg, IrqTxInt, IrqNoTxInt, Timer, TimerFires, WakeUp
  <2> QED BY <1>4, <2>1, <2>2 DEF QLow
<1>9. CASE Poller
  BY <1>9 DEF Poller, PollRegister, PollCheck, WakeComes, QLow
<1>10. CASE Chip \/ UNCHANGED vars
  <2>1. UNCHANGED <<produced, consumed, poll, woken, pc>>
    BY <1>10 DEF Chip, TxDone, ErrorWarn, ErrorClear, BusOff, Recover, vars
  <2> QED BY <1>4, <2>1 DEF QLow
<1> QED BY <1>5, <1>6, <1>7, <1>8, <1>9, <1>10 DEF Next

(* The invariant of the queue holds until a race. *)
LEMMA QueueInvariance ==
  ASSUME OneWriter
  PROVE  Spec => [](~raced => QueueInv)
<1>1. (~raced => TxInv) /\ (~raced => KickComes) /\ (~raced => QueueInv) /\ [Next]_vars
        => (~raced' => QueueInv')
  BY NextQueue, RaceLasts
<1> QED BY <1>1, InitQueue, Invariance, KickInvariance, PTL DEF Spec

(* A poller sleeps through a half-empty queue only while a context is on   *)
(* its way to wake it up (can_select, CAN_Interrupt), for every queue of   *)
(* at least two messages.                                                  *)
THEOREM WriterIsWoken ==
  ASSUME OneWriter, Size >= 2
  PROVE  Spec => []NoLostWakeup
<1>1. Init => WakeComes
  BY DEF Init, WakeComes
<1>2. (~raced => TxInv) /\ (~raced => QueueInv) /\ (~raced => WakeComes) /\ [Next]_vars
        => (~raced' => WakeComes')
  BY NextNoLostWakeup, RaceLasts
<1>3. (~raced => WakeComes) => NoLostWakeup
  BY DEF WakeComes, NoLostWakeup
<1> QED BY <1>1, <1>2, <1>3, Invariance, QueueInvariance, PTL DEF Spec

-----------------------------------------------------------------------------
(* A message handed to the controller and not yet counted as consumed. *)
Handed == \E c \in Contexts : Noting(c)

(* While it is locked the transmit buffer holds the message behind the     *)
(* last one that left it; the queue's head is that message while its       *)
(* sender has still to count it, and otherwise the one behind; a message   *)
(* that left early is still the head.                                      *)
OnBus ==
  /\ (tbs /\ ~Handed) => consumed = Incr(wire)
  /\ (tbs /\ Handed) => consumed = wire
  /\ ~tbs => txbuf = Incr(wire)
  /\ (~tbs /\ Handed) => consumed = txbuf
  /\ (~tbs /\ ~Handed) => consumed = Incr(txbuf)
  /\ \A c \in Contexts : pc[c] = "request" => txbuf = consumed

(* The controller has no message at first. *)
LEMMA InitOnBus == Init => OnBus
<1> SUFFICES ASSUME Init PROVE OnBus
  OBVIOUS
<1>1. Incr(Wrap - 1) = 0
  BY CounterNonEmpty, IncrCases, RingAssumption
<1>2. \A c \in Contexts : pc[c] \in {"user", "off"}
  BY DEF Init
<1> QED BY <1>1, <1>2 DEF Init, OnBus, Handed, Noting

(* Steps that leave the queue's head and the controller alone. *)
LEMMA OnBusStays ==
  ASSUME OnBus, UNCHANGED <<consumed, tbs, txbuf, wire>>,
         \A c \in Contexts : \A l \in {"request", "mark", "advance"} : pc'[c] = l <=> pc[c] = l
  PROVE  OnBus'
<1>1. Handed' <=> Handed
  BY DEF Handed, Noting
<1> QED BY <1>1 DEF OnBus

(* A sender gives the controller the head of the queue. *)
LEMMA ConsumeOnBus ==
  ASSUME TxInv, QueueInv, OnBus, NEW c \in Contexts, Consume(c)
  PROVE  OnBus'
<1> USE HolderNames DEF TxInv, TypeOK, Goto, qVars, pollVars, chipVars
<1>1. /\ pc[c] \in Consuming /\ UNCHANGED wire
      /\ \A d \in Contexts \ {c} : pc'[d] = pc[d]
  BY DEF Consume, ConsumeEmpty, ConsumeHead, SendPostpone, SendLoad, SendRequest, SendMark,
     ConsumeAdvance, Consuming
<1>2. \A d \in Contexts \ {c} : pc[d] \notin Consuming
  <2>1. Holds(c) /\ c \in Holders
    BY <1>1, HoldsWhat
  <2> QED BY <2>1, TokenExcludes, HoldsWhat
<1>3. CASE ConsumeEmpty(c) \/ ConsumeHead(c) \/ SendPostpone(c)
  <2>1. UNCHANGED <<consumed, tbs, txbuf, wire>>
    BY <1>3 DEF ConsumeEmpty, ConsumeHead, SendPostpone
  <2>2. pc[c] \in {"test", "send"} /\ pc'[c] \in {"user", "wake", "send"}
    BY <1>3 DEF ConsumeEmpty, ConsumeHead, SendPostpone, Return
  <2> QED BY <1>1, <2>1, <2>2, OnBusStays
<1>4. CASE SendLoad(c)
  <2>1. tbs /\ ~reset /\ ~Handed
    BY <1>2, <1>4, SenderFindsChipIdle DEF SendLoad, Handed, Noting, Consuming
  <2>2. data[SlotOf(consumed)].seq = consumed
    <3>1. PICK k \in 0 .. Size : Distance(k) /\ Stored(k)
      BY DEF QueueInv
    <3>2. 0 \in 0 .. k - 1
      BY <1>4, <3>1 DEF SendLoad, Distance, Consuming
    <3> QED BY <3>1, <3>2, AheadOfItself DEF Stored
  <2>3. txbuf' = consumed /\ tbs' /\ UNCHANGED <<consumed, wire>>
    BY <1>4, <2>1, <2>2 DEF SendLoad
  <2>4. pc'[c] = "request" /\ \A d \in Contexts \ {c} : pc'[d] # "request"
    BY <1>1, <1>2, <1>4 DEF Consuming, SendLoad
  <2>5. ~Handed'
    BY <1>1, <2>1, <2>4 DEF Handed, Noting
  <2> QED BY <2>1, <2>3, <2>4, <2>5 DEF OnBus
<1>5. CASE SendRequest(c)
  <2>1. tbs /\ ~reset /\ ~Handed
    BY <1>2, <1>5, SenderFindsChipIdle DEF SendRequest, Handed, Noting, Consuming
  <2>2. ~tbs' /\ pc[c] = "request" /\ pc'[c] = "mark" /\ UNCHANGED <<consumed, txbuf, wire>>
    BY <1>5, <2>1 DEF SendRequest
  <2>3. \A d \in Contexts : pc'[d] # "request"
    BY <1>1, <1>2, <2>2 DEF Consuming
  <2>4. Handed'
    BY <2>2 DEF Handed, Noting
  <2> QED BY <2>1, <2>2, <2>3, <2>4 DEF OnBus
<1>6. CASE SendMark(c)
  <2>1. pc[c] = "mark" /\ pc'[c] = "advance" /\ UNCHANGED <<consumed, tbs, txbuf, wire>>
    BY <1>6 DEF SendMark
  <2>2. Handed /\ Handed'
    BY <2>1 DEF Handed, Noting
  <2> QED BY <1>1, <2>1, <2>2 DEF OnBus
<1>7. CASE ConsumeAdvance(c)
  <2>1. Handed /\ UNCHANGED <<tbs, txbuf>> /\ consumed' = Incr(consumed)
    BY <1>7 DEF ConsumeAdvance, Handed, Noting
  <2>2. pc'[c] \in {"user", "wake"}
    BY <1>7 DEF ConsumeAdvance, Return
  <2>3. \A d \in Contexts : pc'[d] \notin {"request", "mark", "advance"}
    BY <1>1, <1>2, <2>2 DEF Consuming
  <2>4. ~Handed'
    BY <2>3 DEF Handed, Noting
  <2> QED BY <1>1, <2>1, <2>3, <2>4 DEF OnBus
<1> QED BY <1>3, <1>4, <1>5, <1>6, <1>7 DEF Consume

(* A transmission that ends, ends the one that was requested. *)
LEMMA ChipOnBus ==
  ASSUME TxInv, OnBus, Chip
  PROVE  OnBus' /\ (~tbs /\ tbs' => wire' = Incr(wire))
<1> USE DEF pollVars, qVars
<1>1. CASE TxDone \/ BusOff
  <2>1. ~tbs /\ tbs' /\ wire' = txbuf /\ UNCHANGED <<consumed, txbuf, pc>>
    BY <1>1 DEF TxDone, BusOff
  <2>2. Handed' <=> Handed
    BY <2>1 DEF Handed, Noting
  <2> QED BY <2>1, <2>2 DEF OnBus
<1>2. CASE ErrorWarn \/ ErrorClear \/ Recover
  <2>1. UNCHANGED <<consumed, tbs, txbuf, wire, pc>>
    BY <1>2 DEF ErrorWarn, ErrorClear, Recover
  <2> QED BY <2>1, OnBusStays
<1> QED BY <1>1, <1>2 DEF Chip

(* Nor does another step change what the controller has, and what ends is the next. *)
LEMMA NextOnBus ==
  ASSUME TxInv, QueueInv, OnBus, [Next]_vars
  PROVE  OnBus' /\ (~tbs /\ tbs' => wire' = Incr(wire))
<1> USE HolderNames DEF TxInv, TypeOK, Goto, qVars, pollVars, chipVars
<1>1. ASSUME NEW w \in Writers, Write(w)
      PROVE  OnBus' /\ tbs' = tbs
  <2>1. UNCHANGED <<consumed, tbs, txbuf, wire>>
    BY <1>1 DEF Write, WriteBegin, WriteCopy, WritePublish, WriteTestIdle, WriteClearIdle
  <2>2. \A c \in Contexts : \A l \in {"request", "mark", "advance"} : pc'[c] = l <=> pc[c] = l
    BY <1>1 DEF Write, WriteBegin, WriteCopy, WritePublish, WriteTestIdle, WriteClearIdle
  <2> QED BY <2>1, <2>2, OnBusStays
<1>2. ASSUME NEW c \in Contexts, Consume(c)
      PROVE  OnBus' /\ (tbs' => tbs)
  <2>1. tbs' => tbs
    BY <1>2 DEF Consume, ConsumeEmpty, ConsumeHead, SendPostpone, SendLoad, SendRequest, SendMark,
       ConsumeAdvance
  <2> QED BY <1>2, <2>1, ConsumeOnBus
<1>3. CASE Interrupt \/ Timer \/ Poller \/ UNCHANGED vars
  <2>1. UNCHANGED <<consumed, tbs, txbuf, wire>>
    BY <1>3 DEF Interrupt, IrqRead, IrqLeave, IrqErrMode, IrqErrStat, IrqErrProgress, IrqErrFake,
       IrqErrMsg, IrqTxInt, IrqNoTxInt, WakeIfLow, Timer, TimerFires, Poller, PollRegister,
       PollCheck, vars
  <2>2. \A c \in Contexts : \A l \in {"request", "mark", "advance"} : pc'[c] = l <=> pc[c] = l
    BY <1>3 DEF Interrupt, IrqRead, IrqLeave, IrqErrMode, IrqErrStat, IrqErrProgress, IrqErrFake,
       IrqErrMsg, IrqTxInt, IrqNoTxInt, WakeIfLow, Timer, TimerFires, Poller, PollRegister,
       PollCheck, vars
  <2> QED BY <2>1, <2>2, OnBusStays
<1>4. CASE Chip
  BY <1>4, ChipOnBus
<1> QED BY <1>1, <1>2, <1>3, <1>4 DEF Next

(* Messages leave the transmit buffer in the order can_write was given     *)
(* them, none twice and none skipped (WireInOrder): through postponed      *)
(* messages, bus errors, bus-off and simulated transmit interrupts, for    *)
(* every queue size.                                                       *)
THEOREM SentInOrder ==
  ASSUME OneWriter
  PROVE  Spec => WireInOrder
<1>1. (~raced => TxInv) /\ (~raced => QueueInv) /\ (~raced => OnBus) /\ [Next]_vars =>
        /\ ~raced' => OnBus'
        /\ [(~raced' /\ ~tbs /\ tbs') => wire' = Incr(wire)]_vars
  BY NextOnBus, RaceLasts
<1> QED BY InitOnBus, <1>1, Invariance, QueueInvariance, PTL DEF Spec, WireInOrder

-----------------------------------------------------------------------------
(* ChipControl, for a careful process, every queue size and any settings.  *)
(* While the process has the channel off, the transmit path is quiet;      *)
(* while it has not, the invariant of TxPath holds as it stands, and the   *)
(* lemmas above are used again.                                            *)

(* From the stop or the reset to the end of the start. *)
Off == stopped \/ ctl = "start"

(* The next writer has the right to send, nobody writes, and there is no   *)
(* transmission whose end is still to be told.                             *)
Quiet ==
  /\ TypeOK
  /\ idle /\ ~armed /\ ~txinprogress /\ tbs
  /\ \A c \in Contexts : pc[c] \notin Consuming
  /\ \A w \in Writers : pc[w] = "user"
  /\ TI \notin ir /\ ~TxIntRead /\ pc[Irq] # "errtbs"

Modes == IF Off THEN Quiet ELSE TxInv

(* The registers differ from the table only until CAN_SetMask has written  *)
(* them, or after the handler put the channel back into operation.         *)
Masked ==
  /\ acc = table \/ ctl = "mask" \/ undone
  /\ stopped /\ ~reset => undone
  /\ ctl \in {"present", "setup", "mask"} => stopped

StartsOnce == ctl = "start" => ~stopped

CtlInv == Modes /\ Masked /\ StartsOnce

-----------------------------------------------------------------------------
(* A channel at rest is quiet, ... *)
LEMMA RestIsQuiet ==
  ASSUME TxInv, idle, InUserMode
  PROVE  Quiet
<1>1. Holds("idle") /\ "idle" \in Holders
  BY HoldsWhat, HolderNames
<1>2. \A g \in Holders \ {"idle"} : ~Holds(g)
  BY <1>1, TokenExcludes DEF TxInv
<1>3. ~armed /\ \A c \in Contexts : pc[c] \notin Consuming
  BY <1>2, HoldsWhat, HolderNames
<1>4. ~Noted
  BY <1>1, IdleHolds DEF TxInv
<1>5. tbs /\ ~reset /\ TI \notin ir /\ ~TxIntRead /\ ~txinprogress /\ pc[Irq] # "errtbs"
  BY <1>4, NotedOrIdle DEF TxInv, ViewsMatch, Noted
<1> QED BY <1>3, <1>5 DEF TxInv, Quiet, InUserMode

(* ... and a quiet one that operates is one the transmit path can go on    *)
(* with.                                                                   *)
LEMMA QuietHasToken ==
  ASSUME Quiet
  PROVE  OneHolder
<1>1. Holds("idle") /\ \A g \in Holders \ {"idle"} : ~Holds(g)
  BY HoldsWhat, HolderNames DEF Quiet
<1> QED BY <1>1, HolderNames DEF OneHolder

(* A quiet channel that operates is one the transmit path can go on with. *)
LEMMA QuietGoesOn ==
  ASSUME Quiet, ~reset
  PROVE  TxInv
<1>1. ViewsMatch /\ EndTold
  BY DEF Quiet, ViewsMatch, EndTold, Noted, Consuming
<1>2. KickHasIdle
  BY DEF Quiet, KickHasIdle
<1> QED BY <1>1, <1>2, QuietHasToken DEF TxInv, Quiet

(* The same of the state after a step. *)
LEMMA QuietGoesOnNext ==
  ASSUME Quiet', ~reset'
  PROVE  TxInv'
<1>1. Holds("idle")' /\ \A g \in Holders \ {"idle"} : ~Holds(g)'
  BY HoldsWhatNext, HolderNames DEF Quiet
<1>2. OneHolder'
  BY <1>1, HolderNames DEF OneHolder, Holders, Contexts
<1>3. ViewsMatch' /\ EndTold'
  BY DEF Quiet, ViewsMatch, EndTold, Noted, Consuming
<1>4. KickHasIdle'
  BY DEF Quiet, KickHasIdle
<1> QED BY <1>2, <1>3, <1>4 DEF TxInv, Quiet

-----------------------------------------------------------------------------
(* What the transmit path does while the process has the channel off: the  *)
(* interrupt handler goes on, the poller polls and errors clear up.        *)
LEMMA QuietSteps ==
  ASSUME Care, Off, Quiet, TxStep
  PROVE  /\ Interrupt \/ Timer \/ Poller \/ Chip
         /\ UNCHANGED <<qVars, txinprogress, armed, tbs, txbuf, wire>>
         /\ ~Loading
         /\ Quiet'
<1> USE HolderNames DEF Quiet, Goto, qVars, pollVars
<1>1. ASSUME NEW w \in Writers, Write(w) PROVE FALSE
  <2>1. ~Writing
    BY DEF TxStep, Beside, Off
  <2>2. CASE WriteBegin(w)
    <3>1. pc'[w] = "copy"
      BY <2>2 DEF WriteBegin, TypeOK
    <3> QED BY <2>1, <3>1 DEF Writing
  <2>3. CASE ~WriteBegin(w)
    BY <1>1, <2>3 DEF Write, WriteCopy, WritePublish, WriteTestIdle, WriteClearIdle
  <2> QED BY <2>2, <2>3
<1>2. ASSUME NEW c \in Contexts, Consume(c) PROVE FALSE
  BY <1>2 DEF Consume, ConsumeEmpty, ConsumeHead, SendPostpone, SendLoad, SendRequest, SendMark,
     ConsumeAdvance, Consuming
<1>3. Interrupt \/ Timer \/ Poller \/ Chip
  BY <1>1, <1>2 DEF TxStep, Next
<1>4. ~Loading
  BY DEF Loading, Consuming
<1>5. TypeOK'
  BY NextTypeOK DEF TxStep
<1>6. CASE Interrupt
  <2>1. ~IrqTxInt /\ ~IrqErrFake
    BY DEF IrqTxInt, IrqErrFake, TxIntRead
  <2>2. UNCHANGED <<qVars, txinprogress, armed, tbs, txbuf, wire>>
    BY <1>6, <2>1 DEF Interrupt, IrqRead, IrqLeave, IrqErrMode, IrqErrStat, IrqErrProgress,
       IrqErrMsg, IrqNoTxInt, WakeIfLow, chipVars
  <2>3. \A c \in Contexts \ {Irq} : pc'[c] = pc[c]
    BY <1>6, <2>1 DEF Interrupt, IrqRead, IrqLeave, IrqErrMode, IrqErrStat, IrqErrProgress,
       IrqErrMsg, IrqNoTxInt, WakeIfLow, TypeOK
  <2>4. pc'[Irq] \notin Consuming /\ pc'[Irq] # "errtbs"
    <3>1. pc'[Irq] \in {"errmode", "txint", "off", "errstat", "errtxp", "errmsg", "loop"}
      <4>1. CASE IrqRead
        BY <4>1 DEF IrqRead, TypeOK
      <4>2. CASE IrqErrProgress
        BY <4>2 DEF IrqErrProgress, TypeOK
      <4>3. CASE WakeIfLow(Irq)
        BY <4>3 DEF WakeIfLow, TypeOK
      <4>4. CASE IrqLeave \/ IrqErrMode \/ IrqErrStat \/ IrqErrMsg \/ IrqNoTxInt
        BY <4>4 DEF IrqLeave, IrqErrMode, IrqErrStat, IrqErrMsg, IrqNoTxInt, TypeOK
      <4> QED BY <1>6, <2>1, <4>1, <4>2, <4>3, <4>4 DEF Interrupt
    <3> QED BY <3>1 DEF Consuming
  <2>5. TI \notin ir' /\ ~TxIntRead'
    <3>1. CASE IrqRead
      BY <3>1 DEF IrqRead, TxIntRead
    <3>2. CASE IrqLeave
      BY <3>2 DEF IrqLeave, TxIntRead, chipVars
    <3>3. CASE IrqErrMode \/ IrqErrStat \/ IrqErrProgress \/ IrqErrMsg \/ IrqNoTxInt
      BY <3>3 DEF IrqErrMode, IrqErrStat, IrqErrProgress, IrqErrMsg, IrqNoTxInt, TxIntRead,
         chipVars
    <3>4. CASE WakeIfLow(Irq)
      BY <3>4 DEF WakeIfLow, TxIntRead, chipVars, TypeOK
    <3> QED BY <1>6, <2>1, <3>1, <3>2, <3>3, <3>4 DEF Interrupt
  <2>6. Quiet'
    BY <1>5, <2>2, <2>3, <2>4, <2>5, TxAssumption
  <2> QED BY <1>3, <1>4, <2>2, <2>6
<1>7. CASE Timer
  <2>1. WakeIfLow(Tmr)
    BY <1>7 DEF Timer, TimerFires
  <2>2. /\ \A c \in Contexts \ {Tmr} : pc'[c] = pc[c]
        /\ pc'[Tmr] \notin Consuming
        /\ UNCHANGED <<qVars, txinprogress, armed, irqsrc, chipVars>>
    BY <2>1 DEF WakeIfLow, TypeOK, Consuming, Irq, Tmr
  <2>3. Quiet'
    BY <1>5, <2>2, TxAssumption DEF TxIntRead, chipVars
  <2> QED BY <1>3, <1>4, <2>2, <2>3 DEF chipVars
<1>8. CASE Poller
  <2>1. UNCHANGED <<qVars, txinprogress, armed, pc, irqsrc, chipVars>>
    BY <1>8 DEF Poller, PollRegister, PollCheck
  <2> QED BY <1>3, <1>4, <1>5, <2>1 DEF TxIntRead, chipVars
<1>9. CASE Chip
  <2>1. ErrorWarn \/ ErrorClear \/ Recover
    BY <1>9 DEF Chip, TxDone, BusOff
  <2>2. /\ UNCHANGED <<qVars, txinprogress, armed, pc, irqsrc, tbs, txbuf, wire>>
        /\ ir' = ir \cup {EI}
    BY <2>1 DEF ErrorWarn, ErrorClear, Recover
  <2> QED BY <1>3, <1>4, <1>5, <2>2 DEF TxIntRead, TI, EI
<1> QED BY <1>3, <1>6, <1>7, <1>8, <1>9

(* A step of the transmit path while the channel is on is one of TxPath,   *)
(* and nothing is loaded in reset mode.                                    *)
LEMMA OnSteps ==
  ASSUME OneWriter, ~Off, TxInv, TxStep, ~raced'
  PROVE  TxInv' /\ ~(reset /\ Loading)
<1>1. TxInv'
  BY NextTxInv DEF TxStep
<1>2. \A c \in Contexts : pc[c] = "send" => ~reset
  BY SenderFindsChipIdle
<1> QED BY <1>1, <1>2 DEF Loading

(* A control step leaves a quiet channel quiet. *)
LEMMA ControlSteps ==
  ASSUME Care, CtlInv, Call \/ Continue
  PROVE  /\ Quiet /\ Quiet'
         /\ Off' \/ ~reset'
         /\ UNCHANGED <<txVars, tbs, wire>>
<1> USE DEF Off, CtlInv, Modes, qVars, pollVars
<1>1. Quiet
  <2>1. CASE Off
    BY <2>1
  <2>2. CASE ~Off
    <3>1. TxInv /\ InUserMode /\ AtRest
      BY <2>2 DEF Call, Continue, StopChip, StartChip, ResetChip, ConfigAcc, StartOperation,
         ResetPresent, ResetSetup, SetMask, Masked
    <3> QED BY <3>1, RestIsQuiet DEF AtRest
  <2> QED BY <2>1, <2>2
<1>2. UNCHANGED <<txVars, tbs, wire>>
  BY <1>1 DEF Call, Continue, StopChip, StartChip, ResetChip, ConfigAcc, StartOperation,
     ResetPresent, ResetSetup, SetMask, EnterReset, Quiet, chipVars
<1>3. Off' \/ ~reset'
  BY DEF Call, Continue, StopChip, StartChip, ResetChip, ConfigAcc, StartOperation,
     ResetPresent, ResetSetup, SetMask, Masked
<1>4. ir' \subseteq ir /\ txbuf' \in Counter /\ UNCHANGED <<es, bs, faults>> /\ reset' \in BOOLEAN
  BY <1>1 DEF Call, Continue, StopChip, StartChip, ResetChip, ConfigAcc, StartOperation,
     ResetPresent, ResetSetup, SetMask, EnterReset, chipVars, Quiet, TypeOK
<1>5. Quiet'
  BY <1>1, <1>2, <1>4 DEF Quiet, TypeOK, TxIntRead, txVars
<1> QED BY <1>1, <1>2, <1>3, <1>5

-----------------------------------------------------------------------------
(* A channel is quiet at first. *)
LEMMA InitCtlInv == CtlInit => CtlInv
BY InitTxInv DEF CtlInit, CtlInv, Modes, Off, Masked, StartsOnce

(* Every step keeps the modes. *)
LEMMA ModesNext ==
  ASSUME OneWriter, Care, CtlInv, [CtlNext]_allVars, ~raced'
  PROVE  Modes'
<1>1. CASE TxStep
  <2>1. Off' <=> Off
    BY <1>1 DEF TxStep, Beside, Off
  <2>2. CASE Off
    BY <1>1, <2>1, <2>2, QuietSteps DEF CtlInv, Modes
  <2>3. CASE ~Off
    BY <1>1, <2>1, <2>3, OnSteps DEF CtlInv, Modes
  <2> QED BY <2>2, <2>3
<1>2. CASE Call \/ Continue
  <2>1. Quiet' /\ (Off' \/ ~reset')
    BY <1>2, ControlSteps
  <2>2. ~Off' => TxInv'
    BY <2>1, QuietGoesOnNext
  <2> QED BY <2>1, <2>2 DEF Modes
<1>3. CASE UNCHANGED allVars
  <2>1. UNCHANGED vars /\ (Off' <=> Off)
    BY <1>3 DEF allVars, ctlVars, Off
  <2>2. ~Off => TxInv'
    BY <2>1, NextTxInv DEF CtlInv, Modes
  <2>3. Off => Quiet'
    BY <2>1 DEF CtlInv, Modes, Quiet, TypeOK, TxIntRead, vars, qVars, pollVars, chipVars
  <2> QED BY <2>1, <2>2, <2>3 DEF Modes
<1> QED BY <1>1, <1>2, <1>3 DEF CtlNext

(* The filter differs from what was configured only between two steps. *)
LEMMA MaskedNext ==
  ASSUME OneWriter, Care, CtlInv, [CtlNext]_allVars, ~raced'
  PROVE  Masked'
<1> USE DEF CtlInv, Masked
<1>1. CASE TxStep
  <2>1. ~(reset /\ Loading)
    BY <1>1, QuietSteps, OnSteps DEF Modes
  <2> QED BY <1>1, <2>1 DEF TxStep, Beside
<1>2. CASE StopChip
  BY <1>2 DEF StopChip, EnterReset, InUserMode
<1>3. CASE StartChip
  BY <1>3 DEF StartChip, InUserMode
<1>4. CASE ResetChip
  BY <1>4 DEF ResetChip, EnterReset, InUserMode
<1>5. ASSUME NEW v \in Settings, ConfigAcc(v) PROVE Masked'
  BY <1>5 DEF ConfigAcc, InUserMode, chipVars
<1>6. CASE StartOperation
  BY <1>6 DEF StartOperation, StartsOnce
<1>7. CASE ResetPresent
  BY <1>7 DEF ResetPresent, chipVars
<1>8. CASE ResetSetup
  BY <1>8 DEF ResetSetup, EnterReset
<1>9. CASE SetMask
  BY <1>9 DEF SetMask
<1>10. CASE UNCHANGED allVars
  BY <1>10 DEF allVars, ctlVars, vars, chipVars
<1> QED
  BY <1>1, <1>2, <1>3, <1>4, <1>5, <1>6, <1>7, <1>8, <1>9, <1>10 DEF CtlNext, Call, Continue

(* A start takes the mark of the stop away first. *)
LEMMA StartsOnceNext == StartsOnce /\ [CtlNext]_allVars => StartsOnce'
BY DEF StartsOnce, CtlNext, allVars, ctlVars, TxStep, Beside, Call, Continue, StopChip, StartChip,
   ResetChip, ConfigAcc, StartOperation, ResetPresent, ResetSetup, SetMask, InUserMode

(* Nor does control hide a race. *)
LEMMA CtlRaceLasts == [CtlNext]_allVars => (raced => raced')
<1>1. TxStep => (raced => raced')
  BY RaceLasts DEF TxStep
<1>2. Call \/ Continue \/ UNCHANGED allVars => UNCHANGED raced
  BY DEF Call, Continue, StopChip, StartChip, ResetChip, ConfigAcc, StartOperation, ResetPresent,
     ResetSetup, SetMask, txVars, allVars, vars
<1> QED BY <1>1, <1>2 DEF CtlNext

(* The invariant of the controlled channel holds until a race. *)
LEMMA CtlInvariance ==
  ASSUME OneWriter, Care
  PROVE  CtlSpec => [](~raced => CtlInv)
<1>1. (~raced => CtlInv) /\ [CtlNext]_allVars => (~raced' => CtlInv')
  BY ModesNext, MaskedNext, StartsOnceNext, CtlRaceLasts DEF CtlInv
<1> QED BY <1>1, InitCtlInv, PTL DEF CtlSpec

(* Control does not disturb the right to send: through stops, resets and   *)
(* starts of a channel at rest, and the handler that undoes a reset        *)
(* (can_Command against CAN_Interrupt), it is held in exactly one place    *)
(* until a race.                                                           *)
THEOREM ControlKeepsToken ==
  ASSUME OneWriter, Care
  PROVE  CtlSpec => []SingleToken
<1>1. (~raced => CtlInv) => SingleToken
  BY QuietHasToken DEF CtlInv, Modes, TxInv, SingleToken
<1> QED BY <1>1, CtlInvariance, PTL

(* An operating channel has AccCode and AccMask in its registers           *)
(* (CAN_SetMask), unless the handler put it back into operation.           *)
THEOREM AccIsConfigured ==
  ASSUME OneWriter, Care
  PROVE  CtlSpec => []AccAsConfigured
<1>1. (~raced => CtlInv) => AccAsConfigured
  BY DEF CtlInv, Masked, AccAsConfigured
<1> QED BY <1>1, CtlInvariance, PTL

(* What TxPath says of its queue and of the bus. *)
Ordered == KickComes /\ QueueInv /\ OnBus

(* Every step keeps the order of the messages. *)
LEMMA OrderedNext ==
  ASSUME OneWriter, Care, CtlInv, Ordered, [CtlNext]_allVars, ~raced'
  PROVE  Ordered' /\ (~tbs /\ tbs' => wire' = Incr(wire))
<1>a. ASSUME Quiet, Quiet', UNCHANGED <<qVars, tbs, wire>>
      PROVE  KickComes' /\ OnBus'
  <2>1. KickComes'
    BY <1>a DEF Ordered, KickComes, QEmpty, Quiet, qVars
  <2>2. \A c \in Contexts : pc'[c] \notin {"request", "mark", "advance"}
    BY <1>a DEF Quiet, Consuming
  <2>3. OnBus'
    BY <1>a, <2>2 DEF Ordered, OnBus, Handed, Noting, Quiet, qVars, Consuming
  <2> QED BY <2>1, <2>3
<1>1. CASE TxStep
  <2>1. CASE Off
    <3>1. /\ Quiet /\ Quiet'
          /\ Interrupt \/ Timer \/ Poller \/ Chip
          /\ UNCHANGED <<qVars, tbs, wire>>
      BY <1>1, <2>1, QuietSteps DEF CtlInv, Modes
    <3>2. QueueInv'
      BY <3>1, OtherQueue DEF Ordered, Quiet
    <3>3. tbs
      BY <3>1 DEF Quiet
    <3> QED BY <1>a, <3>1, <3>2, <3>3 DEF Ordered
  <2>2. CASE ~Off
    <3>1. TxInv /\ Next
      BY <1>1, <2>2 DEF CtlInv, Modes, TxStep
    <3> QED BY <3>1, NextNoLostKick, NextQueue, NextOnBus DEF Ordered
  <2> QED BY <2>1, <2>2
<1>2. CASE Call \/ Continue
  <2>1. Quiet /\ Quiet' /\ UNCHANGED <<txVars, tbs, wire>>
    BY <1>2, ControlSteps
  <2>2. QueueInv'
    <3>1. PICK k \in 0 .. Size : Distance(k) /\ Stored(k)
      BY DEF Ordered, QueueInv
    <3>2. Distance(k)' /\ Stored(k)'
      BY <2>1, <3>1 DEF Distance, Stored, txVars, qVars
    <3> QED BY <3>2 DEF QueueInv
  <2>3. tbs
    BY <2>1 DEF Quiet
  <2> QED BY <1>a, <2>1, <2>2, <2>3 DEF Ordered, txVars
<1>3. CASE UNCHANGED allVars
  <2>1. UNCHANGED vars
    BY <1>3 DEF allVars
  <2>2. KickComes' /\ OnBus'
    BY <2>1 DEF Ordered, KickComes, QEmpty, OnBus, Handed, Noting, vars, qVars, chipVars
  <2>3. TypeOK
    BY DEF CtlInv, Modes, Quiet, TxInv
  <2>4. QueueInv'
    BY <2>1, <2>3, OtherQueue DEF Ordered
  <2> QED BY <2>1, <2>2, <2>4 DEF Ordered, vars, chipVars
<1> QED BY <1>1, <1>2, <1>3 DEF CtlNext

(* Nor does control disturb a transmission: the messages of a channel that *)
(* is stopped, reset, configured and started, only at rest, leave it in    *)
(* the order they were written, although CAN_SetMask may overwrite the     *)
(* transmit buffer.                                                        *)
THEOREM ControlKeepsOrder ==
  ASSUME OneWriter, Care
  PROVE  CtlSpec => WireInOrder
<1>1. CtlInit => Ordered
  BY InitQueue, InitOnBus DEF CtlInit, Ordered, Init, KickComes, QEmpty
<1>2. (~raced => CtlInv) /\ (~raced => Ordered) /\ [CtlNext]_allVars =>
        /\ ~raced' => Ordered'
        /\ [(~raced' /\ ~tbs /\ tbs') => wire' = Incr(wire)]_vars
  BY OrderedNext, CtlRaceLasts
<1> QED BY <1>1, <1>2, CtlInvariance, PTL DEF CtlSpec, WireInOrder
=============================================================================
