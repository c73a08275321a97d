--------------------------- MODULE RxPath_proofs ---------------------------
(* Proofs about RxPath, for every size of the queue and of the receive     *)
(* FIFO, every width of a counter and any number of bus errors.            *)
EXTENDS RxPath, MsgRing_proofs

(* What is assumed of the constants. *)
LEMMA RxConstants ==
  /\ Size \in Nat \ {0} /\ Wrap \in Nat \ {0} /\ ChipSize \in Nat \ {0}
  /\ Frames \in Nat \ {0} /\ NoFrame \notin Frame
  /\ 0 \in Counter /\ 0 \in Frame /\ Frames - 1 \in Frame
BY RingAssumption, RxAssumption DEF Counter, Frame, NoFrame

(* Frame numbers wrap to frame numbers. *)
LEMMA NextFrameIsFrame == \A i \in Int : i % Frames \in Frame
BY RxConstants DEF Frame

(* The number of the next frame. *)
LEMMA FrameSuccessor ==
  ASSUME NEW i \in Frame
  PROVE  i % Frames = i /\ (i + 1) % Frames = IF i + 1 = Frames THEN 0 ELSE i + 1
<1>1. i \in Int /\ 0 <= i /\ i < Frames /\ Frames \in Nat \ {0}
  BY RxConstants DEF Frame
<1>2. \A a \in 0 .. Frames - 1 : a % Frames = a
  BY <1>1, Z3
<1>3. Frames % Frames = 0
  BY <1>1, Z3
<1> QED BY <1>1, <1>2, <1>3

-----------------------------------------------------------------------------
(* Chains of frames: what keeps one a chain.                               *)

(* A beginning of a chain. *)
LEMMA ChainPrefix ==
  ASSUME NEW f, NEW g, NEW n \in Nat, NEW m \in 0 .. n,
         Chained(f, n), \A i \in 0 .. m : g[i] = f[i]
  PROVE  Chained(g, m)
BY DEF Chained

(* One more frame at its end. *)
LEMMA ChainAppend ==
  ASSUME NEW f, NEW g, NEW n \in Nat,
         Chained(f, n), \A i \in 0 .. n : g[i] = f[i],
         f[n] # NoFrame, g[n + 1] = (f[n] + 1) % Frames
  PROVE  Chained(g, n + 1)
<1> SUFFICES ASSUME NEW i \in 0 .. n + 1, g[i] # NoFrame,
                    NEW j \in i + 1 .. n + 1, g[j] # NoFrame,
                    \A k \in i + 1 .. j - 1 : g[k] = NoFrame
             PROVE  g[j] = (g[i] + 1) % Frames
  BY DEF Chained
<1>1. CASE j \in 0 .. n
  BY <1>1 DEF Chained
<1>2. CASE j = n + 1
  BY <1>2
<1> QED BY <1>1, <1>2

(* A message that is no frame somewhere in it. *)
LEMMA ChainInsert ==
  ASSUME NEW f, NEW g, NEW n \in Nat, NEW p \in 1 .. n, Chained(f, n),
         \A i \in 0 .. p - 1 : g[i] = f[i], g[p] = NoFrame,
         \A i \in p .. n : g[i + 1] = f[i]
  PROVE  Chained(g, n + 1)
<1> SUFFICES ASSUME NEW i \in 0 .. n + 1, g[i] # NoFrame,
                    NEW j \in i + 1 .. n + 1, g[j] # NoFrame,
                    \A k \in i + 1 .. j - 1 : g[k] = NoFrame
             PROVE  g[j] = (g[i] + 1) % Frames
  BY DEF Chained
<1> DEFINE a(k) == IF k < p THEN k ELSE k - 1
<1>1. i # p /\ j # p
  OBVIOUS
<1>2. /\ a(i) \in 0 .. n /\ a(j) \in a(i) + 1 .. n
      /\ g[i] = f[a(i)] /\ g[j] = f[a(j)]
  <2>1. \A k \in p + 1 .. n + 1 : g[k] = f[k - 1]
    <3> TAKE k \in p + 1 .. n + 1
    <3>1. k - 1 \in p .. n /\ (k - 1) + 1 = k
      OBVIOUS
    <3>2. g[(k - 1) + 1] = f[k - 1]
      BY <3>1
    <3> QED BY <3>1, <3>2
  <2> QED BY <1>1, <2>1
<1>3. \A k \in a(i) + 1 .. a(j) - 1 : f[k] = NoFrame
  <2> TAKE k \in a(i) + 1 .. a(j) - 1
  <2>1. CASE k < p
    BY <1>1, <2>1
  <2>2. CASE k >= p
    <3>1. k \in p .. n /\ k + 1 \in i + 1 .. j - 1
      BY <1>1, <2>2
    <3> QED BY <3>1
  <2> QED BY <2>1, <2>2
<1> QED BY <1>2, <1>3 DEF Chained

(* Its end: the first message is gone. *)
LEMMA ChainTail ==
  ASSUME NEW f, NEW g, NEW n \in Nat,
         Chained(f, n + 1), \A i \in 0 .. n : g[i] = f[i + 1]
  PROVE  Chained(g, n)
<1> SUFFICES ASSUME NEW i \in 0 .. n, g[i] # NoFrame,
                    NEW j \in i + 1 .. n, g[j] # NoFrame,
                    \A k \in i + 1 .. j - 1 : g[k] = NoFrame
             PROVE  g[j] = (g[i] + 1) % Frames
  BY DEF Chained
<1>1. i + 1 \in 0 .. n + 1 /\ j + 1 \in (i + 1) + 1 .. n + 1
  OBVIOUS
<1>2. \A k \in (i + 1) + 1 .. (j + 1) - 1 : f[k] = NoFrame
  <2> TAKE k \in (i + 1) + 1 .. (j + 1) - 1
  <2>1. k - 1 \in i + 1 .. j - 1 /\ k - 1 \in 0 .. n /\ (k - 1) + 1 = k
    OBVIOUS
  <2>2. g[k - 1] = NoFrame /\ g[k - 1] = f[(k - 1) + 1]
    BY <2>1
  <2> QED BY <2>1, <2>2
<1> QED BY <1>1, <1>2 DEF Chained

(* The second message, which is no frame, is gone. *)
LEMMA ChainDropGap ==
  ASSUME NEW f, NEW g, NEW n \in Nat, Chained(f, n + 1), f[1] = NoFrame,
         g[0] = f[0], \A i \in 1 .. n : g[i] = f[i + 1]
  PROVE  Chained(g, n)
<1> SUFFICES ASSUME NEW i \in 0 .. n, g[i] # NoFrame,
                    NEW j \in i + 1 .. n, g[j] # NoFrame,
                    \A k \in i + 1 .. j - 1 : g[k] = NoFrame
             PROVE  g[j] = (g[i] + 1) % Frames
  BY DEF Chained
<1> DEFINE a == IF i = 0 THEN 0 ELSE i + 1
<1>1. /\ a \in 0 .. n + 1 /\ j + 1 \in a + 1 .. n + 1
      /\ g[i] = f[a] /\ g[j] = f[j + 1]
  OBVIOUS
<1>2. \A k \in a + 1 .. (j + 1) - 1 : f[k] = NoFrame
  <2> TAKE k \in a + 1 .. (j + 1) - 1
  <2>1. CASE k = 1
    BY <2>1
  <2>2. CASE k > 1
    <3>1. k - 1 \in i + 1 .. j - 1 /\ k - 1 \in 1 .. n /\ (k - 1) + 1 = k
      BY <2>2
    <3>2. g[k - 1] = NoFrame /\ g[k - 1] = f[(k - 1) + 1]
      BY <3>1
    <3> QED BY <3>1, <3>2
  <2> QED BY <2>1, <2>2
<1> QED BY <1>1, <1>2 DEF Chained

-----------------------------------------------------------------------------
(* The types hold in every reachable state (TypeOK). *)
LEMMA InitTypeOK == Init => TypeOK
<1> SUFFICES ASSUME Init PROVE TypeOK
  OBVIOUS
<1>1. data \in [Slot -> Message]
  BY DEF Init, Message
<1>2. fifo \in Seq(Frame) /\ Len(fifo) <= ChipSize
  BY RxConstants DEF Init
<1>3. faults \in 0 .. MaxFaults /\ produced \in Counter /\ consumed \in Counter
  BY RxConstants, RxAssumption DEF Init
<1>4. next \in Frame /\ last \in Frame
  BY RxConstants DEF Init
<1> QED BY <1>1, <1>2, <1>3, <1>4 DEF Init, TypeOK

(* The steps of the handler keep the types, ... *)
LEMMA InterruptTypeOK ==
  ASSUME TypeOK, Interrupt
  PROVE  TypeOK'
<1> USE RxConstants DEF TypeOK, qVars, irqVars, userVars, chipVars, history
<1>1. CASE IrqRead BY <1>1 DEF IrqRead, Pending, Flag, RI, EI, DOI
<1>2. CASE IrqLeave BY <1>2 DEF IrqLeave
<1>3. ASSUME NEW s \in {"rx", "err", "ovr"}, Branch(s) PROVE TypeOK'
  <2>1. After(s) \in {"err", "ovr", "loop"} /\ Found(s) \subseteq Flag
    BY DEF After, Found, Flag
  <2>2. CASE Skip(s) BY <2>1, <2>2 DEF Skip
  <2>3. CASE Refuse(s) BY <2>1, <2>3 DEF Refuse
  <2>4. CASE Accept(s) BY <2>1, <2>4 DEF Accept
  <2>5. CASE EndBranch(s) BY <2>1, <2>5 DEF EndBranch
  <2> QED BY <1>3, <2>2, <2>3, <2>4, <2>5 DEF Branch
<1>4. CASE UndoReset BY <1>4 DEF UndoReset
<1>5. CASE StoreFrame
  <2>1. fifo # <<>> => Head(fifo) \in Frame /\ Tail(fifo) \in Seq(Frame) /\ Len(Tail(fifo)) = Len(fifo) - 1
    OBVIOUS
  <2>2. data' \in [Slot -> Message]
    BY <1>5, <2>1 DEF StoreFrame, Message
  <2>3. fifo' \in Seq(Frame) /\ Len(fifo') <= ChipSize
    BY <1>5, <2>1 DEF StoreFrame
  <2> QED BY <1>5, <2>2, <2>3 DEF StoreFrame
<1>6. CASE StoreError BY <1>6 DEF StoreError, Message
<1>7. CASE Publish BY <1>7, RingTypes DEF Publish
<1>8. CASE Stored BY <1>8 DEF Stored, WakeUp
<1> QED BY <1>1, <1>2, <1>3, <1>4, <1>5, <1>6, <1>7, <1>8 DEF Interrupt

(* ... those of reader, poller and controller do, ... *)
LEMMA OtherTypeOK ==
  ASSUME TypeOK, Read \/ Poller \/ Chip
  PROVE  TypeOK'
<1> USE RxConstants DEF TypeOK, qVars, irqVars, userVars, chipVars, history
<1>1. CASE ReadBegin BY <1>1 DEF ReadBegin
<1>2. CASE ReadCopy
  <2>1. data[SlotOf(consumed)].frame \in Frame \cup {NoFrame}
    BY RingTypes DEF Message
  <2> QED BY <1>2, <2>1 DEF ReadCopy
<1>3. CASE ReadAdvance BY <1>3, RingTypes DEF ReadAdvance
<1>4. CASE PollRegister
  <2>1. woken' \in BOOLEAN
    BY <1>4, Zenon DEF PollRegister
  <2> QED BY <1>4, <2>1 DEF PollRegister
<1>5. CASE PollCheck
  <2>1. woken' \in BOOLEAN /\ poll' \in {"off", "registered", "asleep"}
    BY <1>5, Zenon DEF PollCheck
  <2> QED BY <1>5, <2>1 DEF PollCheck
<1>6. CASE FrameArrives
  <2>1. next + 1 \in Int
    BY DEF Frame
  <2>2. next' \in Frame
    BY <1>6, <2>1, NextFrameIsFrame DEF FrameArrives
  <2> QED BY <1>6, <2>2 DEF FrameArrives
<1>7. CASE FrameOverruns BY <1>7, RxAssumption DEF FrameOverruns, RI, EI, DOI
<1>8. CASE ErrorWarn BY <1>8, RxAssumption DEF ErrorWarn, ErrorStep, RI, EI, DOI
<1>9. CASE ErrorClear BY <1>9 DEF ErrorClear, ErrorStep, RI, EI, DOI
<1>10. CASE BusOff
  <2>1. next - Len(fifo) \in Int
    BY DEF Frame
  <2>2. next' \in Frame
    BY <1>10, <2>1, NextFrameIsFrame DEF BusOff
  <2>3. fifo' \in Seq(Frame) /\ Len(fifo') <= ChipSize
    BY <1>10 DEF BusOff
  <2>4. latched' \subseteq {EI, DOI} /\ bus' \in {"active", "warn", "reset", "off"}
    BY <1>10 DEF BusOff, ErrorStep
  <2>5. dos' \in BOOLEAN /\ UNCHANGED <<qVars, irqVars, userVars, faults, last, unreported>>
    BY <1>10 DEF BusOff, ErrorStep
  <2> QED BY <2>2, <2>3, <2>4, <2>5
<1>11. CASE Recover BY <1>11 DEF Recover, ErrorStep, RI, EI, DOI
<1> QED
  BY <1>1, <1>2, <1>3, <1>4, <1>5, <1>6, <1>7, <1>8, <1>9, <1>10, <1>11
     DEF Read, Poller, Chip

(* ... and so does every step. *)
LEMMA NextTypeOK ==
  ASSUME TypeOK, [Next]_vars
  PROVE  TypeOK'
<1>1. CASE UNCHANGED vars
  BY <1>1 DEF vars, qVars, irqVars, userVars, chipVars, history, TypeOK
<1> QED BY <1>1, InterruptTypeOK, OtherTypeOK DEF Next

(* Every variable keeps its type, for every instance of the module         *)
(* (TypeOK).                                                               *)
THEOREM TypeCorrect == Spec => []TypeOK
BY InitTypeOK, NextTypeOK, PTL DEF Spec

-----------------------------------------------------------------------------
(* What the interrupt thread has to do, and what it found before it.       *)
(*                                                                         *)
(* Outside a branch there is nothing left to do in one; what errmsg has    *)
(* stored is no frame; a receive interrupt, once read, has a frame behind  *)
(* it until the branch has read one, unless the controller left the bus.   *)
Progress ==
  /\ stage \in {"off", "loop"} => step = "begin"
  /\ (stage # "rx" /\ step = "publish") => data[SlotOf(produced)].frame = NoFrame
  /\ (stage = "rx" /\ step = "store") => RI \in irqsrc
  /\ (stage = "rx" /\ step \in {"begin", "store"} /\ RI \in irqsrc)
       => fifo # <<>> \/ bus = "reset"

(* The interrupt thread is k messages ahead of the reader, has room for    *)
(* the one it stores, and the reader holds the one it copies.  What either *)
(* of them tested stays true: the other one moves in its favour.           *)
Distance(k) ==
  /\ Ahead(produced, consumed, k)
  /\ step \in {"store", "publish"} => k < Size
  /\ rpc \in {"copy", "advance"} => k > 0

(* The frames in the controller are the last it accepted. *)
FifoRuns ==
  \A j \in 1 .. Len(fifo) : fifo[j] = (next - Len(fifo) + j - 1) % Frames

RxInv ==
  /\ TypeOK
  /\ Progress
  /\ \E k \in 0 .. Size : Distance(k)
  /\ FifoRuns
  /\ NoFrameLost
  /\ NoLostWakeup

(* The handler knows what it has found. *)
LEMMA NextProgress ==
  ASSUME TypeOK, Progress, [Next]_vars
  PROVE  Progress'
<1> USE DEF TypeOK, Progress, qVars, irqVars, userVars, chipVars, history
<1>1. CASE IrqRead BY <1>1 DEF IrqRead, Pending, RI, EI, DOI
<1>2. CASE IrqLeave BY <1>2 DEF IrqLeave
<1>3. ASSUME NEW s \in {"rx", "err", "ovr"}, Branch(s) PROVE Progress'
  <2>1. CASE Skip(s) BY <2>1 DEF Skip, After, Cause
  <2>2. CASE Refuse(s) BY <2>2 DEF Refuse, Ready
  <2>3. CASE Accept(s) BY <2>3 DEF Accept, Ready, Cause
  <2>4. CASE EndBranch(s) BY <2>4 DEF EndBranch, After
  <2> QED BY <1>3, <2>1, <2>2, <2>3, <2>4 DEF Branch
<1>4. CASE UndoReset BY <1>4 DEF UndoReset
<1>5. CASE StoreFrame BY <1>5 DEF StoreFrame
<1>6. CASE StoreError BY <1>6, RingTypes DEF StoreError
<1>7. CASE Publish BY <1>7 DEF Publish
<1>8. CASE Stored BY <1>8 DEF Stored
<1>9. CASE Read BY <1>9 DEF Read, ReadBegin, ReadCopy, ReadAdvance
<1>10. CASE Poller BY <1>10 DEF Poller, PollRegister, PollCheck
<1>11. CASE FrameArrives
  <2>1. fifo' # <<>>
    BY <1>11 DEF FrameArrives
  <2> QED BY <1>11, <2>1 DEF FrameArrives
<1>12. CASE FrameOverruns BY <1>12 DEF FrameOverruns
<1>13. CASE ErrorWarn BY <1>13 DEF ErrorWarn, ErrorStep
<1>14. CASE ErrorClear BY <1>14 DEF ErrorClear, ErrorStep
<1>15. CASE BusOff BY <1>15 DEF BusOff, ErrorStep
<1>16. CASE Recover BY <1>16 DEF Recover, ErrorStep
<1>17. CASE UNCHANGED vars BY <1>17 DEF vars
<1> QED
  BY <1>1, <1>2, <1>3, <1>4, <1>5, <1>6, <1>7, <1>8, <1>9, <1>10, <1>11, <1>12,
     <1>13, <1>14, <1>15, <1>16, <1>17
     DEF Next, Interrupt, Chip

(* Whether the branch has a frame to read is settled when canirq is read   *)
(* and cannot change for the worse: the invariant behind FrameToRead.      *)
THEOREM FrameIsThere == Spec => []FrameToRead
<1>1. Init => Progress
  BY DEF Init, Progress
<1>2. TypeOK /\ Progress /\ [Next]_vars => Progress'
  BY NextProgress
<1>3. Progress => FrameToRead
  BY DEF Progress, FrameToRead
<1> QED BY <1>1, <1>2, <1>3, TypeCorrect, PTL DEF Spec

-----------------------------------------------------------------------------
(* How far the interrupt thread is ahead of the reader.                    *)

(* QLen is the distance between the counters. *)
LEMMA DistanceIsLen ==
  ASSUME TypeOK, NEW k \in 0 .. Size, Distance(k)
  PROVE  QLen(produced, consumed) = k
BY LenIsDistance DEF TypeOK, Distance

(* The queue is empty at first. *)
LEMMA InitDistance == Init => Distance(0)
BY AheadOfItself, RxConstants DEF Init, Distance

(* Steps that leave the counters alone, and find room if they need it. *)
LEMMA DistanceStays ==
  ASSUME NEW k \in 0 .. Size, Distance(k), UNCHANGED <<produced, consumed>>,
         step' \in {"store", "publish"} => k < Size,
         rpc' \in {"copy", "advance"} => k > 0
  PROVE  Distance(k)'
BY DEF Distance

(* The length of the queue after a step: how it changes, if it does. *)
LEMMA NextDistance ==
  ASSUME TypeOK, Progress, NEW k \in 0 .. Size, Distance(k), [Next]_vars
  PROVE  IF Publish THEN k + 1 \in 0 .. Size /\ Distance(k + 1)'
         ELSE IF ReadAdvance THEN k - 1 \in 0 .. Size /\ Distance(k - 1)'
         ELSE Distance(k)'
<1>1. QLen(produced, consumed) = k /\ k \in Int
  BY DistanceIsLen
<1> USE RxConstants DEF TypeOK, Distance, qVars, irqVars, userVars, chipVars, history
<1>2. ASSUME Publish PROVE k + 1 \in 0 .. Size /\ Distance(k + 1)'
  <2>1. k \in 0 .. Size - 1 /\ k + 1 \in 0 .. Size
    BY <1>2 DEF Publish
  <2>2. Ahead(produced', consumed, k + 1)
    BY <1>2, <2>1, AheadAfterProduce DEF Publish
  <2> QED BY <1>2, <2>1, <2>2 DEF Publish
<1>3. ASSUME ReadAdvance PROVE k - 1 \in 0 .. Size /\ Distance(k - 1)' /\ ~Publish
  <2>1. k \in 1 .. Size /\ k - 1 \in 0 .. Size
    BY <1>3 DEF ReadAdvance
  <2>2. Ahead(produced, consumed', k - 1)
    BY <1>3, <2>1, AheadAfterConsume DEF ReadAdvance
  <2>3. ~Publish
    BY <1>3 DEF ReadAdvance, Publish, Progress
  <2> QED BY <1>3, <2>1, <2>2, <2>3 DEF ReadAdvance
<1>4. ASSUME ~Publish, ~ReadAdvance PROVE Distance(k)'
  <2>1. CASE IrqRead \/ IrqLeave BY <2>1 DEF IrqRead, IrqLeave
  <2>2. ASSUME NEW s \in {"rx", "err", "ovr"}, Branch(s) PROVE Distance(k)'
    <3>1. CASE Skip(s) BY <3>1 DEF Skip
    <3>2. CASE Refuse(s) BY <3>2 DEF Refuse
    <3>3. CASE Accept(s)
      <4>1. k < Size
        BY <1>1, <3>3 DEF Accept, QFull
      <4> QED BY <3>3, <4>1 DEF Accept
    <3>4. CASE EndBranch(s) BY <3>4 DEF EndBranch
    <3> QED BY <2>2, <3>1, <3>2, <3>3, <3>4 DEF Branch
  <2>3. CASE UndoReset \/ StoreFrame \/ StoreError \/ Stored
    BY <2>3 DEF UndoReset, StoreFrame, StoreError, Stored
  <2>4. CASE ReadBegin
    <3>1. k > 0
      BY <2>4 DEF ReadBegin, QEmpty, Ahead, Counter
    <3> QED BY <2>4, <3>1 DEF ReadBegin
  <2>5. CASE ReadCopy BY <2>5 DEF ReadCopy
  <2>6. CASE Poller BY <2>6 DEF Poller, PollRegister, PollCheck
  <2>7. CASE Chip
    BY <2>7 DEF Chip, FrameArrives, FrameOverruns, ErrorWarn, ErrorClear, BusOff,
       Recover, ErrorStep
  <2>8. CASE UNCHANGED vars BY <2>8 DEF vars
  <2> QED
    BY <1>4, <2>1, <2>2, <2>3, <2>4, <2>5, <2>6, <2>7, <2>8
       DEF Next, Interrupt, Read
<1> QED BY <1>2, <1>3, <1>4

(* A poller that is asleep: only the interrupt thread adds messages, and   *)
(* does not get past the wake-up.                                          *)
LEMMA NextNoLostWakeup ==
  ASSUME TypeOK, Progress, \E k \in 0 .. Size : Distance(k), NoLostWakeup, [Next]_vars
  PROVE  NoLostWakeup'
<1> PICK k \in 0 .. Size : Distance(k)
  OBVIOUS
<1>1. TypeOK' /\ QLen(produced, consumed) = k
  BY NextTypeOK, DistanceIsLen
<1>2. \A m \in 0 .. Size : Distance(m)' => QLen(produced, consumed)' = m
  <2> TAKE m \in 0 .. Size
  <2>1. ASSUME Distance(m)' PROVE QLen(produced', consumed') = m
    BY <1>1, <2>1, LenIsDistance DEF TypeOK, Distance
  <2> QED BY <2>1
<1> USE DEF NoLostWakeup, qVars, irqVars, userVars, chipVars, history
<1>3. CASE Publish BY <1>3 DEF Publish
<1>4. CASE ReadAdvance
  <2>1. ~Publish
    BY <1>4 DEF ReadAdvance, Publish, Progress
  <2>2. k - 1 \in 0 .. Size /\ QLen(produced', consumed') = k - 1
    BY <1>2, <1>4, <2>1, NextDistance
  <2> QED BY <1>1, <1>4, <2>2 DEF ReadAdvance
<1>5. CASE Poller BY <1>1, <1>5 DEF Poller, PollRegister, PollCheck
<1>6. CASE Stored BY <1>6 DEF Stored, WakeUp, TypeOK
<1>7. CASE ReadBegin \/ ReadCopy BY <1>7 DEF ReadBegin, ReadCopy
<1>8. CASE Chip
  BY <1>8 DEF Chip, FrameArrives, FrameOverruns, ErrorWarn, ErrorClear, BusOff,
     Recover, ErrorStep
<1>9. CASE UNCHANGED vars BY <1>9 DEF vars
<1>10. CASE IrqRead \/ IrqLeave \/ UndoReset \/ StoreFrame \/ StoreError
  BY <1>10 DEF IrqRead, IrqLeave, UndoReset, StoreFrame, StoreError, Progress
<1>11. ASSUME NEW s \in {"rx", "err", "ovr"}, Branch(s) PROVE NoLostWakeup'
  BY <1>11 DEF Branch, Skip, Refuse, Accept, EndBranch, Ready
<1> QED
  BY <1>3, <1>4, <1>5, <1>6, <1>7, <1>8, <1>9, <1>10, <1>11 DEF Next, Interrupt, Read

(* The numbers of the frames do not change when one more arrives. *)
LEMMA NumbersGoOn ==
  ASSUME NEW n \in Int, NEW m \in {n + 1, n + 1 - Frames}, NEW l \in Int, NEW j \in Int
  PROVE  (m - (l + 1) + j - 1) % Frames = (n - l + j - 1) % Frames
<1>1. Frames \in Nat \ {0} /\ 0 - 1 \in Int
  BY RxConstants
<1>2. CASE m = n + 1
  <2>1. m - (l + 1) + j - 1 = n - l + j - 1
    BY <1>2
  <2> QED BY <2>1
<1>3. CASE m = n + 1 - Frames
  <2>1. PICK a \in Int, b \in Int : a = m - (l + 1) + j - 1 /\ b = n - l + j - 1
    OBVIOUS
  <2>2. a = b + Frames * (0 - 1)
    BY <1>1, <1>3, <2>1
  <2>3. a % Frames = b % Frames
    <3> DEFINE F == Frames
               q == 0 - 1
    <3>1. F \in Nat \ {0} /\ q \in Int /\ a = b + F * q
      BY <1>1, <2>2
    <3> HIDE DEF F, q
    <3>2. a % F = b % F
      BY <3>1, ModShift
    <3> QED BY <3>2 DEF F
  <2> QED BY <2>1, <2>3
<1> QED BY <1>2, <1>3

(* The frames in the controller keep being the last it accepted. *)
LEMMA NextFifoRuns ==
  ASSUME TypeOK, FifoRuns, [Next]_vars
  PROVE  FifoRuns'
<1> USE DEF TypeOK, FifoRuns
<1>1. CASE UNCHANGED <<fifo, next>>
  BY <1>1
<1>2. CASE StoreFrame
  <2>1. CASE fifo = <<>>
    BY <1>2, <2>1 DEF StoreFrame, history
  <2>2. CASE fifo # <<>>
    <3>1. fifo' = Tail(fifo) /\ next' = next /\ Len(fifo') = Len(fifo) - 1
      BY <1>2, <2>2 DEF StoreFrame, history
    <3>2. Len(fifo) \in Nat /\ next \in Int
      BY RxConstants DEF Frame
    <3>3. ASSUME NEW j \in 1 .. Len(fifo')
          PROVE  fifo'[j] = (next' - Len(fifo') + j - 1) % Frames
      <4>1. j + 1 \in 1 .. Len(fifo) /\ fifo'[j] = fifo[j + 1]
        BY <2>2, <3>1, <3>2
      <4>2. fifo[j + 1] = (next - Len(fifo) + (j + 1) - 1) % Frames
        BY <4>1
      <4>3. next - Len(fifo) + (j + 1) - 1 = next - (Len(fifo) - 1) + j - 1
        BY <3>2
      <4> QED BY <3>1, <4>1, <4>2, <4>3
    <3> QED BY <3>3
  <2> QED BY <2>1, <2>2
<1>3. CASE FrameArrives
  <2>1. /\ fifo' = Append(fifo, next) /\ next' = (next + 1) % Frames
        /\ Len(fifo') = Len(fifo) + 1 /\ Len(fifo) \in Nat /\ next \in Nat
    BY <1>3 DEF FrameArrives, Frame
  <2>2. ASSUME NEW j \in 1 .. Len(fifo')
        PROVE  (next' - Len(fifo') + j - 1) % Frames = (next - Len(fifo) + j - 1) % Frames
    <3>1. next' = next + 1 \/ next' = next + 1 - Frames
      BY <2>1, RxConstants, FrameSuccessor
    <3>2. /\ next \in Int /\ next' \in {next + 1, next + 1 - Frames}
          /\ Len(fifo) \in Int /\ Len(fifo') = Len(fifo) + 1 /\ j \in Int
      BY <2>1, <3>1
    <3>3. (next' - (Len(fifo) + 1) + j - 1) % Frames = (next - Len(fifo) + j - 1) % Frames
      <4> HIDE DEF TypeOK, FifoRuns
      <4> QED BY <3>2, NumbersGoOn
    <3> QED BY <3>2, <3>3
  <2>3. ASSUME NEW j \in 1 .. Len(fifo)
        PROVE  fifo'[j] = (next - Len(fifo) + j - 1) % Frames
    BY <2>1, <2>3
  <2>4. fifo'[Len(fifo')] = (next - Len(fifo) + Len(fifo') - 1) % Frames
    <3>1. next - Len(fifo) + Len(fifo') - 1 = next /\ fifo'[Len(fifo')] = next
      BY <2>1
    <3>2. next % Frames = next
      BY FrameSuccessor
    <3> QED BY <3>1, <3>2
  <2>5. \A j \in 1 .. Len(fifo') : j \in 1 .. Len(fifo) \/ j = Len(fifo')
    BY <2>1
  <2> QED BY <2>2, <2>3, <2>4, <2>5
<1>4. CASE BusOff
  BY <1>4 DEF BusOff
<1>5. StoreFrame \/ FrameArrives \/ BusOff \/ UNCHANGED <<fifo, next>>
  BY DEF Next, Interrupt, IrqRead, IrqLeave, Branch, Skip, Refuse, Accept, EndBranch,
     UndoReset, StoreError, Publish, Stored, Read, ReadBegin, ReadCopy, ReadAdvance,
     Poller, PollRegister, PollCheck, Chip, FrameOverruns, ErrorWarn, ErrorClear,
     Recover, ErrorStep, vars, chipVars, history
<1> QED BY <1>1, <1>2, <1>3, <1>4, <1>5

-----------------------------------------------------------------------------
(* The line of frames from the reader to the controller (NoFrameLost).     *)

(* Of the slots from the reader's on, the k-th is the interrupt thread's,  *)
(* and none before it.                                                     *)
LEMMA SlotsOfQueue ==
  ASSUME TypeOK, NEW k \in 0 .. Size, Distance(k)
  PROVE  /\ SlotOf(consumed + k) = SlotOf(produced)
         /\ \A x \in Nat : SlotOf(consumed + x) \in Slot
         /\ k < Size => \A x \in 0 .. k - 1 : SlotOf(consumed + x) # SlotOf(produced)
<1> USE RxConstants DEF TypeOK, Distance
<1>1. SlotOf(produced + 0) = SlotOf(consumed + k + 0)
  BY SlotShift
<1>2. SlotOf(consumed + k) = SlotOf(produced)
  BY <1>1 DEF Counter
<1>3. \A x \in Nat : SlotOf(consumed + x) \in Slot
  BY SlotInRange
<1>4. ASSUME k < Size, NEW x \in 0 .. k - 1
      PROVE  SlotOf(consumed + x) # SlotOf(produced)
  <2>1. x \in 0 .. Size - 1 /\ k \in 0 .. Size - 1 /\ x < k
    BY <1>4
  <2> QED BY <1>2, <2>1, SlotsDistinct
<1> QED BY <1>2, <1>3, <1>4

(* The numbers the line is made of. *)
LEMMA LineNumbers ==
  ASSUME TypeOK, NEW k \in 0 .. Size, Distance(k)
  PROVE  /\ k \in Nat /\ Copied \in {0, 1} /\ Unpublished \in {0, 1}
         /\ Copied = IF rpc = "advance" THEN 1 ELSE 0
         /\ Unpublished = IF stage = "rx" /\ step = "publish" THEN 1 ELSE 0
         /\ k - Copied + Unpublished = Waiting
         /\ Waiting \in Nat /\ Len(fifo) \in Nat
         /\ LineEnd = Waiting + Len(fifo) + 1 /\ LineEnd \in Nat
         /\ Line[LineEnd] = next
<1>1. k - Copied + Unpublished = Waiting /\ k \in Nat
  BY DistanceIsLen DEF Waiting
<1>2. Copied <= k /\ Copied \in {0, 1} /\ Unpublished \in {0, 1}
  BY <1>1 DEF Copied, Unpublished, Distance
<1>3. Len(fifo) \in Nat
  BY DEF TypeOK
<1>4. LineEnd = Waiting + Len(fifo) + 1
  BY DEF LineEnd
<1>5. Waiting \in Nat /\ LineEnd \in Nat
  BY <1>1, <1>2, <1>3, <1>4
<1>6. Line[LineEnd] = next
  BY <1>3, <1>4, <1>5 DEF Line
<1> QED BY <1>1, <1>2, <1>3, <1>4, <1>5, <1>6 DEF Copied, Unpublished

(* How many frames the parts of the line have after a step. *)
LEMMA LineNumbersNext ==
  ASSUME TypeOK', NEW k \in 0 .. Size, Distance(k)'
  PROVE  /\ k \in Nat /\ Copied' \in {0, 1} /\ Unpublished' \in {0, 1}
         /\ Copied' = IF rpc' = "advance" THEN 1 ELSE 0
         /\ Unpublished' = IF stage' = "rx" /\ step' = "publish" THEN 1 ELSE 0
         /\ k - Copied' + Unpublished' = Waiting'
         /\ Waiting' \in Nat /\ Len(fifo') \in Nat
         /\ LineEnd' = Waiting' + Len(fifo') + 1 /\ LineEnd' \in Nat
<1>1. QLen(produced', consumed') = k /\ k \in Nat
  BY LenIsDistance DEF TypeOK, Distance
<1>2. k - Copied' + Unpublished' = Waiting'
  BY <1>1 DEF Waiting
<1>3. Copied' <= k /\ Copied' \in {0, 1} /\ Unpublished' \in {0, 1}
  BY <1>1 DEF Copied, Unpublished, Distance
<1>4. Len(fifo') \in Nat
  BY DEF TypeOK
<1>5. LineEnd' = Waiting' + Len(fifo') + 1
  BY DEF LineEnd
<1>6. Waiting' \in Nat /\ LineEnd' \in Nat
  BY <1>1, <1>2, <1>3, <1>4, <1>5
<1> QED BY <1>1, <1>2, <1>3, <1>4, <1>5, <1>6 DEF Copied, Unpublished

(* A step that moves no frame. *)
LEMMA LineStays ==
  ASSUME NoFrameLost, UNCHANGED <<data, produced, consumed, rpc, fifo, next, last>>,
         (stage = "rx" /\ step = "publish") <=> (stage' = "rx" /\ step' = "publish")
  PROVE  NoFrameLost'
<1>1. Waiting' = Waiting /\ Copied' = Copied
  BY DEF Waiting, Copied, Unpublished
<1>2. LineEnd' = LineEnd /\ Line' = Line
  BY <1>1 DEF LineEnd, Line
<1> QED BY <1>2 DEF NoFrameLost, Chained

(* A frame moves from the controller to rxq, and keeps its place.  When    *)
(* bus-off has emptied the controller, a message that is no frame appears. *)
LEMMA StoreFrameLine ==
  ASSUME TypeOK, NEW k \in 0 .. Size, Distance(k), Distance(k)', TypeOK', NoFrameLost, StoreFrame
  PROVE  NoFrameLost'
<1> USE RxConstants DEF StoreFrame, userVars, history
<1>1. k < Size /\ k \in Nat
  BY DEF Distance
<1>2. /\ Waiting = k - Copied /\ Waiting' = Waiting + 1 /\ Copied' = Copied
      /\ Waiting \in Nat /\ Copied \in {0, 1}
  BY LineNumbers, LineNumbersNext
<1>3. ASSUME NEW i \in 1 .. Waiting
      PROVE  data'[SlotOf(consumed + Copied + i - 1)] = data[SlotOf(consumed + Copied + i - 1)]
  <2>1. Copied + i - 1 \in 0 .. k - 1 /\ Copied + i - 1 \in Nat
    BY <1>1, <1>2
  <2>2. consumed + (Copied + i - 1) = consumed + Copied + i - 1
    BY <1>2 DEF TypeOK, Counter
  <2>3. /\ SlotOf(consumed + Copied + i - 1) # SlotOf(produced)
        /\ SlotOf(consumed + Copied + i - 1) \in Slot
    BY <1>1, <2>1, <2>2, SlotsOfQueue
  <2> QED BY <2>3 DEF TypeOK
<1>4. data'[SlotOf(consumed + Copied + (Waiting + 1) - 1)].frame
        = IF fifo = <<>> THEN NoFrame ELSE Head(fifo)
  <2>1. consumed + Copied + (Waiting + 1) - 1 = consumed + k
    BY <1>1, <1>2 DEF TypeOK, Counter
  <2>2. SlotOf(consumed + k) = SlotOf(produced) /\ SlotOf(produced) \in Slot
    BY SlotsOfQueue, RingTypes DEF TypeOK
  <2> QED BY <2>1, <2>2 DEF TypeOK
<1>5. CASE fifo # <<>>
  <2>1. /\ Len(fifo) \in Nat \ {0} /\ Len(fifo') = Len(fifo) - 1
        /\ \A j \in 1 .. Len(fifo) - 1 : fifo'[j] = fifo[j + 1]
        /\ Head(fifo) = fifo[1]
    BY <1>5 DEF TypeOK
  <2>2. LineEnd' = LineEnd /\ LineEnd \in Nat /\ LineEnd = Waiting + Len(fifo) + 1
    BY <1>2, <2>1, LineNumbers, LineNumbersNext
  <2>3. ASSUME NEW i \in 0 .. LineEnd PROVE Line'[i] = Line[i]
    <3>1. CASE i = 0
      BY <2>2, <3>1 DEF Line
    <3>2. CASE i \in 1 .. Waiting
      BY <1>2, <1>3, <2>2, <3>2 DEF Line
    <3>3. CASE i = Waiting + 1
      <4>1. Line'[i] = fifo[1]
        BY <1>2, <1>4, <1>5, <2>1, <2>2, <3>3 DEF Line
      <4>2. Line[i] = fifo[1]
        BY <1>2, <2>1, <2>2, <3>3 DEF Line
      <4> QED BY <4>1, <4>2
    <3>4. CASE i \in Waiting + 2 .. LineEnd - 1
      <4>1. i - Waiting - 1 \in 1 .. Len(fifo) - 1 /\ (i - Waiting - 1) + 1 = i - Waiting
        BY <1>2, <2>1, <2>2, <3>4
      <4>2. Line'[i] = fifo'[i - Waiting - 1]
        BY <1>2, <2>1, <2>2, <3>4 DEF Line
      <4>3. Line[i] = fifo[i - Waiting]
        BY <1>2, <2>1, <2>2, <3>4 DEF Line
      <4> QED BY <2>1, <4>1, <4>2, <4>3
    <3>5. CASE i = LineEnd
      BY <1>2, <2>1, <2>2, <3>5 DEF Line
    <3>6. i = 0 \/ i \in 1 .. Waiting \/ i = Waiting + 1
          \/ i \in Waiting + 2 .. LineEnd - 1 \/ i = LineEnd
      <4> HIDE DEF StoreFrame
      <4>1. Waiting \in Nat /\ Len(fifo) \in Nat \ {0} /\ LineEnd = Waiting + Len(fifo) + 1
        BY <1>2, <2>1, <2>2
      <4> QED BY <4>1
    <3> QED BY <3>1, <3>2, <3>3, <3>4, <3>5, <3>6, Zenon
  <2> QED BY <2>2, <2>3, ChainPrefix DEF NoFrameLost
<1>6. CASE fifo = <<>>
  <2>1. /\ Len(fifo) = 0 /\ Len(fifo') = 0
        /\ LineEnd = Waiting + 1 /\ LineEnd' = Waiting + 2 /\ LineEnd' = LineEnd + 1
        /\ LineEnd \in Nat
    BY <1>2, <1>6, LineNumbers, LineNumbersNext
  <2>2. \A i \in 0 .. Waiting : Line'[i] = Line[i]
    BY <1>2, <1>3, <2>1 DEF Line
  <2>3. Line'[Waiting + 1] = NoFrame
    BY <1>2, <1>4, <1>6, <2>1 DEF Line
  <2>4. Line'[Waiting + 2] = next /\ Line[Waiting + 1] = next
    BY <1>2, <2>1 DEF Line
  <2>5. \A i \in Waiting + 1 .. LineEnd : Line'[i + 1] = Line[i]
    BY <1>2, <2>1, <2>4
  <2>6. Waiting + 1 \in 1 .. LineEnd /\ (Waiting + 1) - 1 = Waiting
    BY <1>2, <2>1
  <2> QED BY <2>1, <2>2, <2>3, <2>5, <2>6, ChainInsert DEF NoFrameLost
<1> QED BY <1>5, <1>6

(* errmsg stores behind the end of the queue. *)
LEMMA StoreErrorLine ==
  ASSUME TypeOK, NEW k \in 0 .. Size, Distance(k), Distance(k)', TypeOK', NoFrameLost, StoreError
  PROVE  NoFrameLost'
<1> USE RxConstants DEF StoreError, userVars, chipVars, history
<1>1. k < Size /\ k \in Nat
  BY DEF Distance
<1>2. /\ Waiting = k - Copied /\ Waiting' = Waiting /\ Copied' = Copied
      /\ Waiting \in Nat /\ Copied \in {0, 1} /\ Len(fifo) \in Nat
      /\ LineEnd = Waiting + Len(fifo) + 1 /\ LineEnd' = LineEnd /\ LineEnd \in Nat
  BY LineNumbers, LineNumbersNext
<1>3. ASSUME NEW i \in 1 .. Waiting
      PROVE  data'[SlotOf(consumed + Copied + i - 1)] = data[SlotOf(consumed + Copied + i - 1)]
  <2>1. Copied + i - 1 \in 0 .. k - 1 /\ Copied + i - 1 \in Nat
    BY <1>1, <1>2
  <2>2. consumed + (Copied + i - 1) = consumed + Copied + i - 1
    BY <1>2 DEF TypeOK, Counter
  <2>3. /\ SlotOf(consumed + Copied + i - 1) # SlotOf(produced)
        /\ SlotOf(consumed + Copied + i - 1) \in Slot
    BY <1>1, <2>1, <2>2, SlotsOfQueue
  <2> QED BY <2>3 DEF TypeOK
<1>4. \A i \in 0 .. LineEnd : Line'[i] = Line[i]
  BY <1>2, <1>3 DEF Line
<1> QED BY <1>2, <1>4, ChainPrefix DEF NoFrameLost

(* The message becomes visible to the reader: a frame has its place in the *)
(* line already, an error message gets one behind the queue.               *)
LEMMA PublishLine ==
  ASSUME TypeOK, Progress, NEW k \in 0 .. Size, Distance(k), k + 1 \in 0 .. Size,
         Distance(k + 1)', TypeOK', NoFrameLost, Publish
  PROVE  NoFrameLost'
<1> USE RxConstants DEF Publish, userVars, chipVars
<1>1. k < Size /\ k \in Nat
  OBVIOUS
<1>2. /\ Copied' = Copied /\ Waiting \in Nat /\ Copied \in {0, 1} /\ Len(fifo) \in Nat
      /\ Waiting' = k + 1 - Copied
      /\ Waiting = k - Copied + (IF stage = "rx" THEN 1 ELSE 0)
      /\ LineEnd = Waiting + Len(fifo) + 1 /\ LineEnd' = Waiting' + Len(fifo) + 1
      /\ LineEnd \in Nat
  BY <1>1, LineNumbers, LineNumbersNext
<1>3. CASE stage = "rx"
  <2>1. Waiting' = Waiting /\ LineEnd' = LineEnd
    BY <1>1, <1>2, <1>3
  <2>2. \A i \in 0 .. LineEnd : Line'[i] = Line[i]
    BY <1>2, <2>1 DEF Line
  <2> QED BY <1>2, <2>1, <2>2, ChainPrefix DEF NoFrameLost
<1>4. CASE stage # "rx"
  <2>1. /\ Waiting' = Waiting + 1 /\ LineEnd' = LineEnd + 1
        /\ Waiting + 1 \in 1 .. LineEnd /\ (Waiting + 1) - 1 = Waiting
    BY <1>1, <1>2, <1>4
  <2>2. data[SlotOf(consumed + Copied + (Waiting + 1) - 1)].frame = NoFrame
    <3>1. consumed + Copied + (Waiting + 1) - 1 = consumed + k
      BY <1>1, <1>2, <1>4 DEF TypeOK, Counter
    <3> QED BY <1>4, <3>1, SlotsOfQueue DEF Progress
  <2>3. \A i \in 0 .. Waiting : Line'[i] = Line[i]
    BY <1>2, <2>1 DEF Line
  <2>4. Line'[Waiting + 1] = NoFrame
    BY <1>2, <2>1, <2>2 DEF Line
  <2>5. \A i \in Waiting + 1 .. LineEnd : Line'[i + 1] = Line[i]
    BY <1>2, <2>1 DEF Line
  <2>6. Chained(Line', LineEnd + 1)
    <3>1. \A i \in 0 .. (Waiting + 1) - 1 : Line'[i] = Line[i]
      BY <2>1, <2>3
    <3>2. Chained(Line, LineEnd)
      BY DEF NoFrameLost
    <3>3. \A i \in Waiting + 1 .. LineEnd : Line'[i + 1] = Line[i]
      BY <2>5
    <3>4. LineEnd \in Nat /\ Waiting + 1 \in 1 .. LineEnd /\ Line'[Waiting + 1] = NoFrame
      BY <1>2, <2>1, <2>4
    <3> HIDE DEF Publish
    <3> QED BY <3>1, <3>2, <3>3, <3>4, ChainInsert
  <2> QED BY <2>1, <2>6 DEF NoFrameLost
<1> QED BY <1>3, <1>4

(* The reader copies a message: a frame is the last one it got now, an     *)
(* error message is gone.                                                  *)
LEMMA ReadCopyLine ==
  ASSUME TypeOK, NEW k \in 0 .. Size, Distance(k), Distance(k)', TypeOK', NoFrameLost, ReadCopy
  PROVE  NoFrameLost'
<1> USE RxConstants DEF ReadCopy, qVars, irqVars, chipVars
<1>1. k \in Nat \ {0}
  BY DEF Distance
<1>2. /\ Copied = 0 /\ Copied' = 1 /\ Waiting \in Nat /\ Waiting # 0
      /\ Len(fifo) \in Nat /\ Waiting' \in Nat
      /\ LineEnd = Waiting + Len(fifo) + 1 /\ LineEnd' = Waiting' + Len(fifo) + 1
      /\ LineEnd' \in Nat
  BY <1>1, LineNumbers, LineNumbersNext
<1>3. PICK w \in Nat : Waiting' = w /\ Waiting = w + 1
  <2>1. Unpublished' = Unpublished
    BY DEF Unpublished
  <2>2. k - 0 + Unpublished = Waiting /\ k - 1 + Unpublished = Waiting'
    BY <1>2, <2>1, LineNumbers, LineNumbersNext
  <2>3. Unpublished \in Int
    BY LineNumbers
  <2>4. PICK w \in Nat : Waiting' = w
    BY <1>2
  <2>5. k - 0 + Unpublished = Waiting /\ k - 1 + Unpublished = w
    BY <2>2, <2>4
  <2>6. Waiting = w + 1
    BY <1>1, <1>2, <2>3, <2>5
  <2> QED BY <2>4, <2>6
<1>4. PICK e \in Nat : LineEnd' = e /\ e = w + Len(fifo) + 1 /\ LineEnd = e + 1
  BY <1>2, <1>3
<1>5. Line[1] = data[SlotOf(consumed)].frame
  <2>1. consumed + 0 + 1 - 1 = consumed
    BY DEF TypeOK, Counter
  <2> QED BY <1>2, <2>1 DEF Line
<1>6. \A i \in 1 .. e : Line'[i] = Line[i + 1]
  <2>1. \A i \in 1 .. w : consumed + 1 + i - 1 = consumed + 0 + (i + 1) - 1
    BY <1>2, <1>4 DEF TypeOK, Counter
  <2>2. ASSUME NEW i \in 1 .. w PROVE Line'[i] = Line[i + 1]
    <3>1. i \in 0 .. e /\ i # 0 /\ i <= w
      BY <1>2, <1>4
    <3>2. Line'[i] = data[SlotOf(consumed + 1 + i - 1)].frame
      BY <1>2, <1>4, <3>1 DEF Line
    <3>3. i + 1 \in 0 .. LineEnd /\ i + 1 # 0 /\ i + 1 <= Waiting
      BY <1>2, <1>3, <1>4
    <3>4. Line[i + 1] = data[SlotOf(consumed + 0 + (i + 1) - 1)].frame
      BY <1>2, <1>4, <3>3 DEF Line
    <3> QED BY <2>1, <3>2, <3>4
  <2>3. ASSUME NEW i \in w + 1 .. e - 1 PROVE Line'[i] = Line[i + 1]
    <3>1. i \in 0 .. e /\ i # 0 /\ ~(i <= w) /\ i < e
      OBVIOUS
    <3>2. Line'[i] = fifo[i - w]
      BY <1>3, <1>4, <3>1 DEF Line
    <3>3. i + 1 \in 0 .. LineEnd /\ i + 1 # 0 /\ ~(i + 1 <= Waiting) /\ i + 1 < LineEnd
      BY <1>2, <1>3, <1>4
    <3>4. Line[i + 1] = fifo[i + 1 - Waiting]
      BY <1>3, <1>4, <3>3 DEF Line
    <3>5. i + 1 - Waiting = i - w
      BY <1>2, <1>3, <1>4
    <3> QED BY <3>2, <3>4, <3>5
  <2>4. Line'[e] = next /\ Line[e + 1] = next
    BY <1>2, <1>3, <1>4 DEF Line
  <2>5. \A i \in 1 .. e : i \in 1 .. w \/ i \in w + 1 .. e - 1 \/ i = e
    OBVIOUS
  <2> QED BY <2>2, <2>3, <2>4, <2>5
<1>7. Line[0] = last /\ Line'[0] = last'
  BY <1>2, <1>3, <1>4 DEF Line
<1>8. Chained(Line, e + 1)
  BY <1>3, <1>4 DEF NoFrameLost
<1>9. CASE Line[1] = NoFrame
  <2>1. Line'[0] = Line[0]
    BY <1>5, <1>7, <1>9
  <2>2. Chained(Line', e)
    BY <1>2, <1>4, <1>6, <1>8, <1>9, <2>1, ChainDropGap
  <2> QED BY <1>4, <2>2 DEF NoFrameLost
<1>10. CASE Line[1] # NoFrame
  <2>1. Line'[0] = Line[0 + 1]
    BY <1>5, <1>7, <1>10
  <2>2. \A i \in 0 .. e : Line'[i] = Line[i + 1]
    BY <1>2, <1>4, <1>6, <2>1
  <2>3. Chained(Line', e)
    BY <1>2, <1>4, <1>8, <2>2, ChainTail
  <2> QED BY <1>4, <2>3 DEF NoFrameLost
<1> QED BY <1>9, <1>10

(* The reader gives the slot back; the message in it was read before.      *)
LEMMA ReadAdvanceLine ==
  ASSUME TypeOK, NEW k \in 0 .. Size, Distance(k), k - 1 \in 0 .. Size,
         Distance(k - 1)', TypeOK', NoFrameLost, ReadAdvance
  PROVE  NoFrameLost'
<1> USE RxConstants DEF ReadAdvance, irqVars, chipVars, history
<1>1. k \in Nat
  OBVIOUS
<1>2. /\ Copied = 1 /\ Copied' = 0 /\ Waiting \in Nat /\ Waiting' = Waiting
      /\ Len(fifo) \in Nat /\ LineEnd = Waiting + Len(fifo) + 1 /\ LineEnd' = LineEnd
      /\ LineEnd \in Nat
  BY <1>1, LineNumbers, LineNumbersNext
<1>3. ASSUME NEW i \in 1 .. Waiting
      PROVE  SlotOf(consumed' + 0 + i - 1) = SlotOf(consumed + 1 + i - 1)
  <2>1. i - 1 \in Nat
    BY <1>2
  <2>2. SlotOf(Incr(consumed) + (i - 1)) = SlotOf(consumed + 1 + (i - 1))
    BY <2>1, SlotAfterIncr DEF TypeOK
  <2>3. /\ Incr(consumed) + 0 + i - 1 = Incr(consumed) + (i - 1)
        /\ consumed + 1 + i - 1 = consumed + 1 + (i - 1)
    BY <1>2, RingTypes DEF TypeOK, Counter
  <2> QED BY <2>2, <2>3
<1>4. \A i \in 0 .. LineEnd : Line'[i] = Line[i]
  BY <1>2, <1>3 DEF Line
<1>5. Chained(Line', LineEnd)
  BY <1>2, <1>4, ChainPrefix DEF NoFrameLost
<1> QED BY <1>2, <1>5 DEF NoFrameLost

(* The controller accepts a frame: it is put at the end of the line. *)
LEMMA FrameArrivesLine ==
  ASSUME TypeOK, NEW k \in 0 .. Size, Distance(k), Distance(k)', TypeOK', NoFrameLost, FrameArrives
  PROVE  NoFrameLost'
<1> USE RxConstants DEF FrameArrives, qVars, irqVars, userVars
<1>1. k \in Nat
  OBVIOUS
<1>2. /\ Copied' = Copied /\ Waiting \in Nat /\ Waiting' = Waiting
      /\ Len(fifo) \in Nat /\ Len(fifo') = Len(fifo) + 1
      /\ LineEnd = Waiting + Len(fifo) + 1 /\ LineEnd' = LineEnd + 1
      /\ LineEnd \in Nat /\ Line[LineEnd] = next
  <2>1. Len(fifo') = Len(fifo) + 1
    BY DEF TypeOK
  <2>2. Copied' = Copied /\ Unpublished' = Unpublished
    BY DEF Copied, Unpublished
  <2> QED BY <1>1, <2>1, <2>2, LineNumbers, LineNumbersNext
<1>3. /\ \A j \in 1 .. Len(fifo) : fifo'[j] = fifo[j]
      /\ fifo'[Len(fifo) + 1] = next
  BY DEF TypeOK
<1>4. ASSUME NEW i \in 0 .. LineEnd PROVE Line'[i] = Line[i]
  <2>1. CASE i \in 0 .. Waiting
    BY <1>2, <2>1 DEF Line
  <2>2. CASE i \in Waiting + 1 .. LineEnd - 1
    <3>1. i - Waiting \in 1 .. Len(fifo)
      BY <1>2, <2>2
    <3>2. Line'[i] = fifo'[i - Waiting]
      BY <1>2, <2>2 DEF Line
    <3>3. Line[i] = fifo[i - Waiting]
      BY <1>2, <2>2 DEF Line
    <3> QED BY <1>3, <3>1, <3>2, <3>3
  <2>3. CASE i = LineEnd
    <3>1. i - Waiting = Len(fifo) + 1
      BY <1>2, <2>3
    <3>2. Line'[i] = fifo'[i - Waiting]
      BY <1>2, <2>3 DEF Line
    <3> QED BY <1>2, <1>3, <2>3, <3>1, <3>2
  <2> QED BY <1>2, <2>1, <2>2, <2>3
<1>5. Line'[LineEnd + 1] = (Line[LineEnd] + 1) % Frames /\ Line[LineEnd] # NoFrame
  <2>1. Line'[LineEnd + 1] = next'
    BY <1>2 DEF Line
  <2> QED BY <1>2, <2>1 DEF TypeOK
<1>6. Chained(Line', LineEnd + 1)
  <2>1. Chained(Line, LineEnd) /\ \A i \in 0 .. LineEnd : Line'[i] = Line[i]
    BY <1>4 DEF NoFrameLost
  <2>2. LineEnd \in Nat
    BY <1>2
  <2> HIDE DEF FrameArrives
  <2> QED BY <1>5, <2>1, <2>2, ChainAppend
<1> QED BY <1>2, <1>6 DEF NoFrameLost

(* Bus-off: the line ends before the first frame of the controller, whose  *)
(* number is given to the next one.                                        *)
LEMMA BusOffLine ==
  ASSUME TypeOK, FifoRuns, NEW k \in 0 .. Size, Distance(k), Distance(k)', TypeOK',
         NoFrameLost, BusOff
  PROVE  NoFrameLost'
<1> USE RxConstants DEF BusOff, ErrorStep, qVars, irqVars, userVars
<1>1. k \in Nat
  OBVIOUS
<1>2. /\ Copied' = Copied /\ Waiting \in Nat /\ Waiting' = Waiting
      /\ Len(fifo) \in Nat /\ Len(fifo') = 0
      /\ LineEnd = Waiting + Len(fifo) + 1 /\ LineEnd' = Waiting + 1
      /\ LineEnd \in Nat /\ Line[LineEnd] = next
  <2>1. Len(fifo') = 0
    OBVIOUS
  <2>2. Copied' = Copied /\ Unpublished' = Unpublished
    BY DEF Copied, Unpublished
  <2> QED BY <1>1, <2>1, <2>2, LineNumbers, LineNumbersNext
<1>3. \A i \in 0 .. Waiting : Line'[i] = Line[i]
  BY <1>2 DEF Line
<1>4. Line[Waiting + 1] = (next - Len(fifo)) % Frames
  <2>1. CASE Len(fifo) = 0
    <3>1. next \in Frame /\ next % Frames = next
      BY FrameSuccessor DEF TypeOK
    <3>2. next \in Int
      BY <3>1 DEF Frame
    <3> QED BY <1>2, <2>1, <3>1, <3>2
  <2>2. CASE Len(fifo) > 0
    <3>1. Line[Waiting + 1] = fifo[1]
      BY <1>2, <2>2 DEF Line
    <3>2. fifo[1] = (next - Len(fifo) + 1 - 1) % Frames
      BY <1>2, <2>2 DEF FifoRuns
    <3>3. next - Len(fifo) + 1 - 1 = next - Len(fifo)
      BY <1>2 DEF TypeOK, Frame
    <3> QED BY <3>1, <3>2, <3>3
  <2> QED BY <1>2, <2>1, <2>2
<1>5. Line'[Waiting + 1] = next'
  BY <1>2 DEF Line
<1>6. \A i \in 0 .. Waiting + 1 : Line'[i] = Line[i]
  BY <1>2, <1>3, <1>4, <1>5
<1>7. Waiting + 1 \in 0 .. LineEnd
  BY <1>2
<1>8. Chained(Line', Waiting + 1)
  BY <1>2, <1>6, <1>7, ChainPrefix DEF NoFrameLost
<1> QED BY <1>2, <1>8 DEF NoFrameLost

(* So no step loses, repeats or reorders a frame. *)
LEMMA NextNoFrameLost ==
  ASSUME TypeOK, Progress, \E k \in 0 .. Size : Distance(k), FifoRuns, NoFrameLost,
         [Next]_vars
  PROVE  NoFrameLost'
<1> PICK k \in 0 .. Size : Distance(k)
  OBVIOUS
<1>1. TypeOK'
  BY NextTypeOK
<1>2. IF Publish THEN k + 1 \in 0 .. Size /\ Distance(k + 1)'
      ELSE IF ReadAdvance THEN k - 1 \in 0 .. Size /\ Distance(k - 1)'
      ELSE Distance(k)'
  BY NextDistance
<1>3. CASE Publish
  BY <1>1, <1>2, <1>3, PublishLine
<1>4. CASE ReadAdvance
  <2>1. ~Publish
    BY <1>4 DEF ReadAdvance, Publish, irqVars
  <2> QED BY <1>1, <1>2, <1>4, <2>1, ReadAdvanceLine
<1>5. CASE ~Publish /\ ~ReadAdvance
  <2>1. Distance(k)'
    BY <1>2, <1>5
  <2>2. CASE StoreFrame BY <1>1, <2>1, <2>2, StoreFrameLine
  <2>3. CASE StoreError BY <1>1, <2>1, <2>3, StoreErrorLine
  <2>4. CASE ReadCopy BY <1>1, <2>1, <2>4, ReadCopyLine
  <2>5. CASE FrameArrives BY <1>1, <2>1, <2>5, FrameArrivesLine
  <2>6. CASE BusOff BY <1>1, <2>1, <2>6, BusOffLine
  <2> USE DEF qVars, irqVars, userVars, chipVars, history
  <2>7. CASE IrqRead \/ IrqLeave \/ UndoReset \/ Stored
    BY <2>7, LineStays DEF IrqRead, IrqLeave, UndoReset, Stored, Progress
  <2>8. ASSUME NEW s \in {"rx", "err", "ovr"}, Branch(s) PROVE NoFrameLost'
    BY <2>8, LineStays DEF Branch, Skip, Refuse, Accept, EndBranch, Ready
  <2>9. CASE ReadBegin
    <3>1. Waiting' = Waiting /\ Copied' = Copied
      BY <2>9 DEF ReadBegin, Waiting, Copied, Unpublished
    <3>2. LineEnd' = LineEnd /\ Line' = Line
      BY <2>9, <3>1 DEF ReadBegin, LineEnd, Line
    <3> QED BY <3>2 DEF NoFrameLost, Chained
  <2>10. CASE Poller
    BY <2>10, LineStays DEF Poller, PollRegister, PollCheck
  <2>11. CASE FrameOverruns \/ ErrorWarn \/ ErrorClear \/ Recover
    BY <2>11, LineStays DEF FrameOverruns, ErrorWarn, ErrorClear, Recover, ErrorStep
  <2>12. CASE UNCHANGED vars
    BY <2>12, LineStays DEF vars
  <2> QED
    BY <1>5, <2>2, <2>3, <2>4, <2>5, <2>6, <2>7, <2>8, <2>9, <2>10, <2>11, <2>12
       DEF Next, Interrupt, Read, Chip
<1> QED BY <1>3, <1>4, <1>5

-----------------------------------------------------------------------------
(* The invariant holds at first, ... *)
LEMMA InitRxInv == Init => RxInv
<1> SUFFICES ASSUME Init PROVE RxInv
  OBVIOUS
<1>1. Distance(0) /\ 0 \in 0 .. Size /\ TypeOK
  BY InitDistance, InitTypeOK, RxConstants
<1>2. Progress /\ FifoRuns /\ NoLostWakeup
  BY DEF Init, Progress, FifoRuns, NoLostWakeup
<1>3. NoFrameLost
  <2>1. Waiting = 0 /\ LineEnd = 1
    BY <1>1, LineNumbers DEF Init
  <2>2. Line[0] = Frames - 1 /\ Line[1] = 0
    BY <2>1 DEF Line, Init
  <2>3. 0 = (Frames - 1 + 1) % Frames
    BY RxConstants, FrameSuccessor
  <2> QED BY <2>1, <2>2, <2>3, RxConstants DEF NoFrameLost, Chained
<1> QED BY <1>1, <1>2, <1>3 DEF RxInv

(* ... every step keeps it, ... *)
LEMMA NextRxInv == RxInv /\ [Next]_vars => RxInv'
<1> SUFFICES ASSUME RxInv, [Next]_vars PROVE RxInv'
  OBVIOUS
<1>1. TypeOK' /\ Progress' /\ FifoRuns'
  BY NextTypeOK, NextProgress, NextFifoRuns DEF RxInv
<1>2. \E k \in 0 .. Size : Distance(k)'
  BY NextDistance DEF RxInv
<1>3. NoFrameLost' /\ NoLostWakeup'
  BY NextNoFrameLost, NextNoLostWakeup DEF RxInv
<1> QED BY <1>1, <1>2, <1>3 DEF RxInv

(* ... and it holds always. *)
LEMMA Invariance == Spec => []RxInv
BY InitRxInv, NextRxInv, PTL DEF Spec

(* Every frame the controller accepted is read in its turn, or still on    *)
(* its way, in its place (NoFrameLost), for queues of any size.            *)
THEOREM FramesInOrder == Spec => []NoFrameLost
<1>1. RxInv => NoFrameLost
  BY DEF RxInv
<1> QED BY <1>1, Invariance, PTL

(* A poller of input is not left asleep beside a message (NoLostWakeup). *)
THEOREM PollerIsWoken == Spec => []NoLostWakeup
<1>1. RxInv => NoLostWakeup
  BY DEF RxInv
<1> QED BY <1>1, Invariance, PTL
=============================================================================
