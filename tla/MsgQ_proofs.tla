----------------------------- MODULE MsgQ_proofs -----------------------------
(* Proofs about MsgQ, for every size of the queue and width of a counter.  *)
EXTENDS MsgQ, MsgRing_proofs, SequenceTheorems

(* Every step keeps the types. *)
LEMMA NextTypeOK ==
  ASSUME TypeOK, [Next]_vars
  PROVE  TypeOK'
<1> USE RingTypes DEF TypeOK, Outcome, pVars, cVars
<1>1. CASE UNCHANGED vars
  BY <1>1 DEF vars
<1>2. ASSUME NEW m \in Msgs, ProduceRefused(m) PROVE TypeOK'
  BY <1>2 DEF ProduceRefused
<1>3. ASSUME NEW m \in Msgs, ProduceBegin(m) PROVE TypeOK'
  BY <1>3 DEF ProduceBegin
<1>4. CASE ProduceCopy BY <1>4 DEF ProduceCopy
<1>5. CASE ProducePublish BY <1>5 DEF ProducePublish
<1>6. CASE ConsumeRefused BY <1>6 DEF ConsumeRefused
<1>7. CASE ConsumeBegin BY <1>7 DEF ConsumeBegin
<1>8. CASE ConsumeUse BY <1>8 DEF ConsumeUse
<1>9. CASE ConsumeTaken BY <1>9 DEF ConsumeTaken
<1>10. CASE ConsumeKept BY <1>10 DEF ConsumeKept
<1> QED
  BY <1>1, <1>2, <1>3, <1>4, <1>5, <1>6, <1>7, <1>8, <1>9, <1>10
     DEF Next, Producer, Consumer

(* Types of every variable (TypeOK), kept by every step. *)
THEOREM TypeCorrect == Spec => []TypeOK
<1>1. Init => TypeOK
  BY RingAssumption DEF Init, TypeOK, Outcome, Counter
<1>2. TypeOK /\ [Next]_vars => TypeOK'
  BY NextTypeOK
<1> QED BY <1>1, <1>2, PTL DEF Spec

-----------------------------------------------------------------------------
(* The producer is k messages ahead of the consumer, has room for the one  *)
(* it stores, and the consumer holds the one it uses.  A test that         *)
(* succeeded stays true: the other side only ever moves in the direction   *)
(* that favours it.                                                        *)
Distance(k) ==
  /\ Ahead(produced, consumed, k)
  /\ ppc \in {"copy", "publish"} => k < Size
  /\ cpc \in {"use", "release"} => k > 0

QInv == TypeOK /\ \E k \in 0 .. Size : Distance(k)

(* QLen is the distance between the counters. *)
LEMMA DistanceIsLen ==
  ASSUME TypeOK, NEW k \in 0 .. Size, Distance(k)
  PROVE  QLen(produced, consumed) = k
BY LenIsDistance DEF TypeOK, Distance

(* An empty queue: the counters are equal. *)
LEMMA InitQInv == Init => \E k \in 0 .. Size : Distance(k)
<1> SUFFICES ASSUME Init PROVE Distance(0)
  BY RingAssumption
<1>1. Ahead(0, 0, 0)
  BY RingAssumption DEF Ahead
<1> QED BY <1>1 DEF Init, Distance

(* Each step keeps the distance, or changes it by one within its bounds. *)
LEMMA NextDistance ==
  ASSUME QInv, [Next]_vars
  PROVE  \E k \in 0 .. Size : Distance(k)'
<1> PICK k \in 0 .. Size : Distance(k)
  BY DEF QInv
<1>1. TypeOK /\ QLen(produced, consumed) = k /\ k \in Int
  BY DistanceIsLen DEF QInv
<1> USE DEF TypeOK, Distance, pVars, cVars
<1>2. ASSUME NEW m \in Msgs, ProduceRefused(m) PROVE Distance(k)'
  BY <1>2 DEF ProduceRefused
<1>3. ASSUME NEW m \in Msgs, ProduceBegin(m) PROVE Distance(k)'
  <2>1. k < Size
    BY <1>1, <1>3, RingAssumption DEF ProduceBegin, QFull
  <2> QED BY <1>3, <2>1 DEF ProduceBegin
<1>4. CASE ProduceCopy
  <2>1. Distance(k)'
    BY <1>4 DEF ProduceCopy
  <2> QED BY <2>1
<1>5. CASE ProducePublish
  <2>1. k \in 0 .. Size - 1 /\ k + 1 \in 0 .. Size
    BY <1>5, RingAssumption DEF ProducePublish
  <2>2. Ahead(produced', consumed, k + 1)
    BY <1>1, <1>5, <2>1, AheadAfterProduce DEF ProducePublish
  <2>3. Distance(k + 1)'
    BY <1>5, <2>1, <2>2 DEF ProducePublish
  <2> QED BY <2>1, <2>3
<1>6. CASE ConsumeRefused
  BY <1>6 DEF ConsumeRefused
<1>7. CASE ConsumeBegin
  <2>1. k > 0
    BY <1>1, <1>7, RingAssumption DEF ConsumeBegin, QEmpty, Ahead, Counter
  <2> QED BY <1>7, <2>1 DEF ConsumeBegin
<1>8. CASE ConsumeUse
  BY <1>8 DEF ConsumeUse
<1>9. CASE ConsumeTaken
  <2>1. k \in 1 .. Size /\ k - 1 \in 0 .. Size
    BY <1>9, RingAssumption DEF ConsumeTaken
  <2>2. Ahead(produced, consumed', k - 1)
    BY <1>1, <1>9, <2>1, AheadAfterConsume DEF ConsumeTaken
  <2>3. Distance(k - 1)'
    BY <1>9, <2>1, <2>2, RingAssumption DEF ConsumeTaken
  <2> QED BY <2>1, <2>3
<1>10. CASE ConsumeKept
  BY <1>10 DEF ConsumeKept
<1>11. CASE UNCHANGED vars
  BY <1>11 DEF vars
<1> QED
  BY <1>2, <1>3, <1>4, <1>5, <1>6, <1>7, <1>8, <1>9, <1>10, <1>11
     DEF Next, Producer, Consumer

(* The invariant holds always. *)
LEMMA Invariance == Spec => []QInv
<1>1. (\E k \in 0 .. Size : Distance(k)) /\ TypeOK /\ [Next]_vars
        => (\E k \in 0 .. Size : Distance(k))'
  BY NextDistance DEF QInv
<1> QED BY <1>1, InitQInv, TypeCorrect, PTL DEF Spec, QInv

(* qlen() stays between 0 and qsize() for any number of messages, through  *)
(* every wrap-around of the counters (LengthInBounds).                     *)
THEOREM LengthBounded == Spec => []LengthInBounds
<1>1. QInv => LengthInBounds
  BY DistanceIsLen DEF QInv, LengthInBounds
<1> QED BY <1>1, Invariance, PTL

(* Producer and consumer are never in the same slot (NoSlotShared): the    *)
(* queue needs no lock around the copying of messages.                     *)
THEOREM SlotsSeparate == Spec => []NoSlotShared
<1>1. QInv => NoSlotShared
  <2> SUFFICES ASSUME QInv, ppc = "copy", cpc \in {"use", "release"}
               PROVE  SlotOf(produced) # SlotOf(consumed)
    BY DEF NoSlotShared
  <2>1. PICK k \in 0 .. Size : Distance(k)
    BY DEF QInv
  <2>2. k \in 1 .. Size - 1 /\ Ahead(produced, consumed, k)
    BY <2>1, RingAssumption DEF Distance
  <2> QED BY <2>2, SlotsDiffer DEF QInv, TypeOK
<1> QED BY <1>1, Invariance, PTL

-----------------------------------------------------------------------------
(* The queue implements the bounded FIFO (ImplementsFifo).                 *)

(* What each side holds: the message that is being stored, the message in  *)
(* the slot before it is published, the message the callback has seen.     *)
Held ==
  /\ ppc \in {"copy", "publish"} => pmsg \in Msgs
  /\ ppc = "publish" => data[SlotOf(produced)] = pmsg
  /\ cpc = "release" => data[SlotOf(consumed)] = cmsg

(* The consumer keeps what it works on. *)
LEMMA NextHeld ==
  ASSUME QInv, Held, [Next]_vars
  PROVE  Held'
<1> USE DEF QInv, TypeOK, Held, pVars, cVars
<1>1. ASSUME NEW m \in Msgs, ProduceRefused(m) PROVE Held'
  BY <1>1 DEF ProduceRefused
<1>2. ASSUME NEW m \in Msgs, ProduceBegin(m) PROVE Held'
  BY <1>2 DEF ProduceBegin
<1>3. CASE ProduceCopy
  <2>1. cpc = "release" => SlotOf(produced) # SlotOf(consumed)
    <3>1. PICK k \in 0 .. Size : Distance(k)
      OBVIOUS
    <3>2. cpc = "release" => k \in 1 .. Size - 1 /\ Ahead(produced, consumed, k)
      BY <1>3, <3>1, RingAssumption DEF ProduceCopy, Distance
    <3> QED BY <3>2, SlotsDiffer
  <2>2. SlotOf(produced) \in Slot /\ SlotOf(consumed) \in Slot
    BY RingTypes
  <2> QED BY <1>3, <2>1, <2>2 DEF ProduceCopy
<1>4. CASE ProducePublish BY <1>4 DEF ProducePublish
<1>5. CASE ConsumeRefused BY <1>5 DEF ConsumeRefused
<1>6. CASE ConsumeBegin BY <1>6 DEF ConsumeBegin
<1>7. CASE ConsumeUse BY <1>7 DEF ConsumeUse
<1>8. CASE ConsumeTaken BY <1>8 DEF ConsumeTaken
<1>9. CASE ConsumeKept BY <1>9 DEF ConsumeKept
<1>10. CASE UNCHANGED vars BY <1>10 DEF vars
<1> QED
  BY <1>1, <1>2, <1>3, <1>4, <1>5, <1>6, <1>7, <1>8, <1>9, <1>10
     DEF Next, Producer, Consumer

(* The contents of the queue as a sequence. *)
LEMMA ContentsSeq ==
  ASSUME TypeOK, NEW k \in 0 .. Size, Distance(k)
  PROVE  /\ Contents \in Seq(Msgs \cup {NoMsg}) /\ Len(Contents) = k
         /\ \A i \in 1 .. k : Contents[i] = data[SlotOf(consumed + i - 1)]
<1>1. Contents = [i \in 1 .. k |-> data[SlotOf(consumed + i - 1)]] /\ k \in Nat
  BY DistanceIsLen DEF Contents
<1>2. ASSUME NEW i \in 1 .. k PROVE data[SlotOf(consumed + i - 1)] \in Msgs \cup {NoMsg}
  <2>1. i - 1 \in Nat /\ consumed + (i - 1) = consumed + i - 1
    BY DEF TypeOK, Counter
  <2>2. SlotOf(consumed + i - 1) \in Slot
    BY <2>1, SlotInRange DEF TypeOK
  <2> QED BY <2>2 DEF TypeOK
<1> QED BY <1>1, <1>2

(* The contents are a sequence of messages. *)
LEMMA ContentsSeqNext ==
  ASSUME TypeOK', NEW k \in 0 .. Size, Distance(k)'
  PROVE  /\ Contents' \in Seq(Msgs \cup {NoMsg}) /\ Len(Contents') = k
         /\ \A i \in 1 .. k : Contents'[i] = data'[SlotOf(consumed' + i - 1)]
<1>1. QLen(produced', consumed') = k
  BY LenIsDistance DEF TypeOK, Distance
<1>2. Contents' = [i \in 1 .. k |-> data'[SlotOf(consumed' + i - 1)]] /\ k \in Nat
  BY <1>1 DEF Contents
<1>3. ASSUME NEW i \in 1 .. k
      PROVE  data'[SlotOf(consumed' + i - 1)] \in Msgs \cup {NoMsg}
  <2>1. consumed' \in Counter /\ data' \in [Slot -> Msgs \cup {NoMsg}]
    BY DEF TypeOK
  <2>2. i - 1 \in Nat /\ consumed' + (i - 1) = consumed' + i - 1
    BY <2>1 DEF Counter
  <2>3. SlotOf(consumed' + i - 1) \in Slot
    BY <2>1, <2>2, SlotInRange
  <2> QED BY <2>1, <2>3
<1> QED BY <1>2, <1>3

(* Steps inside a call do not show in the FIFO. *)
LEMMA ContentsStay ==
  ASSUME TypeOK, UNCHANGED <<data, produced, consumed>>
  PROVE  Contents' = Contents
BY DEF Contents, QLen

(* Filling a slot does not change the contents. *)
LEMMA CopyStutters ==
  ASSUME QInv, TypeOK', ProduceCopy
  PROVE  Contents' = Contents
<1> PICK k \in 0 .. Size : Distance(k)
  BY DEF QInv
<1>1. k < Size /\ Distance(k)' /\ TypeOK
  BY DEF QInv, Distance, ProduceCopy, cVars
<1>2. ASSUME NEW i \in 1 .. k
      PROVE  data'[SlotOf(consumed + i - 1)] = data[SlotOf(consumed + i - 1)]
  <2>1. i - 1 \in 0 .. Size - 1 /\ k \in 0 .. Size - 1 /\ i - 1 < k /\ i - 1 \in Nat
    BY <1>1, RingAssumption
  <2>2. SlotOf(consumed + (i - 1)) # SlotOf(consumed + k) /\ SlotOf(consumed + (i - 1)) \in Slot
    BY <1>1, <2>1, SlotsDistinct, SlotInRange DEF TypeOK
  <2>3. SlotOf(consumed + k) = SlotOf(produced) /\ consumed + (i - 1) = consumed + i - 1
    <3>1. SlotOf(produced + 0) = SlotOf(consumed + k + 0)
      BY <1>1, SlotShift DEF TypeOK, Distance
    <3> QED BY <1>1, <3>1 DEF TypeOK, Counter
  <2> QED BY <1>1, <2>2, <2>3 DEF TypeOK, ProduceCopy
<1>3. Len(Contents') = k /\ Len(Contents) = k /\ \A i \in 1 .. k : Contents'[i] = Contents[i]
  BY <1>1, <1>2, ContentsSeq, ContentsSeqNext DEF ProduceCopy
<1> QED BY <1>1, <1>3, ContentsSeq, ContentsSeqNext, SeqEqual

(* Publishing a message puts it at the end of the FIFO. *)
LEMMA PublishPuts ==
  ASSUME QInv, Held, TypeOK', ProducePublish
  PROVE  Fifo!Put(pmsg) /\ pmsg \in Msgs
<1> PICK k \in 0 .. Size : Distance(k)
  BY DEF QInv
<1>1. k \in Nat /\ k < Size /\ k + 1 \in 0 .. Size /\ Distance(k + 1)'
  <2>1. k \in 0 .. Size - 1 /\ k + 1 \in 0 .. Size
    BY RingAssumption DEF ProducePublish, Distance
  <2>2. Ahead(produced', consumed, k + 1)
    BY <2>1, AheadAfterProduce DEF ProducePublish, QInv, TypeOK, Distance
  <2> QED BY <2>1, <2>2 DEF ProducePublish, Distance, cVars
<1>2. pmsg \in Msgs /\ data[SlotOf(produced)] = pmsg /\ pret' = Outcome("put", pmsg)
  BY DEF Held, ProducePublish
<1>3. /\ Contents \in Seq(Msgs \cup {NoMsg}) /\ Len(Contents) = k
      /\ \A i \in 1 .. k : Contents[i] = data[SlotOf(consumed + i - 1)]
  BY ContentsSeq DEF QInv
<1>4. /\ Contents' \in Seq(Msgs \cup {NoMsg}) /\ Len(Contents') = k + 1
      /\ \A i \in 1 .. k + 1 : Contents'[i] = data[SlotOf(consumed + i - 1)]
  BY <1>1, ContentsSeqNext DEF ProducePublish
<1>5. data[SlotOf(consumed + (k + 1) - 1)] = pmsg
  <2>1. SlotOf(produced + 0) = SlotOf(consumed + k + 0)
    BY <1>1, SlotShift DEF QInv, TypeOK, Distance
  <2>2. produced + 0 = produced /\ consumed + k + 0 = consumed + (k + 1) - 1
    BY <1>1 DEF QInv, TypeOK, Counter
  <2> QED BY <1>2, <2>1, <2>2
<1>6. Contents' = Append(Contents, pmsg)
  <2>1. PICK s : s = Append(Contents, pmsg)
    OBVIOUS
  <2>2. /\ s \in Seq(Msgs \cup {NoMsg}) /\ Len(s) = k + 1 /\ s[k + 1] = pmsg
        /\ \A i \in 1 .. k : s[i] = Contents[i]
    BY <1>1, <1>2, <1>3, <2>1
  <2>3. ASSUME NEW i \in 1 .. k + 1 PROVE Contents'[i] = s[i]
    <3>1. CASE i \in 1 .. k
      BY <1>3, <1>4, <2>2, <3>1
    <3>2. CASE i = k + 1
      <4>1. Contents'[k + 1] = data[SlotOf(consumed + (k + 1) - 1)]
        BY <1>1, <1>4
      <4> QED BY <1>5, <2>2, <3>2, <4>1
    <3> QED BY <1>1, <3>1, <3>2
  <2>4. Contents' = s
    BY <1>4, <2>2, <2>3, SeqEqual
  <2> QED BY <2>1, <2>4
<1> QED BY <1>1, <1>2, <1>3, <1>6
        DEF Fifo!Put, Fifo!Outcome, Outcome, ProducePublish, cVars

(* The consumer's next message is the oldest of the FIFO. *)
LEMMA HeadOfContents ==
  ASSUME QInv, Held, NEW k \in 1 .. Size, Distance(k), cpc = "release"
  PROVE  Contents # <<>> /\ Head(Contents) = cmsg
<1>1. /\ Contents \in Seq(Msgs \cup {NoMsg}) /\ Len(Contents) = k
      /\ \A i \in 1 .. k : Contents[i] = data[SlotOf(consumed + i - 1)]
  BY ContentsSeq DEF QInv
<1>2. Contents[1] = data[SlotOf(consumed)]
  <2>1. consumed + 1 - 1 = consumed
    BY DEF QInv, TypeOK, Counter
  <2> QED BY <1>1, <2>1
<1> QED BY <1>1, <1>2 DEF Held

(* Releasing a slot takes that message from the FIFO. *)
LEMMA ReleaseTakes ==
  ASSUME QInv, Held, TypeOK', ConsumeTaken
  PROVE  Fifo!Take
<1> PICK k \in 0 .. Size : Distance(k)
  BY DEF QInv
<1>1. k \in 1 .. Size /\ k \in Nat /\ k - 1 \in 0 .. Size /\ Distance(k - 1)'
  <2>1. k \in 1 .. Size /\ k - 1 \in 0 .. Size
    BY RingAssumption DEF ConsumeTaken, Distance
  <2>2. Ahead(produced, consumed', k - 1)
    BY <2>1, AheadAfterConsume DEF ConsumeTaken, QInv, TypeOK, Distance
  <2> QED BY <2>1, <2>2, RingAssumption DEF ConsumeTaken, Distance, pVars
<1>2. Contents # <<>> /\ Head(Contents) = cmsg
  BY <1>1, HeadOfContents DEF ConsumeTaken
<1>3. /\ Contents \in Seq(Msgs \cup {NoMsg}) /\ Len(Contents) = k
      /\ \A i \in 1 .. k : Contents[i] = data[SlotOf(consumed + i - 1)]
  BY ContentsSeq DEF QInv
<1>4. /\ Contents' \in Seq(Msgs \cup {NoMsg}) /\ Len(Contents') = k - 1
      /\ \A i \in 1 .. k - 1 : Contents'[i] = data[SlotOf(Incr(consumed) + i - 1)]
  BY <1>1, ContentsSeqNext DEF ConsumeTaken
<1>5. ASSUME NEW i \in 1 .. k - 1
      PROVE  Contents'[i] = Contents[i + 1]
  <2>1. i - 1 \in Nat /\ i + 1 \in 1 .. k /\ i \in Int /\ consumed \in Int /\ Incr(consumed) \in Int
    BY <1>1, RingTypes DEF QInv, TypeOK, Counter
  <2>2. SlotOf(Incr(consumed) + (i - 1)) = SlotOf(consumed + 1 + (i - 1))
    BY <2>1, SlotAfterIncr DEF QInv, TypeOK
  <2>3. /\ Incr(consumed) + (i - 1) = Incr(consumed) + i - 1
        /\ consumed + 1 + (i - 1) = consumed + (i + 1) - 1
    BY <2>1
  <2> QED BY <1>3, <1>4, <2>1, <2>2, <2>3
<1>6. Contents' = Tail(Contents)
  <2>1. /\ Tail(Contents) \in Seq(Msgs \cup {NoMsg}) /\ Len(Tail(Contents)) = k - 1
        /\ \A i \in 1 .. k - 1 : Tail(Contents)[i] = Contents[i + 1]
    BY <1>1, <1>2, <1>3, HeadTailProperties
  <2> QED BY <1>4, <1>5, <2>1, SeqEqual
<1> QED BY <1>2, <1>6 DEF Fifo!Take, Fifo!Outcome, Outcome, ConsumeTaken, pVars

(* Every step of the queue is a step of the FIFO, or does not show in it. *)
LEMMA NextImplements ==
  ASSUME QInv, Held, [Next]_vars
  PROVE  [Fifo!Next]_(Fifo!fifoVars)
<1> PICK k \in 0 .. Size : Distance(k)
  BY DEF QInv
<1>1. TypeOK' /\ TypeOK
  BY NextTypeOK DEF QInv
<1>2. /\ Contents \in Seq(Msgs \cup {NoMsg}) /\ Len(Contents) = k
      /\ QLen(produced, consumed) = k /\ k \in Nat
  BY <1>1, ContentsSeq, DistanceIsLen
<1> USE DEF pVars, cVars, Fifo!fifoVars, Outcome, Fifo!Outcome
<1>3. ASSUME NEW m \in Msgs, ProduceRefused(m) PROVE Fifo!RefusePut(m)
  <2>1. k = Size
    BY <1>2, <1>3, RingAssumption DEF ProduceRefused, QFull
  <2> QED BY <1>1, <1>2, <1>3, <2>1, ContentsStay DEF ProduceRefused, Fifo!RefusePut
<1>4. ASSUME NEW m \in Msgs, ProduceBegin(m) PROVE UNCHANGED Fifo!fifoVars
  BY <1>1, <1>4, ContentsStay DEF ProduceBegin
<1>5. CASE ProduceCopy
  BY <1>1, <1>5, CopyStutters DEF ProduceCopy
<1>6. CASE ProducePublish
  BY <1>1, <1>6, PublishPuts DEF Fifo!Next
<1>7. ASSUME ConsumeRefused PROVE Fifo!RefuseTake
  <2>1. k = 0
    BY <1>1, <1>2, <1>7, RingAssumption DEF ConsumeRefused, QEmpty, Distance, Ahead, TypeOK, Counter
  <2>2. Contents = <<>>
    BY <1>2, <2>1
  <2> QED BY <1>1, <1>7, <2>2, ContentsStay DEF ConsumeRefused, Fifo!RefuseTake
<1>8. CASE ConsumeBegin \/ ConsumeUse
  BY <1>1, <1>8, ContentsStay DEF ConsumeBegin, ConsumeUse
<1>9. CASE ConsumeTaken
  BY <1>1, <1>9, ReleaseTakes DEF Fifo!Next
<1>10. ASSUME ConsumeKept PROVE Fifo!Keep
  <2>1. k \in 1 .. Size /\ cpc = "release"
    BY <1>10 DEF ConsumeKept, Distance
  <2>2. Contents # <<>> /\ Head(Contents) = cmsg
    BY <2>1, HeadOfContents
  <2> QED BY <1>1, <1>10, <2>2, ContentsStay DEF ConsumeKept, Fifo!Keep
<1>11. CASE UNCHANGED vars
  BY <1>1, <1>11, ContentsStay DEF vars
<1> QED
  BY <1>3, <1>4, <1>5, <1>6, <1>7, <1>8, <1>9, <1>10, <1>11
     DEF Next, Producer, Consumer, Fifo!Next

(* An empty ring is an empty FIFO. *)
LEMMA InitImplements == Init => Held /\ Fifo!Init
<1> SUFFICES ASSUME Init PROVE Held /\ Fifo!Init
  OBVIOUS
<1>1. QLen(produced, consumed) = 0
  BY AheadOfItself, LenIsDistance, RingAssumption DEF Init, Counter
<1>2. Contents = <<>>
  BY <1>1 DEF Contents
<1> QED BY <1>2 DEF Init, Held, Fifo!Init, Outcome, Fifo!Outcome

(* The two sides of the ring together behave as one bounded FIFO in which  *)
(* a call happens at once (ImplementsFifo), for every number of slots.     *)
THEOREM RingImplementsFifo == Spec => ImplementsFifo
<1>1. Init => Held /\ Fifo!Init
  BY InitImplements
<1>2. QInv /\ Held /\ [Next]_vars => Held' /\ [Fifo!Next]_(Fifo!fifoVars)
  BY NextHeld, NextImplements
<1> QED BY <1>1, <1>2, Invariance, PTL DEF Spec, ImplementsFifo, Fifo!Spec
=============================================================================
