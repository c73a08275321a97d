-------------------------------- MODULE MsgQ --------------------------------
(***************************************************************************)
(* The lock-free queue of msgq.c between one producer and one consumer     *)
(* that run concurrently.  Every access to a shared field is a step of its *)
(* own: qproduce tests the room, copies the message into its slot, then    *)
(* publishes it by incrementing "produced"; qconsume tests for emptiness,  *)
(* lets the callback use the message in place, then increments "consumed"  *)
(* if the callback returned non-zero.                                      *)
(*                                                                         *)
(* The field "idle" is a flag of the transmit path and is modelled with    *)
(* its only user, in TxPath.                                               *)
(***************************************************************************)
EXTENDS MsgRing, Sequences

CONSTANTS Msgs, NoMsg

ASSUME MsgAssumption == NoMsg \notin Msgs

VARIABLES
  data,      \* q->data, one message per slot
  produced,  \* q->produced
  consumed,  \* q->consumed
  ppc,       \* where the producer is in qproduce
  pmsg,      \* the message the producer is storing
  pret,      \* how its last call ended
  cpc,       \* where the consumer is in qconsume
  cmsg,      \* the message the callback has seen
  cret       \* how its last call ended

vars == <<data, produced, consumed, ppc, pmsg, pret, cpc, cmsg, cret>>
pVars == <<ppc, pmsg, pret>>
cVars == <<cpc, cmsg, cret>>

Outcome(op, m) == [op |-> op, msg |-> m]

Init ==
  /\ data     = [s \in Slot |-> NoMsg]
  /\ produced = 0
  /\ consumed = 0
  /\ ppc = "ready" /\ pmsg = NoMsg /\ pret = Outcome("none", NoMsg)
  /\ cpc = "ready" /\ cmsg = NoMsg /\ cret = Outcome("none", NoMsg)

-----------------------------------------------------------------------------
(* qproduce *)

ProduceRefused(m) ==
  /\ ppc = "ready"
  /\ QFull(produced, consumed)
  /\ pret' = Outcome("full", m)
  /\ UNCHANGED <<data, produced, consumed, ppc, pmsg, cVars>>

ProduceBegin(m) ==
  /\ ppc = "ready"
  /\ ~QFull(produced, consumed)
  /\ ppc' = "copy" /\ pmsg' = m
  /\ UNCHANGED <<data, produced, consumed, pret, cVars>>

ProduceCopy ==
  /\ ppc = "copy"
  /\ data' = [data EXCEPT ![SlotOf(produced)] = pmsg]
  /\ ppc' = "publish"
  /\ UNCHANGED <<produced, consumed, pmsg, pret, cVars>>

ProducePublish ==
  /\ ppc = "publish"
  /\ produced' = Incr(produced)
  /\ ppc' = "ready"
  /\ pret' = Outcome("put", pmsg)
  /\ UNCHANGED <<data, consumed, pmsg, cVars>>

-----------------------------------------------------------------------------
(* qconsume *)

ConsumeRefused ==
  /\ cpc = "ready"
  /\ QEmpty(produced, consumed)
  /\ cret' = Outcome("empty", NoMsg)
  /\ UNCHANGED <<data, produced, consumed, pVars, cpc, cmsg>>

(* Faulty variant: the callback runs without the test for emptiness. *)
ConsumeBeginUntested ==
  /\ cpc = "ready"
  /\ cpc' = "use"
  /\ UNCHANGED <<data, produced, consumed, pVars, cmsg, cret>>

ConsumeBegin ==
  /\ cpc = "ready"
  /\ ~QEmpty(produced, consumed)
  /\ cpc' = "use"
  /\ UNCHANGED <<data, produced, consumed, pVars, cmsg, cret>>

ConsumeUse ==
  /\ cpc = "use"
  /\ cmsg' = data[SlotOf(consumed)]
  /\ cpc' = "release"
  /\ UNCHANGED <<data, produced, consumed, pVars, cret>>

(* The callback returned non-zero. *)
ConsumeTaken ==
  /\ cpc = "release"
  /\ consumed' = Incr(consumed)
  /\ cpc' = "ready"
  /\ cret' = Outcome("taken", cmsg)
  /\ UNCHANGED <<data, produced, pVars, cmsg>>

(* Faulty variant: the value the callback returned is not looked at. *)
ConsumeKeptDropped ==
  /\ cpc = "release"
  /\ consumed' = Incr(consumed)
  /\ cpc' = "ready"
  /\ cret' = Outcome("kept", cmsg)
  /\ UNCHANGED <<data, produced, pVars, cmsg>>

(* The callback returned zero: sendcanmsg postponed the message. *)
ConsumeKept ==
  /\ cpc = "release"
  /\ cpc' = "ready"
  /\ cret' = Outcome("kept", cmsg)
  /\ UNCHANGED <<data, produced, consumed, pVars, cmsg>>

-----------------------------------------------------------------------------
Producer ==
  \/ \E m \in Msgs : ProduceRefused(m) \/ ProduceBegin(m)
  \/ ProduceCopy
  \/ ProducePublish

Consumer ==
  \/ ConsumeRefused
  \/ ConsumeBegin
  \/ ConsumeUse
  \/ ConsumeTaken
  \/ ConsumeKept

Next == Producer \/ Consumer

Spec == Init /\ [][Next]_vars

-----------------------------------------------------------------------------
(* Types, and the signed length of the queue within its bounds. *)
TypeOK ==
  /\ data \in [Slot -> Msgs \cup {NoMsg}]
  /\ produced \in Counter
  /\ consumed \in Counter
  /\ ppc \in {"ready", "copy", "publish"}
  /\ cpc \in {"ready", "use", "release"}
  /\ pmsg \in Msgs \cup {NoMsg}
  /\ cmsg \in Msgs \cup {NoMsg}
  /\ pret \in [op : {"none", "full", "put"}, msg : Msgs \cup {NoMsg}]
  /\ cret \in [op : {"none", "empty", "taken", "kept"}, msg : Msgs \cup {NoMsg}]

(* The signed difference of the counters never leaves 0..Size, across any  *)
(* number of wrap-arounds of either counter: qlen() is never negative and  *)
(* never more than qsize() (msgq.c, qlen and the room test of qproduce).   *)
LengthInBounds == QLen(produced, consumed) \in 0 .. Size

(* The producer never copies into the slot whose message the consumer's    *)
(* callback is using: the claim behind "lock-free" (msgq.c).               *)
NoSlotShared ==
  (ppc = "copy" /\ cpc \in {"use", "release"})
    => SlotOf(produced) # SlotOf(consumed)

(* What the queue holds, oldest first: the slots from "consumed" up to     *)
(* "produced".                                                             *)
Contents ==
  [i \in 1 .. QLen(produced, consumed) |-> data[SlotOf(consumed + i - 1)]]

Fifo == INSTANCE MsgFifo WITH Capacity <- Size, buf <- Contents

(* The ring implements the bounded FIFO that can_read, can_write and the   *)
(* interrupt handler rely on, whatever the interleaving of the two sides.  *)
ImplementsFifo == Fifo!Spec
=============================================================================
