------------------------------ MODULE MsgFifo ------------------------------
(***************************************************************************)
(* What a MsgQ promises to its two clients, in one atomic step per         *)
(* completed call: a bounded first-in first-out queue.                     *)
(*                                                                         *)
(*   qproduce  stores the message and returns 1, or returns 0 and stores   *)
(*             nothing, which it does only if the queue is full;           *)
(*   qconsume  hands the oldest message to its callback, and drops it iff  *)
(*             the callback says it was consumed; it returns 0 only if     *)
(*             the queue is empty.                                         *)
(***************************************************************************)
EXTENDS Naturals, Sequences

CONSTANTS
  Capacity,  \* how many messages the queue holds
  Msgs,      \* the messages
  NoMsg      \* no message

VARIABLES
  buf,    \* the messages stored, oldest first
  pret,   \* how the last qproduce ended: [op, msg]
  cret    \* how the last qconsume ended: [op, msg]

fifoVars == <<buf, pret, cret>>

Outcome(op, m) == [op |-> op, msg |-> m]

Init ==
  /\ buf  = <<>>
  /\ pret = Outcome("none", NoMsg)
  /\ cret = Outcome("none", NoMsg)

Put(m) ==
  /\ Len(buf) < Capacity
  /\ buf'  = Append(buf, m)
  /\ pret' = Outcome("put", m)
  /\ UNCHANGED cret

RefusePut(m) ==
  /\ Len(buf) = Capacity
  /\ pret' = Outcome("full", m)
  /\ UNCHANGED <<buf, cret>>

Take ==
  /\ buf # <<>>
  /\ buf'  = Tail(buf)
  /\ cret' = Outcome("taken", Head(buf))
  /\ UNCHANGED pret

(* The callback saw the message and left it in the queue. *)
Keep ==
  /\ buf # <<>>
  /\ cret' = Outcome("kept", Head(buf))
  /\ UNCHANGED <<buf, pret>>

RefuseTake ==
  /\ buf = <<>>
  /\ cret' = Outcome("empty", NoMsg)
  /\ UNCHANGED <<buf, pret>>

Next ==
  \/ \E m \in Msgs : Put(m) \/ RefusePut(m)
  \/ Take \/ Keep \/ RefuseTake

Spec == Init /\ [][Next]_fifoVars
=============================================================================
