------------------------------ MODULE MsgRing ------------------------------
(***************************************************************************)
(* The arithmetic of a MsgQ (msgq.h, msgq.c): two free-running counters,   *)
(* "produced" and "consumed", of the C type int, and an array of Size      *)
(* messages indexed by the low bits of a counter.                          *)
(*                                                                         *)
(* A counter is held as its two's complement bit pattern, a number in      *)
(* Counter, so that the wrap-around of a long-running driver is part of    *)
(* the model: Wrap is 2^32 in the driver and Size is 2048 (rxq) or 128     *)
(* (txq).  Both are powers of two, so "& mask" is "% Size" and Size        *)
(* divides Wrap.                                                           *)
(***************************************************************************)
EXTENDS Integers

CONSTANTS
  Size,  \* slots of the queue: sz of qcreate, mask + 1
  Wrap   \* number of values of a counter

ASSUME RingAssumption ==
  /\ Size \in Nat \ {0}
  /\ Wrap \in Nat \ {0}
  /\ Wrap % 2 = 0 /\ Wrap % Size = 0
  /\ 2 * Size < Wrap

Counter == 0 .. Wrap - 1
Slot    == 0 .. Size - 1

(* Faulty variant: the counter is not truncated to its width. *)
IncrUnbounded(i) == i + 1

(* q->produced++ and q->consumed++ *)
Incr(i) == (i + 1) % Wrap

(* The slot a counter designates: i & q->mask. *)
SlotOf(i) == i % Size

(* q->produced - q->consumed, a signed difference. *)
QLen(p, c) ==
  LET d == (p - c) % Wrap
  IN  IF d < Wrap \div 2 THEN d ELSE d - Wrap

(* Faulty variant: the room test is off by one. *)
QFullOffByOne(p, c) == QLen(p, c) > Size

(* The two tests of msgq.c: a full queue refuses, an empty one is idle. *)
QFull(p, c)  == QLen(p, c) > Size - 1
QEmpty(p, c) == p = c

(* qlen(q) <= qsize(q)/2: the queue is low enough to ask for more. *)
QLow(p, c) == QLen(p, c) <= Size \div 2
=============================================================================
