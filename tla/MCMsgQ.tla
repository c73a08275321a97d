------------------------------- MODULE MCMsgQ -------------------------------
(* Instances of MsgQ: two slots and counters that wrap after eight         *)
(* increments, so that every alignment of the counters with the wrap is    *)
(* reached; two messages.                                                  *)
EXTENDS MsgQ

MCSize == 2
MCWrap == 8
=============================================================================
