------------------------------ MODULE MCTxPath ------------------------------
(* Instances of TxPath: two slots, counters that wrap after eight          *)
(* increments, so that every alignment of the queue with the wrap occurs.  *)
EXTENDS TxPath

MCSize == 2
MCWrap == 8

(* The properties but TypeOK speak of behaviours without a race only: what *)
(* follows one is not explored.                                            *)
NotRaced == ~raced
=============================================================================
