--------------------------- MODULE MCChipControl ---------------------------
(* Instances of ChipControl: one slot, counters that wrap after four       *)
(* increments.                                                             *)
EXTENDS ChipControl

MCSize == 1
MCWrap == 4

(* The properties speak of behaviours without a race only: what follows    *)
(* one is not explored.  A behaviour without one stays inside.             *)
NotRaced == ~raced
=============================================================================
