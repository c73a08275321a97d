------------------------------ MODULE MCRxPath ------------------------------
(* Instances of RxPath: two slots, counters that wrap after six            *)
(* increments, a controller that holds two frames.                         *)
EXTENDS RxPath

MCSize == 2
MCWrap == 6
MCChipSize == 2
MCFrames == 6
=============================================================================
