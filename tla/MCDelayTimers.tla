---------------------------- MODULE MCDelayTimers ---------------------------
(* An instance of DelayTimers: messages that ask for no delay, for a       *)
(* negative one, for one shorter than their transmission and for a longer  *)
(* one, at a bit rate with times that are no whole microseconds.           *)
EXTENDS DelayTimers

CONSTANTS c1, c2

MCTwo == {c1, c2}
MCDelays == {-1, 60, 1000}
MCLengths == {0, 8}
MCDataOnly == {FALSE}
=============================================================================
