----------------------------- MODULE MCDevLife -----------------------------
(* Instances of DevLife.                                                   *)
EXTENDS DevLife

(* Once an open has failed half-way and the channel has moved as well, no  *)
(* property but TypeOK says anything any more.                             *)
NotBoth == ~(spoiled /\ moved)
=============================================================================
