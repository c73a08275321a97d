----------------------------- MODULE MCPciScan -----------------------------
(* Instances of PciScan: up to three boards, of every kind for one and     *)
(* two boards, and the full one for three.                                 *)
EXTENDS PciScan

MCMaxChannels == 4
Good == [enabled : {TRUE}, signature : {TRUE}, first : {"none", "peli"}, second : {"none", "basic"}]
MCSlots == {<<>>} \cup [1..1 -> Board] \cup [1..2 -> Board] \cup [1..3 -> Good]
=============================================================================
