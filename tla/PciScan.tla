------------------------------ MODULE PciScan ------------------------------
(***************************************************************************)
(* pcimod_scan: in a PCI build the driver looks for EMS CPC-PCI boards     *)
(* when it is loaded, each with up to two controllers, and fills the       *)
(* tables that every other part finds its controller by.  The fields of a  *)
(* board say what the scan would see of it.                                *)
(***************************************************************************)
EXTENDS Integers, Sequences, FiniteSets

CONSTANTS
  MaxChannels,  \* MAX_CHANNELS
  Slots         \* the sequences of boards to look at

VARIABLES
  boards,   \* what is plugged in, in the order of the scan
  reset,    \* the positions that were reset
  at,       \* the board the scan looks at
  step,     \* where it is
  candev,   \* number of found devices
  control,  \* Can_pitapci_control: the board of a channel, 0 if none
  base,     \* Base: board and position of a channel, None if none
  irq,      \* IRQ
  outside,  \* indexes beyond the tables that were read or written
  ret       \* what pcimod_scan has returned

scanVars == <<boards, reset, at, step, candev, control, base, irq, outside, ret>>

Board == [enabled : BOOLEAN, signature : BOOLEAN, first : {"none", "basic", "peli"}, second : {"none", "basic", "peli"}]

ASSUME ScanAssumption == MaxChannels \in Nat \ {0} /\ Slots \subseteq Seq(Board)

Index == 0 .. MaxChannels - 1
None == <<0, 0>>

ScanInit ==
  /\ boards \in Slots /\ reset = {}
  /\ at = 0 /\ step = "next" /\ candev = 0
  /\ control = [i \in Index |-> 0] /\ base = [i \in Index |-> None] /\ irq = [i \in Index |-> 0]
  /\ outside = {} /\ ret = 1

(* An entry of a table; entries beyond the end are not the table's.        *)
Set(table, i, value) == IF i \in Index THEN [table EXCEPT ![i] = value] ELSE table

Touch(indexes) == outside' = outside \cup (indexes \ Index)

-----------------------------------------------------------------------------
(* What readb may return at a controller's addresses after reset_CPC_PCI,  *)
(* which writes 0x01 to the mode register: the set of the bits that are 1. *)
(* The values are those of the data sheet of the SJA1000.  After a         *)
(* hardware reset it is in BasicCAN mode, where the status is 0x0c         *)
(* (transmit buffer released, transmission complete) and 0xe0 are unused   *)
(* bits of the interrupt register.  One that a driver has used is in       *)
(* PeliCAN mode, where the reset leaves bits 7, 6 and 3 of the status and  *)
(* bit 2 of the interrupt register as they were.  The comment before       *)
(* controller_available has the status of a fresh controller as 0xc0       *)
(* (util.c:279), the code below it 0x0c (util.c:305): with the data sheet  *)
(* the code is right and the comment is not.  At a position without a      *)
(* controller all lines are taken to be high.                              *)
Byte == 0 .. 7

Registers(kind) ==
  CASE kind = "none"  -> {[mode |-> Byte, cmd |-> Byte, stat |-> Byte, int |-> Byte]}
    [] kind = "basic" -> {[mode |-> {0, 5}, cmd |-> Byte, stat |-> {2, 3}, int |-> {5, 6, 7}]}
    [] kind = "peli"  -> [mode : {{0}}, cmd : {{}}, int : {{}, {2}},
                          stat : {{2, 4, 5} \cup s : s \in SUBSET {3, 6, 7}}]

(* Faulty variant: the value of the comment. *)
FreshAsCommented(r) == r.stat = {6, 7} /\ r.int = {5, 6, 7}

(* Of a controller in BasicCAN mode (0x21): 0x0c and 0xe0. *)
Fresh(r) == r.stat = {2, 3} /\ r.int = {5, 6, 7}

(* controller_available: 0x34 of the bits 0x37, and 0 of the bits 0xfb. *)
Available(r) ==
  IF r.mode = {0, 5} THEN Fresh(r)
  ELSE r.cmd = {} /\ r.stat \ {3, 6, 7} = {2, 4, 5} /\ r.int \ {2} = {}

-----------------------------------------------------------------------------
(* pci_find_device: the next board, or the end of the scan.  A board that  *)
(* cannot be enabled is passed over.                                       *)
Find ==
  /\ step = "next"
  /\ IF at = Len(boards) THEN step' = "done" /\ ret' = 0 /\ at' = at
     ELSE /\ at' = at + 1 /\ ret' = ret
          /\ step' = IF boards[at + 1].enabled THEN "map" ELSE "next"
  /\ UNCHANGED <<boards, reset, candev, control, base, irq, outside>>

(* Enabling memory access, and keeping the address of the registers that   *)
(* do it: before anything else is known of the board.                      *)
MapControl ==
  /\ step = "map"
  /\ control' = Set(control, candev, at) /\ Touch({candev})
  /\ step' = "sign"
  /\ UNCHANGED <<boards, reset, at, candev, base, irq, ret>>

(* A board without the signature of EMS ends the scan. *)
Signature ==
  /\ step = "sign"
  /\ IF boards[at].signature THEN step' = "reset" /\ ret' = ret ELSE step' = "done" /\ ret' = -1
  /\ UNCHANGED <<boards, reset, at, candev, control, base, irq, outside>>

(* Both positions are reset, and the board's interrupt is enabled through  *)
(* Can_pitapci_control[candev].                                            *)
ResetBoard ==
  /\ step = "reset"
  /\ reset' = reset \cup {<<at, 1>>, <<at, 2>>} /\ Touch({candev})
  /\ step' = "first"
  /\ UNCHANGED <<boards, at, candev, control, base, irq, ret>>

(* A controller at a position becomes the next channel. *)
Enter(position, after) ==
  /\ base' = Set(base, candev, <<at, position>>) /\ irq' = Set(irq, candev, at)
  /\ candev' = candev + 1
  /\ step' = after

First ==
  /\ step = "first" /\ candev <= MaxChannels
  /\ \E r \in Registers(boards[at].first) : Available(r)
  /\ Enter(1, "second") /\ Touch({candev})
  /\ UNCHANGED <<boards, reset, at, control, ret>>

(* Faulty variant: the second controller keeps no control register. *)
SecondAlone ==
  /\ step = "second" /\ candev <= MaxChannels
  /\ \E r \in Registers(boards[at].second) : Available(r)
  /\ Touch({candev})
  /\ Enter(2, "next")
  /\ UNCHANGED <<boards, reset, at, control, ret>>

(* Faulty variant: the number of channels is not looked at. *)
SecondUnbounded ==
  /\ step = "second"
  /\ \E r \in Registers(boards[at].second) : Available(r)
  /\ Touch({candev, candev - 1})
  /\ control' = Set(control, candev, 0)
  /\ Enter(2, "next")
  /\ UNCHANGED <<boards, reset, at, ret>>

(* "share the board control register with prev ch" *)
Second ==
  /\ step = "second" /\ candev <= MaxChannels
  /\ \E r \in Registers(boards[at].second) : Available(r)
  /\ Touch({candev, candev - 1})
  /\ \E prev \in IF candev - 1 \in Index THEN {control[candev - 1]} ELSE 0 .. Len(boards) :
       control' = Set(control, candev, prev)
  /\ Enter(2, "next")
  /\ UNCHANGED <<boards, reset, at, ret>>

Position == IF step = "first" THEN boards[at].first ELSE boards[at].second

(* No controller there: on to the second position or the next board. *)
Empty ==
  /\ step \in {"first", "second"} /\ \E r \in Registers(Position) : ~Available(r)
  /\ step' = IF step = "first" THEN "second" ELSE "next"
  /\ UNCHANGED <<boards, reset, at, candev, control, base, irq, outside, ret>>

(* "only %d devices supported" *)
TooMany ==
  /\ step \in {"first", "second"} /\ candev > MaxChannels
  /\ \E r \in Registers(Position) : Available(r)
  /\ step' = "done" /\ ret' = 0
  /\ UNCHANGED <<boards, reset, at, candev, control, base, irq, outside>>

ScanNext == Find \/ MapControl \/ Signature \/ ResetBoard \/ First \/ Second \/ Empty \/ TooMany

ScanSpec == ScanInit /\ [][ScanNext]_scanVars

-----------------------------------------------------------------------------
ScanTypeOK ==
  /\ boards \in Seq(Board) /\ at \in 0 .. Len(boards)
  /\ reset \subseteq (1 .. Len(boards)) \X {1, 2}
  /\ step \in {"next", "map", "sign", "reset", "first", "second", "done"}
  /\ candev \in 0 .. MaxChannels + 1
  /\ control \in [Index -> 0 .. Len(boards)] /\ irq \in [Index -> 0 .. Len(boards)]
  /\ base \in [Index -> {None} \cup ((1 .. Len(boards)) \X {1, 2})]
  /\ outside \subseteq Int /\ ret \in {-1, 0, 1}

Controller(b, p) == (IF p = 1 THEN boards[b].first ELSE boards[b].second) # "none"

(* The controllers the scan comes to: those of enabled boards before the   *)
(* first enabled one that is not of EMS.                                   *)
Reached(b) == /\ boards[b].enabled
              /\ \A a \in 1 .. b : boards[a].enabled => boards[a].signature

Present == {s \in (1 .. Len(boards)) \X {1, 2} : Reached(s[1]) /\ Controller(s[1], s[2])}

Crowded == Cardinality(Present) > MaxChannels

Found == {i \in Index : base[i] # None}

(* Each controller the scan comes to is one channel, in the order of the   *)
(* boards, whether it is fresh or was left in PeliCAN mode by a driver,    *)
(* and an empty position is none; up to the number of channels there is:   *)
(* with the values of the data sheet, not that of the comment at           *)
(* util.c:279.                                                             *)
OnePerController ==
  /\ \A i, j \in Found :
       i < j => base[i][1] < base[j][1] \/ (base[i][1] = base[j][1] /\ base[i][2] < base[j][2])
  /\ step = "done" /\ ~Crowded => {base[i] : i \in Found} = Present /\ candev = Cardinality(Present)

(* The control register, the interrupt and the base address of a channel   *)
(* belong to one board, and nothing beyond the tables is read or written,  *)
(* if the boards populate their first position first and the channels do   *)
(* not run out.                                                            *)
FirstFirst == \A b \in 1 .. Len(boards) : boards[b].second # "none" => boards[b].first # "none"

OwnBoard ==
  FirstFirst =>
    /\ \A i \in Found : irq[i] = base[i][1] /\ (i < candev => control[i] = base[i][1])
    /\ 2 * Len(boards) <= MaxChannels => outside = {}
=============================================================================
