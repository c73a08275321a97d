------------------------------ MODULE Settings ------------------------------
(***************************************************************************)
(* The settings of a channel: the entries Baud, AccCode, AccMask and Outc  *)
(* of /proc/sys/Can and the registers of the controller that are set from  *)
(* them, for one channel of a driver built for any board.                  *)
(*                                                                         *)
(* The process that has the channel open resets, stops, configures and     *)
(* starts it (can_ioctl, CAN_ChipReset).  At any time utils/cansetup may   *)
(* write a configuration file to the entries, one entry after the other,   *)
(* between any two steps of the process; it does not touch the registers.  *)
(*                                                                         *)
(* In operating mode the controller ignores writes to these registers.     *)
(* The interrupt handler, which may undo a reset request, is in            *)
(* ChipControl and not here.                                               *)
(***************************************************************************)
EXTENDS Integers

CONSTANTS
  Rates,    \* values of Baud that processes ask for
  Words,    \* values of AccCode and AccMask
  Modes,    \* values of Outc, 0 means the default
  OutcVal,  \* CAN_OUTC_VAL
  Files     \* configuration files for cansetup

ASSUME SettingsAssumption ==
  /\ Rates \subseteq Nat /\ Words # {} /\ 0 \in Modes /\ OutcVal \in Modes
  /\ Files \subseteq [baud : Nat, code : Words, mask : Words, outc : Modes]

VARIABLES
  sysclk,                  \* CAN_SYSCLK in MHz
  baud, code, mask, outc,  \* the entries for this channel
  operating, tim, acc, out,  \* the controller: mode, bit timing, filter, output control
  pc, then,                \* the step of a system call, and the call the filter is set for
  arg,                     \* the argument of CAN_SetTiming
  words, unread,           \* the arguments of CAN_SetMask, and those not read yet
  script, file,            \* where cansetup is, and its file
  given,                   \* history: the value given last for each setting
  stale,                   \* history: settings that were not read for a register since
  raced                    \* history: whether cansetup wrote Outc within a reset, see SetupOutc

entries  == <<baud, code, mask, outc>>
chip     == <<operating, tim, acc, out>>
history  == <<given, stale, raced>>
process  == <<pc, then, arg, words, unread>>
admin    == <<script, file>>
vars     == <<sysclk, entries, chip, process, admin, history>>

Defaults == [baud |-> 125, code |-> CHOOSE w \in Words : TRUE,
             mask |-> CHOOSE w \in Words : TRUE, outc |-> OutcVal]
NoWords  == [code |-> Defaults.code, mask |-> Defaults.mask]
Filter   == {"code", "mask"}

(* core_init, and the registers after power-on *)
Init ==
  /\ sysclk \in {8, 10}
  /\ baud = Defaults.baud /\ code = Defaults.code /\ mask = Defaults.mask /\ outc = Defaults.outc
  /\ operating = FALSE /\ tim = <<0, 0>> /\ acc = NoWords /\ out = 0
  /\ pc = "closed" /\ then = "none" /\ arg = 0 /\ words = NoWords /\ unread = Filter
  /\ script = "ended" /\ file = Defaults
  /\ given = Defaults /\ stale = {"tim", "code", "mask", "out"} /\ raced = "no"

-----------------------------------------------------------------------------
(* CAN_SetTiming *)

StandardRates == {10, 20, 50, 100, 125, 250, 500, 800, 1000}

CanTiming8 ==
  [r \in StandardRates |->
    CASE r = 10  -> <<49, 28>> [] r = 20  -> <<24, 28>> [] r = 50  -> <<9, 28>>
      [] r = 100 -> <<4, 28>>  [] r = 125 -> <<3, 28>>  [] r = 250 -> <<1, 28>>
      [] r = 500 -> <<0, 28>>  [] r = 800 -> <<0, 22>>  [] r = 1000 -> <<0, 20>>]

CanTiming10 ==
  [r \in StandardRates |->
    CASE r = 10  -> <<49, 47>> [] r = 20  -> <<24, 47>> [] r = 50  -> <<9, 47>>
      [] r = 100 -> <<4, 47>>  [] r = 125 -> <<4, 28>>  [] r = 250 -> <<1, 47>>
      [] r = 500 -> <<0, 47>>  [] r = 800 -> <<0, 22>>  [] r = 1000 -> <<0, 22>>]

(* Any other rate is taken for the contents of the two registers. *)
Timing(rate) ==
  IF rate \in StandardRates
  THEN IF sysclk = 8 THEN CanTiming8[rate] ELSE CanTiming10[rate]
  ELSE <<(rate \div 256) % 256, rate % 256>>

(* A write to a register, which the controller ignores in operating mode.  *)
Written(old, new) == IF operating THEN old ELSE new
Ignored(settings) == stale' = IF operating THEN stale \cup settings ELSE stale

(* The end of CONF_TIMING, and a step of CAN_ChipReset. *)
SetTiming ==
  /\ pc = "settiming"
  /\ tim' = Written(tim, Timing(arg)) /\ Ignored({"tim"})
  /\ arg' = 0 /\ pc' = IF then = "none" THEN "idle" ELSE "mask"
  /\ UNCHANGED <<sysclk, entries, operating, acc, out, then, words, unread, admin, given, raced>>

(* CAN_SetMask: its two arguments are read in any order, ... *)
ReadWord(w) ==
  /\ pc = "mask" /\ w \in unread
  /\ words' = [words EXCEPT ![w] = IF w = "code" THEN code ELSE mask]
  /\ unread' = unread \ {w} /\ stale' = stale \ {w}
  /\ UNCHANGED <<sysclk, entries, chip, pc, then, arg, admin, given, raced>>

(* ... then the registers are written: the end of a configuration of the   *)
(* filter and of CAN_ChipReset.  What a write in operating mode hits is in *)
(* ChipControl.                                                            *)
SetMask ==
  /\ pc = "mask" /\ unread = {}
  /\ acc' = Written(acc, words) /\ Ignored(Filter)
  /\ words' = NoWords /\ unread' = Filter
  /\ pc' = IF then = "open" THEN "start" ELSE "idle"
  /\ then' = "none"
  /\ UNCHANGED <<sysclk, entries, operating, tim, out, arg, admin, given, raced>>

-----------------------------------------------------------------------------
(* can_open and CMD_RESET: CAN_ChipReset requests the reset mode, ... *)

Request(call) ==
  /\ operating' = FALSE
  /\ pc' = "default" /\ then' = call
  /\ UNCHANGED <<sysclk, entries, tim, acc, out, arg, words, unread, admin, history>>

Open  == pc = "closed" /\ Request("open")
Reset == pc = "idle" /\ Request("reset")

Driven(v) == IF v = 0 THEN OutcVal ELSE v

(* Faulty variant: there is no default. *)
OutputAsIs ==
  /\ pc = "default"
  /\ pc' = "outc" /\ raced' = IF raced = "zero" THEN "no" ELSE raced
  /\ UNCHANGED <<sysclk, entries, chip, then, arg, words, unread, admin, given, stale>>

(* ... looks at the output control, ... *)
OutputTest ==
  /\ pc = "default"
  /\ pc' = IF outc = 0 THEN "assign" ELSE "outc"
  /\ raced' = IF raced = "zero" THEN "no" ELSE raced
  /\ UNCHANGED <<sysclk, entries, chip, then, arg, words, unread, admin, given, stale>>

(* ... puts the default of the board in place of a 0, ... *)
OutputDefault ==
  /\ pc = "assign"
  /\ outc' = OutcVal /\ pc' = "outc"
  /\ UNCHANGED <<sysclk, baud, code, mask, chip, then, arg, words, unread, admin, history>>

(* ... reads it again for the register, ... *)
OutputControl ==
  /\ pc = "outc"
  /\ out' = outc /\ stale' = stale \ {"out"}
  /\ pc' = "timing"
  /\ UNCHANGED <<sysclk, entries, operating, tim, acc, then, arg, words, unread, admin,
                 given, raced>>

(* ... and reads the rate; CAN_SetTiming and CAN_SetMask follow.           *)
ReadTiming ==
  /\ pc = "timing"
  /\ arg' = baud /\ stale' = stale \ {"tim"}
  /\ pc' = "settiming"
  /\ UNCHANGED <<sysclk, entries, chip, then, words, unread, admin, given, raced>>

(* CAN_StartChip, the end of can_open and CMD_START *)
Start ==
  /\ pc \in {"start", "idle"}
  /\ operating' = TRUE
  /\ pc' = "idle"
  /\ UNCHANGED <<sysclk, entries, tim, acc, out, then, arg, words, unread, admin, history>>

(* CAN_StopChip: CMD_STOP, and can_close *)
Stop(next) ==
  /\ pc = "idle"
  /\ operating' = FALSE
  /\ pc' = next
  /\ UNCHANGED <<sysclk, entries, tim, acc, out, then, arg, words, unread, admin, history>>

-----------------------------------------------------------------------------
(* can_Config *)

(* Faulty variant: the rate goes to the registers only. *)
ConfigTimingLost(rate) ==
  /\ pc = "idle"
  /\ arg' = rate /\ pc' = "settiming"
  /\ given' = [given EXCEPT !.baud = rate] /\ stale' = stale \ {"tim"}
  /\ UNCHANGED <<sysclk, entries, chip, then, words, unread, admin, raced>>

(* CONF_TIMING sets the entry, SetTiming the registers. *)
ConfigTiming(rate) ==
  /\ pc = "idle"
  /\ baud' = rate /\ arg' = rate /\ pc' = "settiming"
  /\ given' = [given EXCEPT !.baud = rate] /\ stale' = stale \ {"tim"}
  /\ UNCHANGED <<sysclk, code, mask, outc, chip, then, words, unread, admin, raced>>

(* CONF_ACC; and CONF_ACCC and CONF_ACCM, which leave one of the two. *)
ConfigAcc(c, m) ==
  /\ pc = "idle"
  /\ code' = c /\ mask' = m
  /\ given' = [given EXCEPT !.code = c, !.mask = m]
  /\ stale' = stale \cup Filter
  /\ pc' = "mask" /\ then' = "config"
  /\ UNCHANGED <<sysclk, baud, outc, chip, arg, words, unread, admin, raced>>

(* CONF_OMODE leaves the entry alone; 0 is as good as any value. *)
ConfigOMode(v) ==
  /\ pc = "idle"
  /\ out' = Written(out, v)
  /\ stale' = stale \cup {"out"}
  /\ UNCHANGED <<sysclk, entries, operating, tim, acc, process, admin, given, raced>>

-----------------------------------------------------------------------------
(* cansetup *)

Setup ==
  /\ script = "ended"
  /\ file' \in Files /\ script' = "Baud"
  /\ UNCHANGED <<sysclk, entries, chip, process, history>>

SetupBaud ==
  /\ script = "Baud"
  /\ baud' = file.baud /\ script' = "AccCode"
  /\ given' = [given EXCEPT !.baud = file.baud] /\ stale' = stale \cup {"tim"}
  /\ UNCHANGED <<sysclk, code, mask, outc, chip, process, file, raced>>

SetupCode ==
  /\ script = "AccCode"
  /\ code' = file.code /\ script' = "AccMask"
  /\ given' = [given EXCEPT !.code = file.code] /\ stale' = stale \cup {"code"}
  /\ UNCHANGED <<sysclk, baud, mask, outc, chip, process, file, raced>>

SetupMask ==
  /\ script = "AccMask"
  /\ mask' = file.mask /\ script' = "Outc"
  /\ given' = [given EXCEPT !.mask = file.mask] /\ stale' = stale \cup {"mask"}
  /\ UNCHANGED <<sysclk, baud, code, outc, chip, process, file, raced>>

(* A reset of the controller may be between its test and its assignment:   *)
(* then the value is overwritten ("lost"); or between them and the second  *)
(* read: then a 0 gets into the register ("zero").                         *)
SetupOutc ==
  /\ script = "Outc"
  /\ outc' = file.outc /\ script' = "ended" /\ file' = Defaults
  /\ given' = [given EXCEPT !.outc = file.outc] /\ stale' = stale \cup {"out"}
  /\ raced' = CASE pc = "assign" /\ file.outc # 0 -> "lost"
                [] pc = "outc" /\ file.outc = 0 -> "zero"
                [] OTHER -> "no"
  /\ UNCHANGED <<sysclk, baud, code, mask, chip, process>>

Process ==
  \/ Open \/ Reset \/ OutputTest \/ OutputDefault \/ OutputControl \/ ReadTiming
  \/ SetTiming \/ (\E w \in Filter : ReadWord(w)) \/ SetMask
  \/ Start \/ Stop("idle") \/ Stop("closed")
  \/ \E rate \in Rates : ConfigTiming(rate)
  \/ \E c, m \in Words : ConfigAcc(c, m)
  \/ \E v \in Modes : ConfigOMode(v)

Cansetup == Setup \/ SetupBaud \/ SetupCode \/ SetupMask \/ SetupOutc

Next == Process \/ Cansetup

Spec == Init /\ [][Next]_vars

-----------------------------------------------------------------------------
Setting == [baud : Nat, code : Words, mask : Words, outc : Modes]

TypeOK ==
  /\ sysclk \in {8, 10}
  /\ [baud |-> baud, code |-> code, mask |-> mask, outc |-> outc] \in Setting
  /\ operating \in BOOLEAN /\ tim \in (0..255) \X (0..255)
  /\ acc \in [Filter -> Words] /\ out \in Modes
  /\ pc \in {"closed", "default", "assign", "outc", "timing", "settiming", "mask", "start", "idle"}
  /\ then \in {"none", "open", "reset", "config"}
  /\ arg \in Nat /\ words \in [Filter -> Words] /\ unread \subseteq Filter
  /\ script \in {"ended", "Baud", "AccCode", "AccMask", "Outc"} /\ file \in Setting
  /\ given \in Setting /\ stale \subseteq {"tim", "code", "mask", "out"}
  /\ raced \in {"no", "lost", "zero"}

(* Bits per millisecond: a time quantum lasts (BRP + 1) / CAN_SYSCLK       *)
(* microseconds and a bit 3 + TSEG1 + TSEG2 of them.  The two factors are  *)
(* compared as a product, the division need not be exact.                  *)
Prescaler(t) == (t[1] % 64) + 1
Quanta(t)    == 3 + (t[2] % 16) + ((t[2] \div 16) % 8)
Runs(t, rate) == rate * Prescaler(t) * Quanta(t) = sysclk * 1000

(* The setting was read for a register after it was given, and no write   *)
(* to the register was ignored.                                            *)
InUse(setting) == operating /\ pc = "idle" /\ setting \notin stale

(* A channel in operation runs at the rate that was given last, by a       *)
(* process or by cansetup, if that is one of the driver's nine.  800       *)
(* kbit/s are "not configured" for 10 MHz (sja1000.h:379).                 *)
RateInUse ==
  (InUse("tim") /\ given.baud \in StandardRates /\ ~(sysclk = 10 /\ given.baud = 800)) =>
    Runs(tim, given.baud)

(* Every setting survives a stop, a reset and a close until another value  *)
(* is given, whatever cansetup writes in between, and a register for which *)
(* the setting was read since holds it.  The output control has two        *)
(* exceptions, and no other: what cansetup writes between the driver's     *)
(* test of Outc and its assignment (sja1000funcs.c:147-148) is lost, to    *)
(* this and to every later reset; a 0 it writes before the second read     *)
(* (sja1000funcs.c:150) is in the register until the next reset.           *)
SettingsKept ==
  /\ InUse("tim") => tim = Timing(given.baud)
  /\ \A w \in Filter : InUse(w) => acc[w] = given[w]
  /\ InUse("out") => out = CASE raced = "no" -> Driven(given.outc)
                             [] raced = "lost" -> OutcVal
                             [] raced = "zero" -> 0
=============================================================================
