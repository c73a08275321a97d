-------------------------- MODULE Registers_proofs --------------------------
(***************************************************************************)
(* Proofs about what the driver writes to registers and reads from them:   *)
(* the settings of a channel (Settings), the frames and the acceptance     *)
(* filter (SjaFrame), and the scan for controllers (PciScan).  The three   *)
(* have no state in common.                                                *)
(***************************************************************************)
EXTENDS Settings, SjaFrame, PciScan, FiniteSetTheorems, TLAPS

-----------------------------------------------------------------------------
(* Settings, for all rates, filter words, output modes and configuration   *)
(* files: an entry holds what was given last, a register that is not stale *)
(* what its entry holds, or what the process has read from it and is about *)
(* to write.                                                               *)

(* What a process that has looked at Outc loads. *)
Expected == CASE raced = "no" -> Driven(given.outc)
              [] raced = "lost" -> OutcVal
              [] raced = "zero" -> 0

(* The entries hold what was given last.  A 0 given for Outc may have been *)
(* replaced by the default, or is about to be; what cansetup wrote before  *)
(* the assignment is.                                                      *)
EntriesGiven ==
  /\ given.baud = baud /\ given.code = code /\ given.mask = mask
  /\ raced = "no" => outc = given.outc \/ outc = Driven(given.outc)
  /\ raced = "lost" /\ pc # "assign" => outc = OutcVal
  /\ raced = "zero" => outc = 0 /\ given.outc = 0
  /\ pc = "assign" => raced # "zero" /\ (raced = "no" => given.outc = 0)
  /\ pc = "outc" => outc = Expected

(* What is not stale is in its register, or on its way there. *)
RegistersSet ==
  /\ pc # "mask" => unread = Filter
  /\ "tim" \notin stale => IF pc = "settiming" THEN arg = baud ELSE tim = Timing(baud)
  /\ \A w \in Filter : w \notin stale =>
       IF w \notin unread THEN words[w] = given[w] ELSE acc[w] = given[w]
  /\ "out" \notin stale /\ pc \notin {"assign", "outc"} => out = Expected

IInv == TypeOK /\ EntriesGiven /\ RegistersSet

-----------------------------------------------------------------------------
(* What goes into the bit timing registers are two bytes. *)
LEMMA TimingBytes ==
  ASSUME NEW rate \in Nat
  PROVE  Timing(rate) \in (0..255) \X (0..255)
<1>1. /\ (rate \div 256) % 256 \in 0..255
      /\ rate % 256 \in 0..255
  OBVIOUS
<1>2. ASSUME rate \in StandardRates
      PROVE  CanTiming8[rate] \in (0..255) \X (0..255)
  BY <1>2 DEF StandardRates, CanTiming8
<1>3. ASSUME rate \in StandardRates
      PROVE  CanTiming10[rate] \in (0..255) \X (0..255)
  BY <1>3 DEF StandardRates, CanTiming10
<1> QED BY <1>1, <1>2, <1>3 DEF Timing

(* The defaults are settings. *)
LEMMA DefaultsType ==
  /\ Defaults \in Setting
  /\ Defaults.baud \in Nat /\ Defaults.code \in Words /\ Defaults.mask \in Words
  /\ Defaults.outc = OutcVal
<1> (CHOOSE w \in Words : TRUE) \in Words
  BY SettingsAssumption
<1> QED BY SettingsAssumption DEF Defaults, Setting

(* The entries begin with what was given. *)
LEMMA InitIInv == Init => IInv
<1> SUFFICES ASSUME Init PROVE IInv
  OBVIOUS
<1> USE SettingsAssumption
<1>2. TypeOK
  <2>1. /\ [baud |-> baud, code |-> code, mask |-> mask, outc |-> outc] \in Setting
        /\ file \in Setting /\ given \in Setting
    BY DefaultsType DEF Init, Setting
  <2>2. NoWords \in [Filter -> Words]
    BY DefaultsType DEF NoWords, Filter
  <2>3. tim \in (0..255) \X (0..255) /\ acc \in [Filter -> Words] /\ out \in Modes
    BY <2>2 DEF Init
  <2> QED BY <2>1, <2>2, <2>3 DEF Init, TypeOK
<1>3. EntriesGiven
  BY DEF Init, EntriesGiven, Defaults
<1>4. RegistersSet
  BY DEF Init, RegistersSet, Filter
<1> QED BY <1>2, <1>3, <1>4 DEF IInv

(* Every step keeps the types. *)
LEMMA TypeNext == TypeOK /\ [Next]_vars => TypeOK'
<1> SUFFICES ASSUME TypeOK, [Next]_vars PROVE TypeOK'
  OBVIOUS
<1> USE SettingsAssumption DEF TypeOK, Setting, entries, chip, history, process, admin
<1>1. CASE Open
  BY <1>1 DEF Open, Request
<1>2. CASE Reset
  BY <1>2 DEF Reset, Request
<1>3. CASE OutputTest
  BY <1>3 DEF OutputTest
<1>4. CASE OutputDefault
  BY <1>4 DEF OutputDefault
<1>5. CASE OutputControl
  BY <1>5 DEF OutputControl
<1>6. CASE ReadTiming
  BY <1>6 DEF ReadTiming
<1>7. CASE SetTiming
  BY <1>7, TimingBytes DEF SetTiming, Written, Ignored
<1>8. CASE \E w \in Filter : ReadWord(w)
  <2>1. PICK w \in Filter : ReadWord(w)
    BY <1>8
  <2>2. words' \in [Filter -> Words]
    BY <2>1 DEF ReadWord, Filter
  <2>3. unread' \subseteq Filter /\ stale' \subseteq {"tim", "code", "mask", "out"}
    BY <2>1 DEF ReadWord
  <2> QED BY <2>1, <2>2, <2>3 DEF ReadWord
<1>9. CASE SetMask
  <2>1. NoWords \in [Filter -> Words]
    BY DefaultsType DEF NoWords, Filter
  <2>2. acc' \in [Filter -> Words] /\ stale' \subseteq {"tim", "code", "mask", "out"}
    BY <1>9 DEF SetMask, Written, Ignored, Filter
  <2> QED BY <1>9, <2>1, <2>2 DEF SetMask
<1>10. CASE Start
  BY <1>10 DEF Start
<1>11. CASE Stop("idle")
  BY <1>11 DEF Stop
<1>12. CASE Stop("closed")
  BY <1>12 DEF Stop
<1>13. CASE \E rate \in Rates : ConfigTiming(rate)
  BY <1>13 DEF ConfigTiming
<1>14. CASE \E c, m \in Words : ConfigAcc(c, m)
  <2>1. PICK c \in Words, m \in Words : ConfigAcc(c, m)
    BY <1>14
  <2>2. given' \in Setting /\ stale' \subseteq {"tim", "code", "mask", "out"}
    BY <2>1 DEF ConfigAcc, Filter
  <2> QED BY <2>1, <2>2 DEF ConfigAcc
<1>15. CASE \E v \in Modes : ConfigOMode(v)
  BY <1>15 DEF ConfigOMode, Written
<1>16. CASE Setup
  BY <1>16 DEF Setup
<1>17. CASE SetupBaud
  BY <1>17 DEF SetupBaud
<1>18. CASE SetupCode
  BY <1>18 DEF SetupCode
<1>19. CASE SetupMask
  BY <1>19 DEF SetupMask
<1>20. CASE SetupOutc
  <2>1. file.outc \in Modes /\ raced' \in {"no", "lost", "zero"}
    BY <1>20 DEF SetupOutc
  <2>2. given' \in Setting /\ stale' \subseteq {"tim", "code", "mask", "out"}
    BY <1>20, <2>1 DEF SetupOutc
  <2> QED BY <1>20, <2>1, <2>2, DefaultsType DEF SetupOutc
<1>21. CASE UNCHANGED vars
  BY <1>21 DEF vars
<1> QED
  BY <1>1, <1>2, <1>3, <1>4, <1>5, <1>6, <1>7, <1>8, <1>9, <1>10, <1>11, <1>12,
     <1>13, <1>14, <1>15, <1>16, <1>17, <1>18, <1>19, <1>20, <1>21
     DEF Next, Process, Cansetup

(* Every step that writes an entry is remembered. *)
LEMMA EntriesNext == TypeOK /\ EntriesGiven /\ [Next]_vars => EntriesGiven'
<1> SUFFICES ASSUME TypeOK, EntriesGiven, [Next]_vars PROVE EntriesGiven'
  OBVIOUS
<1> USE SettingsAssumption
    DEF TypeOK, Setting, EntriesGiven, Expected, Driven, entries, chip, history, process, admin
<1>1. CASE Open
  BY <1>1 DEF Open, Request
<1>2. CASE Reset
  BY <1>2 DEF Reset, Request
<1>3. CASE OutputTest
  <2>1. /\ UNCHANGED <<baud, code, mask, outc, given>>
        /\ pc' = IF outc = 0 THEN "assign" ELSE "outc"
        /\ raced' = IF raced = "zero" THEN "no" ELSE raced
        /\ pc = "default"
    BY <1>3 DEF OutputTest
  <2>2. CASE outc = 0
    BY <2>1, <2>2
  <2>3. CASE outc # 0
    BY <2>1, <2>3
  <2> QED BY <2>2, <2>3
<1>4. CASE OutputDefault
  BY <1>4 DEF OutputDefault
<1>5. CASE OutputControl
  BY <1>5 DEF OutputControl
<1>6. CASE ReadTiming
  BY <1>6 DEF ReadTiming
<1>7. CASE SetTiming
  BY <1>7 DEF SetTiming, Written, Ignored
<1>8. CASE \E w \in Filter : ReadWord(w)
  BY <1>8 DEF ReadWord
<1>9. CASE SetMask
  BY <1>9 DEF SetMask, Written, Ignored
<1>10. CASE Start
  BY <1>10 DEF Start
<1>11. CASE Stop("idle")
  BY <1>11 DEF Stop
<1>12. CASE Stop("closed")
  BY <1>12 DEF Stop
<1>13. CASE \E rate \in Rates : ConfigTiming(rate)
  BY <1>13 DEF ConfigTiming
<1>14. CASE \E c, m \in Words : ConfigAcc(c, m)
  BY <1>14 DEF ConfigAcc
<1>15. CASE \E v \in Modes : ConfigOMode(v)
  BY <1>15 DEF ConfigOMode, Written
<1>16. CASE Setup
  BY <1>16 DEF Setup
<1>17. CASE SetupBaud
  BY <1>17 DEF SetupBaud
<1>18. CASE SetupCode
  BY <1>18 DEF SetupCode
<1>19. CASE SetupMask
  BY <1>19 DEF SetupMask
<1>20. CASE SetupOutc
  BY <1>20 DEF SetupOutc
<1>21. CASE UNCHANGED vars
  BY <1>21 DEF vars
<1> QED
  BY <1>1, <1>2, <1>3, <1>4, <1>5, <1>6, <1>7, <1>8, <1>9, <1>10, <1>11, <1>12,
     <1>13, <1>14, <1>15, <1>16, <1>17, <1>18, <1>19, <1>20, <1>21
     DEF Next, Process, Cansetup

(* A register that is set is set from its entry. *)
LEMMA RegistersNext == IInv /\ [Next]_vars => RegistersSet'
<1> SUFFICES ASSUME IInv, [Next]_vars PROVE RegistersSet'
  OBVIOUS
<1> USE SettingsAssumption
    DEF IInv, TypeOK, Setting, EntriesGiven, RegistersSet, Expected, Driven, Timing, Filter,
        entries, chip, history, process, admin
<1>1. CASE Open
  BY <1>1 DEF Open, Request
<1>2. CASE Reset
  BY <1>2 DEF Reset, Request
<1>3. CASE OutputTest
  BY <1>3 DEF OutputTest
<1>4. CASE OutputDefault
  BY <1>4 DEF OutputDefault
<1>5. CASE OutputControl
  BY <1>5 DEF OutputControl
<1>6. CASE ReadTiming
  BY <1>6 DEF ReadTiming
<1>7. CASE SetTiming
  BY <1>7 DEF SetTiming, Written, Ignored
<1>8. CASE \E w \in Filter : ReadWord(w)
  BY <1>8 DEF ReadWord
<1>9. CASE SetMask
  BY <1>9 DEF SetMask, Written, Ignored
<1>10. CASE Start
  BY <1>10 DEF Start
<1>11. CASE Stop("idle")
  BY <1>11 DEF Stop
<1>12. CASE Stop("closed")
  BY <1>12 DEF Stop
<1>13. CASE \E rate \in Rates : ConfigTiming(rate)
  BY <1>13 DEF ConfigTiming
<1>14. CASE \E c, m \in Words : ConfigAcc(c, m)
  BY <1>14 DEF ConfigAcc
<1>15. CASE \E v \in Modes : ConfigOMode(v)
  BY <1>15 DEF ConfigOMode, Written
<1>16. CASE Setup
  BY <1>16 DEF Setup
<1>17. CASE SetupBaud
  BY <1>17 DEF SetupBaud
<1>18. CASE SetupCode
  BY <1>18 DEF SetupCode
<1>19. CASE SetupMask
  BY <1>19 DEF SetupMask
<1>20. CASE SetupOutc
  BY <1>20 DEF SetupOutc
<1>21. CASE UNCHANGED vars
  BY <1>21 DEF vars
<1> QED
  BY <1>1, <1>2, <1>3, <1>4, <1>5, <1>6, <1>7, <1>8, <1>9, <1>10, <1>11, <1>12,
     <1>13, <1>14, <1>15, <1>16, <1>17, <1>18, <1>19, <1>20, <1>21
     DEF Next, Process, Cansetup

-----------------------------------------------------------------------------
(* The invariant of the settings holds always. *)
LEMMA Inductive == Spec => []IInv
<1>1. IInv /\ [Next]_vars => IInv'
  BY TypeNext, EntriesNext, RegistersNext DEF IInv
<1> QED BY InitIInv, <1>1, PTL DEF Spec

(* Every variable keeps its type; the timing registers get bytes, whatever *)
(* number a process asks for.                                              *)
THEOREM TypeCorrect == Spec => []TypeOK
<1>1. IInv => TypeOK
  BY DEF IInv
<1> QED BY Inductive, <1>1, PTL

(* What was given last to the entries or by CONFIG is in effect in every   *)
(* register for which it was read since (can_Config, CAN_ChipReset), for   *)
(* every interleaving of cansetup with the steps of the system calls, but  *)
(* for the two named ones between the test of Outc and its second read.    *)
THEOREM KeepsSettings == Spec => []SettingsKept
<1>1. IInv => SettingsKept
  <2> SUFFICES ASSUME IInv PROVE SettingsKept
    OBVIOUS
  <2> USE DEF InUse
  <2>1. InUse("tim") => tim = Timing(given.baud)
    BY DEF IInv, EntriesGiven, RegistersSet
  <2>2. ASSUME NEW w \in Filter, InUse(w) PROVE acc[w] = given[w]
    BY <2>2 DEF IInv, RegistersSet
  <2>3. InUse("out") => out = Expected
    BY DEF IInv, RegistersSet
  <2> QED BY <2>1, <2>2, <2>3 DEF SettingsKept, Expected
<1> QED BY Inductive, <1>1, PTL

-----------------------------------------------------------------------------
(* The entries of the two tables, ...                                      *)
LEMMA Table8 ==
  /\ CanTiming8[10] = <<49, 28>>
  /\ CanTiming8[20] = <<24, 28>>
  /\ CanTiming8[50] = <<9, 28>>
  /\ CanTiming8[100] = <<4, 28>>
  /\ CanTiming8[125] = <<3, 28>>
  /\ CanTiming8[250] = <<1, 28>>
  /\ CanTiming8[500] = <<0, 28>>
  /\ CanTiming8[800] = <<0, 22>>
  /\ CanTiming8[1000] = <<0, 20>>
BY DEF CanTiming8, StandardRates

(* ... for 8 MHz and for 10 MHz. *)
LEMMA Table10 ==
  /\ CanTiming10[10] = <<49, 47>>
  /\ CanTiming10[20] = <<24, 47>>
  /\ CanTiming10[50] = <<9, 47>>
  /\ CanTiming10[100] = <<4, 47>>
  /\ CanTiming10[125] = <<4, 28>>
  /\ CanTiming10[250] = <<1, 47>>
  /\ CanTiming10[500] = <<0, 47>>
  /\ CanTiming10[1000] = <<0, 22>>
BY DEF CanTiming10, StandardRates

(* ... each of which makes the controller run at its rate, but for 800     *)
(* kbit/s at 10 MHz.                                                       *)
LEMMA TimingRuns ==
  ASSUME sysclk \in {8, 10}, NEW rate \in StandardRates, ~(sysclk = 10 /\ rate = 800)
  PROVE  Runs(Timing(rate), rate)
<1>1. CASE sysclk = 8
  <2>1. CASE rate = 10
    <3>1. Timing(rate) = <<49, 28>>
      BY <1>1, <2>1, Table8 DEF Timing
    <3>2. Prescaler(<<49, 28>>) = 50 /\ Quanta(<<49, 28>>) = 16
      BY DEF Prescaler, Quanta
    <3> QED BY <1>1, <2>1, <3>1, <3>2 DEF Runs
  <2>2. CASE rate = 20
    <3>1. Timing(rate) = <<24, 28>>
      BY <1>1, <2>2, Table8 DEF Timing
    <3>2. Prescaler(<<24, 28>>) = 25 /\ Quanta(<<24, 28>>) = 16
      BY DEF Prescaler, Quanta
    <3> QED BY <1>1, <2>2, <3>1, <3>2 DEF Runs
  <2>3. CASE rate = 50
    <3>1. Timing(rate) = <<9, 28>>
      BY <1>1, <2>3, Table8 DEF Timing
    <3>2. Prescaler(<<9, 28>>) = 10 /\ Quanta(<<9, 28>>) = 16
      BY DEF Prescaler, Quanta
    <3> QED BY <1>1, <2>3, <3>1, <3>2 DEF Runs
  <2>4. CASE rate = 100
    <3>1. Timing(rate) = <<4, 28>>
      BY <1>1, <2>4, Table8 DEF Timing
    <3>2. Prescaler(<<4, 28>>) = 5 /\ Quanta(<<4, 28>>) = 16
      BY DEF Prescaler, Quanta
    <3> QED BY <1>1, <2>4, <3>1, <3>2 DEF Runs
  <2>5. CASE rate = 125
    <3>1. Timing(rate) = <<3, 28>>
      BY <1>1, <2>5, Table8 DEF Timing
    <3>2. Prescaler(<<3, 28>>) = 4 /\ Quanta(<<3, 28>>) = 16
      BY DEF Prescaler, Quanta
    <3> QED BY <1>1, <2>5, <3>1, <3>2 DEF Runs
  <2>6. CASE rate = 250
    <3>1. Timing(rate) = <<1, 28>>
      BY <1>1, <2>6, Table8 DEF Timing
    <3>2. Prescaler(<<1, 28>>) = 2 /\ Quanta(<<1, 28>>) = 16
      BY DEF Prescaler, Quanta
    <3> QED BY <1>1, <2>6, <3>1, <3>2 DEF Runs
  <2>7. CASE rate = 500
    <3>1. Timing(rate) = <<0, 28>>
      BY <1>1, <2>7, Table8 DEF Timing
    <3>2. Prescaler(<<0, 28>>) = 1 /\ Quanta(<<0, 28>>) = 16
      BY DEF Prescaler, Quanta
    <3> QED BY <1>1, <2>7, <3>1, <3>2 DEF Runs
  <2>8. CASE rate = 800
    <3>1. Timing(rate) = <<0, 22>>
      BY <1>1, <2>8, Table8 DEF Timing
    <3>2. Prescaler(<<0, 22>>) = 1 /\ Quanta(<<0, 22>>) = 10
      BY DEF Prescaler, Quanta
    <3> QED BY <1>1, <2>8, <3>1, <3>2 DEF Runs
  <2>9. CASE rate = 1000
    <3>1. Timing(rate) = <<0, 20>>
      BY <1>1, <2>9, Table8 DEF Timing
    <3>2. Prescaler(<<0, 20>>) = 1 /\ Quanta(<<0, 20>>) = 8
      BY DEF Prescaler, Quanta
    <3> QED BY <1>1, <2>9, <3>1, <3>2 DEF Runs
  <2> QED BY <1>1, <2>1, <2>2, <2>3, <2>4, <2>5, <2>6, <2>7, <2>8, <2>9 DEF StandardRates
<1>2. CASE sysclk = 10
  <2>1. CASE rate = 10
    <3>1. Timing(rate) = <<49, 47>>
      BY <1>2, <2>1, Table10 DEF Timing
    <3>2. Prescaler(<<49, 47>>) = 50 /\ Quanta(<<49, 47>>) = 20
      BY DEF Prescaler, Quanta
    <3> QED BY <1>2, <2>1, <3>1, <3>2 DEF Runs
  <2>2. CASE rate = 20
    <3>1. Timing(rate) = <<24, 47>>
      BY <1>2, <2>2, Table10 DEF Timing
    <3>2. Prescaler(<<24, 47>>) = 25 /\ Quanta(<<24, 47>>) = 20
      BY DEF Prescaler, Quanta
    <3> QED BY <1>2, <2>2, <3>1, <3>2 DEF Runs
  <2>3. CASE rate = 50
    <3>1. Timing(rate) = <<9, 47>>
      BY <1>2, <2>3, Table10 DEF Timing
    <3>2. Prescaler(<<9, 47>>) = 10 /\ Quanta(<<9, 47>>) = 20
      BY DEF Prescaler, Quanta
    <3> QED BY <1>2, <2>3, <3>1, <3>2 DEF Runs
  <2>4. CASE rate = 100
    <3>1. Timing(rate) = <<4, 47>>
      BY <1>2, <2>4, Table10 DEF Timing
    <3>2. Prescaler(<<4, 47>>) = 5 /\ Quanta(<<4, 47>>) = 20
      BY DEF Prescaler, Quanta
    <3> QED BY <1>2, <2>4, <3>1, <3>2 DEF Runs
  <2>5. CASE rate = 125
    <3>1. Timing(rate) = <<4, 28>>
      BY <1>2, <2>5, Table10 DEF Timing
    <3>2. Prescaler(<<4, 28>>) = 5 /\ Quanta(<<4, 28>>) = 16
      BY DEF Prescaler, Quanta
    <3> QED BY <1>2, <2>5, <3>1, <3>2 DEF Runs
  <2>6. CASE rate = 250
    <3>1. Timing(rate) = <<1, 47>>
      BY <1>2, <2>6, Table10 DEF Timing
    <3>2. Prescaler(<<1, 47>>) = 2 /\ Quanta(<<1, 47>>) = 20
      BY DEF Prescaler, Quanta
    <3> QED BY <1>2, <2>6, <3>1, <3>2 DEF Runs
  <2>7. CASE rate = 500
    <3>1. Timing(rate) = <<0, 47>>
      BY <1>2, <2>7, Table10 DEF Timing
    <3>2. Prescaler(<<0, 47>>) = 1 /\ Quanta(<<0, 47>>) = 20
      BY DEF Prescaler, Quanta
    <3> QED BY <1>2, <2>7, <3>1, <3>2 DEF Runs
  <2>8. CASE rate = 1000
    <3>1. Timing(rate) = <<0, 22>>
      BY <1>2, <2>8, Table10 DEF Timing
    <3>2. Prescaler(<<0, 22>>) = 1 /\ Quanta(<<0, 22>>) = 10
      BY DEF Prescaler, Quanta
    <3> QED BY <1>2, <2>8, <3>1, <3>2 DEF Runs
  <2> QED BY <1>2, <2>1, <2>2, <2>3, <2>4, <2>5, <2>6, <2>7, <2>8 DEF StandardRates
<1> QED BY <1>1, <1>2

(* A channel in operation runs at the standard rate given last             *)
(* (CAN_SetTiming), whoever gave it (RateInUse).                           *)
THEOREM RunsAtRate == Spec => []RateInUse
<1>1. IInv => RateInUse
  <2> SUFFICES ASSUME IInv, InUse("tim"), given.baud \in StandardRates,
                      ~(sysclk = 10 /\ given.baud = 800)
               PROVE  Runs(tim, given.baud)
    BY DEF RateInUse
  <2>1. tim = Timing(given.baud) /\ sysclk \in {8, 10}
    BY DEF IInv, TypeOK, EntriesGiven, RegistersSet, InUse
  <2> QED BY <2>1, TimingRuns
<1> QED BY Inductive, <1>1, PTL

-----------------------------------------------------------------------------
(* PciScan, for any boards plugged in and any number of channels: the      *)
(* channels are the controllers the scan has passed (Seen), counted even   *)
(* beyond the end of the tables.                                           *)

(* The scan has passed position p of board b. *)
Passed(b, p) == b < at \/ (b = at /\ (step = "next" \/ (step = "second" /\ p = 1)))

(* The controllers it has come to. *)
Seen == {s \in Present : Passed(s[1], s[2])}

(* One board or one position before the other. *)
Before(s, t) == s[1] < t[1] \/ (s[1] = t[1] /\ s[2] < t[2])

(* The channels are the entries below candev, in the order of the scan. *)
Entered ==
  /\ \A i \in Index : base[i] # None <=> i < candev
  /\ \A i, j \in Found : i < j => Before(base[i], base[j])

(* Every board so far is one of EMS, but for the one being looked at. *)
Clean ==
  /\ step \notin {"next", "done"} => at \in 1 .. Len(boards) /\ boards[at].enabled
  /\ step # "done" => \A a \in 1 .. at :
       boards[a].enabled => boards[a].signature \/ (a = at /\ step \in {"map", "sign"})

(* What was seen was counted and, while there is room, entered. *)
CountedSeen ==
  step # "done" =>
    /\ \A i \in Found : base[i] \in Seen
    /\ candev = Cardinality(Seen)
    /\ candev <= MaxChannels => Seen \subseteq {base[i] : i \in Found}

(* The scan ends when all was seen, or when there is no more room. *)
Complete ==
  step = "done" => Crowded \/ ({base[i] : i \in Found} = Present /\ candev = Cardinality(Present))

(* The board of a channel, and of the channel that may come next. *)
Owned ==
  /\ \A i \in Found : irq[i] = base[i][1] /\ (FirstFirst => control[i] = base[i][1])
  /\ step \in {"sign", "reset", "first"} /\ candev \in Index => control[candev] = at
  /\ step = "second" /\ boards[at].first # "none" =>
       candev >= 1 /\ (candev - 1 \in Index => control[candev - 1] = at)

(* There are at most two channels for each board. *)
Room ==
  /\ step \in {"map", "sign", "reset", "first"} => candev <= 2 * at - 2
  /\ step = "second" => candev <= 2 * at - 1
  /\ step = "next" => candev <= 2 * at
  /\ FirstFirst /\ 2 * Len(boards) <= MaxChannels => outside = {}

ScanInv == ScanTypeOK /\ Entered /\ Clean /\ CountedSeen /\ Complete /\ Owned /\ Room

-----------------------------------------------------------------------------
(* At first nothing has been seen. *)
LEMMA ScanStarts == ScanInit => ScanInv
<1> SUFFICES ASSUME ScanInit PROVE ScanInv
  OBVIOUS
<1> USE ScanAssumption DEF ScanInit
<1>1. ScanTypeOK
  BY DEF ScanTypeOK, Index
<1>2. Found = {}
  BY DEF Found
<1>3. Seen = {}
  BY <1>1 DEF Seen, Passed, Present, ScanTypeOK
<1> QED
  BY <1>1, <1>2, <1>3, FS_EmptySet
     DEF ScanInv, Entered, Clean, CountedSeen, Complete, Owned, Room, Index

(* What the scan sees of a board is one of the three kinds. *)
LEMMA BoardKnown ==
  ASSUME ScanTypeOK, NEW b \in 1 .. Len(boards)
  PROVE  /\ boards[b].enabled \in BOOLEAN /\ boards[b].signature \in BOOLEAN
         /\ boards[b].first \in {"none", "basic", "peli"}
         /\ boards[b].second \in {"none", "basic", "peli"}
<1>1. boards[b] \in Board
  BY DEF ScanTypeOK
<1> QED BY <1>1 DEF Board

(* controller_available tells a controller from an empty position, be it   *)
(* fresh or used, if its registers have the values of the data sheet.      *)
LEMMA AvailableIsThere ==
  ASSUME NEW kind \in {"none", "basic", "peli"}, NEW r \in Registers(kind)
  PROVE  Available(r) <=> kind # "none"
<1>1. CASE kind = "none"
  <2>1. r.mode = Byte /\ r.cmd = Byte
    BY <1>1 DEF Registers
  <2>2. Byte # {0, 5} /\ Byte # {}
    <3>1. 1 \in Byte /\ 1 \notin {0, 5}
      BY DEF Byte
    <3> QED BY <3>1
  <2> QED BY <1>1, <2>1, <2>2 DEF Available
<1>2. CASE kind = "basic"
  BY <1>2 DEF Registers, Available, Fresh
<1>3. CASE kind = "peli"
  <2>1. /\ r.mode = {0} /\ r.cmd = {} /\ r.int \in {{}, {2}}
        /\ r.stat \in {{2, 4, 5} \cup s : s \in SUBSET {3, 6, 7}}
    BY <1>3 DEF Registers
  <2>2. {0} # {0, 5}
    OBVIOUS
  <2>3. r.stat \ {3, 6, 7} = {2, 4, 5}
    <3>1. PICK s \in SUBSET {3, 6, 7} : r.stat = {2, 4, 5} \cup s
      BY <2>1
    <3>2. {2, 4, 5} \cap {3, 6, 7} = {}
      OBVIOUS
    <3> QED BY <3>1, <3>2
  <2>4. r.int \ {2} = {}
    BY <2>1
  <2> QED BY <1>3, <2>1, <2>2, <2>3, <2>4 DEF Available
<1> QED BY <1>1, <1>2, <1>3

(* There are finitely many controllers. *)
LEMMA PresentIsFinite ==
  ASSUME ScanTypeOK
  PROVE  /\ IsFiniteSet(Present) /\ IsFiniteSet(Seen) /\ Seen \subseteq Present
         /\ Cardinality(Present) \in Nat /\ Cardinality(Seen) \in Nat
         /\ Cardinality(Seen) <= Cardinality(Present)
<1>1. Len(boards) \in Nat
  BY DEF ScanTypeOK
<1>2. IsFiniteSet(1 .. Len(boards)) /\ IsFiniteSet({1, 2})
  <2>1. 1 \in Int /\ 2 \in Int /\ Len(boards) \in Int
    BY <1>1
  <2>2. IsFiniteSet(1 .. Len(boards)) /\ IsFiniteSet(1 .. 2)
    BY <2>1, FS_Interval, Zenon
  <2>3. 1 .. 2 = {1, 2}
    OBVIOUS
  <2> QED BY <2>2, <2>3
<1>3. IsFiniteSet((1 .. Len(boards)) \X {1, 2})
  BY <1>2, FS_Product
<1>4. Present \in SUBSET ((1 .. Len(boards)) \X {1, 2}) /\ Seen \in SUBSET Present
  BY DEF Present, Seen
<1>5. IsFiniteSet(Present)
  BY <1>3, <1>4, FS_Subset
<1>6. IsFiniteSet(Seen) /\ Cardinality(Seen) <= Cardinality(Present)
  BY <1>4, <1>5, FS_Subset
<1> QED BY <1>4, <1>5, <1>6, FS_CardinalityType

-----------------------------------------------------------------------------
(* Types *)

(* Every step keeps the types. *)
LEMMA ScanTypes ==
  ASSUME ScanTypeOK, Clean, [ScanNext]_scanVars
  PROVE  ScanTypeOK'
<1> USE ScanAssumption DEF ScanTypeOK, Index
<1>1. CASE Find
  <2>1. at' \in 0 .. Len(boards) /\ step' \in {"done", "map", "next"} /\ ret' \in {-1, 0, 1}
    BY <1>1 DEF Find
  <2> QED BY <1>1, <2>1 DEF Find
<1>2. CASE MapControl
  <2>1. control' \in [Index -> 0 .. Len(boards)]
    BY <1>2 DEF MapControl, Set
  <2>2. outside' \subseteq Int
    BY <1>2 DEF MapControl, Touch
  <2> QED BY <1>2, <2>1, <2>2 DEF MapControl
<1>3. CASE Signature
  BY <1>3 DEF Signature
<1>4. CASE ResetBoard
  <2>1. at \in 1 .. Len(boards)
    BY <1>4 DEF ResetBoard, Clean
  <2> QED BY <1>4, <2>1 DEF ResetBoard, Touch
<1>5. CASE First
  <2>1. at \in 1 .. Len(boards)
    BY <1>5 DEF First, Clean
  <2>2. base' \in [Index -> {None} \cup ((1 .. Len(boards)) \X {1, 2})]
    BY <1>5, <2>1 DEF First, Enter, Set
  <2>3. irq' \in [Index -> 0 .. Len(boards)]
    BY <1>5, <2>1 DEF First, Enter, Set
  <2>4. candev' \in 0 .. MaxChannels + 1 /\ step' = "second"
    BY <1>5 DEF First, Enter
  <2>5. outside' \subseteq Int
    BY <1>5 DEF First, Touch
  <2> QED BY <1>5, <2>2, <2>3, <2>4, <2>5 DEF First
<1>6. CASE Second
  <2>1. at \in 1 .. Len(boards)
    BY <1>6 DEF Second, Clean
  <2>2. base' \in [Index -> {None} \cup ((1 .. Len(boards)) \X {1, 2})]
    BY <1>6, <2>1 DEF Second, Enter, Set
  <2>3. irq' \in [Index -> 0 .. Len(boards)]
    BY <1>6, <2>1 DEF Second, Enter, Set
  <2>4. PICK prev \in IF candev - 1 \in Index THEN {control[candev - 1]} ELSE 0 .. Len(boards) :
          control' = Set(control, candev, prev)
    BY <1>6 DEF Second
  <2>5. prev \in 0 .. Len(boards)
    BY <2>4
  <2>6. control' \in [Index -> 0 .. Len(boards)]
    BY <2>4, <2>5 DEF Set
  <2>7. candev' \in 0 .. MaxChannels + 1 /\ step' = "next"
    BY <1>6 DEF Second, Enter
  <2>8. outside' \subseteq Int
    BY <1>6 DEF Second, Touch
  <2> QED BY <1>6, <2>2, <2>3, <2>6, <2>7, <2>8 DEF Second
<1>7. CASE Empty
  BY <1>7 DEF Empty
<1>8. CASE TooMany
  BY <1>8 DEF TooMany
<1>9. CASE UNCHANGED scanVars
  BY <1>9 DEF scanVars
<1> QED BY <1>1, <1>2, <1>3, <1>4, <1>5, <1>6, <1>7, <1>8, <1>9 DEF ScanNext

(* Only boards of EMS are passed. *)
LEMMA ScanClean ==
  ASSUME ScanTypeOK, Clean, [ScanNext]_scanVars
  PROVE  Clean'
<1> USE DEF Clean, ScanTypeOK
<1>1. CASE Find
  BY <1>1, BoardKnown DEF Find
<1>2. CASE MapControl
  BY <1>2 DEF MapControl
<1>3. CASE Signature
  BY <1>3 DEF Signature
<1>4. CASE ResetBoard
  BY <1>4 DEF ResetBoard
<1>5. CASE First
  BY <1>5 DEF First, Enter
<1>6. CASE Second
  BY <1>6 DEF Second, Enter
<1>7. CASE Empty
  BY <1>7 DEF Empty
<1>8. CASE TooMany
  BY <1>8 DEF TooMany
<1>9. CASE UNCHANGED scanVars
  BY <1>9 DEF scanVars
<1> QED BY <1>1, <1>2, <1>3, <1>4, <1>5, <1>6, <1>7, <1>8, <1>9 DEF ScanNext

-----------------------------------------------------------------------------
(* What was seen *)

(* Nothing new is seen where there is no controller. *)
LEMMA SeenStays ==
  ASSUME boards' = boards,
         \A s \in Present : Passed(s[1], s[2])' <=> Passed(s[1], s[2])
  PROVE  Seen' = Seen /\ Present' = Present /\ Crowded' = Crowded /\ FirstFirst' = FirstFirst
<1>1. Present' = Present
  BY DEF Present, Reached, Controller
<1>2. Seen' = Seen
  BY <1>1 DEF Seen
<1> QED BY <1>1, <1>2 DEF Crowded, FirstFirst

(* A controller at position p of the board becomes a channel. *)
LEMMA ChannelEntered ==
  ASSUME ScanTypeOK, Entered, Clean, CountedSeen,
         NEW p \in {1, 2}, step = IF p = 1 THEN "first" ELSE "second", Controller(at, p),
         candev <= MaxChannels, Enter(p, IF p = 1 THEN "second" ELSE "next"),
         boards' = boards, at' = at
  PROVE  Entered' /\ CountedSeen'
<1> USE ScanAssumption
<1> DEFINE new == <<at, p>>
<1>1. /\ at \in 1 .. Len(boards) /\ candev \in 0 .. MaxChannels /\ base \in [Index -> {None} \cup ((1 .. Len(boards)) \X {1, 2})]
      /\ candev' = candev + 1 /\ base' = Set(base, candev, new)
  BY DEF Clean, ScanTypeOK, Enter
<1>2. new \in Present
  BY <1>1 DEF Present, Reached, Clean
<1>3. new \notin Seen
  <2>1. ~Passed(at, p)
    BY <1>1 DEF Passed
  <2> QED BY <2>1 DEF Seen
<1>4. Present' = Present /\ Seen' = Seen \cup {new}
  <2>1. Present' = Present
    BY DEF Present, Reached, Controller
  <2>2. ASSUME NEW s \in Present
        PROVE  Passed(s[1], s[2])' <=> Passed(s[1], s[2]) \/ s = new
    <3>1. s = <<s[1], s[2]>> /\ s[1] \in 1 .. Len(boards) /\ s[2] \in {1, 2}
      BY DEF Present
    <3>2. s = new <=> s[1] = at /\ s[2] = p
      BY <3>1
    <3>3. CASE p = 1
      BY <1>1, <3>1, <3>2, <3>3 DEF Passed, Enter
    <3>4. CASE p = 2
      BY <1>1, <3>1, <3>2, <3>4 DEF Passed, Enter
    <3> QED BY <3>3, <3>4
  <2> QED BY <1>2, <2>1, <2>2 DEF Seen
<1>5. Cardinality(Seen') = candev + 1
  BY <1>3, <1>4, PresentIsFinite, FS_AddElement DEF CountedSeen
<1>6. \A i \in Found : base[i] \in Seen /\ i < candev /\ Before(base[i], new)
  <2> SUFFICES ASSUME NEW i \in Found PROVE base[i] \in Seen /\ i < candev /\ Before(base[i], new)
    OBVIOUS
  <2>1. base[i] \in Seen /\ i < candev
    BY DEF CountedSeen, Entered, Found
  <2>2. base[i][1] \in 1 .. Len(boards) /\ base[i][2] \in {1, 2} /\ Passed(base[i][1], base[i][2])
    BY <2>1 DEF Seen, Present
  <2> QED BY <1>1, <2>1, <2>2 DEF Passed, Before
<1>7. CASE candev \in Index
  <2>1. base' = [base EXCEPT ![candev] = new]
    BY <1>1, <1>7 DEF Set
  <2>2. new # None
    BY <1>1 DEF None
  <2>3. \A i \in Index : base'[i] = IF i = candev THEN new ELSE base[i]
    BY <1>1, <2>1
  <2>4. Found' = Found \cup {candev} /\ candev \notin Found
    BY <1>6, <1>7, <2>2, <2>3 DEF Found, Index
  <2>5. Entered'
    <3>1. \A i \in Index : base'[i] # None <=> i < candev + 1
      BY <1>1, <2>2, <2>3 DEF Entered, Index
    <3>2. ASSUME NEW i \in Found', NEW j \in Found', i < j PROVE Before(base'[i], base'[j])
      <4>1. i \in Found /\ (j \in Found \/ j = candev)
        <5>1. candev \in Int /\ \A k \in Found \cup {candev} : k \in Int
          BY <1>1 DEF Found, Index
        <5> QED BY <1>6, <2>4, <3>2, <5>1
      <4>2. base'[i] = base[i] /\ (j \in Found => base'[j] = base[j]) /\ (j = candev => base'[j] = new)
        BY <1>7, <2>3, <2>4, <4>1 DEF Found
      <4> QED BY <1>6, <3>2, <4>1, <4>2 DEF Entered
    <3> QED BY <1>1, <3>1, <3>2 DEF Entered, Before
  <2>6. \A i \in Found' : base'[i] \in Seen'
    BY <1>4, <1>6, <2>3, <2>4 DEF Found
  <2>7. Seen' \subseteq {base'[i] : i \in Found'}
    <3>1. Seen \subseteq {base[i] : i \in Found}
      BY <1>1 DEF CountedSeen
    <3>2. \A i \in Found : base'[i] = base[i] /\ i \in Found'
      BY <2>3, <2>4 DEF Found
    <3>3. base'[candev] = new /\ candev \in Found'
      BY <1>7, <2>3, <2>4
    <3> QED BY <1>4, <3>1, <3>2, <3>3
  <2> QED BY <1>1, <1>5, <2>5, <2>6, <2>7 DEF CountedSeen
<1>8. CASE candev \notin Index
  <2>1. base' = base /\ candev = MaxChannels /\ Found' = Found
    BY <1>1, <1>8 DEF Set, Index, Found
  <2>2. Entered'
    <3>1. \A i \in Index : i < candev /\ i < candev + 1
      BY <2>1 DEF Index
    <3>2. \A i \in Index : base'[i] # None <=> i < candev'
      BY <1>1, <2>1, <3>1 DEF Entered
    <3>3. \A i, j \in Found' : i < j => Before(base'[i], base'[j])
      BY <2>1 DEF Entered
    <3> QED BY <3>2, <3>3 DEF Entered, Before
  <2>3. \A i \in Found' : base'[i] \in Seen'
    BY <1>4, <1>6, <2>1
  <2>4. ~(candev' <= MaxChannels)
    BY <1>1, <2>1
  <2> QED BY <1>1, <1>5, <2>2, <2>3, <2>4 DEF CountedSeen
<1> QED BY <1>7, <1>8

(* Every controller that is passed is counted and entered. *)
LEMMA ScanCounts ==
  ASSUME ScanTypeOK, Entered, Clean, CountedSeen, Complete, [ScanNext]_scanVars
  PROVE  Entered' /\ CountedSeen' /\ Complete'
<1> USE ScanAssumption
<1>1. \A s \in Present : s[1] \in 1 .. Len(boards) /\ s[2] \in {1, 2}
  BY DEF Present
<1>2. at \in 0 .. Len(boards) /\ Len(boards) \in Nat /\ candev \in Nat
  BY DEF ScanTypeOK
(* Steps that enter no channel. *)
<1>3. ASSUME UNCHANGED <<boards, candev, base>>, step # "done", step' # "done",
             \A s \in Present : Passed(s[1], s[2])' <=> Passed(s[1], s[2])
      PROVE  Entered' /\ CountedSeen' /\ Complete'
  <2>1. Seen' = Seen /\ Found' = Found
    BY <1>3, SeenStays DEF Found
  <2> QED BY <1>3, <2>1 DEF Entered, CountedSeen, Complete, Before
(* Steps that end the scan. *)
<1>4. ASSUME UNCHANGED <<boards, candev, base>>, step # "done", step' = "done",
             Seen = Present \/ candev > MaxChannels
      PROVE  Entered' /\ CountedSeen' /\ Complete'
  <2>1. Present' = Present /\ Found' = Found /\ Crowded' = Crowded
    BY <1>4 DEF Present, Reached, Controller, Found, Crowded
  <2>2. Entered' /\ CountedSeen'
    BY <1>4, <2>1 DEF Entered, CountedSeen, Before
  <2>3. candev = Cardinality(Seen) /\ \A i \in Found : base[i] \in Seen
    BY <1>4 DEF CountedSeen
  <2>4. CASE candev > MaxChannels
    <3>1. Cardinality(Present) > MaxChannels
      BY <2>3, <2>4, <1>2, PresentIsFinite
    <3> QED BY <2>1, <2>2, <3>1 DEF Crowded, Complete
  <2>5. CASE ~(candev > MaxChannels)
    <3>1. Seen = Present /\ Seen \subseteq {base[i] : i \in Found}
      BY <1>2, <1>4, <2>5 DEF CountedSeen
    <3>2. {base[i] : i \in Found} = Present
      BY <2>3, <3>1
    <3>3. {base'[i] : i \in Found'} = Present' /\ candev' = Cardinality(Present')
      BY <1>4, <2>1, <2>3, <3>1, <3>2
    <3> QED BY <2>2, <3>3 DEF Complete
  <2> QED BY <2>2, <2>4, <2>5
<1>5. CASE Find
  <2>1. CASE at = Len(boards)
    <3>1. \A s \in Present : Passed(s[1], s[2])
      BY <1>1, <1>2, <1>5, <2>1 DEF Passed, Find
    <3> QED BY <1>4, <1>5, <2>1, <3>1 DEF Find, Seen
  <2>2. CASE at # Len(boards)
    <3>1. at' = at + 1 /\ step = "next" /\ step' = IF boards[at + 1].enabled THEN "map" ELSE "next"
      BY <1>5, <2>2 DEF Find
    <3>2. ASSUME NEW s \in Present PROVE Passed(s[1], s[2])' <=> Passed(s[1], s[2])
      <4>1. s[1] = at + 1 => boards[at + 1].enabled
        BY DEF Present, Reached
      <4> QED BY <1>1, <1>2, <3>1, <4>1 DEF Passed
    <3> QED BY <1>3, <1>5, <3>1, <3>2 DEF Find
  <2> QED BY <2>1, <2>2
<1>6. CASE MapControl
  BY <1>3, <1>6 DEF MapControl, Passed
<1>7. CASE Signature
  <2>1. CASE boards[at].signature
    BY <1>3, <1>7, <2>1 DEF Signature, Passed
  <2>2. CASE ~boards[at].signature
    <3>1. ASSUME NEW s \in Present PROVE Passed(s[1], s[2])
      <4>1. at \in 1 .. Len(boards) /\ boards[at].enabled
        BY <1>7 DEF Signature, Clean
      <4>2. ~(at <= s[1])
        BY <1>1, <2>2, <4>1 DEF Present, Reached
      <4> QED BY <1>1, <1>2, <4>2 DEF Passed
    <3> QED BY <1>4, <1>7, <2>2, <3>1 DEF Signature, Seen
  <2> QED BY <2>1, <2>2
<1>8. CASE ResetBoard
  BY <1>3, <1>8 DEF ResetBoard, Passed
<1>9. CASE First
  <2>1. boards[at].first # "none"
    BY <1>9, BoardKnown, AvailableIsThere DEF First, Clean
  <2> QED BY <1>9, <2>1, ChannelEntered DEF First, Controller, Complete, Enter
<1>10. CASE Second
  <2>1. boards[at].second # "none"
    BY <1>10, BoardKnown, AvailableIsThere DEF Second, Clean
  <2> QED BY <1>10, <2>1, ChannelEntered DEF Second, Controller, Complete, Enter
<1>11. CASE Empty
  <2>1. ~Controller(at, IF step = "first" THEN 1 ELSE 2)
    BY <1>11, BoardKnown, AvailableIsThere DEF Empty, Position, Controller, Clean
  <2>2. ASSUME NEW s \in Present PROVE Passed(s[1], s[2])' <=> Passed(s[1], s[2])
    <3>1. Controller(s[1], s[2])
      BY DEF Present
    <3> QED BY <1>1, <1>2, <1>11, <2>1, <3>1 DEF Passed, Empty
  <2> QED BY <1>3, <1>11, <2>2 DEF Empty
<1>12. CASE TooMany
  BY <1>4, <1>12 DEF TooMany
<1>13. CASE UNCHANGED scanVars
  <2>1. Seen' = Seen /\ Present' = Present /\ Found' = Found /\ Crowded' = Crowded
    BY <1>13 DEF scanVars, Seen, Passed, Present, Reached, Controller, Found, Crowded
  <2> QED BY <1>13, <2>1 DEF scanVars, Entered, CountedSeen, Complete, Before
<1> QED
  BY <1>5, <1>6, <1>7, <1>8, <1>9, <1>10, <1>11, <1>12, <1>13 DEF ScanNext

(* The board of each channel, and room in the tables for two channels of   *)
(* each board.                                                             *)
LEMMA ScanOwns ==
  ASSUME ScanTypeOK, Entered, Clean, Owned, Room, [ScanNext]_scanVars
  PROVE  Owned' /\ Room'
<1> USE ScanAssumption
<1>1. /\ at \in 0 .. Len(boards) /\ Len(boards) \in Nat /\ candev \in 0 .. MaxChannels + 1
      /\ base \in [Index -> {None} \cup ((1 .. Len(boards)) \X {1, 2})]
      /\ control \in [Index -> 0 .. Len(boards)] /\ irq \in [Index -> 0 .. Len(boards)]
  BY DEF ScanTypeOK
<1>2. \A i \in Index : i \in Found <=> i < candev
  BY DEF Entered, Found
<1>3. [ScanNext]_scanVars => boards' = boards /\ FirstFirst' = FirstFirst
  BY DEF ScanNext, Find, MapControl, Signature, ResetBoard, First, Second, Empty, TooMany,
         scanVars, FirstFirst
(* Steps that leave the tables alone. *)
<1>4. ASSUME UNCHANGED <<candev, control, base, irq, outside>>, Room',
             step' \in {"sign", "reset", "first"} => at' = at /\ step \in {"sign", "reset", "first"},
             step' # "second"
      PROVE  Owned' /\ Room'
  BY <1>3, <1>4 DEF Owned, Found
<1>5. CASE Find
  BY <1>1, <1>3, <1>4, <1>5 DEF Find, Room
<1>6. CASE MapControl
  <2>1. control' = Set(control, candev, at) /\ UNCHANGED <<at, candev, base, irq>> /\ step' = "sign"
    BY <1>6 DEF MapControl
  <2>2. at \in 1 .. Len(boards) /\ candev <= 2 * at - 2
    BY <1>6 DEF MapControl, Clean, Room
  <2>3. \A i \in Found : control'[i] = control[i]
    BY <1>1, <1>2, <2>1 DEF Set, Found, Index
  <2>4. candev \in Index => control'[candev] = at
    BY <1>1, <2>1 DEF Set
  <2>5. 2 * Len(boards) <= MaxChannels => outside' = outside
    <3>1. 2 * Len(boards) <= MaxChannels => candev \in Index
      BY <1>1, <2>2 DEF Index
    <3> QED BY <1>6, <3>1 DEF MapControl, Touch
  <2> QED BY <1>3, <2>1, <2>2, <2>3, <2>4, <2>5 DEF Owned, Room, Found
<1>7. CASE Signature
  BY <1>3, <1>4, <1>7 DEF Signature, Room
<1>8. CASE ResetBoard
  <2>1. at \in 1 .. Len(boards) /\ candev <= 2 * at - 2
    BY <1>8 DEF ResetBoard, Clean, Room
  <2>2. 2 * Len(boards) <= MaxChannels => candev \in Index
    BY <1>1, <2>1 DEF Index
  <2>3. 2 * Len(boards) <= MaxChannels => outside' = outside
    BY <1>8, <2>2 DEF ResetBoard, Touch
  <2> QED BY <1>3, <1>8, <2>1, <2>3 DEF ResetBoard, Owned, Room, Found
(* A channel is entered; its control register is the board's. *)
<1>9. ASSUME NEW p \in {1, 2}, at \in 1 .. Len(boards), candev <= MaxChannels,
             base' = Set(base, candev, <<at, p>>), irq' = Set(irq, candev, at),
             candev' = candev + 1,
             \A i \in Found : control'[i] = control[i],
             FirstFirst /\ candev \in Index => control'[candev] = at
      PROVE  \A i \in Found' : irq'[i] = base'[i][1] /\ (FirstFirst' => control'[i] = base'[i][1])
  <2>1. FirstFirst' = FirstFirst
    BY <1>3
  <2>2. ASSUME NEW i \in Found', i # candev
        PROVE  i \in Found /\ base'[i] = base[i] /\ irq'[i] = irq[i]
    BY <1>1, <1>9, <2>2 DEF Found, Set
  <2>3. candev \in Index => base'[candev] = <<at, p>> /\ irq'[candev] = at
    BY <1>1, <1>9 DEF Set
  <2> QED BY <1>9, <2>1, <2>2, <2>3 DEF Owned, Found
<1>10. CASE First
  <2>1. at \in 1 .. Len(boards) /\ candev <= 2 * at - 2 /\ candev <= MaxChannels
    BY <1>10 DEF First, Clean, Room
  <2>2. /\ base' = Set(base, candev, <<at, 1>>) /\ irq' = Set(irq, candev, at)
        /\ candev' = candev + 1 /\ step' = "second" /\ UNCHANGED <<at, control>>
    BY <1>10 DEF First, Enter
  <2>3. candev \in Index => control[candev] = at
    BY <1>10 DEF First, Owned
  <2>4. \A i \in Found' : irq'[i] = base'[i][1] /\ (FirstFirst' => control'[i] = base'[i][1])
    BY <1>9, <2>1, <2>2, <2>3
  <2>5. 2 * Len(boards) <= MaxChannels => candev \in Index
    BY <1>1, <2>1 DEF Index
  <2>6. 2 * Len(boards) <= MaxChannels => outside' = outside
    BY <1>10, <2>5 DEF First, Touch
  <2>7. candev' >= 1 /\ candev' - 1 = candev
    BY <1>1, <2>2
  <2>8. Owned'
    BY <2>2, <2>3, <2>4, <2>7 DEF Owned
  <2> QED BY <1>1, <1>3, <2>1, <2>2, <2>6, <2>8 DEF Room
<1>11. CASE Second
  <2>1. at \in 1 .. Len(boards) /\ candev <= 2 * at - 1 /\ candev <= MaxChannels
    BY <1>11 DEF Second, Clean, Room
  <2>2. /\ base' = Set(base, candev, <<at, 2>>) /\ irq' = Set(irq, candev, at)
        /\ candev' = candev + 1 /\ step' = "next" /\ UNCHANGED <<at>>
    BY <1>11 DEF Second, Enter
  <2>3. PICK prev \in IF candev - 1 \in Index THEN {control[candev - 1]} ELSE 0 .. Len(boards) :
          control' = Set(control, candev, prev)
    BY <1>11 DEF Second
  <2>4. boards[at].second # "none"
    BY <1>11, BoardKnown, AvailableIsThere DEF Second, Clean
  <2>5. FirstFirst => candev >= 1 /\ (candev - 1 \in Index => control[candev - 1] = at)
    BY <1>11, <2>1, <2>4 DEF FirstFirst, Owned, Second
  <2>6. \A i \in Found : control'[i] = control[i]
    BY <1>1, <1>2, <2>3 DEF Set, Found, Index
  <2>7. FirstFirst /\ candev \in Index => control'[candev] = at
    <3>1. candev \in Index /\ candev >= 1 => candev - 1 \in Index
      BY <1>1 DEF Index
    <3> QED BY <1>1, <2>3, <2>5, <3>1 DEF Set
  <2>8. \A i \in Found' : irq'[i] = base'[i][1] /\ (FirstFirst' => control'[i] = base'[i][1])
    BY <1>9, <2>1, <2>2, <2>6, <2>7
  <2>9. FirstFirst /\ 2 * Len(boards) <= MaxChannels => candev \in Index /\ candev - 1 \in Index
    BY <1>1, <2>1, <2>5 DEF Index
  <2>10. FirstFirst /\ 2 * Len(boards) <= MaxChannels => outside' = outside
    BY <1>11, <2>9 DEF Second, Touch
  <2>11. Owned'
    BY <2>2, <2>8 DEF Owned
  <2> QED BY <1>1, <1>3, <2>1, <2>2, <2>10, <2>11 DEF Room
<1>12. CASE Empty
  <2>1. Room' /\ step' \in {"second", "next"}
    BY <1>1, <1>3, <1>12 DEF Empty, Room
  <2>2. step' = "second" => boards[at].first = "none"
    BY <1>12, BoardKnown, AvailableIsThere DEF Empty, Position, Clean
  <2> QED BY <1>3, <1>12, <2>1, <2>2 DEF Empty, Owned, Found
<1>13. CASE TooMany
  BY <1>3, <1>4, <1>13 DEF TooMany, Room
<1>14. CASE UNCHANGED scanVars
  BY <1>3, <1>14 DEF scanVars, Owned, Room, Found
<1> QED
  BY <1>5, <1>6, <1>7, <1>8, <1>10, <1>11, <1>12, <1>13, <1>14 DEF ScanNext

(* The invariant of the scan holds always. *)
LEMMA ScanInvariance == ScanSpec => []ScanInv
<1>1. ScanInv /\ [ScanNext]_scanVars => ScanInv'
  BY ScanTypes, ScanClean, ScanCounts, ScanOwns DEF ScanInv
<1> QED BY ScanStarts, <1>1, PTL DEF ScanSpec

(* The tables stay tables of what is plugged in, and at most one channel   *)
(* more than they hold is counted (util.c:401).                            *)
THEOREM ScanTypeCorrect == ScanSpec => []ScanTypeOK
<1>1. ScanInv => ScanTypeOK
  BY DEF ScanInv
<1> QED BY ScanInvariance, <1>1, PTL

(* Each controller on the boards the scan comes to is one channel, in the  *)
(* order of the boards, for any boards and any number of channels, as long *)
(* as there are no more controllers than channels: for what the registers  *)
(* have by the data sheet after a reset (Registers), where the comment at  *)
(* util.c:279 has another value than the code.                             *)
THEOREM ScanFindsAll == ScanSpec => []OnePerController
<1>1. ScanInv => OnePerController
  BY DEF ScanInv, Entered, Complete, OnePerController, Before
<1> QED BY ScanInvariance, <1>1, PTL

(* A channel has the registers and the interrupt of its own board, and     *)
(* nothing beyond the tables is touched if they hold two channels for each *)
(* board.                                                                  *)
THEOREM ScanOwnsBoard == ScanSpec => []OwnBoard
<1>1. ScanInv => OwnBoard
  BY DEF ScanInv, Owned, Room, OwnBoard
<1> QED BY ScanInvariance, <1>1, PTL

-----------------------------------------------------------------------------
(* SjaFrame: what TLC tries for a dozen identifiers is so for every one of *)
(* the 2^32 words a user may write as an identifier, every length and      *)
(* length code, and every acceptance setting.                              *)
(*                                                                         *)
(* A shift followed by the opposite one keeps some of the bits; which, is  *)
(* shown for each register once, one bit at a time.                        *)
USE FrameAssumption


-----------------------------------------------------------------------------
(* Shifts *)

(* A byte cut out of a word and put back is that byte of the word. *)
LEMMA ByteOfWord ==
  ASSUME NEW w \in SUBSET Bit, NEW n \in 0 .. 24
  PROVE  Shl(Uint8(Shr(w, n)), n) = w \cap n .. n + 7
<1>1. ASSUME NEW b \in Shl(Uint8(Shr(w, n)), n) PROVE b \in w \cap n .. n + 7
  <2>1. b \in Bit /\ b - n \in ByteBit /\ (b - n) + n \in w
    BY <1>1 DEF Shl, Shr, Uint8
  <2> QED BY <2>1 DEF Bit, ByteBit
<1>2. ASSUME NEW b \in w \cap n .. n + 7 PROVE b \in Shl(Uint8(Shr(w, n)), n)
  <2>1. b \in Bit /\ b - n \in ByteBit /\ b - n \in Bit /\ (b - n) + n \in w
    BY <1>2 DEF Bit, ByteBit
  <2> QED BY <2>1 DEF Shl, Shr, Uint8
<1> QED BY <1>1, <1>2

(* What is shifted up into a byte comes back as the lowest bits. *)
LEMMA LowBitsOfByte ==
  ASSUME NEW w \in SUBSET Bit, NEW n \in 0 .. 7
  PROVE  Shr(Uint8(Shl(w, n)), n) = w \cap 0 .. 7 - n
<1>1. ASSUME NEW b \in Shr(Uint8(Shl(w, n)), n) PROVE b \in w \cap 0 .. 7 - n
  <2>1. b \in Bit /\ b + n \in ByteBit /\ (b + n) - n \in w
    BY <1>1 DEF Shl, Shr, Uint8
  <2> QED BY <2>1 DEF Bit, ByteBit
<1>2. ASSUME NEW b \in w \cap 0 .. 7 - n PROVE b \in Shr(Uint8(Shl(w, n)), n)
  <2>1. b \in Bit /\ b + n \in ByteBit /\ b + n \in Bit /\ (b + n) - n \in w
    BY <1>2 DEF Bit, ByteBit
  <2> QED BY <2>1 DEF Shl, Shr, Uint8
<1> QED BY <1>1, <1>2

(* The second register of a standard identifier holds its three low bits. *)
LEMMA LowBitsOfStandard ==
  ASSUME NEW w \in SUBSET Bit
  PROVE  Shr(Shl(w, 5) \cap 5 .. 7, 5) = w \cap 0 .. 2
<1>1. ASSUME NEW b \in Shr(Shl(w, 5) \cap 5 .. 7, 5) PROVE b \in w \cap 0 .. 2
  <2>1. b \in Bit /\ b + 5 \in 5 .. 7 /\ (b + 5) - 5 \in w
    BY <1>1 DEF Shl, Shr
  <2> QED BY <2>1 DEF Bit
<1>2. ASSUME NEW b \in w \cap 0 .. 2 PROVE b \in Shr(Shl(w, 5) \cap 5 .. 7, 5)
  <2>1. b \in Bit /\ b + 5 \in 5 .. 7 /\ b + 5 \in Bit /\ (b + 5) - 5 \in w
    BY <1>2 DEF Bit
  <2> QED BY <2>1 DEF Shl, Shr
<1> QED BY <1>1, <1>2

-----------------------------------------------------------------------------
(* Encoding and decoding *)

(* readcanmsg finds the identifier that sendcanmsg wrote, as far as the    *)
(* format holds it.                                                        *)
LEMMA IdentifierSurvives ==
  ASSUME NEW ext \in BOOLEAN, NEW id \in SUBSET Bit
  PROVE  DecodeId(ext, EncodeId(ext, id)) = id \cap IdBits(ext)
<1>1. CASE ext
  <2>1. DecodeId(ext, EncodeId(ext, id)) =
          Shl(Uint8(Shr(id, 21)), 21) \cup Shl(Uint8(Shr(id, 13)), 13)
          \cup Shl(Uint8(Shr(id, 5)), 5) \cup Shr(Uint8(Shl(id, 3)), 3)
    BY <1>1 DEF DecodeId, EncodeId
  <2>2. /\ Shl(Uint8(Shr(id, 21)), 21) = id \cap 21 .. 28
        /\ Shl(Uint8(Shr(id, 13)), 13) = id \cap 13 .. 20
        /\ Shl(Uint8(Shr(id, 5)), 5) = id \cap 5 .. 12
    BY ByteOfWord
  <2>3. Shr(Uint8(Shl(id, 3)), 3) = id \cap 0 .. 4
    BY LowBitsOfByte
  <2>4. 21 .. 28 \cup 13 .. 20 \cup 5 .. 12 \cup 0 .. 4 = 0 .. 28
    OBVIOUS
  <2> QED BY <1>1, <2>1, <2>2, <2>3, <2>4 DEF IdBits
<1>2. CASE ~ext
  <2>1. DecodeId(ext, EncodeId(ext, id)) =
          Shl(Uint8(Shr(id, 3)), 3) \cup Shr(Shl(id, 5) \cap 5 .. 7, 5)
    BY <1>2 DEF DecodeId, EncodeId
  <2>2. Shl(Uint8(Shr(id, 3)), 3) = id \cap 3 .. 10
    BY ByteOfWord
  <2>3. 3 .. 10 \cup 0 .. 2 = 0 .. 10
    OBVIOUS
  <2> QED BY <1>2, <2>1, <2>2, <2>3, LowBitsOfStandard DEF IdBits
<1> QED BY <1>1, <1>2

(* A length is clamped to at most 8. *)
LEMMA ClampedByte ==
  ASSUME NEW n \in Nat
  PROVE  ClampedLength(n) \in 0 .. 8 /\ ClampedLength(n) % 9 = ClampedLength(n)
BY DEF ClampedLength

(* What the registers and the reader have of the message in transit. *)
InTransit ==
  /\ filter \in Filters
  /\ stage # "start" =>
       /\ msg \in Message
       /\ regs.ext = msg.ext /\ regs.rtr = msg.rtr
       /\ regs.canid = EncodeId(msg.ext, msg.id)
       /\ \A i \in 1 .. 2 : i <= regs.dlc => regs.data[i] = msg.data[i]
       /\ regs.dlc \in Nat
  /\ stage = "read" => got = Decode(regs)

(* Every step keeps what registers and reader have of the message, ... *)
LEMMA NextInTransit == InTransit /\ [FrameNext]_frameVars => InTransit'
<1> SUFFICES ASSUME InTransit, [FrameNext]_frameVars PROVE InTransit'
  OBVIOUS
<1> USE DEF InTransit
<1>1. ASSUME NEW m \in Message, Send(m) PROVE InTransit'
  <2>1. msg' = m /\ regs' = Encode(m) /\ stage' = "loaded" /\ filter' = filter
    BY <1>1 DEF Send
  <2>2. m.length \in Nat
    BY FrameAssumption DEF Message
  <2>3. ClampedLength(m.length) \in Nat
    BY <2>2 DEF ClampedLength
  <2> QED BY <2>1, <2>3 DEF Encode, FirstBytes
<1>2. ASSUME NEW m \in Message, NEW d \in Dlcs, SendForeign(m, d) PROVE InTransit'
  <2>1. d \in Nat
    BY FrameAssumption
  <2> QED BY <1>2, <2>1 DEF SendForeign, Encode
<1>3. CASE Arrive
  BY <1>3 DEF Arrive
<1>4. CASE ReadFrame
  BY <1>4 DEF ReadFrame
<1>5. CASE Again
  BY <1>5 DEF Again
<1>6. CASE UNCHANGED frameVars
  BY <1>6 DEF frameVars
<1> QED BY <1>1, <1>2, <1>3, <1>4, <1>5, <1>6 DEF FrameNext

(* ... and they have it always. *)
LEMMA Invariance == FrameSpec => []InTransit
<1>1. FrameInit => InTransit
  BY DEF FrameInit, InTransit
<1> QED BY <1>1, NextInTransit, PTL DEF FrameSpec

(* A message arrives as it was written, for every identifier and length:   *)
(* sendcanmsg and readcanmsg are inverse to each other.                    *)
THEOREM MessageSurvives == FrameSpec => []RoundTrip
<1>1. InTransit => RoundTrip
  <2> SUFFICES ASSUME InTransit, stage = "read", regs.dlc = ClampedLength(msg.length)
               PROVE  /\ got.ext = msg.ext /\ got.rtr = msg.rtr
                      /\ got.id = msg.id \cap IdBits(msg.ext)
                      /\ got.length = ClampedLength(msg.length)
                      /\ got.bytes = got.length
                      /\ \A i \in 1 .. 2 : i <= got.length => got.data[i] = msg.data[i]
    BY DEF RoundTrip
  <2>1. msg.ext \in BOOLEAN /\ msg.id \in SUBSET Bit /\ msg.length \in Nat
    BY DEF InTransit, Message
  <2>2. /\ got.ext = msg.ext /\ got.rtr = msg.rtr
        /\ got.id = DecodeId(msg.ext, EncodeId(msg.ext, msg.id))
        /\ got.length = ClampedLength(msg.length)
        /\ got.bytes = ClampedLength(msg.length) % 9
        /\ got.data = FirstBytes(regs.data, ClampedLength(msg.length) % 9)
    BY DEF InTransit, Decode
  <2>3. /\ ClampedLength(msg.length) % 9 = ClampedLength(msg.length)
        /\ ClampedLength(msg.length) \in 0 .. 8
    BY <2>1, ClampedByte
  <2>4. ASSUME NEW i \in 1 .. 2, i <= ClampedLength(msg.length)
        PROVE  got.data[i] = msg.data[i]
    BY <2>2, <2>3, <2>4 DEF InTransit, FirstBytes
  <2> QED BY <2>1, <2>2, <2>3, <2>4, IdentifierSurvives
<1> QED BY <1>1, Invariance, PTL

-----------------------------------------------------------------------------
(* The acceptance filter *)

(* The four registers are one word, register 1 its highest byte.  In it,   *)
(* an identifier begins at bit Shift, with the remote flag below it.       *)
Shift(ext) == IF ext THEN 3 ELSE 21
WordPosition(k, b) == b + 8 * (4 - k)

(* CAN_SetMask keeps the order of the bits. *)
LEMMA RegisterBit ==
  ASSUME NEW w \in SUBSET Bit, NEW k \in 1 .. 4, NEW b \in ByteBit
  PROVE  b \in RegisterBytes(w)[k] <=> WordPosition(k, b) \in w
<1>1. \A n \in 0 .. 24 : b \in Uint8(Shr(w, n)) <=> b + n \in w
  BY DEF Uint8, Shr, Bit, ByteBit
<1>2. b \in Uint8(w) <=> b \in w
  BY DEF Uint8
<1>3. CASE k = 1
  BY <1>1, <1>3 DEF RegisterBytes, WordPosition
<1>4. CASE k = 2
  BY <1>1, <1>4 DEF RegisterBytes, WordPosition
<1>5. CASE k = 3
  BY <1>1, <1>5 DEF RegisterBytes, WordPosition
<1>6. CASE k = 4
  BY <1>2, <1>6 DEF RegisterBytes, WordPosition, ByteBit
<1> QED BY <1>3, <1>4, <1>5, <1>6

(* The bits of the header that the controller compares are the remote flag *)
(* and those of the identifier: each has its position, and each position   *)
(* its bit.                                                                *)
LEMMA ComparedHeaderBits ==
  ASSUME NEW ext \in BOOLEAN
  PROVE  /\ \A k \in 1 .. 4 : \A b \in HeaderBits(ext, k) :
              b \in ByteBit /\ WordPosition(k, b) \in Shift(ext) - 1 .. 31
         /\ \A j \in Shift(ext) - 1 .. 31 :
              \E k \in 1 .. 4 : \E b \in HeaderBits(ext, k) : j = WordPosition(k, b)
<1>1. ASSUME NEW k \in 1 .. 4, NEW b \in HeaderBits(ext, k)
      PROVE  b \in ByteBit /\ WordPosition(k, b) \in Shift(ext) - 1 .. 31
  <2>1. CASE ext
    <3>1. b \in ByteBit /\ (k = 4 => b \in 2 .. 7)
      BY <1>1, <2>1 DEF HeaderBits, ByteBit
    <3> QED BY <2>1, <3>1 DEF WordPosition, Shift, ByteBit
  <2>2. CASE ~ext
    <3>1. (k = 1 /\ b \in ByteBit) \/ (k = 2 /\ b \in 4 .. 7)
      BY <1>1, <2>2 DEF HeaderBits, ByteBit
    <3> QED BY <2>2, <3>1 DEF WordPosition, Shift, ByteBit
  <2> QED BY <2>1, <2>2
<1>2. ASSUME NEW j \in Shift(ext) - 1 .. 31
      PROVE  \E k \in 1 .. 4 : \E b \in HeaderBits(ext, k) : j = WordPosition(k, b)
  <2>1. CASE j \in 24 .. 31
    <3>1. j - 24 \in HeaderBits(ext, 1) /\ j = WordPosition(1, j - 24)
      BY <2>1 DEF HeaderBits, ByteBit, WordPosition
    <3> QED BY <3>1
  <2>2. CASE j \in 16 .. 23
    <3>1. j - 16 \in HeaderBits(ext, 2) /\ j = WordPosition(2, j - 16)
      BY <1>2, <2>2 DEF HeaderBits, ByteBit, WordPosition, Shift
    <3> QED BY <3>1
  <2>3. CASE j \in 8 .. 15
    <3>1. j - 8 \in HeaderBits(ext, 3) /\ j = WordPosition(3, j - 8)
      BY <1>2, <2>3 DEF HeaderBits, ByteBit, WordPosition, Shift
    <3> QED BY <3>1
  <2>4. CASE j \in 2 .. 7
    <3>1. j \in HeaderBits(ext, 4) /\ j = WordPosition(4, j)
      BY <1>2, <2>4 DEF HeaderBits, ByteBit, WordPosition, Shift
    <3> QED BY <3>1
  <2>5. j \in 2 .. 31
    BY <1>2 DEF Shift
  <2> QED BY <2>1, <2>2, <2>3, <2>4, <2>5
<1> QED BY <1>1, <1>2

(* What the frame has at a position. *)
LEMMA FrameBit ==
  ASSUME NEW r, r.ext \in BOOLEAN, r.rtr \in BOOLEAN,
         NEW id \in SUBSET Bit, r.canid = EncodeId(r.ext, id),
         NEW k \in 1 .. 4, NEW b \in HeaderBits(r.ext, k)
  PROVE  b \in FilterByte(r, k) <=>
           IF WordPosition(k, b) = Shift(r.ext) - 1 THEN r.rtr
           ELSE WordPosition(k, b) - Shift(r.ext) \in id
<1>1. \A n \in 0 .. 24 : b \in ByteBit => (b \in Uint8(Shr(id, n)) <=> b + n \in id)
  BY DEF Uint8, Shr, Bit, ByteBit
<1>2. CASE r.ext
  <2>1. r.canid = <<Uint8(Shr(id, 21)), Uint8(Shr(id, 13)), Uint8(Shr(id, 5)), Uint8(Shl(id, 3))>>
    BY <1>2 DEF EncodeId
  <2>2. b \in ByteBit /\ (k = 4 => b \in 2 .. 7) /\ Shift(r.ext) = 3
    BY <1>2 DEF HeaderBits, ByteBit, Shift
  <2>3. CASE k = 4
    <3>1. b \in Uint8(Shl(id, 3)) <=> b - 3 \in id
      BY <2>2, <2>3 DEF Uint8, Shl, Bit, ByteBit
    <3>2. b = 2 => b - 3 \notin id
      BY DEF Bit
    <3>3. r.canid[4] = Uint8(Shl(id, 3))
      BY <2>1
    <3>4. FilterByte(r, k) = r.canid[4] \cup (IF r.rtr THEN {2} ELSE {})
      BY <1>2, <2>3 DEF FilterByte
    <3>5. b \in FilterByte(r, k) <=> b \in Uint8(Shl(id, 3)) \/ (r.rtr /\ b = 2)
      BY <3>3, <3>4
    <3> QED BY <2>2, <2>3, <3>1, <3>2, <3>5 DEF WordPosition
  <2>4. CASE k # 4
    <3>1. b \in FilterByte(r, k) <=> b \in r.canid[k]
      BY <1>2, <2>4 DEF FilterByte
    <3>2. b \in r.canid[k] <=> WordPosition(k, b) - 3 \in id
      <4>1. CASE k = 1 BY <1>1, <2>1, <2>2, <4>1 DEF WordPosition, ByteBit
      <4>2. CASE k = 2 BY <1>1, <2>1, <2>2, <4>2 DEF WordPosition, ByteBit
      <4>3. CASE k = 3 BY <1>1, <2>1, <2>2, <4>3 DEF WordPosition, ByteBit
      <4> QED BY <2>4, <4>1, <4>2, <4>3
    <3>3. WordPosition(k, b) # 2
      BY <2>2, <2>4 DEF WordPosition, ByteBit
    <3> QED BY <2>2, <3>1, <3>2, <3>3
  <2> QED BY <2>3, <2>4
<1>3. CASE ~r.ext
  <2>1. r.canid = <<Uint8(Shr(id, 3)), Shl(id, 5) \cap 5 .. 7>>
    BY <1>3 DEF EncodeId
  <2>2. (k = 1 /\ b \in ByteBit) \/ (k = 2 /\ b \in 4 .. 7)
    BY <1>3 DEF HeaderBits
  <2>3. Shift(r.ext) = 21
    BY <1>3 DEF Shift
  <2>4. CASE k = 1
    <3>1. b \in FilterByte(r, k) <=> b + 3 \in id
      BY <1>1, <1>3, <2>1, <2>2, <2>4 DEF FilterByte
    <3> QED BY <2>2, <2>3, <2>4, <3>1 DEF WordPosition, ByteBit
  <2>5. CASE k = 2
    <3>1. b \in FilterByte(r, k) <=> b \in Shl(id, 5) \cap 5 .. 7 \/ (r.rtr /\ b = 4)
      BY <1>3, <2>1, <2>5 DEF FilterByte
    <3>2. b \in Shl(id, 5) \cap 5 .. 7 <=> b # 4 /\ b - 5 \in id
      BY <2>2, <2>5 DEF Shl, Bit
    <3>3. WordPosition(k, b) = b + 16
      BY <2>2, <2>5 DEF WordPosition
    <3> QED BY <2>2, <2>3, <2>5, <3>1, <3>2, <3>3
  <2> QED BY <2>2, <2>4, <2>5
<1> QED BY <1>2, <1>3

(* What the words of the manual page have there. *)
LEMMA WordBit ==
  ASSUME NEW ext \in BOOLEAN, NEW f \in Filters, NEW j \in Shift(ext) - 1 .. 31
  PROVE  /\ j \in Code(ext, f) <=> IF j = Shift(ext) - 1 THEN f.rtr ELSE j - Shift(ext) \in f.id
         /\ j \in Mask(ext, f) <=> IF j = Shift(ext) - 1 THEN f.anyrtr ELSE j - Shift(ext) \in f.any
<1>1. /\ f.id \in SUBSET Bit /\ f.any \in SUBSET Bit
      /\ f.rtr \in BOOLEAN /\ f.anyrtr \in BOOLEAN
  OBVIOUS
<1>2. PICK s \in {3, 21} : s = Shift(ext) /\ s = IF ext THEN 3 ELSE 21
  BY DEF Shift
<1>3. j \in Bit /\ j \in s - 1 .. 31
  BY <1>2 DEF Bit
<1>4. /\ Code(ext, f) = Shl(f.id, s) \cup (IF f.rtr THEN {s - 1} ELSE {})
           \cup (f.low \cap 0 .. s - 2)
      /\ Mask(ext, f) = Shl(f.any, s) \cup (IF f.anyrtr THEN {s - 1} ELSE {})
           \cup (f.anylow \cap 0 .. s - 2)
  BY <1>2 DEF Code, Mask
<1>5. ASSUME NEW w \in SUBSET Bit PROVE j \in Shl(w, s) <=> j # s - 1 /\ j - s \in w
  BY <1>3 DEF Shl, Bit
<1>6. j \notin 0 .. s - 2
  BY <1>3
<1> QED BY <1>1, <1>2, <1>3, <1>4, <1>5, <1>6

(* The words of the manual page are words. *)
LEMMA WordsAreWords ==
  ASSUME NEW ext \in BOOLEAN, NEW f \in Filters
  PROVE  Code(ext, f) \in SUBSET Bit /\ Mask(ext, f) \in SUBSET Bit
<1>1. f.rtr \in BOOLEAN /\ f.anyrtr \in BOOLEAN
  OBVIOUS
<1>2. PICK s \in {3, 21} : s = IF ext THEN 3 ELSE 21
  OBVIOUS
<1>3. /\ Code(ext, f) = Shl(f.id, s) \cup (IF f.rtr THEN {s - 1} ELSE {})
           \cup (f.low \cap 0 .. s - 2)
      /\ Mask(ext, f) = Shl(f.any, s) \cup (IF f.anyrtr THEN {s - 1} ELSE {})
           \cup (f.anylow \cap 0 .. s - 2)
  BY <1>2 DEF Code, Mask
<1> QED BY <1>1, <1>2, <1>3 DEF Shl, Bit

(* The lowest bits of the words of a standard frame are the program's. *)
LEMMA LowBit ==
  ASSUME NEW f \in Filters, NEW j \in 0 .. 15
  PROVE  /\ j \in Code(FALSE, f) <=> j \in f.low
         /\ j \in Mask(FALSE, f) <=> j \in f.anylow
<1>1. /\ f.id \in SUBSET Bit /\ f.any \in SUBSET Bit
      /\ f.rtr \in BOOLEAN /\ f.anyrtr \in BOOLEAN
  OBVIOUS
<1>2. /\ Code(FALSE, f) = Shl(f.id, 21) \cup (IF f.rtr THEN {20} ELSE {})
           \cup (f.low \cap 0 .. 19)
      /\ Mask(FALSE, f) = Shl(f.any, 21) \cup (IF f.anyrtr THEN {20} ELSE {})
           \cup (f.anylow \cap 0 .. 19)
  BY DEF Code, Mask
<1>3. ASSUME NEW w \in SUBSET Bit PROVE j \notin Shl(w, 21)
  BY DEF Shl, Bit
<1>4. j \in 0 .. 19 /\ j # 20
  OBVIOUS
<1> QED BY <1>1, <1>2, <1>3, <1>4

(* What the frame, the code and the mask have at a position decides. *)
LEMMA AcceptsByPosition ==
  ASSUME NEW r, r.ext \in BOOLEAN, r.rtr \in BOOLEAN,
         NEW id \in SUBSET Bit, r.canid = EncodeId(r.ext, id),
         NEW f \in Filters
  PROVE  Accepts(MaskRegisters(Code(r.ext, f), Mask(r.ext, f)), r) <=>
           /\ \A j \in Shift(r.ext) - 1 .. 31 :
                IF j = Shift(r.ext) - 1 THEN f.anyrtr \/ (f.rtr <=> r.rtr)
                ELSE j - Shift(r.ext) \in f.any \/ (j - Shift(r.ext) \in f.id <=> j - Shift(r.ext) \in id)
           /\ r.ext \/ \A i \in 1 .. 2 : \A b \in ByteBit :
                         HasByte(r, i) => \/ 8 * (2 - i) + b \in f.anylow
                                          \/ (b \in r.data[i] <=> 8 * (2 - i) + b \in f.low)
<1> DEFINE a == MaskRegisters(Code(r.ext, f), Mask(r.ext, f))
           Passes(k, b) == b \in a.mask[k] \/ (b \in a.code[k] <=> b \in FilterByte(r, k))
           Agrees(j) == IF j = Shift(r.ext) - 1 THEN f.anyrtr \/ (f.rtr <=> r.rtr)
                        ELSE \/ j - Shift(r.ext) \in f.any
                             \/ (j - Shift(r.ext) \in f.id <=> j - Shift(r.ext) \in id)
           Asked(i, b) == \/ 8 * (2 - i) + b \in f.anylow
                          \/ (b \in r.data[i] <=> 8 * (2 - i) + b \in f.low)
<1>1. ASSUME NEW k \in 1 .. 4, NEW b \in HeaderBits(r.ext, k)
      PROVE  Passes(k, b) <=> Agrees(WordPosition(k, b))
  <2>1. b \in ByteBit /\ WordPosition(k, b) \in Shift(r.ext) - 1 .. 31
    BY ComparedHeaderBits
  <2>2. /\ b \in a.code[k] <=> WordPosition(k, b) \in Code(r.ext, f)
        /\ b \in a.mask[k] <=> WordPosition(k, b) \in Mask(r.ext, f)
    BY <2>1, RegisterBit, WordsAreWords DEF MaskRegisters
  <2>3. b \in FilterByte(r, k) <=>
          IF WordPosition(k, b) = Shift(r.ext) - 1 THEN r.rtr
          ELSE WordPosition(k, b) - Shift(r.ext) \in id
    BY FrameBit
  <2>4. /\ WordPosition(k, b) \in Code(r.ext, f) <=>
             IF WordPosition(k, b) = Shift(r.ext) - 1 THEN f.rtr ELSE WordPosition(k, b) - Shift(r.ext) \in f.id
        /\ WordPosition(k, b) \in Mask(r.ext, f) <=>
             IF WordPosition(k, b) = Shift(r.ext) - 1 THEN f.anyrtr ELSE WordPosition(k, b) - Shift(r.ext) \in f.any
    BY <2>1, WordBit
  <2>5. f.rtr \in BOOLEAN /\ f.anyrtr \in BOOLEAN
    OBVIOUS
  <2> HIDE DEF a
  <2>6. CASE WordPosition(k, b) = Shift(r.ext) - 1
    BY <2>2, <2>3, <2>4, <2>5, <2>6
  <2>7. CASE WordPosition(k, b) # Shift(r.ext) - 1
    BY <2>2, <2>3, <2>4, <2>7
  <2> QED BY <2>6, <2>7
<1>2. ASSUME ~r.ext, NEW i \in 1 .. 2, NEW b \in ByteBit
      PROVE  Passes(i + 2, b) <=> Asked(i, b)
  <2>1. i + 2 \in 1 .. 4 /\ WordPosition(i + 2, b) = 8 * (2 - i) + b
        /\ 8 * (2 - i) + b \in 0 .. 15
    BY DEF WordPosition, ByteBit
  <2>2. /\ b \in a.code[i + 2] <=> 8 * (2 - i) + b \in Code(FALSE, f)
        /\ b \in a.mask[i + 2] <=> 8 * (2 - i) + b \in Mask(FALSE, f)
    <3>1. r.ext = FALSE
      BY <1>2
    <3>2. /\ a.code = RegisterBytes(Code(FALSE, f))
          /\ a.mask = RegisterBytes(Mask(FALSE, f))
      BY <3>1 DEF MaskRegisters
    <3>3. Code(FALSE, f) \in SUBSET Bit /\ Mask(FALSE, f) \in SUBSET Bit
      BY WordsAreWords
    <3>4. ASSUME NEW w \in SUBSET Bit
          PROVE  b \in RegisterBytes(w)[i + 2] <=> 8 * (2 - i) + b \in w
      <4>1. b \in RegisterBytes(w)[i + 2] <=> WordPosition(i + 2, b) \in w
        BY <2>1, RegisterBit
      <4> QED BY <2>1, <4>1
    <3> HIDE DEF a
    <3> QED BY <3>2, <3>3, <3>4
  <2>3. FilterByte(r, i + 2) = r.data[i]
    BY <1>2 DEF FilterByte
  <2> HIDE DEF a
  <2> QED BY <2>1, <2>2, <2>3, LowBit
<1>3. Accepts(a, r) <=>
        /\ \A k \in 1 .. 4 : \A b \in HeaderBits(r.ext, k) : Passes(k, b)
        /\ r.ext \/ \A i \in 1 .. 2 : \A b \in ByteBit : HasByte(r, i) => Passes(i + 2, b)
  <2> HIDE DEF Passes
  <2>1. Accepts(a, r) <=> \A k \in 1 .. 4 : \A b \in Compared(r, k) : Passes(k, b)
    BY DEF Accepts, Passes
  <2>2. ASSUME NEW k \in 1 .. 4
        PROVE  Compared(r, k) = HeaderBits(r.ext, k)
                 \cup (IF k \in {3, 4} /\ ~r.ext /\ HasByte(r, k - 2) THEN ByteBit ELSE {})
    BY DEF Compared
  <2>3. CASE r.ext
    BY <2>1, <2>2, <2>3
  <2>4. CASE ~r.ext
    <3>1. \A k \in {3, 4} : k \in 1 .. 4 /\ k - 2 \in 1 .. 2 /\ (k - 2) + 2 = k
      OBVIOUS
    <3>2. \A i \in 1 .. 2 : i + 2 \in {3, 4} /\ i + 2 \in 1 .. 4 /\ (i + 2) - 2 = i
      OBVIOUS
    <3>3. ASSUME Accepts(a, r), NEW i \in 1 .. 2, NEW b \in ByteBit, HasByte(r, i)
          PROVE  Passes(i + 2, b)
      BY <2>1, <2>2, <2>4, <3>2, <3>3
    <3>4. ASSUME \A k \in 1 .. 4 : \A b \in HeaderBits(r.ext, k) : Passes(k, b),
                 \A i \in 1 .. 2 : \A b \in ByteBit : HasByte(r, i) => Passes(i + 2, b),
                 NEW k \in 1 .. 4, NEW b \in Compared(r, k)
          PROVE  Passes(k, b)
      <4>1. CASE b \in HeaderBits(r.ext, k)
        BY <3>4, <4>1
      <4>2. CASE b \notin HeaderBits(r.ext, k)
        <5>1. k \in {3, 4} /\ HasByte(r, k - 2) /\ b \in ByteBit
          BY <2>2, <3>4, <4>2
        <5>2. PICK i \in 1 .. 2 : i = k - 2 /\ i + 2 = k
          BY <3>1, <5>1
        <5> QED BY <3>4, <5>1, <5>2
      <4> QED BY <4>1, <4>2
    <3>5. Accepts(a, r) => \A k \in 1 .. 4 : \A b \in HeaderBits(r.ext, k) : Passes(k, b)
      BY <2>1, <2>2
    <3> QED BY <2>1, <2>4, <3>3, <3>4, <3>5
  <2> QED BY <2>3, <2>4
<1> HIDE DEF Passes, Agrees, Asked, a
<1>4. (\A k \in 1 .. 4 : \A b \in HeaderBits(r.ext, k) : Passes(k, b))
        <=> \A j \in Shift(r.ext) - 1 .. 31 : Agrees(j)
  BY <1>1, ComparedHeaderBits
<1>5. ~r.ext => ((\A i \in 1 .. 2 : \A b \in ByteBit : HasByte(r, i) => Passes(i + 2, b))
                 <=> \A i \in 1 .. 2 : \A b \in ByteBit : HasByte(r, i) => Asked(i, b))
  BY <1>2
<1>6. Accepts(a, r) <=>
        /\ \A j \in Shift(r.ext) - 1 .. 31 : Agrees(j)
        /\ r.ext \/ \A i \in 1 .. 2 : \A b \in ByteBit : HasByte(r, i) => Asked(i, b)
  BY <1>3, <1>4, <1>5
<1> QED BY <1>6 DEF Agrees, Asked, a

(* The positions above Shift are the bits of the identifier. *)
LEMMA PositionsOfIdentifier ==
  ASSUME NEW ext \in BOOLEAN
  PROVE  /\ \A j \in Shift(ext) .. 31 : j - Shift(ext) \in IdBits(ext)
         /\ \A b \in IdBits(ext) : b + Shift(ext) \in Shift(ext) .. 31
                                  /\ (b + Shift(ext)) - Shift(ext) = b
BY DEF Shift, IdBits

(* The words of the manual page select what they say, for every setting    *)
(* and every frame: CAN_SetMask writes them so that the controller         *)
(* compares the bits of the identifier that are asked for, the remote flag *)
(* if it is, of a standard frame the data asked for, and nothing else.     *)
THEOREM FilterSelects == FrameSpec => []FilterExact
<1>1. InTransit => FilterExact
  <2> SUFFICES ASSUME InTransit, stage = "loaded"
               PROVE  Accepts(AcceptRegs, regs) <=>
                        /\ \A b \in IdBits(msg.ext) \ filter.any : b \in msg.id <=> b \in filter.id
                        /\ filter.anyrtr \/ (msg.rtr <=> filter.rtr)
                        /\ msg.ext \/ DataAgrees
    BY DEF FilterExact
  <2> DEFINE s == Shift(msg.ext)
             Same(b) == b \in filter.any \/ (b \in filter.id <=> b \in msg.id)
  <2>1. /\ filter \in Filters
        /\ msg.ext \in BOOLEAN /\ msg.rtr \in BOOLEAN /\ msg.id \in SUBSET Bit
        /\ regs.ext = msg.ext /\ regs.rtr = msg.rtr /\ regs.canid = EncodeId(regs.ext, msg.id)
    BY DEF InTransit, Message
  <2>2. Accepts(AcceptRegs, regs) <=>
          /\ \A j \in s - 1 .. 31 :
               IF j = s - 1 THEN filter.anyrtr \/ (filter.rtr <=> msg.rtr) ELSE Same(j - s)
          /\ msg.ext \/ DataAgrees
    <3>1. Accepts(AcceptRegs, regs) <=>
            /\ \A j \in s - 1 .. 31 :
                 IF j = s - 1 THEN filter.anyrtr \/ (filter.rtr <=> msg.rtr) ELSE Same(j - s)
            /\ msg.ext \/ \A i \in 1 .. 2 : \A b \in ByteBit :
                  HasByte(regs, i) => \/ 8 * (2 - i) + b \in filter.anylow
                                      \/ (b \in regs.data[i] <=> 8 * (2 - i) + b \in filter.low)
      BY <2>1, AcceptsByPosition DEF AcceptRegs
    <3>2. \A i \in 1 .. 2 : HasByte(regs, i) => regs.data[i] = msg.data[i]
      BY DEF InTransit, HasByte
    <3> HIDE DEF s, Same
    <3>3. (\A i \in 1 .. 2 : \A b \in ByteBit :
             HasByte(regs, i) => \/ 8 * (2 - i) + b \in filter.anylow
                                 \/ (b \in regs.data[i] <=> 8 * (2 - i) + b \in filter.low))
          <=> DataAgrees
      BY <3>2 DEF DataAgrees
    <3> QED BY <3>1, <3>3
  <2>3. s \in {3, 21}
    BY DEF Shift
  <2>4. (\A j \in s - 1 .. 31 :
            IF j = s - 1 THEN filter.anyrtr \/ (filter.rtr <=> msg.rtr) ELSE Same(j - s))
          <=> /\ filter.anyrtr \/ (filter.rtr <=> msg.rtr)
              /\ \A j \in s .. 31 : Same(j - s)
    <3> HIDE DEF s, Same
    <3>1. s - 1 \in s - 1 .. 31 /\ \A j : j \in s - 1 .. 31 <=> j = s - 1 \/ j \in s .. 31
      BY <2>3
    <3>2. \A j \in s .. 31 : j # s - 1
      BY <2>3
    <3> QED BY <3>1, <3>2
  <2>5. (\A j \in s .. 31 : Same(j - s)) <=> \A b \in IdBits(msg.ext) : Same(b)
    <3> HIDE DEF Same
    <3> QED BY <2>1, PositionsOfIdentifier
  <2> QED BY <2>1, <2>2, <2>4, <2>5
<1> QED BY <1>1, Invariance, PTL

=============================================================================
