------------------------------ MODULE CanSend ------------------------------
(***************************************************************************)
(* The programs that send messages: can_send with its tests, and the       *)
(* smaller examples transmit, transmit2, transmit3, noiser and the         *)
(* functions can_send of the two script bindings.  They share the channel  *)
(* set-up, the loops around write() and the end of the program; they       *)
(* differ in what they write and in what they do when write() returns      *)
(* less than it was given.                                                 *)
(*                                                                         *)
(* write() is can_write (module TxPath) seen from its caller: it stores    *)
(* messages while the queue has room and returns how many it has stored.   *)
(* A message of test 10 carries its number n in the stream that was        *)
(* stored; no program sees it.                                             *)
(***************************************************************************)
EXTENDS Integers, Sequences

CONSTANTS
  SeqN,       \* messages of one sequence of test 10
  Limit,      \* the largest identifier of test 10: 2042 or 536870906
  TxSize,     \* slots of the transmit queue
  Programs,   \* the programs to look at
  Counts,     \* values of option -T, 0 if it is not given
  Rates,      \* values of option -b, 0 if it is not given
  Loads,      \* values of option -l in percent
  MaxSent,    \* bound: messages stored by a program that does not end
  MaxErrors   \* bound: failing calls of write

ASSUME SendAssumption ==
  /\ SeqN \in Nat \ {0} /\ TxSize \in Nat \ {0}
  /\ Limit \in Nat /\ (Limit + 1) % SeqN = 0
  /\ Counts \subseteq Nat /\ Rates \subseteq Nat /\ 0 \in Rates /\ 100 \in Loads /\ Loads \subseteq Nat
  /\ MaxSent \in Nat /\ MaxErrors \in Nat

VARIABLES
  prog, opt,    \* the program and its options
  spc,          \* where it is
  start, left,  \* the next message of the array, and how many are to be written
  ret,          \* the result of the call of write
  round,        \* test_count
  base,         \* message.id, tm[0].id
  tx, txq,      \* the channel (does it operate, at which bit rate) and its queue
  sent, errors  \* history: messages stored, failing calls

sVars == <<prog, opt, spc, start, left, ret, round, base, tx, txq, sent, errors>>

Bursts  == {"t1", "t2", "t3"}
Retries == {"t11", "t12"}
Single  == {"plain", "t4"}
Options == [count : Counts, sleep : BOOLEAN, rate : Rates, load : Loads]

(* The division of C. *)
Quot(a, b) == IF (a < 0) = (b < 0) THEN (IF a < 0 THEN -a ELSE a) \div (IF b < 0 THEN -b ELSE b)
              ELSE -((IF a < 0 THEN -a ELSE a) \div (IF b < 0 THEN -b ELSE b))

(* The messages test20 writes every 20 ms; baud is -1 without option -b. *)
PerCycle == Quot(Quot(20000, 120 * Quot(1000, IF opt.rate = 0 THEN -1 ELSE opt.rate)) * opt.load, 100)

(* How many messages a program passes to write. *)
Count ==
  CASE prog = "t1" -> 4
    [] prog \in {"t2", "t3"} -> 5
    [] prog = "t10" -> SeqN
    [] prog \in {"transmit", "transmit2"} -> 16
    [] prog = "noiser" -> 10
    [] OTHER -> 1

(* Identifier, length and counter of the i-th of them.  Only those of test *)
(* 10 are told apart, and the identifier or counter that changes with each *)
(* call of write.                                                          *)
Msg(i) ==
  IF prog = "t10" THEN [n |-> sent, id |-> base + i, len |-> i, num |-> round]
  ELSE [n |-> 0, id |-> base, len |-> 8, num |-> IF prog = "t12" THEN round ELSE 0]

Endless == opt.count = 0 \/ prog \in Single \cup {"transmit2", "noiser", "lib"}

(* An option that a program does not look at has one value. *)
SendInit ==
  /\ prog \in Programs /\ opt \in Options
  /\ opt.sleep => prog \in Bursts \cup Single
  /\ opt.load = 100 \/ prog = "t20"
  /\ spc = "open" /\ start = 0 /\ left = Count /\ ret = 0 /\ round = 0
  /\ base = IF prog \in {"t10", "t11"} THEN 0 ELSE 100
  /\ tx = [run |-> FALSE, rate |-> 250] /\ txq = <<>>
  /\ sent = 0 /\ errors = 0

-----------------------------------------------------------------------------
(* Opening the device resets the controller and starts it. *)

Ready == IF prog = "t20" /\ PerCycle = 0 THEN "spin" ELSE "write"

Open ==
  /\ spc = "open"
  /\ \/ /\ tx' = [tx EXCEPT !.run = TRUE]
        /\ spc' = IF prog = "reset" THEN "reset" ELSE IF opt.rate > 0 THEN "stop" ELSE Ready
     \/ tx' = tx /\ spc' = "closed"
  /\ UNCHANGED <<prog, opt, start, left, ret, round, base, txq, sent, errors>>

(* Option -R: CMD_RESET and exit. *)
ResetOnly ==
  /\ spc = "reset"
  /\ tx' = [tx EXCEPT !.run = FALSE]
  /\ spc' = "exit"
  /\ UNCHANGED <<prog, opt, start, left, ret, round, base, txq, sent, errors>>

(* A step of set_bitrate, CMD_STOP, CONF_TIMING, CMD_START, for channel c. *)
BitrateNext(pc, ready) == CASE pc = "stop" -> "config" [] pc = "config" -> "start" [] pc = "start" -> ready

BitrateSet(pc, c, rate) ==
  CASE pc = "stop"   -> [c EXCEPT !.run = FALSE]
    [] pc = "config" -> [c EXCEPT !.rate = rate]
    [] pc = "start"  -> [c EXCEPT !.run = TRUE]

SetBitrate ==
  /\ spc \in {"stop", "config", "start"}
  /\ tx' = BitrateSet(spc, tx, opt.rate)
  /\ spc' = BitrateNext(spc, Ready)
  /\ UNCHANGED <<prog, opt, start, left, ret, round, base, txq, sent, errors>>

-----------------------------------------------------------------------------
(* write() *)

Write ==
  /\ spc = "write" /\ prog # "transmit3" /\ (Endless => sent < MaxSent)
  /\ ret' = 0 /\ spc' = "call"
  /\ UNCHANGED <<prog, opt, start, left, round, base, tx, txq, sent, errors>>

WriteStores ==
  /\ spc = "call" /\ ret < left /\ Len(txq) < TxSize
  /\ txq' = Append(txq, Msg(start + ret))
  /\ sent' = IF prog \in Bursts /\ ~Endless THEN sent ELSE sent + 1
  /\ ret' = ret + 1
  /\ UNCHANGED <<prog, opt, spc, start, left, round, base, tx, errors>>

WriteReturns ==
  /\ spc = "call" /\ (ret = left \/ Len(txq) = TxSize)
  /\ spc' = "back"
  /\ UNCHANGED <<prog, opt, start, left, ret, round, base, tx, txq, sent, errors>>

WriteFails ==
  /\ spc = "call" /\ ret = 0 /\ errors < MaxErrors
  /\ ret' = -1 /\ errors' = errors + 1 /\ spc' = "back"
  /\ UNCHANGED <<prog, opt, start, left, round, base, tx, txq, sent>>

(* transmit3 uses the ioctl SEND, which can_ioctl refuses. *)
SendIoctl ==
  /\ spc = "write" /\ prog = "transmit3"
  /\ ret' = -1 /\ spc' = "wait"
  /\ UNCHANGED <<prog, opt, start, left, round, base, tx, txq, sent, errors>>

-----------------------------------------------------------------------------
(* After write().  A program that goes to "exit" ends at once, one that    *)
(* goes to "wait" sleeps before it ends.                                   *)

Back(p) == spc = "back" /\ prog \in p

Keep == UNCHANGED <<prog, opt, ret, tx, txq, sent, errors>>

Enough == round' = opt.count

(* update_seq *)
NextBase == IF base > Limit - SeqN THEN 0 ELSE base + SeqN

(* Faulty variant: the rest is written from the start of the array. *)
SequencePartFromStart ==
  /\ Back({"t10"}) /\ 0 <= ret /\ ret < left
  /\ left' = left - ret
  /\ spc' = "write"
  /\ Keep /\ UNCHANGED <<start, round, base>>

(* test10: the rest of a sequence is written again, ... *)
SequencePart ==
  /\ Back({"t10"}) /\ 0 <= ret /\ ret < left
  /\ left' = left - ret /\ start' = start + ret
  /\ spc' = "write"
  /\ Keep /\ UNCHANGED <<round, base>>

(* ... the next one follows, unless it was the last, ... *)
SequenceDone ==
  /\ Back({"t10"}) /\ ret = left
  /\ round' = round + 1
  /\ left' = SeqN /\ start' = 0
  /\ IF Enough THEN spc' = "wait" /\ base' = base
               ELSE spc' = "write" /\ base' = NextBase
  /\ Keep

(* ... and an error ends the program. *)
SequenceError ==
  /\ Back({"t10"}) /\ ret = -1
  /\ spc' = "exit"
  /\ Keep /\ UNCHANGED <<start, left, round, base>>

(* Faulty variant: a message that was refused counts. *)
RetryNext ==
  /\ Back(Retries) /\ ret # 1
  /\ round' = round + 1
  /\ spc' = IF Enough THEN "wait" ELSE "write"
  /\ Keep /\ UNCHANGED <<start, left, base>>

(* test11, test12: "goto again".  What message.id becomes in test 11       *)
(* ("message.id = message.id++ % 2000") the language does not define.      *)
RetryAgain ==
  /\ Back(Retries) /\ ret # 1
  /\ spc' = "write"
  /\ Keep /\ UNCHANGED <<start, left, round, base>>

RetryDone ==
  /\ Back(Retries) /\ ret = 1
  /\ round' = round + 1
  /\ base' \in IF prog = "t11" THEN {base % 2000, (base + 1) % 2000, (base % 2000) + 1} ELSE {base}
  /\ spc' = IF Enough THEN "wait" ELSE "write"
  /\ Keep /\ UNCHANGED <<start, left>>

(* test1, test2, test3: whatever was stored counts as a burst; without     *)
(* option -s there is one attempt.                                         *)
Burst(test) ==
  /\ Back({test})
  /\ round' = IF ret < 1 THEN round ELSE round + 1
  /\ spc' = IF opt.sleep /\ ~(ret >= 1 /\ Enough) THEN "write" ELSE "exit"
  /\ Keep /\ UNCHANGED <<start, left, base>>

Test1 == Burst("t1")
Test2 == Burst("t2")
Test3 == Burst("t3")

(* main: one message, or one after each sleep; test 4 increments the       *)
(* identifier unless write() failed.                                       *)
SingleDone ==
  /\ Back(Single)
  /\ base' = IF prog = "t4" /\ ret >= 1 THEN base + 1 ELSE base
  /\ spc' = IF opt.sleep THEN "write" ELSE "wait"
  /\ Keep /\ UNCHANGED <<start, left, round>>

(* Faulty variant: only what was stored counts. *)
LoadDoneStored ==
  /\ Back({"t20"})
  /\ round' = IF opt.count = 0 \/ ret < 1 THEN round ELSE round + 1
  /\ spc' = IF opt.count # 0 /\ Enough THEN "exit" ELSE "write"
  /\ Keep /\ UNCHANGED <<start, left, base>>

(* test20: failures count like messages. *)
LoadDone ==
  /\ Back({"t20"})
  /\ round' = IF opt.count = 0 THEN round ELSE round + 1
  /\ spc' = IF opt.count # 0 /\ Enough THEN "exit" ELSE "write"
  /\ Keep /\ UNCHANGED <<start, left, base>>

(* The examples: transmit writes once, transmit2 and the bindings look at  *)
(* no result, noiser gives up when nothing was stored.                     *)
Example(p, next) ==
  /\ Back({p})
  /\ spc' = next
  /\ Keep /\ UNCHANGED <<start, left, round, base>>

TransmitDone  == Example("transmit", "wait")
Transmit2Done == Example("transmit2", "write")
NoiserDone    == Example("noiser", IF ret < 1 THEN "wait" ELSE "write")
BindingDone   == Example("lib", "write")

(* can_close stops the controller and frees the queue.  The programs sleep *)
(* for a fixed time before, "give it a chance to transmit messages in tx   *)
(* buffer"; nobody looks whether that was enough.                          *)
Close ==
  /\ spc \in {"exit", "wait"}
  /\ tx' = [tx EXCEPT !.run = FALSE]
  /\ txq' = <<>>
  /\ spc' = "closed"
  /\ UNCHANGED <<prog, opt, start, left, ret, round, base, sent, errors>>

Sender ==
  \/ ResetOnly \/ SetBitrate
  \/ Write \/ WriteStores \/ WriteReturns \/ WriteFails \/ SendIoctl
  \/ SequencePart \/ SequenceDone \/ SequenceError
  \/ RetryAgain \/ RetryDone \/ Test1 \/ Test2 \/ Test3 \/ SingleDone \/ LoadDone
  \/ TransmitDone \/ Transmit2Done \/ NoiserDone \/ BindingDone
  \/ Close
=============================================================================
