----------------------------- MODULE CanVerify -----------------------------
(***************************************************************************)
(* The programs that receive messages: can_verify, which checks the        *)
(* sequences of test 10, and the examples receive, ctest and the function  *)
(* can_read of the script bindings.  read() is can_read (module RxPath)    *)
(* seen from its caller.                                                   *)
(***************************************************************************)
EXTENDS CanSend

CONSTANTS
  RxSize,     \* slots of the receive queue
  Byte,       \* values of a data byte
  Readers,    \* the programs to look at
  Pairs       \* which sender is looked at with which reader

ASSUME VerifyAssumption == RxSize \in Nat \ {0} /\ Byte \in Nat \ {0}

VARIABLES
  reader, rrate,  \* the program and its option -b
  rpc,            \* where it is
  rx, rxq,        \* the channel and its queue
  buf,            \* what read() has returned
  id, iseq, seq,  \* what verify_message expects
  errs, wrong,    \* wrong identifiers, other complaints
  last, gaps, marks  \* history: last message handled, gaps, overrun errors handled

rVars == <<reader, rrate, rpc, rx, rxq, buf, id, iseq, seq, errs, wrong, last, gaps, marks>>
checkVars == <<id, iseq, seq, errs, wrong, last, gaps, marks>>

ReadInit ==
  /\ reader \in Readers /\ <<prog, reader>> \in Pairs
  /\ rrate \in Rates /\ (rrate # 0 => reader = "verify")
  /\ rpc = "open" /\ rx = [run |-> FALSE, rate |-> 250] /\ rxq = <<>> /\ buf = <<>>
  /\ id = 0 /\ iseq = 0 /\ seq = 0 /\ errs = 0 /\ wrong = FALSE
  /\ last = -1 /\ gaps = 0 /\ marks = 0

(* The messages asked for in one read(). *)
Batch == CASE reader = "verify" -> SeqN [] reader = "lib" -> 79 [] OTHER -> 1

ReadOpen ==
  /\ rpc = "open"
  /\ rx' = [rx EXCEPT !.run = TRUE]
  /\ rpc' = IF rrate # 0 THEN "stop" ELSE "select"
  /\ UNCHANGED <<reader, rrate, rxq, buf, checkVars>>

ReadSetBitrate ==
  /\ rpc \in {"stop", "config", "start"}
  /\ rx' = BitrateSet(rpc, rx, rrate)
  /\ rpc' = BitrateNext(rpc, "select")
  /\ UNCHANGED <<reader, rrate, rxq, buf, checkVars>>

ToRead == rpc' = "read" /\ UNCHANGED <<reader, rrate, rx, rxq, buf, checkVars>>

(* can_verify waits for a message, *)
Select == rpc = "select" /\ reader = "verify" /\ rxq # <<>> /\ ToRead

(* and so do the bindings; *)
BindingSelect == rpc = "select" /\ reader = "lib" /\ rxq # <<>> /\ ToRead

(* receive and ctest look once in a while. *)
Poll == rpc = "select" /\ reader = "poll" /\ ToRead

ReadTakes ==
  /\ rpc = "read" /\ rxq # <<>> /\ Len(buf) < Batch
  /\ buf' = Append(buf, Head(rxq)) /\ rxq' = Tail(rxq)
  /\ UNCHANGED <<reader, rrate, rpc, rx, checkVars>>

(* "if(got > 0) ; else break": can_verify ends when read() returns nothing. *)
ReadReturns ==
  /\ rpc = "read" /\ (rxq = <<>> \/ Len(buf) = Batch)
  /\ rpc' = IF reader = "verify" /\ buf = <<>> THEN "ended" ELSE "handle"
  /\ UNCHANGED <<reader, rrate, rx, rxq, buf, checkVars>>

(* The data bytes of a message of length len that held num against seq. *)
SameData(len, num) ==
  CASE len \in {1, 2, 4} -> num % Byte^len = seq % Byte^len
    [] len = 8 -> num = seq
    [] OTHER -> TRUE

(* Faulty variant: the expected identifier is not synchronized. *)
ExpectNextBlind(m) == IF id = Limit THEN 0 ELSE id + 1

ExpectNext(m) == IF m.id = Limit THEN 0 ELSE m.id + 1

(* The length must be the next one and the data the number of the          *)
(* sequence; only then the sequence goes on.                               *)
CheckSequence(m) ==
  IF iseq # m.len THEN wrong' = TRUE /\ UNCHANGED <<iseq, seq>>
  ELSE /\ wrong' = (wrong \/ ~SameData(m.len, m.num))
       /\ IF iseq + 1 = SeqN THEN iseq' = 0 /\ seq' = seq + 1
                             ELSE iseq' = iseq + 1 /\ seq' = seq

(* An error message of the driver (errmsg): its identifier 0xffffffff is   *)
(* -1 here, since the successor of both is 0.                              *)
OverrunError == [n |-> -1, id |-> -1, len |-> 0, num |-> 0]

(* The messages lost since the last one.  A gap of a whole round of        *)
(* identifiers cannot be told from none.                                   *)
Missing(m) == m.n - last - 1

(* verify_message, which takes an error of the driver for a message. *)
VerifyMessage(m) ==
  /\ errs' = IF id # m.id THEN errs + 1 ELSE errs
  /\ id' = ExpectNext(m)
  /\ CheckSequence(m)
  /\ IF m = OverrunError THEN marks' = marks + 1 /\ UNCHANGED <<last, gaps>>
     ELSE /\ last' = m.n /\ marks' = marks
          /\ gaps' = IF Missing(m) % (Limit + 1) = 0 THEN gaps ELSE gaps + 1

Handle ==
  /\ rpc = "handle" /\ buf # <<>>
  /\ IF reader = "verify" THEN VerifyMessage(Head(buf)) ELSE UNCHANGED checkVars
  /\ buf' = Tail(buf)
  /\ UNCHANGED <<reader, rrate, rpc, rx, rxq>>

HandleDone ==
  /\ rpc = "handle" /\ buf = <<>>
  /\ rpc' = "select"
  /\ UNCHANGED <<reader, rrate, rx, rxq, buf, checkVars>>

Receiver ==
  \/ ReadOpen \/ ReadSetBitrate \/ Select \/ BindingSelect \/ Poll
  \/ ReadTakes \/ ReadReturns \/ Handle \/ HandleDone
=============================================================================
