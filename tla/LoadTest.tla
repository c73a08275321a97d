------------------------------ MODULE LoadTest ------------------------------
(***************************************************************************)
(* A sending and a receiving program at the two ends of a bus (CanSend,    *)
(* CanVerify): the load test of the examples.  "can_verify must be started *)
(* before can_send."  Between them are the receiver's controller and its   *)
(* interrupt handler, which RxPath has in detail: a receiver that does not *)
(* keep up loses messages, and may be told so by a message of the driver.  *)
(***************************************************************************)
EXTENDS CanVerify

CONSTANT FifoSize  \* messages the receiver's controller holds

ASSUME FifoAssumption == FifoSize \in Nat \ {0}

VARIABLES
  fifo,     \* in the receiver's controller
  overrun,  \* an overrun interrupt is to be handled
  lost      \* history: a message was lost

busVars == <<fifo, overrun, lost>>
vars == <<sVars, rVars, busVars>>

Init == SendInit /\ ReadInit /\ fifo = <<>> /\ overrun = FALSE /\ lost = FALSE

(* Both controllers operate, at the same bit rate. *)
Working == tx.run /\ rx.run /\ tx.rate = rx.rate

(* A controller that is full loses a message; there is an interrupt only   *)
(* when the overrun status was clear.                                      *)
Arrive(m) ==
  IF Len(fifo) < FifoSize THEN fifo' = Append(fifo, m) /\ UNCHANGED <<overrun, lost>>
  ELSE lost' = TRUE /\ overrun' \in {overrun, TRUE} /\ fifo' = fifo

Transmit ==
  /\ Working /\ txq # <<>>
  /\ txq' = Tail(txq) /\ Arrive(Head(txq))
  /\ UNCHANGED <<prog, opt, spc, start, left, ret, round, base, tx, sent, errors, rVars>>

(* The handler: a message goes to the queue if that has room, ... *)
Store ==
  /\ fifo # <<>> /\ Len(rxq) < RxSize
  /\ rxq' = Append(rxq, Head(fifo)) /\ fifo' = Tail(fifo)
  /\ UNCHANGED <<sVars, reader, rrate, rpc, rx, buf, checkVars, overrun, lost>>

(* ... and so does the error message for an overrun, behind whatever the   *)
(* queue holds by then and before what the controller still holds.         *)
Report ==
  /\ overrun /\ overrun' = FALSE
  /\ rxq' = IF Len(rxq) < RxSize THEN Append(rxq, OverrunError) ELSE rxq
  /\ UNCHANGED <<sVars, reader, rrate, rpc, rx, buf, checkVars, fifo, lost>>

Handler == Store \/ Report

Started == rpc \notin {"open", "stop", "config", "start"}

SenderStep == ((Open /\ Started) \/ Sender) /\ UNCHANGED <<rVars, busVars>>

ReceiverStep == Receiver /\ UNCHANGED <<sVars, busVars>>

Next == SenderStep \/ ReceiverStep \/ Transmit \/ Handler

Spec == Init /\ [][Next]_vars

(* Programs and handler are scheduled, and a bus that works transports     *)
(* messages.                                                               *)
FairSpec ==
  /\ Spec
  /\ WF_vars(SenderStep) /\ WF_vars(ReceiverStep) /\ WF_vars(Transmit) /\ WF_vars(Handler)

-----------------------------------------------------------------------------
(* The n-th message of a test 10 that nothing disturbs. *)
Ideal(n) == [n |-> n, id |-> n % (Limit + 1), len |-> n % SeqN, num |-> n \div SeqN]

(* Whatever write() takes of a sequence at a time, the stream test 10      *)
(* leaves behind is one sequence after the other, whole and in order, with *)
(* the identifiers and counters the verifier counts on.                    *)
SequencesWhole == prog = "t10" => \A i \in 1..Len(txq) : txq[i] = Ideal(txq[i].n)

(* A test that retries has had as many messages stored as it was told to   *)
(* send ("-T number of messages", "number of sequences", can_send.c:462,   *)
(* 813) when it ends, whatever write() refused.  How many of them the last *)
(* sleep leaves time to transmit is another matter.                        *)
CompleteTest ==
  (prog \in {"t10"} \cup Retries /\ spc = "closed" /\ round > 0 /\ ret # -1) =>
    sent = opt.count * Count

(* What the complaints of can_verify mean.  It has none if the receiver    *)
(* lost nothing, and at least one wrong identifier for every gap in what   *)
(* it was given; and since it synchronizes after a gap and wraps where the *)
(* sender does there are no others, but for two for each overrun error of  *)
(* the driver, which it takes for a message.  It does not end by itself,   *)
(* since select() and read() agree.                                        *)
VerdictRight ==
  /\ (prog = "t10" /\ reader = "verify") =>
       /\ ~lost => errs = 0 /\ ~wrong
       /\ gaps <= errs /\ errs <= gaps + 2 * marks
  /\ rpc # "ended"

SameRate == (IF opt.rate = 0 THEN 250 ELSE opt.rate) = (IF rrate = 0 THEN 250 ELSE rrate)

(* A test with option -T comes to its end although write() may store less  *)
(* than it was given, or nothing, at any time; unless it was told to send  *)
(* so slowly that PerCycle is 0, or the bus does not work.                 *)
Ending == \/ prog \in Bursts \cup Retries \cup {"t10"} /\ SameRate
          \/ prog = "t20" /\ Ready = "write"

TestEnds == (opt.count > 0 /\ Ending) => <>(spc = "closed")

=============================================================================
