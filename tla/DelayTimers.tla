---------------------------- MODULE DelayTimers ----------------------------
(***************************************************************************)
(* Postponed messages.  A message whose timestamp is not zero asks to be   *)
(* complete no earlier than that many microseconds after it came to the    *)
(* head of its queue.  sendcanmsg postpones it by calling                  *)
(* kapi_schedule_delayed, which gives each channel a timer of its own out  *)
(* of a pool, the first time the channel needs one.  It takes no lock: two *)
(* channels that need their first timer at once may be given the same one. *)
(* In what follows such channels share a timer, each setting it over the   *)
(* other's head.                                                           *)
(*                                                                         *)
(* TxPath has one channel, and a timer that may expire at any time; here   *)
(* there are several channels and time is counted.  Of a channel's queue   *)
(* only the head is left.                                                  *)
(***************************************************************************)
EXTENDS Integers, FiniteSets

CONSTANTS
  Channels,
  Timers,     \* MAX_CHANNELS, the size of the pool
  Delays,     \* timestamps: microseconds
  Lengths,    \* of messages
  Remotes,    \* may a message be a remote frame?
  Baud,       \* kbit/s
  MaxUsec,    \* microseconds whose nanoseconds an int can hold: 2147483
  MaxMsgs     \* bound: messages of a channel

ASSUME DelayAssumption ==
  /\ Timers \in Nat /\ Baud \in Nat \ {0} /\ MaxUsec \in Nat \ {0} /\ MaxMsgs \in Nat
  /\ Delays \subseteq Int /\ Lengths \subseteq 0..8
  /\ Remotes \subseteq BOOLEAN /\ 0 \notin Channels

(* candevs and dly both have MAX_CHANNELS elements (core.c:165,            *)
(* linux_2.6.c:126).                                                       *)
ASSUME PoolAssumption == IsFiniteSet(Channels) /\ Cardinality(Channels) <= Timers

VARIABLES
  idly,   \* the timers taken
  seen,   \* idly as a channel has read it
  work,   \* dev->delayedwork: NULL (0) or a timer
  timer,  \* dly: is it running, for how long, and d->data
  pc,     \* what happens to the head of a channel's queue
  msg,    \* that message
  usec,   \* the delay handed to kapi_schedule_delayed
  left,   \* time to the end of the transmission under way
  due,    \* time until the message may be complete
  count,  \* bound: messages so far
  overlapped  \* history: two channels have chosen their timer at once

poolVars == <<idly, seen, work, overlapped>>
vars == <<poolVars, timer, pc, msg, usec, left, due, count>>

Messages == [dly : Delays \cup {0}, ext : BOOLEAN, rtr : Remotes, len : Lengths]

NoMessage == [dly |-> 0, ext |-> FALSE, rtr |-> FALSE, len |-> 0]

Init ==
  /\ idly = 0 /\ seen = [c \in Channels |-> 0] /\ work = seen /\ overlapped = FALSE
  /\ timer = [t \in 1..Timers |-> [on |-> FALSE, left |-> 0, data |-> 0]]
  /\ pc = [c \in Channels |-> "empty"] /\ msg = [c \in Channels |-> NoMessage]
  /\ usec = [c \in Channels |-> 0] /\ left = usec /\ due = usec /\ count = usec

Goto(c, from, to) == pc[c] = from /\ pc' = [pc EXCEPT ![c] = to]

-----------------------------------------------------------------------------
(* A message becomes the head of the queue. *)
ToHead(c) ==
  /\ count[c] < MaxMsgs /\ count' = [count EXCEPT ![c] = @ + 1]
  /\ Goto(c, "empty", "send")
  /\ \E m \in Messages : msg' = [msg EXCEPT ![c] = m] /\ due' = [due EXCEPT ![c] = m.dly]
  /\ UNCHANGED <<poolVars, timer, usec, left>>

(* The bits of a message without stuff bits, as sendcanmsg counts them ... *)
Bits(m) == 44 + (IF m.ext THEN 20 ELSE 0) + 8 * m.len

(* ... and on the wire, where a remote frame has no data. *)
WireBits(m) == 44 + (IF m.ext THEN 20 ELSE 0) + (IF m.rtr THEN 0 ELSE 8 * m.len)

(* Faulty variant: every message counts as an extended one. *)
PostponedByExt(m) == m.dly - ((64 + 8 * m.len) * 1000) \div Baud

PostponedBy(m) == m.dly - (Bits(m) * 1000) \div Baud

(* sendcanmsg: postpone the message ... *)
Postpone(c) ==
  /\ msg[c].dly # 0 /\ PostponedBy(msg[c]) > 0
  /\ Goto(c, "send", "schedule")
  /\ msg' = [msg EXCEPT ![c].dly = 0]
  /\ usec' = [usec EXCEPT ![c] = PostponedBy(msg[c])]
  /\ UNCHANGED <<poolVars, timer, left, due, count>>

(* ... or send it. *)
Duration(m) == (WireBits(m) * 1000 + Baud - 1) \div Baud

Transmit(c) ==
  /\ msg[c].dly = 0 \/ PostponedBy(msg[c]) <= 0
  /\ Goto(c, "send", "wire")
  /\ left' = [left EXCEPT ![c] = Duration(msg[c])]
  /\ UNCHANGED <<poolVars, timer, msg, usec, due, count>>

-----------------------------------------------------------------------------
(* kapi_schedule_delayed *)

InPool(c) == pc[c] \in {"take", "count"}

(* A channel without a timer finds one in the pool, or the last one gone.  *)
ChooseFirst(c) ==
  /\ Goto(c, "schedule", IF idly = Timers THEN "stuck" ELSE "take")
  /\ seen' = [seen EXCEPT ![c] = idly]
  /\ overlapped' = (overlapped \/ \E d \in Channels \ {c} : InPool(d))
  /\ UNCHANGED <<idly, work, timer, msg, usec, left, due, count>>

(* Faulty variant: a new timer for every message. *)
ChooseNew(c) == ChooseFirst(c)

(* Faulty variant: ... whether or not the pool has one left. *)
ChooseUnchecked(c) ==
  /\ Goto(c, "schedule", "take")
  /\ seen' = [seen EXCEPT ![c] = idly]
  /\ UNCHANGED <<idly, work, overlapped, timer, msg, usec, left, due, count>>

(* A channel that has a timer uses it again. *)
Choose(c) ==
  \/ work[c] = 0 /\ ChooseFirst(c)
  \/ /\ work[c] # 0
     /\ Goto(c, "schedule", "start")
     /\ UNCHANGED <<poolVars, timer, msg, usec, left, due, count>>

(* The code names idly three times: each time it may be read anew, or what *)
(* was read before be used.                                                *)
Reread(c) == {seen[c], idly}

Take(c) ==
  /\ Goto(c, "take", "count")
  /\ \E n \in Reread(c) :
       /\ seen' = [seen EXCEPT ![c] = n]
       /\ work' = [work EXCEPT ![c] = n + 1]
  /\ UNCHANGED <<idly, overlapped, timer, msg, usec, left, due, count>>

(* Faulty variant: idly is not incremented. *)
CountNot(c) ==
  /\ Goto(c, "count", "start")
  /\ UNCHANGED <<poolVars, timer, msg, usec, left, due, count>>

(* idly++, and hrtimer_init, which forgets that the timer may be running   *)
(* for another channel.                                                    *)
Count(c) ==
  /\ Goto(c, "count", "start")
  /\ \E n \in Reread(c) : idly' = n + 1
  /\ timer' = [timer EXCEPT ![work[c]].on = FALSE]
  /\ UNCHANGED <<seen, work, overlapped, msg, usec, left, due, count>>

StartFor(c) ==
  /\ Goto(c, "start", "launch")
  /\ timer' = [timer EXCEPT ![work[c]].data = c]
  /\ UNCHANGED <<poolVars, msg, usec, left, due, count>>

(* usec*1000 is an int, and a negative time is over at once. *)
Expiry(u) == LET wrapped == ((u + MaxUsec) % (2 * MaxUsec)) - MaxUsec IN IF wrapped < 0 THEN 0 ELSE wrapped

(* Faulty variant: an expired timer is not started again. *)
StartOnce(c) ==
  /\ Goto(c, "launch", "postponed")
  /\ timer' = [timer EXCEPT ![work[c]].on = count[c] = 1, ![work[c]].left = Expiry(usec[c])]
  /\ usec' = [usec EXCEPT ![c] = 0]
  /\ UNCHANGED <<poolVars, msg, left, due, count>>

(* hrtimer_start: a timer that runs is started anew. *)
Start(c) ==
  /\ Goto(c, "launch", "postponed")
  /\ timer' = [timer EXCEPT ![work[c]].on = TRUE, ![work[c]].left = Expiry(usec[c])]
  /\ usec' = [usec EXCEPT ![c] = 0]
  /\ UNCHANGED <<poolVars, msg, left, due, count>>

(* dlyworker and delayedmsgworker: qconsume, which passes the head to      *)
(* sendcanmsg.  A timer that is shared may call back a channel that does   *)
(* not wait for it; the second consumer there is then is not followed.     *)
Fire(t) ==
  /\ timer[t].on /\ timer[t].left = 0
  /\ timer' = [timer EXCEPT ![t].on = FALSE]
  /\ LET c == timer[t].data IN
     pc' = IF pc[c] = "postponed" THEN [pc EXCEPT ![c] = "send"] ELSE pc
  /\ UNCHANGED <<poolVars, msg, usec, left, due, count>>

-----------------------------------------------------------------------------
(* The transmit interrupt follows, and the message is consumed. *)
Sent(c) ==
  /\ left[c] = 0
  /\ Goto(c, "wire", "empty")
  /\ msg' = [msg EXCEPT ![c] = NoMessage] /\ due' = [due EXCEPT ![c] = 0]
  /\ UNCHANGED <<poolVars, timer, usec, left, count>>

(* Time passes while everyone waits, up to the next event. *)
Remaining == {left[c] : c \in {d \in Channels : pc[d] = "wire"}}
             \cup {timer[t].left : t \in {u \in 1..Timers : timer[u].on}}

Elapse ==
  /\ \A c \in Channels : pc[c] \in {"empty", "postponed", "wire", "stuck"}
  /\ \E d \in Remaining :
       /\ d > 0 /\ \A r \in Remaining : d <= r
       /\ left' = [c \in Channels |-> IF pc[c] = "wire" THEN left[c] - d ELSE left[c]]
       /\ due' = [c \in Channels |-> IF pc[c] = "empty" THEN due[c] ELSE due[c] - d]
       /\ timer' = [t \in 1..Timers |-> IF timer[t].on THEN [timer[t] EXCEPT !.left = @ - d] ELSE timer[t]]
  /\ UNCHANGED <<poolVars, pc, msg, usec, count>>

Channel(c) ==
  \/ Postpone(c) \/ Transmit(c)
  \/ Choose(c) \/ Take(c) \/ Count(c) \/ StartFor(c) \/ Start(c)
  \/ Sent(c)

Next ==
  \/ \E c \in Channels : ToHead(c) \/ Channel(c)
  \/ \E t \in 1..Timers : Fire(t)
  \/ Elapse

Spec == Init /\ [][Next]_vars

(* Code that may go on goes on, and so does time. *)
FairSpec ==
  /\ Spec
  /\ \A c \in Channels : WF_vars(Channel(c))
  /\ \A t \in 1..Timers : WF_vars(Fire(t))
  /\ WF_vars(Elapse)

-----------------------------------------------------------------------------
Places == {"empty", "send", "schedule", "take", "count", "start", "launch",
           "postponed", "stuck", "wire"}

TypeOK ==
  /\ idly \in 0..Timers /\ seen \in [Channels -> 0..Timers] /\ work \in [Channels -> 0..Timers]
  /\ overlapped \in BOOLEAN
  /\ timer \in [1..Timers -> [on : BOOLEAN, left : Nat, data : Channels \cup {0}]]
  /\ pc \in [Channels -> Places] /\ msg \in [Channels -> Messages \cup {NoMessage}]
  /\ usec \in [Channels -> Int] /\ left \in [Channels -> Int] /\ due \in [Channels -> Int]
  /\ count \in [Channels -> 0..MaxMsgs]

(* However the choices of the channels overlap, and whichever increments   *)
(* of idly are lost, no channel is told "out of timers" (linux_2.6.c:144), *)
(* which would leave its message in the queue for ever, and none takes a   *)
(* timer beyond the end of the pool.                                       *)
PoolSuffices ==
  \A c \in Channels :
    /\ pc[c] # "stuck"
    /\ pc[c] = "take" => \A n \in Reread(c) : n < Timers

(* Another channel was given the same timer.  Nothing ever ends that.      *)
Shares(c) == work[c] # 0 /\ \E d \in Channels \ {c} : work[d] = work[c]

(* Two channels share a timer only after channels have chosen their timers *)
(* at once.  A channel that does not share its own is called back by it    *)
(* only while it waits for that, so that its queue has one consumer, and   *)
(* has it running whenever it waits.                                       *)
OwnTimer ==
  /\ \A c \in Channels : Shares(c) => overlapped
  /\ \A t \in 1..Timers :
       timer[t].on => LET c == timer[t].data IN Shares(c) \/ (pc[c] = "postponed" /\ work[c] = t)
  /\ \A c \in Channels : pc[c] = "postponed" => Shares(c) \/ timer[work[c]].on

(* A message of a channel that does not share its timer is not complete on *)
(* the wire before its time; and while it waits, the timer is set so that  *)
(* it can be complete at its time, but for a microsecond the divisions     *)
(* lose: "... subtract the minimal transmission time of the message from   *)
(* the delay" (sja1000funcs.c:403).                                        *)
OnTime ==
  \A c \in Channels :
    /\ pc[c] = "wire" => Shares(c) \/ due[c] <= left[c]
    /\ pc[c] = "postponed" =>
         Shares(c) \/ timer[work[c]].left + Duration(msg[c]) <= due[c] + 1

(* A message that came to the head of its queue gets on the wire, unless   *)
(* its channel shares a timer.                                             *)
HeadGoesOut == \A c \in Channels : (pc[c] = "send") ~> (pc[c] = "wire" \/ Shares(c))
=============================================================================
