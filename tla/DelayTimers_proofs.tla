------------------------- MODULE DelayTimers_proofs -------------------------
(***************************************************************************)
(* Proofs about DelayTimers, for any set of channels, any pool that has a  *)
(* timer for each, and any delays, whichever channels choose their timers  *)
(* at once: idly is never larger than the number of channels that have     *)
(* counted their timer, so that a channel without one finds one in the     *)
(* pool; a channel that does not share its timer is called back by it when *)
(* it waits, and only then; and its message is complete at its time, but   *)
(* for the microsecond two divisions lose.                                 *)
(***************************************************************************)
EXTENDS DelayTimers, FiniteSetTheorems, TLAPS

(* The channels that have counted their timer. *)
Done == {c \in Channels : work[c] # 0 /\ pc[c] # "count"}

(* However many increments are lost, idly never runs ahead of them. *)
Counted ==
  /\ idly <= Cardinality(Done) /\ \A c \in Channels : seen[c] <= Cardinality(Done)
  /\ \A c \in Channels :
       /\ pc[c] = "take" => work[c] = 0
       /\ pc[c] \in {"count", "start", "launch", "postponed"} => work[c] # 0
       /\ pc[c] # "stuck"

(* No two channels have the same timer. *)
Distinct == \A c, d \in Channels : c # d /\ work[c] # 0 => work[c] # work[d]

(* One channel at a time takes a timer, the next of the pool. *)
Alone ==
  /\ \A c, d \in Channels : InPool(c) /\ InPool(d) => c = d
  /\ \A c \in Channels : InPool(c) => seen[c] = idly
  /\ \A c \in Channels : IF pc[c] = "count" THEN work[c] = idly + 1 ELSE work[c] <= idly

Single == ~overlapped => Alone /\ Distinct

(* A timer calls back a channel that has it; one that does not share it    *)
(* only while it waits.                                                    *)
Calls(t) ==
  /\ timer[t].data # 0 => timer[t].data \in Channels /\ work[timer[t].data] = t
  /\ timer[t].on => /\ timer[t].data # 0
                    /\ Shares(timer[t].data) \/ pc[timer[t].data] = "postponed"

Called(c) ==
  /\ pc[c] = "postponed" => Shares(c) \/ (timer[work[c]].on /\ timer[work[c]].data = c)
  /\ pc[c] = "launch" => /\ timer[work[c]].data # 0
                         /\ Shares(c) \/ timer[work[c]].data = c

Owned == (\A t \in 1..Timers : Calls(t)) /\ \A c \in Channels : Called(c)

IInv == TypeOK /\ Counted /\ Single /\ Owned

-----------------------------------------------------------------------------
(* The arithmetic of delays stays in the integers, and a timer is never    *)
(* set to a negative time.                                                 *)
LEMMA MessageTypes ==
  \A m \in Messages \cup {NoMessage} :
    m.dly \in Int /\ m.len \in Int /\ [m EXCEPT !.dly = 0] \in Messages \cup {NoMessage}
<1>1. ASSUME NEW m \in Messages
      PROVE  m.dly \in Int /\ m.len \in Int /\ [m EXCEPT !.dly = 0] \in Messages
  BY DelayAssumption DEF Messages
<1>2. /\ NoMessage.dly \in Int /\ NoMessage.len \in Int
      /\ [NoMessage EXCEPT !.dly = 0] = NoMessage
  BY DEF NoMessage
<1> QED BY <1>1, <1>2

TimerState == [on : BOOLEAN, left : Nat, data : Channels \cup {0}]

(* The pool and its timers keep their types. *)
LEMMA TimerTypes ==
  ASSUME NEW r \in TimerState
  PROVE  /\ [r EXCEPT !.on = FALSE] \in TimerState
         /\ \A n \in Nat : [r EXCEPT !.left = n] \in TimerState
         /\ \A n \in Nat : [r EXCEPT !.on = TRUE, !.left = n] \in TimerState
         /\ \A c \in Channels : [r EXCEPT !.data = c] \in TimerState
BY DEF TimerState

(* Delay and duration are integers, and no timer runs a negative time. *)
LEMMA DelayTypes ==
  /\ \A m \in Messages \cup {NoMessage} : PostponedBy(m) \in Int /\ Duration(m) \in Int
  /\ \A u \in Int : Expiry(u) \in Nat
<1>1. ASSUME NEW m \in Messages \cup {NoMessage}
      PROVE  PostponedBy(m) \in Int /\ Duration(m) \in Int
  <2>1. m.dly \in Int /\ m.len \in Int
    BY MessageTypes
  <2>2. Bits(m) \in Int /\ WireBits(m) \in Int
    BY <2>1 DEF Bits, WireBits
  <2>3. Baud \in Nat /\ Baud > 0
    BY DelayAssumption
  <2>4. (Bits(m) * 1000) \div Baud \in Int /\ (WireBits(m) * 1000 + Baud - 1) \div Baud \in Int
    BY <2>2, <2>3
  <2> QED BY <2>1, <2>4 DEF PostponedBy, Duration
<1>2. ASSUME NEW u \in Int
      PROVE  Expiry(u) \in Nat
  <2>1. 2 * MaxUsec \in Nat /\ 2 * MaxUsec > 0 /\ MaxUsec \in Int
    BY DelayAssumption
  <2>2. (u + MaxUsec) % (2 * MaxUsec) \in Int
    BY <2>1
  <2> QED BY <2>1, <2>2 DEF Expiry
<1> QED BY <1>1, <1>2

(* What hrtimer_start changes in a timer. *)
LEMMA StartSets ==
  ASSUME TypeOK, NEW c \in Channels, Start(c), work[c] \in 1..Timers
  PROVE  /\ timer' = [timer EXCEPT ![work[c]] = [timer[work[c]] EXCEPT !.on = TRUE, !.left = Expiry(usec[c])]]
         /\ timer'[work[c]].on = TRUE /\ timer'[work[c]].data = timer[work[c]].data
         /\ timer'[work[c]].left = Expiry(usec[c])
         /\ \A t \in 1..Timers : t # work[c] => timer'[t] = timer[t]
BY DEF TypeOK, Start

(* Done is finite, and a channel that is not in it leaves room in the pool. *)
LEMMA DoneFinite == IsFiniteSet(Done) /\ Cardinality(Done) \in Nat
BY PoolAssumption, FS_Subset, FS_CardinalityType DEF Done

(* A channel that has not counted a timer leaves one in the pool, whatever *)
(* value of idly it has read.                                              *)
LEMMA FirstFits ==
  ASSUME TypeOK, Counted, NEW c \in Channels, work[c] = 0 \/ pc[c] = "count"
  PROVE  idly < Timers /\ seen[c] < Timers
<1>1. /\ Done \in SUBSET Channels /\ c \notin Done
      /\ Cardinality(Done) \in Nat /\ Cardinality(Channels) \in Nat
  BY DoneFinite, PoolAssumption, FS_CardinalityType DEF Done
<1>2. Cardinality(Done) <= Cardinality(Channels) /\ Cardinality(Done) # Cardinality(Channels)
  BY <1>1, PoolAssumption, FS_Subset
<1>3. idly \in Int /\ seen[c] \in Int /\ Timers \in Nat /\ Cardinality(Channels) <= Timers
  BY DelayAssumption, PoolAssumption DEF TypeOK
<1>4. idly <= Cardinality(Done) /\ seen[c] <= Cardinality(Done)
  BY DEF Counted
<1> QED BY <1>1, <1>2, <1>3, <1>4

(* What Choose does, with or without a timer. *)
LEMMA ChooseDoes ==
  ASSUME TypeOK, Counted, NEW c \in Channels, Choose(c)
  PROVE  /\ pc[c] = "schedule" /\ UNCHANGED <<idly, work, timer, msg, usec, left, due, count>>
         /\ \A d \in Channels \ {c} : pc'[d] = pc[d] /\ seen'[d] = seen[d]
         /\ pc' \in [Channels -> Places] /\ seen' \in [Channels -> 0..Timers]
         /\ overlapped' \in BOOLEAN
         /\ \/ /\ work[c] = 0 /\ pc'[c] = "take" /\ seen'[c] = idly
               /\ ~overlapped' => ~overlapped /\ \A d \in Channels \ {c} : ~InPool(d)
            \/ /\ work[c] # 0 /\ pc'[c] = "start" /\ seen' = seen
               /\ overlapped' = overlapped
<1>1. CASE work[c] = 0
  <2>1. ChooseFirst(c)
    BY <1>1 DEF Choose
  <2>2. idly # Timers
    BY <1>1, FirstFits DEF TypeOK
  <2>3. /\ pc[c] = "schedule" /\ pc' = [pc EXCEPT ![c] = "take"]
        /\ seen' = [seen EXCEPT ![c] = idly]
        /\ UNCHANGED <<idly, work, timer, msg, usec, left, due, count>>
    BY <2>1, <2>2 DEF ChooseFirst, Goto
  <2>4. overlapped' \in BOOLEAN /\ (~overlapped' => ~overlapped /\ \A d \in Channels \ {c} : ~InPool(d))
    BY <2>1, Zenon DEF ChooseFirst
  <2> QED BY <1>1, <2>3, <2>4 DEF TypeOK, Places
<1>2. CASE work[c] # 0
  <2>1. /\ pc[c] = "schedule" /\ pc' = [pc EXCEPT ![c] = "start"]
        /\ UNCHANGED <<poolVars, timer, msg, usec, left, due, count>>
    BY <1>2 DEF Choose, Goto
  <2>2. overlapped' = overlapped /\ overlapped \in BOOLEAN
    BY <2>1, Zenon DEF poolVars, TypeOK
  <2> QED BY <1>2, <2>1, <2>2 DEF poolVars, TypeOK, Places
<1> QED BY <1>1, <1>2

(* At first no channel has a timer. *)
LEMMA InitIInv == Init => IInv
<1> SUFFICES ASSUME Init PROVE IInv
  OBVIOUS
<1>1. overlapped \in BOOLEAN
  BY Zenon DEF Init
<1>2. TypeOK
  BY <1>1, DelayAssumption DEF Init, TypeOK, Places
<1>3. Counted
  <2>1. Done = {}
    BY DEF Init, Done
  <2> QED BY <2>1, FS_EmptySet DEF Init, Counted
<1>4. Single /\ Owned
  BY DEF Init, Single, Alone, Distinct, Owned, Calls, Called, InPool
<1> QED BY <1>2, <1>3, <1>4 DEF IInv

(* Every step keeps the types. *)
LEMMA TypeNext == TypeOK /\ Counted /\ [Next]_vars => TypeOK'
<1> SUFFICES ASSUME TypeOK, Counted, [Next]_vars PROVE TypeOK'
  OBVIOUS
<1> USE DelayAssumption DEF TypeOK, Places, Counted
<1>1. ASSUME NEW c \in Channels, ToHead(c) PROVE TypeOK'
  <2>1. PICK m \in Messages : msg' = [msg EXCEPT ![c] = m] /\ due' = [due EXCEPT ![c] = m.dly]
    BY <1>1 DEF ToHead
  <2>2. due' \in [Channels -> Int] /\ msg' \in [Channels -> Messages \cup {NoMessage}]
    BY <2>1, MessageTypes
  <2>3. count' \in [Channels -> 0..MaxMsgs]
    BY <1>1 DEF ToHead
  <2> QED BY <1>1, <2>2, <2>3 DEF ToHead, Goto, poolVars
<1>2. ASSUME NEW c \in Channels, Postpone(c) PROVE TypeOK'
  <2>1. /\ [msg[c] EXCEPT !.dly = 0] \in Messages \cup {NoMessage}
        /\ PostponedBy(msg[c]) \in Int
    BY MessageTypes, DelayTypes
  <2>2. msg' \in [Channels -> Messages \cup {NoMessage}]
    BY <1>2, <2>1 DEF Postpone
  <2> QED BY <1>2, <2>1, <2>2 DEF Postpone, Goto, poolVars
<1>3. ASSUME NEW c \in Channels, Transmit(c) PROVE TypeOK'
  BY <1>3, DelayTypes DEF Transmit, Goto, poolVars
<1>4. ASSUME NEW c \in Channels, Choose(c) PROVE TypeOK'
  BY <1>4, ChooseDoes
<1>5. ASSUME NEW c \in Channels, Take(c) PROVE TypeOK'
  <2>1. PICK n \in Reread(c) : seen' = [seen EXCEPT ![c] = n] /\ work' = [work EXCEPT ![c] = n + 1]
    BY <1>5 DEF Take
  <2>2. n \in 0..Timers /\ n < Timers
    <3>1. work[c] = 0
      BY <1>5 DEF Take, Goto
    <3>2. idly < Timers /\ seen[c] < Timers
      BY <3>1, FirstFits
    <3> QED BY <3>2 DEF Reread
  <2>3. seen' \in [Channels -> 0..Timers] /\ work' \in [Channels -> 0..Timers]
    BY <2>1, <2>2
  <2> QED BY <1>5, <2>3 DEF Take, Goto
<1>6. ASSUME NEW c \in Channels, Count(c) PROVE TypeOK'
  <2>1. PICK n \in Reread(c) : idly' = n + 1
    BY <1>6 DEF Count
  <2>2. n \in 0..Timers /\ n < Timers
    <3>1. pc[c] = "count"
      BY <1>6 DEF Count, Goto
    <3>2. idly < Timers /\ seen[c] < Timers
      BY <3>1, FirstFits
    <3> QED BY <3>2 DEF Reread
  <2>3. idly' \in 0..Timers
    BY <2>1, <2>2
  <2>4. work[c] \in 1..Timers
    BY <1>6 DEF Count, Goto
  <2>5. [timer[work[c]] EXCEPT !.on = FALSE] \in TimerState
    <3>1. timer[work[c]] \in TimerState
      BY <2>4 DEF TimerState
    <3> QED BY <2>4, <3>1, TimerTypes
  <2>6. timer' = [timer EXCEPT ![work[c]] = [timer[work[c]] EXCEPT !.on = FALSE]]
    BY <1>6 DEF Count
  <2>7. timer' \in [1..Timers -> TimerState]
    BY <2>4, <2>5, <2>6 DEF TimerState
  <2> QED BY <1>6, <2>3, <2>7 DEF Count, Goto, TimerState
<1>7. ASSUME NEW c \in Channels, StartFor(c) PROVE TypeOK'
  <2>1. work[c] \in 1..Timers
    BY <1>7 DEF StartFor, Goto
  <2>2. [timer[work[c]] EXCEPT !.data = c] \in TimerState
    <3>1. timer[work[c]] \in TimerState
      BY <2>1 DEF TimerState
    <3> QED BY <2>1, <3>1, TimerTypes
  <2>3. timer' = [timer EXCEPT ![work[c]] = [timer[work[c]] EXCEPT !.data = c]]
    BY <1>7 DEF StartFor
  <2>4. timer' \in [1..Timers -> TimerState]
    BY <2>1, <2>2, <2>3 DEF TimerState
  <2> QED BY <1>7, <2>4 DEF StartFor, Goto, poolVars, TimerState
<1>8. ASSUME NEW c \in Channels, Start(c) PROVE TypeOK'
  <2>1. work[c] \in 1..Timers /\ Expiry(usec[c]) \in Nat
    <3>1. work[c] \in 1..Timers /\ usec[c] \in Int
      BY <1>8 DEF Start, Goto
    <3> QED BY <3>1, DelayTypes
  <2>2. [timer[work[c]] EXCEPT !.on = TRUE, !.left = Expiry(usec[c])] \in TimerState
    <3>1. timer[work[c]] \in TimerState
      BY <2>1 DEF TimerState
    <3> QED BY <2>1, <3>1, TimerTypes
  <2>3. timer' = [timer EXCEPT ![work[c]] = [timer[work[c]] EXCEPT !.on = TRUE, !.left = Expiry(usec[c])]]
    BY <1>8, <2>1, StartSets
  <2>4. timer' \in [1..Timers -> TimerState]
    BY <2>1, <2>2, <2>3 DEF TimerState
  <2>5. pc' \in [Channels -> Places]
    BY <1>8 DEF Start, Goto
  <2>6. usec' \in [Channels -> Int]
    BY <1>8 DEF Start
  <2> QED BY <1>8, <2>4, <2>5, <2>6, Zenon DEF Start, poolVars, TimerState
<1>9. ASSUME NEW c \in Channels, Sent(c) PROVE TypeOK'
  BY <1>9 DEF Sent, Goto, poolVars
<1>10. ASSUME NEW t \in 1..Timers, Fire(t) PROVE TypeOK'
  <2>1. timer' \in [1..Timers -> TimerState]
    <3>0. timer[t] \in TimerState
      BY DEF TimerState
    <3>1. [timer[t] EXCEPT !.on = FALSE] \in TimerState
      BY <3>0, TimerTypes
    <3>2. timer' = [timer EXCEPT ![t] = [timer[t] EXCEPT !.on = FALSE]]
      BY <1>10 DEF Fire
    <3> QED BY <3>1, <3>2 DEF TimerState
  <2>2. pc' \in [Channels -> Places]
    BY <1>10 DEF Fire
  <2> QED BY <1>10, <2>1, <2>2 DEF Fire, poolVars, TimerState
<1>11. CASE Elapse
  <2>1. PICK d \in Remaining :
          /\ d > 0 /\ \A r \in Remaining : d <= r
          /\ left' = [c \in Channels |-> IF pc[c] = "wire" THEN left[c] - d ELSE left[c]]
          /\ due' = [c \in Channels |-> IF pc[c] = "empty" THEN due[c] ELSE due[c] - d]
          /\ timer' = [t \in 1..Timers |-> IF timer[t].on THEN [timer[t] EXCEPT !.left = @ - d] ELSE timer[t]]
    BY <1>11 DEF Elapse
  <2>2. d \in Int
    BY DEF Remaining
  <2>3. ASSUME NEW t \in 1..Timers, timer[t].on
        PROVE  [timer[t] EXCEPT !.left = @ - d] \in TimerState
    <3>1. timer[t].left \in Remaining
      BY <2>3 DEF Remaining
    <3>2. timer[t].left - d \in Nat
      BY <2>1, <2>2, <3>1
    <3>3. timer[t] \in TimerState
      BY DEF TimerState
    <3> QED BY <3>2, <3>3, TimerTypes
  <2>4. timer' \in [1..Timers -> [on : BOOLEAN, left : Nat, data : Channels \cup {0}]]
    BY <2>1, <2>3 DEF TimerState
  <2>5. left' \in [Channels -> Int]
    <3>1. \A c \in Channels : (IF pc[c] = "wire" THEN left[c] - d ELSE left[c]) \in Int
      BY <2>2
    <3> QED BY <2>1, <3>1, Zenon
  <2>6. due' \in [Channels -> Int]
    <3>1. \A c \in Channels : (IF pc[c] = "empty" THEN due[c] ELSE due[c] - d) \in Int
      BY <2>2
    <3> QED BY <2>1, <3>1, Zenon
  <2> QED BY <1>11, <2>4, <2>5, <2>6 DEF Elapse, poolVars
<1>12. CASE UNCHANGED vars
  BY <1>12 DEF vars, Goto, poolVars
<1> QED
  BY <1>1, <1>2, <1>3, <1>4, <1>5, <1>6, <1>7, <1>8, <1>9, <1>10, <1>11, <1>12
     DEF Next, Channel

(* Steps that neither take a timer nor count it. *)
LEMMA CountedStays ==
  ASSUME Counted, UNCHANGED <<idly, seen, work>>,
         \A c \in Channels :
           /\ pc'[c] # "stuck" \/ pc'[c] = pc[c]
           /\ pc[c] = "count" <=> pc'[c] = "count"
           /\ pc'[c] = "take" => work[c] = 0
           /\ pc'[c] \in {"start", "launch", "postponed"} => work[c] # 0
  PROVE  Counted'
<1>1. Done' = Done
  BY DEF Done
<1> QED BY <1>1 DEF Counted

(* Every step keeps the count of the timers. *)
LEMMA CountedNext == TypeOK /\ Counted /\ [Next]_vars => Counted'
<1> SUFFICES ASSUME TypeOK, Counted, [Next]_vars PROVE Counted'
  OBVIOUS
<1> USE DelayAssumption DEF TypeOK, Counted
<1>1. ASSUME NEW c \in Channels, ToHead(c) PROVE Counted'
  BY <1>1, CountedStays DEF ToHead, Goto, poolVars
<1>2. ASSUME NEW c \in Channels, Postpone(c) PROVE Counted'
  BY <1>2, CountedStays DEF Postpone, Goto, poolVars
<1>3. ASSUME NEW c \in Channels, Transmit(c) PROVE Counted'
  BY <1>3, CountedStays DEF Transmit, Goto, poolVars
<1>4. ASSUME NEW c \in Channels, Choose(c) PROVE Counted'
  <2>1. Done' = Done
    BY <1>4, ChooseDoes DEF Done
  <2>2. \A d \in Channels : seen'[d] = seen[d] \/ seen'[d] = idly
    BY <1>4, ChooseDoes
  <2>3. idly' = idly /\ work' = work
    BY <1>4, ChooseDoes
  <2>4. idly' <= Cardinality(Done') /\ \A d \in Channels : seen'[d] <= Cardinality(Done')
    BY <2>1, <2>2, <2>3
  <2>5. ASSUME NEW d \in Channels
        PROVE  /\ pc'[d] = "take" => work[d] = 0
               /\ pc'[d] \in {"count", "start", "launch", "postponed"} => work[d] # 0
               /\ pc'[d] # "stuck"
    <3>1. CASE d = c
      BY <1>4, <3>1, ChooseDoes
    <3>2. CASE d # c
      BY <1>4, <3>2, ChooseDoes
    <3> QED BY <3>1, <3>2
  <2> QED BY <2>3, <2>4, <2>5
<1>5. ASSUME NEW c \in Channels, Take(c) PROVE Counted'
  <2>1. PICK n \in Reread(c) : seen' = [seen EXCEPT ![c] = n] /\ work' = [work EXCEPT ![c] = n + 1]
    BY <1>5 DEF Take
  <2>2. n \in Nat /\ n <= Cardinality(Done)
    BY DEF Reread
  <2>3. \A d \in Channels : pc'[d] = IF d = c THEN "count" ELSE pc[d]
    BY <1>5 DEF Take, Goto
  <2>4. \A d \in Channels : work'[d] = IF d = c THEN n + 1 ELSE work[d]
    BY <2>1
  <2>5. Done' = Done
    BY <1>5, <2>3, <2>4 DEF Done, Take, Goto
  <2>6. \A d \in Channels : seen'[d] = IF d = c THEN n ELSE seen[d]
    BY <2>1
  <2>7. idly' = idly
    BY <1>5 DEF Take
  <2>8. \A d \in Channels : seen'[d] <= Cardinality(Done')
    BY <2>2, <2>5, <2>6
  <2>9. \A d \in Channels :
          /\ pc'[d] \in {"schedule", "take"} => pc[d] = pc'[d] /\ d # c
          /\ pc'[d] # "stuck"
    BY <2>3
  <2>10. n + 1 # 0
    BY <2>2
  <2> QED BY <2>3, <2>4, <2>5, <2>7, <2>8, <2>9, <2>10
<1>6. ASSUME NEW c \in Channels, Count(c) PROVE Counted'
  <2>1. PICK n \in Reread(c) : idly' = n + 1
    BY <1>6 DEF Count
  <2>2. n \in Nat /\ n <= Cardinality(Done)
    BY DEF Reread
  <2>3. pc[c] = "count" /\ \A d \in Channels : pc'[d] = IF d = c THEN "start" ELSE pc[d]
    BY <1>6 DEF Count, Goto
  <2>4. UNCHANGED <<seen, work>>
    BY <1>6 DEF Count
  <2>5. Done' = Done \cup {c} /\ c \notin Done
    BY <2>3, <2>4 DEF Done
  <2>6. Cardinality(Done') = Cardinality(Done) + 1 /\ Cardinality(Done) \in Nat
    BY <2>5, DoneFinite, FS_AddElement, FS_CardinalityType
  <2>7. idly' <= Cardinality(Done')
    BY <2>1, <2>2, <2>6
  <2>8. \A d \in Channels : seen'[d] <= Cardinality(Done')
    <3> SUFFICES ASSUME NEW d \in Channels PROVE seen[d] <= Cardinality(Done')
      BY <2>4
    <3>1. seen[d] \in Int /\ seen[d] <= Cardinality(Done)
      OBVIOUS
    <3> QED BY <2>6, <3>1
  <2> QED BY <2>3, <2>4, <2>7, <2>8
<1>7. ASSUME NEW c \in Channels, StartFor(c) PROVE Counted'
  BY <1>7, CountedStays DEF StartFor, Goto, poolVars
<1>8. ASSUME NEW c \in Channels, Start(c) PROVE Counted'
  BY <1>8, CountedStays DEF Start, Goto, poolVars
<1>9. ASSUME NEW c \in Channels, Sent(c) PROVE Counted'
  BY <1>9, CountedStays DEF Sent, Goto, poolVars
<1>10. ASSUME NEW t \in 1..Timers, Fire(t) PROVE Counted'
  BY <1>10, CountedStays DEF Fire, Goto, poolVars
<1>11. CASE Elapse
  BY <1>11, CountedStays DEF Elapse, Goto, poolVars
<1>12. CASE UNCHANGED vars
  BY <1>12, CountedStays DEF vars, Goto, poolVars
<1> QED
  BY <1>1, <1>2, <1>3, <1>4, <1>5, <1>6, <1>7, <1>8, <1>9, <1>10, <1>11, <1>12
     DEF Next, Channel

(* As long as no choices overlap, the pool is handed out in order. *)
LEMMA SingleNext == TypeOK /\ Counted /\ Single /\ [Next]_vars => Single'
<1> SUFFICES ASSUME TypeOK, Counted, Single, [Next]_vars PROVE Single'
  OBVIOUS
<1> USE DelayAssumption DEF TypeOK, Counted, Single, Alone, Distinct, InPool
<1>1. ASSUME NEW c \in Channels, ToHead(c) PROVE Single'
  BY <1>1 DEF ToHead, Goto, poolVars
<1>2. ASSUME NEW c \in Channels, Postpone(c) PROVE Single'
  BY <1>2 DEF Postpone, Goto, poolVars
<1>3. ASSUME NEW c \in Channels, Transmit(c) PROVE Single'
  BY <1>3 DEF Transmit, Goto, poolVars
<1>4. ASSUME NEW c \in Channels, Choose(c) PROVE Single'
  <2> SUFFICES ASSUME ~overlapped' PROVE Alone' /\ Distinct'
    OBVIOUS
  <2>1. ~overlapped /\ idly' = idly /\ work' = work /\ pc[c] = "schedule"
    BY <1>4, ChooseDoes
  <2>0. Alone /\ Distinct /\ Distinct'
    BY <2>1
  <2>2. \A d \in Channels \ {c} : pc'[d] = pc[d] /\ seen'[d] = seen[d]
    BY <1>4, ChooseDoes
  <2>3. CASE work[c] = 0
    <3>1. pc'[c] = "take" /\ seen'[c] = idly /\ \A d \in Channels \ {c} : ~InPool(d)
      BY <1>4, <2>3, ChooseDoes
    <3>2. \A d, e \in Channels : InPool(d)' /\ InPool(e)' => d = e
      BY <2>1, <2>2, <3>1
    <3>3. \A d \in Channels : InPool(d)' => seen'[d] = idly'
      BY <2>1, <2>2, <3>1
    <3>4. \A d \in Channels : IF pc'[d] = "count" THEN work'[d] = idly' + 1 ELSE work'[d] <= idly'
      BY <2>1, <2>2, <3>1
    <3> QED BY <2>0, <3>2, <3>3, <3>4
  <2>4. CASE work[c] # 0
    <3>1. pc'[c] = "start"
      BY <1>4, <2>4, ChooseDoes
    <3>2. \A d, e \in Channels : InPool(d)' /\ InPool(e)' => d = e
      BY <2>1, <2>2, <3>1
    <3>3. \A d \in Channels : InPool(d)' => seen'[d] = idly'
      BY <2>1, <2>2, <3>1
    <3>4. \A d \in Channels : IF pc'[d] = "count" THEN work'[d] = idly' + 1 ELSE work'[d] <= idly'
      BY <2>1, <2>2, <3>1
    <3> QED BY <2>0, <3>2, <3>3, <3>4
  <2> QED BY <2>3, <2>4
<1>5. ASSUME NEW c \in Channels, Take(c) PROVE Single'
  <2> SUFFICES ASSUME ~overlapped PROVE Alone' /\ Distinct'
    BY <1>5 DEF Take
  <2>1. PICK n \in Reread(c) : seen' = [seen EXCEPT ![c] = n] /\ work' = [work EXCEPT ![c] = n + 1]
    BY <1>5 DEF Take
  <2>2. n = idly /\ pc[c] = "take" /\ idly' = idly
    BY <1>5 DEF Take, Goto, Reread
  <2>3. \A d \in Channels : pc'[d] = IF d = c THEN "count" ELSE pc[d]
    BY <1>5 DEF Take, Goto
  <2>4. \A d \in Channels : work'[d] = IF d = c THEN idly + 1 ELSE work[d]
    BY <2>1, <2>2
  <2>5. \A d \in Channels : seen'[d] = IF d = c THEN idly ELSE seen[d]
    BY <2>1, <2>2
  <2>6. \A d \in Channels \ {c} : ~InPool(d) /\ work[d] <= idly /\ work[d] \in Nat /\ idly \in Nat
    BY <2>2
  <2>7. ASSUME NEW d \in Channels \ {c} PROVE work'[d] = work[d] /\ work'[d] # work'[c]
    <3>1. work[d] <= idly /\ work[d] \in Nat /\ idly \in Nat
      BY <2>6
    <3> QED BY <2>4, <3>1
  <2>8. Distinct'
    BY <2>7
  <2>9. ASSUME NEW d \in Channels
        PROVE  /\ InPool(d)' => d = c /\ seen'[d] = idly'
               /\ IF pc'[d] = "count" THEN work'[d] = idly' + 1 ELSE work'[d] <= idly'
    <3>1. CASE d = c
      BY <2>2, <2>3, <2>4, <2>5, <3>1
    <3>2. CASE d # c
      <4>1. ~InPool(d) /\ work[d] <= idly
        BY <2>6, <3>2
      <4> QED BY <2>2, <2>3, <2>7, <3>2, <4>1
    <3> QED BY <3>1, <3>2
  <2> QED BY <2>8, <2>9
<1>6. ASSUME NEW c \in Channels, Count(c) PROVE Single'
  <2> SUFFICES ASSUME ~overlapped PROVE Alone' /\ Distinct'
    BY <1>6 DEF Count
  <2>1. /\ pc[c] = "count" /\ work[c] = idly + 1
        /\ \A d \in Channels \ {c} : ~InPool(d) /\ work[d] <= idly
    BY <1>6 DEF Count, Goto
  <2>2. /\ idly' = idly + 1 /\ work' = work /\ seen' = seen
        /\ \A d \in Channels : pc'[d] = IF d = c THEN "start" ELSE pc[d]
    BY <1>6, <2>1 DEF Count, Goto, Reread
  <2>3. ASSUME NEW d \in Channels PROVE ~InPool(d)' /\ work'[d] <= idly'
    <3>1. CASE d = c
      BY <2>1, <2>2, <3>1
    <3>2. CASE d # c
      <4>1. ~InPool(d) /\ work[d] <= idly /\ work[d] \in Int /\ idly \in Int
        BY <2>1, <3>2
      <4> QED BY <2>2, <3>2, <4>1
    <3> QED BY <3>1, <3>2
  <2> QED BY <2>2, <2>3
<1>7. ASSUME NEW c \in Channels, StartFor(c) PROVE Single'
  BY <1>7 DEF StartFor, Goto, poolVars
<1>8. ASSUME NEW c \in Channels, Start(c) PROVE Single'
  BY <1>8 DEF Start, Goto, poolVars
<1>9. ASSUME NEW c \in Channels, Sent(c) PROVE Single'
  BY <1>9 DEF Sent, Goto, poolVars
<1>10. ASSUME NEW t \in 1..Timers, Fire(t) PROVE Single'
  BY <1>10 DEF Fire, Goto, poolVars
<1>11. CASE Elapse
  BY <1>11 DEF Elapse, Goto, poolVars
<1>12. CASE UNCHANGED vars
  BY <1>12 DEF vars, Goto, poolVars
<1> QED
  BY <1>1, <1>2, <1>3, <1>4, <1>5, <1>6, <1>7, <1>8, <1>9, <1>10, <1>11, <1>12
     DEF Next, Channel

(* Steps that change neither a timer nor who waits for one. *)
LEMMA OwnedStays ==
  ASSUME Owned, UNCHANGED <<work, timer>>,
         \A c \in Channels :
           /\ pc[c] = "postponed" <=> pc'[c] = "postponed"
           /\ pc'[c] = "launch" => pc[c] = "launch"
  PROVE  Owned'
<1>1. \A c \in Channels : Shares(c)' <=> Shares(c)
  BY DEF Shares
<1> QED BY <1>1 DEF Owned, Calls, Called

(* Who starts a timer starts his own, and only its end stops it. *)
LEMMA OwnedNext == TypeOK /\ Counted /\ Owned /\ [Next]_vars => Owned'
<1> SUFFICES ASSUME TypeOK, Counted, Owned, [Next]_vars PROVE Owned'
  OBVIOUS
<1>1. ASSUME NEW c \in Channels, ToHead(c) PROVE Owned'
  BY <1>1, OwnedStays DEF ToHead, Goto, poolVars
<1>2. ASSUME NEW c \in Channels, Postpone(c) PROVE Owned'
  BY <1>2, OwnedStays DEF Postpone, Goto, poolVars
<1>3. ASSUME NEW c \in Channels, Transmit(c) PROVE Owned'
  BY <1>3, OwnedStays DEF Transmit, Goto, poolVars
<1>4. ASSUME NEW c \in Channels, Choose(c) PROVE Owned'
  BY <1>4, ChooseDoes, OwnedStays
<1>5. ASSUME NEW c \in Channels, Take(c) PROVE Owned'
  <2>1. PICK n \in Reread(c) : work' = [work EXCEPT ![c] = n + 1]
    BY <1>5 DEF Take
  <2>2. pc[c] = "take" /\ work[c] = 0 /\ timer' = timer
    BY <1>5 DEF Take, Goto, Counted
  <2>3. \A d \in Channels : pc'[d] = IF d = c THEN "count" ELSE pc[d]
    BY <1>5 DEF Take, Goto, TypeOK
  <2>4. \A d \in Channels \ {c} : work'[d] = work[d]
    BY <2>1 DEF TypeOK
  <2>5. \A d \in Channels : Shares(d) => d # c /\ Shares(d)'
    BY <2>2, <2>4 DEF Shares
  <2>6. ASSUME NEW t \in 1..Timers PROVE Calls(t)'
    <3>1. Calls(t) /\ timer'[t] = timer[t]
      BY <2>2 DEF Owned
    <3>2. timer[t].data \in Channels => timer[t].data # c \/ work[c] = t
      BY <3>1, DelayAssumption DEF Calls
    <3>3. timer[t].data \in Channels => timer[t].data # c
      BY <2>2, <3>2
    <3> QED BY <2>3, <2>4, <2>5, <3>1, <3>3 DEF Calls
  <2>7. ASSUME NEW d \in Channels PROVE Called(d)'
    BY <2>2, <2>3, <2>4, <2>5 DEF Called, Owned
  <2> QED BY <2>6, <2>7 DEF Owned
<1>6. ASSUME NEW c \in Channels, Count(c) PROVE Owned'
  <2>1. /\ pc[c] = "count" /\ work[c] \in 1..Timers /\ work' = work
        /\ \A d \in Channels : pc'[d] = IF d = c THEN "start" ELSE pc[d]
    BY <1>6 DEF Count, Goto, TypeOK, Counted
  <2>2. \A d \in Channels : Shares(d)' <=> Shares(d)
    BY <2>1 DEF Shares
  <2>3. /\ timer'[work[c]].data = timer[work[c]].data /\ ~timer'[work[c]].on
        /\ \A t \in 1..Timers : t # work[c] => timer'[t] = timer[t]
    BY <1>6, <2>1 DEF Count, TypeOK
  <2>4. ASSUME NEW t \in 1..Timers PROVE Calls(t)'
    <3>1. Calls(t)
      BY DEF Owned
    <3>2. CASE t = work[c]
      BY <2>1, <2>3, <3>1, <3>2 DEF Calls
    <3>3. CASE t # work[c]
      <4>1. timer'[t] = timer[t]
        BY <2>3, <3>3
      <4>2. timer[t].data # 0 => timer[t].data \in Channels /\ timer[t].data # c
        BY <3>1, <3>3 DEF Calls
      <4> QED BY <2>1, <2>2, <3>1, <4>1, <4>2 DEF Calls
    <3> QED BY <3>2, <3>3
  <2>5. ASSUME NEW d \in Channels PROVE Called(d)'
    <3>1. Called(d) /\ (pc[d] \in {"postponed", "launch"} => work[d] \in 1..Timers)
      BY DEF Owned, TypeOK, Counted
    <3>2. CASE d = c
      BY <2>1, <3>2 DEF Called
    <3>3. CASE d # c /\ work[d] = work[c]
      BY <2>1, <2>2, <2>3, <3>1, <3>3 DEF Called, Shares
    <3>4. CASE d # c /\ work[d] # work[c]
      BY <2>1, <2>2, <2>3, <3>1, <3>4 DEF Called
    <3> QED BY <3>2, <3>3, <3>4
  <2> QED BY <2>4, <2>5 DEF Owned
<1>7. ASSUME NEW c \in Channels, StartFor(c) PROVE Owned'
  <2>1. /\ pc[c] = "start" /\ work[c] \in 1..Timers /\ work' = work
        /\ \A d \in Channels : pc'[d] = IF d = c THEN "launch" ELSE pc[d]
    BY <1>7 DEF StartFor, Goto, TypeOK, Counted, poolVars
  <2>2. \A d \in Channels : Shares(d)' <=> Shares(d)
    BY <2>1 DEF Shares
  <2>3. /\ timer'[work[c]].data = c /\ timer'[work[c]].on = timer[work[c]].on
        /\ \A t \in 1..Timers : t # work[c] => timer'[t] = timer[t]
    BY <1>7, <2>1 DEF StartFor, TypeOK
  <2>4. timer[work[c]].on => Shares(c)
    <3> SUFFICES ASSUME timer[work[c]].on PROVE Shares(c)
      OBVIOUS
    <3>1. Calls(work[c])
      BY <2>1 DEF Owned
    <3>2. /\ timer[work[c]].data \in Channels /\ work[timer[work[c]].data] = work[c]
          /\ Shares(timer[work[c]].data) \/ pc[timer[work[c]].data] = "postponed"
      BY <3>1 DEF Calls
    <3> QED BY <2>1, <3>2 DEF Shares
  <2>5. ASSUME NEW t \in 1..Timers PROVE Calls(t)'
    <3>1. Calls(t)
      BY DEF Owned
    <3>2. CASE t = work[c]
      <4>1. c # 0 /\ work[c] = t /\ work'[c] = t
        BY <2>1, <3>2, DelayAssumption
      <4>2. timer'[t].data = c /\ (timer'[t].on => Shares(c)')
        BY <2>2, <2>3, <2>4, <3>2
      <4> QED BY <4>1, <4>2 DEF Calls
    <3>3. CASE t # work[c]
      <4>1. timer'[t] = timer[t]
        BY <2>3, <3>3
      <4>2. timer[t].data # 0 => timer[t].data \in Channels /\ timer[t].data # c
        BY <3>1, <3>3 DEF Calls
      <4> QED BY <2>1, <2>2, <3>1, <4>1, <4>2 DEF Calls
    <3> QED BY <3>2, <3>3
  <2>6. ASSUME NEW d \in Channels PROVE Called(d)'
    <3>1. Called(d) /\ (pc[d] \in {"postponed", "launch"} => work[d] \in 1..Timers)
      BY DEF Owned, TypeOK, Counted
    <3>2. CASE d = c
      BY <2>1, <2>3, <3>2, DelayAssumption DEF Called
    <3>3. CASE d # c /\ work[d] = work[c]
      BY <2>1, <2>2, <2>3, <3>1, <3>3, DelayAssumption DEF Called, Shares
    <3>4. CASE d # c /\ work[d] # work[c]
      BY <2>1, <2>2, <2>3, <3>1, <3>4 DEF Called
    <3> QED BY <3>2, <3>3, <3>4
  <2> QED BY <2>5, <2>6 DEF Owned
<1>8. ASSUME NEW c \in Channels, Start(c) PROVE Owned'
  <2>1. /\ pc[c] = "launch" /\ work[c] \in 1..Timers /\ work' = work
        /\ \A d \in Channels : pc'[d] = IF d = c THEN "postponed" ELSE pc[d]
    BY <1>8 DEF Start, Goto, TypeOK, Counted, poolVars
  <2>2. \A d \in Channels : Shares(d)' <=> Shares(d)
    BY <2>1 DEF Shares
  <2>3. /\ timer'[work[c]].on = TRUE /\ timer'[work[c]].data = timer[work[c]].data
        /\ \A t \in 1..Timers : t # work[c] => timer'[t] = timer[t]
    BY <1>8, <2>1, StartSets
  <2>4. /\ timer[work[c]].data # 0 /\ timer[work[c]].data \in Channels
        /\ work[timer[work[c]].data] = work[c]
    BY <2>1 DEF Owned, Called, Calls
  <2>5. timer[work[c]].data = c \/ (Shares(c) /\ Shares(timer[work[c]].data))
    BY <2>1, <2>4 DEF Shares
  <2>6. ASSUME NEW t \in 1..Timers PROVE Calls(t)'
    <3>1. Calls(t)
      BY DEF Owned
    <3>2. CASE t = work[c]
      BY <2>1, <2>2, <2>3, <2>4, <2>5, <3>2 DEF Calls
    <3>3. CASE t # work[c]
      <4>1. timer'[t] = timer[t]
        BY <2>3, <3>3
      <4>2. timer[t].data # 0 => timer[t].data \in Channels /\ timer[t].data # c
        BY <3>1, <3>3 DEF Calls
      <4> QED BY <2>1, <2>2, <3>1, <4>1, <4>2 DEF Calls
    <3> QED BY <3>2, <3>3
  <2>7. ASSUME NEW d \in Channels PROVE Called(d)'
    <3>1. Called(d) /\ (pc[d] \in {"postponed", "launch"} => work[d] \in 1..Timers)
      BY DEF Owned, TypeOK, Counted
    <3>2. CASE d = c
      BY <2>1, <2>2, <2>3, <2>5, <3>2 DEF Called
    <3>3. CASE d # c /\ work[d] = work[c]
      BY <2>1, <2>2, <2>3, <2>4, <3>1, <3>3 DEF Called, Shares
    <3>4. CASE d # c /\ work[d] # work[c]
      BY <2>1, <2>2, <2>3, <3>1, <3>4 DEF Called
    <3> QED BY <3>2, <3>3, <3>4
  <2> QED BY <2>6, <2>7 DEF Owned
<1>9. ASSUME NEW c \in Channels, Sent(c) PROVE Owned'
  BY <1>9, OwnedStays DEF Sent, Goto, poolVars
<1>10. ASSUME NEW t \in 1..Timers, Fire(t) PROVE Owned'
  <2>1. PICK c \in Channels : timer[t].data = c /\ work[c] = t
    BY <1>10 DEF Fire, Owned, Calls
  <2>2. work' = work /\ \A e \in Channels : Shares(e)' <=> Shares(e)
    BY <1>10 DEF Fire, Shares, poolVars
  <2>3. \A e \in Channels : pc'[e] = IF e = c /\ pc[c] = "postponed" THEN "send" ELSE pc[e]
    BY <1>10, <2>1 DEF Fire, TypeOK
  <2>4. /\ ~timer'[t].on /\ timer'[t].data = c
        /\ \A u \in 1..Timers : u # t => timer'[u] = timer[u]
    BY <1>10, <2>1 DEF Fire, TypeOK
  <2>5. ASSUME NEW u \in 1..Timers PROVE Calls(u)'
    <3>1. Calls(u)
      BY DEF Owned
    <3>2. CASE u = t
      BY <2>1, <2>2, <2>4, <3>2, DelayAssumption DEF Calls
    <3>3. CASE u # t
      <4>1. timer'[u] = timer[u]
        BY <2>4, <3>3
      <4>2. timer[u].data # 0 => timer[u].data \in Channels /\ timer[u].data # c
        BY <2>1, <3>1, <3>3 DEF Calls
      <4> QED BY <2>2, <2>3, <3>1, <4>1, <4>2 DEF Calls
    <3> QED BY <3>2, <3>3
  <2>6. ASSUME NEW d \in Channels PROVE Called(d)'
    <3>1. Called(d) /\ (pc[d] \in {"postponed", "launch"} => work[d] \in 1..Timers)
      BY DEF Owned, TypeOK, Counted
    <3>2. CASE d = c
      BY <2>1, <2>2, <2>3, <2>4, <3>1, <3>2 DEF Called
    <3>3. CASE d # c /\ work[d] = t
      BY <2>1, <2>2, <2>3, <2>4, <3>1, <3>3, DelayAssumption DEF Called, Shares
    <3>4. CASE d # c /\ work[d] # t
      BY <2>2, <2>3, <2>4, <3>1, <3>4 DEF Called
    <3> QED BY <3>2, <3>3, <3>4
  <2> QED BY <2>5, <2>6 DEF Owned
<1>11. CASE Elapse
  <2>1. /\ UNCHANGED <<pc, work>> /\ \A c \in Channels : Shares(c)' <=> Shares(c)
    BY <1>11 DEF Elapse, poolVars, Shares
  <2>2. \A t \in 1..Timers : timer'[t].on = timer[t].on /\ timer'[t].data = timer[t].data
    BY <1>11 DEF Elapse, TypeOK
  <2>3. \A t \in 1..Timers : Calls(t)'
    BY <2>1, <2>2 DEF Owned, Calls
  <2>4. \A d \in Channels : pc[d] \in {"postponed", "launch"} => work[d] \in 1..Timers
    BY DEF TypeOK, Counted
  <2>5. \A d \in Channels : Called(d)'
    BY <2>1, <2>2, <2>4 DEF Owned, Called
  <2> QED BY <2>3, <2>5 DEF Owned
<1>12. CASE UNCHANGED vars
  BY <1>12, OwnedStays DEF vars, Goto, poolVars
<1> QED
  BY <1>1, <1>2, <1>3, <1>4, <1>5, <1>6, <1>7, <1>8, <1>9, <1>10, <1>11, <1>12
     DEF Next, Channel

-----------------------------------------------------------------------------
(* Every step of every channel and timer keeps the invariant. *)
LEMMA Inductive == Spec => []IInv
<1>1. IInv /\ [Next]_vars => IInv'
  BY TypeNext, CountedNext, SingleNext, OwnedNext DEF IInv
<1> QED BY InitIInv, <1>1, PTL DEF Spec

(* Every variable keeps its type, with or without overlapping choices; in  *)
(* particular neither idly nor a channel's timer leaves the pool of        *)
(* linux_2.6.c.                                                            *)
THEOREM TypeCorrect == Spec => []TypeOK
<1>1. IInv => TypeOK
  BY DEF IInv
<1> QED BY Inductive, <1>1, PTL

(* The pool has a timer for each channel, "static Delayed                  *)
(* dly[MAX_CHANNELS]" (linux_2.6.c:126), and a channel keeps the one it    *)
(* took: however the choices overlap, "out of timers" is never printed and *)
(* no channel takes a timer beyond the end.                                *)
THEOREM PoolIsEnough == Spec => []PoolSuffices
<1>1. IInv => PoolSuffices
  BY FirstFits DEF IInv, PoolSuffices, Counted, Reread
<1> QED BY Inductive, <1>1, PTL

(* Channels share a timer only after they have chosen at once; any other   *)
(* one has its timer running when it waits, and is called back only then.  *)
THEOREM TimersAreOwned == Spec => []OwnTimer
<1>1. IInv => OwnTimer
  <2> SUFFICES ASSUME IInv PROVE OwnTimer
    OBVIOUS
  <2>1. \A c \in Channels : Shares(c) => overlapped
    BY DEF IInv, Single, Distinct, Shares
  <2> QED BY <2>1 DEF IInv, Owned, Calls, Called, OwnTimer
<1> QED BY Inductive, <1>1, PTL

-----------------------------------------------------------------------------
(* Remote frames are sent without the data bits sendcanmsg counts, and the *)
(* nanoseconds of a long delay do not fit into an int: without either, a   *)
(* message is complete when it is due.                                     *)
Exact == TRUE \notin Remotes /\ \A d \in Delays : d < MaxUsec

(* What is left of a delay, for each place of a message, together with its *)
(* time on the wire.                                                       *)
Asked(c) ==
  pc[c] = "send" => IF msg[c].dly = 0 THEN due[c] <= Duration(msg[c]) ELSE due[c] = msg[c].dly

Near(time, m, d) == d <= time + Duration(m) /\ time + Duration(m) <= d + 1

Handed(c) ==
  pc[c] \in {"schedule", "take", "count", "start", "launch"} =>
    /\ usec[c] \in Nat /\ usec[c] < MaxUsec
    /\ msg[c].dly = 0 /\ Near(usec[c], msg[c], due[c])

Awaited(c) ==
  pc[c] = "postponed" => msg[c].dly = 0 /\ Near(timer[work[c]].left, msg[c], due[c])

OnWire(c) == pc[c] = "wire" => due[c] <= left[c]

TimedAt(c) == Asked(c) /\ Handed(c) /\ Awaited(c) /\ OnWire(c)

Timed == \A c \in Channels : Shares(c) \/ TimedAt(c)

(* The two divisions differ by the microsecond they lose. *)
LEMMA TwoDivisions ==
  ASSUME NEW n \in Nat, NEW b \in Nat \ {0}
  PROVE  /\ n \div b \in Nat
         /\ n \div b <= (n + b - 1) \div b
         /\ (n + b - 1) \div b <= n \div b + 1
<1> DEFINE q == n \div b  e == (n + b - 1) \div b
<1>1. q \in Nat /\ b * q <= n /\ n < b * q + b
  OBVIOUS
<1>2. e \in Nat /\ b * e <= n + b - 1 /\ n + b - 1 < b * e + b
  OBVIOUS
<1> HIDE DEF q, e
<1>3. q <= e
  <2> SUFFICES ASSUME e + 1 <= q PROVE FALSE
    BY <1>1, <1>2
  <2>1. PICK k \in Nat : q = e + 1 + k
    BY <1>1, <1>2
  <2>2. b * q = b * e + b + b * k /\ b * k >= 0
    BY <2>1, <1>1, <1>2
  <2> QED BY <2>2, <1>1, <1>2
<1>4. e <= q + 1
  <2> SUFFICES ASSUME q + 2 <= e PROVE FALSE
    BY <1>1, <1>2
  <2>1. PICK k \in Nat : e = q + 2 + k
    BY <1>1, <1>2
  <2>2. b * e = b * q + 2 * b + b * k /\ b * k >= 0
    BY <2>1, <1>1, <1>2
  <2> QED BY <2>2, <1>1, <1>2
<1> QED BY <1>1, <1>3, <1>4 DEF q, e

(* The delay without the transmission, and the transmission, add up. *)
LEMMA DelayAddsUp ==
  ASSUME Exact, NEW m \in Messages \cup {NoMessage}
  PROVE  /\ Duration(m) \in Nat /\ m.dly \in Int /\ m.dly < MaxUsec
         /\ PostponedBy(m) <= m.dly
         /\ Near(PostponedBy(m), m, m.dly)
<1>1. /\ m.dly \in Int /\ m.dly < MaxUsec
      /\ m.len \in 0..8 /\ m.rtr = FALSE /\ m.ext \in BOOLEAN
  <2>1. CASE m \in Messages
    <3>1. m.dly \in Delays \cup {0} /\ m.len \in Lengths /\ m.rtr \in Remotes /\ m.ext \in BOOLEAN
      BY <2>1 DEF Messages
    <3>2. m.rtr \in BOOLEAN /\ m.rtr # TRUE
      BY <3>1, DelayAssumption DEF Exact
    <3>3. m.dly \in Int /\ m.dly < MaxUsec
      <4>1. 0 < MaxUsec
        BY DelayAssumption
      <4>2. ASSUME m.dly \in Delays PROVE m.dly \in Int /\ m.dly < MaxUsec
        BY <4>2, DelayAssumption DEF Exact
      <4> QED BY <3>1, <4>1, <4>2
    <3>4. m.len \in 0..8
      BY <3>1, DelayAssumption
    <3> QED BY <3>1, <3>2, <3>3, <3>4
  <2>2. CASE m = NoMessage
    BY <2>2, DelayAssumption DEF NoMessage
  <2> QED BY <2>1, <2>2
<1>2. Bits(m) \in Nat /\ WireBits(m) = Bits(m)
  BY <1>1 DEF Bits, WireBits
<1>3. PICK n \in Nat : n = Bits(m) * 1000
  BY <1>2
<1>4. PICK q \in Nat : q = n \div Baud
  BY TwoDivisions, DelayAssumption
<1>5. PICK e \in Nat : e = (n + Baud - 1) \div Baud /\ q <= e /\ e <= q + 1
  <2>1. Baud \in Nat \ {0}
    BY DelayAssumption
  <2>2. q <= (n + Baud - 1) \div Baud /\ (n + Baud - 1) \div Baud <= q + 1
    BY <1>4, <2>1, TwoDivisions
  <2>3. (n + Baud - 1) \div Baud \in Int
    BY <2>1
  <2>4. (n + Baud - 1) \div Baud \in Nat
    BY <2>2, <2>3
  <2> QED BY <2>2, <2>4
<1>6. Duration(m) = e /\ PostponedBy(m) = m.dly - q
  BY <1>2, <1>3, <1>4, <1>5 DEF Duration, PostponedBy
<1>7. PostponedBy(m) <= m.dly
  BY <1>6, <1>1
<1>8. Near(PostponedBy(m), m, m.dly)
  BY <1>6, <1>5, <1>1 DEF Near
<1> QED BY <1>1, <1>6, <1>7, <1>8

(* What Duration depends on. *)
LEMMA DurationOf ==
  ASSUME NEW m \in Messages \cup {NoMessage}
  PROVE  Duration([m EXCEPT !.dly = 0]) = Duration(m) /\ [m EXCEPT !.dly = 0].dly = 0
<1> DEFINE z == [m EXCEPT !.dly = 0]
<1>1. z.ext = m.ext /\ z.rtr = m.rtr /\ z.len = m.len /\ z.dly = 0
  BY DEF Messages, NoMessage
<1> QED BY <1>1 DEF Duration, WireBits

(* A delay that fits is not changed. *)
LEMMA ExpiryOf ==
  ASSUME NEW u \in Nat, u < MaxUsec
  PROVE  Expiry(u) = u
<1>1. PICK M \in Nat \ {0} : M = MaxUsec
  BY DelayAssumption
<1>2. (u + M) % (2 * M) = u + M
  BY <1>1
<1> QED BY <1>1, <1>2 DEF Expiry

(* Nothing ever ends the sharing of a timer. *)
LEMMA SharesLasts ==
  ASSUME TypeOK, Counted, [Next]_vars, NEW e \in Channels, Shares(e)
  PROVE  Shares(e)'
<1>1. ASSUME NEW c \in Channels, Take(c) PROVE Shares(e)'
  <2>1. PICK n \in Reread(c) : work' = [work EXCEPT ![c] = n + 1]
    BY <1>1 DEF Take
  <2>2. work[c] = 0
    BY <1>1 DEF Take, Goto, Counted
  <2>3. \A d \in Channels : work[d] # 0 => work'[d] = work[d]
    BY <2>1, <2>2 DEF TypeOK
  <2> QED BY <2>3 DEF Shares
<1>2. ASSUME NEW c \in Channels, Choose(c) PROVE Shares(e)'
  BY <1>2, ChooseDoes DEF Shares
<1>3. CASE UNCHANGED work
  BY <1>3 DEF Shares
<1> QED
  BY <1>1, <1>2, <1>3, Zenon DEF Next, Channel, vars, poolVars, ToHead, Postpone, Transmit,
     Count, StartFor, Start, Sent, Fire, Elapse

(* What is known of the time of a message holds on while nobody touches    *)
(* the message or its timer.                                               *)
LEMMA TimedStays ==
  ASSUME Timed, NEW e \in Channels, Shares(e) => Shares(e)',
         pc'[e] = pc[e], msg'[e] = msg[e], usec'[e] = usec[e], due'[e] = due[e], left'[e] = left[e],
         pc[e] = "postponed" => Shares(e)' \/ timer'[work'[e]].left = timer[work[e]].left
  PROVE  Shares(e)' \/ TimedAt(e)'
BY DEF Timed, TimedAt, Asked, Handed, Awaited, OnWire

(* Every step keeps what is known of the time of a message. *)
LEMMA TimedNext ==
  ASSUME Exact, IInv, Timed, [Next]_vars
  PROVE  Timed'
<1> USE DEF IInv
<1>a. \A c \in Channels : msg[c] \in Messages \cup {NoMessage} /\ Duration(msg[c]) \in Nat
  BY DelayAddsUp DEF TypeOK
<1>b. \A c \in Channels : Shares(c) => Shares(c)'
  BY SharesLasts
<1>1. ASSUME NEW c \in Channels, ToHead(c) PROVE Timed'
  <2>1. PICK m \in Messages : msg' = [msg EXCEPT ![c] = m] /\ due' = [due EXCEPT ![c] = m.dly]
    BY <1>1 DEF ToHead
  <2>2. TimedAt(c)'
    <3>1. pc'[c] = "send" /\ msg'[c] = m /\ due'[c] = m.dly
      BY <1>1, <2>1 DEF ToHead, Goto, TypeOK
    <3>2. Duration(m) \in Nat /\ m.dly \in Int
      BY DelayAddsUp
    <3> QED BY <3>1, <3>2 DEF TimedAt, Asked, Handed, Awaited, OnWire
  <2>3. ASSUME NEW e \in Channels \ {c} PROVE Shares(e)' \/ TimedAt(e)'
    BY <1>1, <1>b, <2>1, TimedStays DEF ToHead, Goto, TypeOK, poolVars
  <2> QED BY <2>2, <2>3 DEF Timed
<1>2. ASSUME NEW c \in Channels, Postpone(c) PROVE Timed'
  <2>1. ASSUME ~Shares(c) PROVE TimedAt(c)'
    <3>1. /\ pc[c] = "send" /\ pc'[c] = "schedule" /\ msg'[c] = [msg[c] EXCEPT !.dly = 0]
          /\ usec'[c] = PostponedBy(msg[c]) /\ due'[c] = due[c]
          /\ PostponedBy(msg[c]) > 0 /\ msg[c].dly # 0
      BY <1>2 DEF Postpone, Goto, TypeOK
    <3>2. due[c] = msg[c].dly
      BY <2>1, <3>1 DEF Timed, TimedAt, Asked
    <3>3. PICK u \in Int : u = PostponedBy(msg[c])
      BY DelayTypes DEF TypeOK
    <3>4. u \in Nat /\ u < MaxUsec
      BY <1>a, <3>1, <3>3, DelayAddsUp, DelayAssumption
    <3>5. Near(u, msg[c], due[c])
      BY <1>a, <3>2, <3>3, DelayAddsUp
    <3>6. Near(u, msg'[c], due[c]) /\ msg'[c].dly = 0
      BY <1>a, <3>1, <3>5, DurationOf DEF Near
    <3> QED BY <3>1, <3>3, <3>4, <3>6 DEF TimedAt, Asked, Handed, Awaited, OnWire
  <2>2. ASSUME NEW e \in Channels \ {c} PROVE Shares(e)' \/ TimedAt(e)'
    BY <1>2, <1>b, TimedStays DEF Postpone, Goto, TypeOK, poolVars
  <2> QED BY <1>b, <2>1, <2>2 DEF Timed
<1>3. ASSUME NEW c \in Channels, Transmit(c) PROVE Timed'
  <2>1. ASSUME ~Shares(c) PROVE TimedAt(c)'
    <3>1. /\ pc[c] = "send" /\ pc'[c] = "wire" /\ due'[c] = due[c] /\ left'[c] = Duration(msg[c])
          /\ msg[c].dly = 0 \/ PostponedBy(msg[c]) <= 0
      BY <1>3 DEF Transmit, Goto, TypeOK
    <3>2. due[c] <= Duration(msg[c])
      <4>1. CASE msg[c].dly = 0
        BY <2>1, <3>1, <4>1 DEF Timed, TimedAt, Asked
      <4>2. CASE msg[c].dly # 0
        <5>1. due[c] = msg[c].dly /\ PostponedBy(msg[c]) <= 0
          BY <2>1, <3>1, <4>2 DEF Timed, TimedAt, Asked
        <5>2. Near(PostponedBy(msg[c]), msg[c], due[c]) /\ PostponedBy(msg[c]) \in Int
          BY <1>a, <5>1, DelayAddsUp, DelayTypes
        <5>3. due[c] \in Int
          BY DEF TypeOK
        <5> QED BY <1>a, <5>1, <5>2, <5>3 DEF Near
      <4> QED BY <4>1, <4>2
    <3> QED BY <3>1, <3>2 DEF TimedAt, Asked, Handed, Awaited, OnWire
  <2>2. ASSUME NEW e \in Channels \ {c} PROVE Shares(e)' \/ TimedAt(e)'
    BY <1>3, <1>b, TimedStays DEF Transmit, Goto, TypeOK, poolVars
  <2> QED BY <1>b, <2>1, <2>2 DEF Timed
<1>4. ASSUME NEW c \in Channels, Choose(c) PROVE Timed'
  <2>1. /\ pc[c] = "schedule" /\ pc'[c] \in {"take", "start"}
        /\ UNCHANGED <<work, timer, msg, usec, left, due>>
        /\ \A e \in Channels \ {c} : pc'[e] = pc[e]
    BY <1>4, ChooseDoes
  <2>2. ASSUME ~Shares(c) PROVE TimedAt(c)'
    BY <2>1, <2>2 DEF Timed, TimedAt, Asked, Handed, Awaited, OnWire
  <2>3. ASSUME NEW e \in Channels \ {c} PROVE Shares(e)' \/ TimedAt(e)'
    BY <2>1, <1>b, TimedStays
  <2> QED BY <1>b, <2>2, <2>3 DEF Timed
<1>5. ASSUME NEW c \in Channels, Take(c) PROVE Timed'
  <2>1. /\ pc[c] = "take" /\ pc'[c] = "count"
        /\ UNCHANGED <<timer, msg, usec, left, due>>
        /\ \A e \in Channels \ {c} : pc'[e] = pc[e] /\ work'[e] = work[e]
    BY <1>5 DEF Take, Goto, TypeOK
  <2>2. ASSUME ~Shares(c) PROVE TimedAt(c)'
    BY <2>1, <2>2 DEF Timed, TimedAt, Asked, Handed, Awaited, OnWire
  <2>3. ASSUME NEW e \in Channels \ {c} PROVE Shares(e)' \/ TimedAt(e)'
    BY <2>1, <1>b, TimedStays
  <2> QED BY <1>b, <2>2, <2>3 DEF Timed
<1>6. ASSUME NEW c \in Channels, Count(c) \/ StartFor(c) PROVE Timed'
  <2>1. /\ pc[c] \in {"count", "start"} /\ pc'[c] \in {"start", "launch"}
        /\ UNCHANGED <<work, msg, usec, left, due>>
        /\ \A e \in Channels \ {c} : pc'[e] = pc[e]
    BY <1>6 DEF Count, StartFor, Goto, TypeOK, poolVars
  <2>2. ASSUME NEW t \in 1..Timers PROVE timer'[t].left = timer[t].left
    <3>1. CASE Count(c)
      BY <3>1 DEF Count, TypeOK
    <3>2. CASE StartFor(c)
      BY <3>2 DEF StartFor, TypeOK
    <3> QED BY <1>6, <3>1, <3>2
  <2>3. ASSUME ~Shares(c) PROVE TimedAt(c)'
    BY <2>1, <2>3 DEF Timed, TimedAt, Asked, Handed, Awaited, OnWire
  <2>4. \A e \in Channels : pc[e] = "postponed" => work[e] \in 1..Timers
    BY DEF TypeOK, Counted
  <2>5. ASSUME NEW e \in Channels \ {c} PROVE Shares(e)' \/ TimedAt(e)'
    BY <2>1, <2>2, <2>4, <1>b, TimedStays
  <2> QED BY <1>b, <2>3, <2>5 DEF Timed
<1>7. ASSUME NEW c \in Channels, Start(c) PROVE Timed'
  <2>1. /\ work[c] \in 1..Timers /\ pc[c] = "launch" /\ pc' = [pc EXCEPT ![c] = "postponed"]
        /\ UNCHANGED <<work, msg, left, due>> /\ usec' = [usec EXCEPT ![c] = 0]
    BY <1>7 DEF Start, Goto, TypeOK, Counted, poolVars
  <2>2. ASSUME ~Shares(c) PROVE TimedAt(c)'
    <3>1. usec[c] \in Nat /\ usec[c] < MaxUsec /\ msg[c].dly = 0 /\ Near(usec[c], msg[c], due[c])
      BY <2>1, <2>2 DEF Timed, TimedAt, Handed
    <3>2. timer'[work[c]].left = usec[c]
      BY <1>7, <2>1, <3>1, ExpiryOf, StartSets
    <3>3. pc'[c] = "postponed"
      BY <2>1 DEF TypeOK
    <3> QED BY <2>1, <3>1, <3>2, <3>3 DEF TimedAt, Asked, Handed, Awaited, OnWire
  <2>3. ASSUME NEW e \in Channels \ {c} PROVE Shares(e)' \/ TimedAt(e)'
    <3>1. pc'[e] = pc[e] /\ usec'[e] = usec[e] /\ msg'[e] = msg[e] /\ due'[e] = due[e] /\ left'[e] = left[e]
      BY <2>1 DEF TypeOK
    <3>2. ASSUME pc[e] = "postponed"
          PROVE  Shares(e)' \/ timer'[work'[e]].left = timer[work[e]].left
      <4>1. work[e] \in 1..Timers
        BY <3>2 DEF TypeOK, Counted
      <4>2. CASE work[e] = work[c]
        BY <2>1, <4>1, <4>2 DEF Shares
      <4>3. CASE work[e] # work[c]
        BY <1>7, <2>1, <4>1, <4>3, StartSets
      <4> QED BY <4>2, <4>3
    <3> QED BY <1>b, <3>1, <3>2, TimedStays
  <2> QED BY <1>b, <2>2, <2>3 DEF Timed
<1>8. ASSUME NEW c \in Channels, Sent(c) PROVE Timed'
  <2>1. TimedAt(c)'
    BY <1>8 DEF Sent, Goto, TypeOK, TimedAt, Asked, Handed, Awaited, OnWire
  <2>2. ASSUME NEW e \in Channels \ {c} PROVE Shares(e)' \/ TimedAt(e)'
    BY <1>8, <1>b, TimedStays DEF Sent, Goto, TypeOK, poolVars
  <2> QED BY <2>1, <2>2 DEF Timed
<1>9. ASSUME NEW t \in 1..Timers, Fire(t) PROVE Timed'
  <2>1. PICK c \in Channels : timer[t].data = c /\ work[c] = t
    BY <1>9 DEF Fire, Owned, Calls
  <2>2. /\ timer[t].left = 0
        /\ pc' = IF pc[c] = "postponed" THEN [pc EXCEPT ![c] = "send"] ELSE pc
        /\ UNCHANGED <<work, msg, usec, left, due>>
    BY <1>9, <2>1 DEF Fire, poolVars
  <2>3. \A u \in 1..Timers : timer'[u].left = timer[u].left
    BY <1>9 DEF Fire, TypeOK
  <2>4. \A e \in Channels : pc[e] = "postponed" => work[e] \in 1..Timers
    BY DEF TypeOK, Counted
  <2>5. ASSUME ~Shares(c), pc[c] = "postponed" PROVE TimedAt(c)'
    <3>1. msg[c].dly = 0 /\ Near(0, msg[c], due[c])
      BY <2>1, <2>2, <2>5 DEF Timed, TimedAt, Awaited
    <3>2. due[c] <= Duration(msg[c])
      BY <1>a, <3>1 DEF Near
    <3>3. pc'[c] = "send"
      BY <2>2, <2>5 DEF TypeOK
    <3> QED BY <2>2, <3>1, <3>2, <3>3 DEF TimedAt, Asked, Handed, Awaited, OnWire
  <2>6. ASSUME NEW e \in Channels, e # c \/ pc[c] # "postponed" PROVE Shares(e)' \/ TimedAt(e)'
    <3>1. pc'[e] = pc[e]
      BY <2>2, <2>6 DEF TypeOK
    <3> QED BY <1>b, <2>2, <2>3, <2>4, <3>1, TimedStays
  <2> QED BY <1>b, <2>5, <2>6 DEF Timed
<1>10. CASE Elapse
  <2>1. PICK d \in Remaining :
          /\ d > 0 /\ \A r \in Remaining : d <= r
          /\ left' = [c \in Channels |-> IF pc[c] = "wire" THEN left[c] - d ELSE left[c]]
          /\ due' = [c \in Channels |-> IF pc[c] = "empty" THEN due[c] ELSE due[c] - d]
          /\ timer' = [t \in 1..Timers |-> IF timer[t].on THEN [timer[t] EXCEPT !.left = @ - d] ELSE timer[t]]
    BY <1>10 DEF Elapse
  <2>2. d \in Int
    <3>1. CASE d \in {left[c] : c \in {e \in Channels : pc[e] = "wire"}}
      BY <3>1 DEF TypeOK
    <3>2. CASE d \in {timer[t].left : t \in {u \in 1..Timers : timer[u].on}}
      <4>1. PICK t \in 1..Timers : d = timer[t].left
        BY <3>2
      <4>2. timer[t] \in TimerState
        BY DEF TypeOK, TimerState
      <4> QED BY <4>1, <4>2 DEF TimerState
    <3> QED BY <2>1, <3>1, <3>2 DEF Remaining
  <2>3. ASSUME NEW c \in Channels, ~Shares(c) PROVE TimedAt(c)'
    <3>1. pc[c] \in {"empty", "postponed", "wire", "stuck"} /\ pc'[c] = pc[c] /\ msg'[c] = msg[c] /\ work'[c] = work[c]
      BY <1>10 DEF Elapse, poolVars
    <3>2. CASE pc[c] = "postponed"
      <4>1. work[c] \in 1..Timers /\ timer[work[c]].on /\ timer[work[c]].left \in Nat
        BY <2>3, <3>2 DEF TypeOK, Counted, Owned, Called
      <4>2. timer'[work[c]] = [timer[work[c]] EXCEPT !.left = timer[work[c]].left - d]
        BY <2>1, <4>1
      <4>3. timer'[work[c]].left = timer[work[c]].left - d
        BY <4>1, <4>2 DEF TypeOK
      <4>4. due'[c] = due[c] - d /\ due[c] \in Int
        BY <2>1, <3>2 DEF TypeOK
      <4>5. msg[c].dly = 0 /\ Near(timer[work[c]].left, msg[c], due[c])
        BY <2>3, <3>2 DEF Timed, TimedAt, Awaited
      <4>6. Near(timer[work[c]].left - d, msg[c], due[c] - d)
        BY <1>a, <2>2, <4>1, <4>4, <4>5 DEF Near
      <4> QED BY <3>1, <3>2, <4>3, <4>4, <4>5, <4>6 DEF TimedAt, Asked, Handed, Awaited, OnWire
    <3>3. CASE pc[c] = "wire"
      <4>1. due'[c] = due[c] - d /\ left'[c] = left[c] - d /\ due[c] \in Int /\ left[c] \in Int
        BY <2>1, <3>3 DEF TypeOK
      <4>2. due[c] <= left[c]
        BY <2>3, <3>3 DEF Timed, TimedAt, OnWire
      <4> QED BY <2>2, <3>1, <3>3, <4>1, <4>2 DEF TimedAt, Asked, Handed, Awaited, OnWire
    <3>4. CASE pc[c] \in {"empty", "stuck"}
      BY <3>1, <3>4 DEF TimedAt, Asked, Handed, Awaited, OnWire
    <3> QED BY <3>1, <3>2, <3>3, <3>4
  <2> QED BY <1>b, <2>3 DEF Timed
<1>11. CASE UNCHANGED vars
  BY <1>11, <1>b, TimedStays DEF vars, poolVars, Timed
<1> QED
  BY <1>1, <1>2, <1>3, <1>4, <1>5, <1>6, <1>7, <1>8, <1>9, <1>10, <1>11
     DEF Next, Channel

(* A message is never complete before its time, and never postponed too    *)
(* long, for any delays the arithmetic of the driver holds, at any baud    *)
(* rate, whatever the other channels do, unless the channel shares its     *)
(* timer.                                                                  *)
THEOREM DelaysAreKept == ASSUME Exact PROVE Spec => []OnTime
<1>1. Init => Timed
  BY DEF Init, Timed, TimedAt, Asked, Handed, Awaited, OnWire
<1>2. IInv /\ Timed /\ [Next]_vars => Timed'
  BY TimedNext
<1>3. Timed => OnTime
  BY DEF Timed, TimedAt, OnTime, Awaited, OnWire, Near
<1> QED BY Inductive, <1>1, <1>2, <1>3, PTL DEF Spec
=============================================================================
