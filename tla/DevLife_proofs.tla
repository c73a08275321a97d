--------------------------- MODULE DevLife_proofs ---------------------------
(* Proofs about DevLife, for any set of processes, every build, any        *)
(* addresses and interrupts cansetup may write, and any number of refused  *)
(* requests and changes.                                                   *)
EXTENDS DevLife, TLAPS

USE LifeAssumption

(* The initial values have their types. *)
LEMMA InitType == Init => TypeOK
<1> SUFFICES ASSUME Init PROVE TypeOK
  OBVIOUS
<1>1. /\ isopen \in 0..1 /\ len \in 0..RxSize
      /\ faults \in 0..MaxFaults /\ setups \in 0..MaxSetups
  BY SMT DEF Init
<1>2. /\ frames \in BOOLEAN /\ warn \in BOOLEAN
      /\ spoiled \in BOOLEAN /\ moved \in BOOLEAN /\ undone \in BOOLEAN
  BY Zenon DEF Init
<1>3. /\ pc \in [Procs -> Idle \cup {"open"} \cup Opening \cup Closing]
      /\ base \in Addrs \cup {None} /\ line \in Lines \cup {None}
      /\ mapped \in Addrs \cup {None}
      /\ mem \in [{"rx", "tx"} -> {"none", "live", "freed"}]
      /\ region \in [Addrs -> Procs \cup {None}] /\ irq \in [Lines -> Procs \cup {None}]
      /\ waits \in [Procs -> Procs \cup {None}]
      /\ chip \in {"reset", "run"}
      /\ handler \in Procs \cup {None} /\ src \subseteq {"rx", "warn"}
  BY SMT DEF Init, Idle
<1> QED BY <1>1, <1>2, <1>3 DEF TypeOK

(* No step of any handler leaves the types. *)
LEMMA NextType == ASSUME TypeOK, [Next]_vars PROVE TypeOK'
<1> USE DEF TypeOK, Idle, Opening, Closing, entryVars, devVars, kernelVars, chipVars, rxVars, failVars
<1>1. ASSUME NEW p \in Procs, OpenRefused(p) PROVE TypeOK'
  BY <1>1 DEF OpenRefused, Goto, At
<1>2. ASSUME NEW p \in Procs, OpenTest(p) PROVE TypeOK'
  BY <1>2 DEF OpenTest, Goto, At
<1>3. ASSUME NEW p \in Procs, OpenGiveUp(p) PROVE TypeOK'
  BY <1>3 DEF OpenGiveUp, Goto, At
<1>4. ASSUME NEW p \in Procs, OpenMark(p) PROVE TypeOK'
  BY <1>4 DEF OpenMark, Goto, At
<1>5. ASSUME NEW p \in Procs, OpenNoDevice(p) PROVE TypeOK'
  BY <1>5 DEF OpenNoDevice, Goto, At
<1>6. ASSUME NEW p \in Procs, OpenRegion(p) PROVE TypeOK'
  BY <1>6 DEF OpenRegion, Goto, At
<1>7. ASSUME NEW p \in Procs, RegionBusy(p) PROVE TypeOK'
  BY <1>7 DEF RegionBusy, Fail, Goto, At
<1>8. ASSUME NEW p \in Procs, OpenMap(p) PROVE TypeOK'
  BY <1>8 DEF OpenMap, Goto, At
<1>9. ASSUME NEW p \in Procs, OpenIrq(p) PROVE TypeOK'
  BY <1>9 DEF OpenIrq, Goto, At
<1>10. ASSUME NEW p \in Procs, IrqBusy(p) PROVE TypeOK'
  BY <1>10 DEF IrqBusy, Fail, Fault, Goto, At
<1>11. ASSUME NEW p \in Procs, OpenRxq(p) PROVE TypeOK'
  BY <1>11 DEF OpenRxq, OpenQueue, Goto, At
<1>12. ASSUME NEW p \in Procs, OpenTxq(p) PROVE TypeOK'
  BY <1>12 DEF OpenTxq, OpenQueue, Goto, At
<1>13. ASSUME NEW p \in Procs, NoMemory(p) PROVE TypeOK'
  BY <1>13 DEF NoMemory, Fail, Fault, Goto, At
<1>14. ASSUME NEW p \in Procs, OpenReset(p) PROVE TypeOK'
  <2>1. frames' \in BOOLEAN
    BY <1>14, Zenon DEF OpenReset
  <2>2. chip' \in {"reset", "run"} /\ pc' \in [Procs -> Idle \cup {"open"} \cup Opening \cup Closing]
    BY <1>14 DEF OpenReset, Goto
  <2> QED BY <1>14, <2>1, <2>2, Zenon DEF OpenReset
<1>15. ASSUME NEW p \in Procs, NoBoard(p) PROVE TypeOK'
  BY <1>15 DEF NoBoard, Fail, Fault, Goto, At
<1>16. ASSUME NEW p \in Procs, OpenStart(p) PROVE TypeOK'
  <2>1. warn' \in BOOLEAN
    BY <1>16, Zenon DEF OpenStart
  <2>2. chip' \in {"reset", "run"} /\ pc' \in [Procs -> Idle \cup {"open"} \cup Opening \cup Closing]
    BY <1>16 DEF OpenStart, Goto
  <2> QED BY <1>16, <2>1, <2>2, Zenon DEF OpenStart
<1>17. ASSUME NEW p \in Procs, CloseStop(p) PROVE TypeOK'
  <2>1. frames' \in BOOLEAN
    BY <1>17, Zenon DEF CloseStop
  <2>2. chip' \in {"reset", "run"} /\ pc' \in [Procs -> Idle \cup {"open"} \cup Opening \cup Closing]
    BY <1>17 DEF CloseStop, Goto
  <2> QED BY <1>17, <2>1, <2>2, Zenon DEF CloseStop
<1>18. ASSUME NEW p \in Procs, CloseRegion(p) PROVE TypeOK'
  BY <1>18 DEF CloseRegion, Goto, At
<1>19. ASSUME NEW p \in Procs, CloseQueues(p) PROVE TypeOK'
  BY <1>19 DEF CloseQueues, Goto, At
<1>20. ASSUME NEW p \in Procs, CloseIrq(p) PROVE TypeOK'
  BY <1>20 DEF CloseIrq, Goto, At
<1>21. ASSUME NEW p \in Procs, CloseSync(p) PROVE TypeOK'
  BY <1>21 DEF CloseSync, Goto, At
<1>22. ASSUME NEW p \in Procs, CloseUnmark(p) PROVE TypeOK'
  BY <1>22 DEF CloseUnmark, Goto, At
<1>23. ASSUME NEW p \in Procs, Read(p) PROVE TypeOK'
  BY <1>23 DEF Read, At
<1>24. ASSUME NEW a \in Addrs \cup {None}, SetupBase(a) PROVE TypeOK'
  BY <1>24 DEF SetupBase, Nobody
<1>25. ASSUME NEW l \in Lines \cup {None}, SetupLine(l) PROVE TypeOK'
  BY <1>25 DEF SetupLine, Nobody
<1>26. CASE FrameArrives
  BY <1>26 DEF FrameArrives
<1>27. CASE ErrorStatus
  BY <1>27 DEF ErrorStatus
<1>28. CASE HandlerEnter
  BY <1>28 DEF HandlerEnter
<1>29. CASE HandlerSource
  BY <1>29 DEF HandlerSource, Reached, Pending
<1>30. CASE HandlerStore
  <2>1. len' \in 0..RxSize /\ src' \subseteq {"rx", "warn"}
    BY <1>30, SMT DEF HandlerStore
  <2>2. frames' \in BOOLEAN
    BY <1>30, Zenon DEF HandlerStore
  <2> QED BY <1>30, <2>1, <2>2, Zenon DEF HandlerStore
<1>31. CASE HandlerUndo
  BY <1>31 DEF HandlerUndo, Reached
<1>32. CASE UNCHANGED vars
  BY <1>32 DEF vars
<1>q. QED
  BY <1>1, <1>2, <1>3, <1>4, <1>5, <1>6, <1>7, <1>8, <1>9, <1>10, <1>11,
     <1>12, <1>13, <1>14, <1>15, <1>16, <1>17, <1>18, <1>19, <1>20, <1>21,
     <1>22, <1>23, <1>24, <1>25, <1>26, <1>27, <1>28, <1>29, <1>30, <1>31,
     <1>32
     DEF Next, OpenStep, CloseStep, HandlerStep

(* TypeOK at all times: isopen stays in 0..1 although can_close decrements *)
(* it and two opens may set it.                                            *)
THEOREM TypeCorrect == Spec => []TypeOK
<1>1. Init => TypeOK
  BY InitType
<1> QED BY <1>1, NextType, PTL DEF Spec

-----------------------------------------------------------------------------
(* The steps between request and release of each resource. *)
HasRegion == {"map", "irq", "rxq", "txq", "reset", "start", "open", "relregion"}
HasMap    == {"irq", "rxq", "txq", "reset", "start", "open"}
HasIrq    == {"rxq", "txq", "reset", "start", "open", "relregion", "cleanup", "freeirq"}
HasRxq    == {"txq", "reset", "start", "open", "relregion", "cleanup"}
HasTxq    == {"reset", "start", "open", "relregion", "cleanup"}

(* While nobody moves the channel, a process at one of these steps has the *)
(* resource, at the address and the interrupt configured.  The interrupt   *)
(* is the first thing it needs and the last one it frees, so that no other *)
(* process can be at a step that touches queues or controller.             *)
Owned ==
  ~moved =>
    \A p \in Procs :
      /\ pc[p] \notin Idle \cup {"mark"} => base # None
      /\ (pc[p] \in HasRegion /\ Build # "pci") => region[base] = p
      /\ (pc[p] \in HasMap /\ Build # "port") => mapped = base
      /\ (pc[p] \in HasIrq /\ line # None) => irq[line] = p
      /\ (pc[p] \in HasRxq /\ line # None) => mem["rx"] = "live"
      /\ (pc[p] \in HasTxq /\ line # None) => mem["tx"] = "live"

(* An open channel whose controller is in reset mode has an error warning  *)
(* interrupt that the handler will treat.                                  *)
Running ==
  (~moved /\ line # None /\ base = Home) =>
    \A p \in Procs : pc[p] = "open" => chip = "run" \/ warn \/ "warn" \in src

(* Every step of can_open, can_close, cansetup and the handler keeps Owned. *)
LEMMA NextOwned == ASSUME TypeOK, Owned, [Next]_vars PROVE Owned'
<1> USE DEF TypeOK, Owned, Idle, HasRegion, HasMap, HasIrq, HasRxq, HasTxq,
            entryVars, devVars, kernelVars, chipVars, rxVars, failVars
<1>1. ASSUME NEW p \in Procs, OpenRefused(p) PROVE Owned'
  BY <1>1 DEF OpenRefused, Goto, At
<1>2. ASSUME NEW p \in Procs, OpenTest(p) PROVE Owned'
  BY <1>2 DEF OpenTest, Goto, At
<1>3. ASSUME NEW p \in Procs, OpenGiveUp(p) PROVE Owned'
  BY <1>3 DEF OpenGiveUp, Goto, At
<1>4. ASSUME NEW p \in Procs, OpenMark(p) PROVE Owned'
  BY <1>4 DEF OpenMark, Goto, At
<1>5. ASSUME NEW p \in Procs, OpenNoDevice(p) PROVE Owned'
  BY <1>5 DEF OpenNoDevice, Goto, At
<1>6. ASSUME NEW p \in Procs, OpenRegion(p) PROVE Owned'
  BY <1>6 DEF OpenRegion, Goto, At
<1>7. ASSUME NEW p \in Procs, RegionBusy(p) PROVE Owned'
  BY <1>7 DEF RegionBusy, Fail, Goto, At
<1>8. ASSUME NEW p \in Procs, OpenMap(p) PROVE Owned'
  BY <1>8 DEF OpenMap, Goto, At
<1>9. ASSUME NEW p \in Procs, OpenIrq(p) PROVE Owned'
  BY <1>9 DEF OpenIrq, Goto, At
<1>10. ASSUME NEW p \in Procs, IrqBusy(p) PROVE Owned'
  BY <1>10 DEF IrqBusy, Fail, Fault, Goto, At
<1>11. ASSUME NEW p \in Procs, OpenRxq(p) PROVE Owned'
  BY <1>11 DEF OpenRxq, OpenQueue, Goto, At
<1>12. ASSUME NEW p \in Procs, OpenTxq(p) PROVE Owned'
  BY <1>12 DEF OpenTxq, OpenQueue, Goto, At
<1>13. ASSUME NEW p \in Procs, NoMemory(p) PROVE Owned'
  BY <1>13 DEF NoMemory, Fail, Fault, Goto, At
<1>14. ASSUME NEW p \in Procs, OpenReset(p) PROVE Owned'
  BY <1>14 DEF OpenReset, Goto, At, Reached
<1>15. ASSUME NEW p \in Procs, NoBoard(p) PROVE Owned'
  BY <1>15 DEF NoBoard, Fail, Fault, Goto, At
<1>16. ASSUME NEW p \in Procs, OpenStart(p) PROVE Owned'
  BY <1>16 DEF OpenStart, Goto, At, Reached
<1>17. ASSUME NEW p \in Procs, CloseStop(p) PROVE Owned'
  BY <1>17 DEF CloseStop, Goto, At, Reached
<1>18. ASSUME NEW p \in Procs, CloseRegion(p) PROVE Owned'
  BY <1>18 DEF CloseRegion, Goto, At
<1>19. ASSUME NEW p \in Procs, CloseQueues(p) PROVE Owned'
  BY <1>19 DEF CloseQueues, Goto, At
<1>20. ASSUME NEW p \in Procs, CloseIrq(p) PROVE Owned'
  BY <1>20 DEF CloseIrq, Goto, At
<1>21. ASSUME NEW p \in Procs, CloseSync(p) PROVE Owned'
  BY <1>21 DEF CloseSync, Goto, At
<1>22. ASSUME NEW p \in Procs, CloseUnmark(p) PROVE Owned'
  BY <1>22 DEF CloseUnmark, Goto, At
<1>23. ASSUME NEW p \in Procs, Read(p) PROVE Owned'
  BY <1>23 DEF Read, At
<1>24. ASSUME NEW a \in Addrs \cup {None}, SetupBase(a) PROVE Owned'
  BY <1>24 DEF SetupBase, Nobody
<1>25. ASSUME NEW l \in Lines \cup {None}, SetupLine(l) PROVE Owned'
  BY <1>25 DEF SetupLine, Nobody
<1>26. CASE FrameArrives
  BY <1>26 DEF FrameArrives
<1>27. CASE ErrorStatus
  BY <1>27 DEF ErrorStatus
<1>28. CASE HandlerEnter
  BY <1>28 DEF HandlerEnter
<1>29. CASE HandlerSource
  BY <1>29 DEF HandlerSource, Reached, Pending
<1>30. CASE HandlerStore
  BY <1>30 DEF HandlerStore, Reached
<1>31. CASE HandlerUndo
  BY <1>31 DEF HandlerUndo, Reached
<1>32. CASE UNCHANGED vars
  BY <1>32 DEF vars
<1>q. QED
  BY <1>1, <1>2, <1>3, <1>4, <1>5, <1>6, <1>7, <1>8, <1>9, <1>10, <1>11,
     <1>12, <1>13, <1>14, <1>15, <1>16, <1>17, <1>18, <1>19, <1>20, <1>21,
     <1>22, <1>23, <1>24, <1>25, <1>26, <1>27, <1>28, <1>29, <1>30, <1>31,
     <1>32
     DEF Next, OpenStep, CloseStep, HandlerStep

(* Every step keeps Running: only a process that owns the interrupt puts   *)
(* the controller in reset mode, and bus-off raises the error warning.     *)
LEMMA NextRunning == ASSUME TypeOK, Owned, Running, [Next]_vars PROVE Running'
<1> USE DEF TypeOK, Owned, Running, Idle, HasRegion, HasMap, HasIrq,
            entryVars, devVars, kernelVars, chipVars, rxVars, failVars
<1>1. ASSUME NEW p \in Procs, OpenRefused(p) PROVE Running'
  BY <1>1 DEF OpenRefused, Goto, At
<1>2. ASSUME NEW p \in Procs, OpenTest(p) PROVE Running'
  BY <1>2 DEF OpenTest, Goto, At
<1>3. ASSUME NEW p \in Procs, OpenGiveUp(p) PROVE Running'
  BY <1>3 DEF OpenGiveUp, Goto, At
<1>4. ASSUME NEW p \in Procs, OpenMark(p) PROVE Running'
  BY <1>4 DEF OpenMark, Goto, At
<1>5. ASSUME NEW p \in Procs, OpenNoDevice(p) PROVE Running'
  BY <1>5 DEF OpenNoDevice, Goto, At
<1>6. ASSUME NEW p \in Procs, OpenRegion(p) PROVE Running'
  BY <1>6 DEF OpenRegion, Goto, At
<1>7. ASSUME NEW p \in Procs, RegionBusy(p) PROVE Running'
  BY <1>7 DEF RegionBusy, Fail, Goto, At
<1>8. ASSUME NEW p \in Procs, OpenMap(p) PROVE Running'
  BY <1>8 DEF OpenMap, Goto, At
<1>9. ASSUME NEW p \in Procs, OpenIrq(p) PROVE Running'
  BY <1>9 DEF OpenIrq, Goto, At
<1>10. ASSUME NEW p \in Procs, IrqBusy(p) PROVE Running'
  BY <1>10 DEF IrqBusy, Fail, Fault, Goto, At
<1>11. ASSUME NEW p \in Procs, OpenRxq(p) PROVE Running'
  BY <1>11 DEF OpenRxq, OpenQueue, Goto, At
<1>12. ASSUME NEW p \in Procs, OpenTxq(p) PROVE Running'
  BY <1>12 DEF OpenTxq, OpenQueue, Goto, At
<1>13. ASSUME NEW p \in Procs, NoMemory(p) PROVE Running'
  BY <1>13 DEF NoMemory, Fail, Fault, Goto, At
<1>14. ASSUME NEW p \in Procs, OpenReset(p) PROVE Running'
  BY <1>14 DEF OpenReset, Goto, At, Reached
<1>15. ASSUME NEW p \in Procs, NoBoard(p) PROVE Running'
  BY <1>15 DEF NoBoard, Fail, Fault, Goto, At
<1>16. ASSUME NEW p \in Procs, OpenStart(p) PROVE Running'
  BY <1>16 DEF OpenStart, Goto, At, Reached
<1>17. ASSUME NEW p \in Procs, CloseStop(p) PROVE Running'
  BY <1>17 DEF CloseStop, Goto, At, Reached
<1>18. ASSUME NEW p \in Procs, CloseRegion(p) PROVE Running'
  BY <1>18 DEF CloseRegion, Goto, At
<1>19. ASSUME NEW p \in Procs, CloseQueues(p) PROVE Running'
  BY <1>19 DEF CloseQueues, Goto, At
<1>20. ASSUME NEW p \in Procs, CloseIrq(p) PROVE Running'
  BY <1>20 DEF CloseIrq, Goto, At
<1>21. ASSUME NEW p \in Procs, CloseSync(p) PROVE Running'
  BY <1>21 DEF CloseSync, Goto, At
<1>22. ASSUME NEW p \in Procs, CloseUnmark(p) PROVE Running'
  BY <1>22 DEF CloseUnmark, Goto, At
<1>23. ASSUME NEW p \in Procs, Read(p) PROVE Running'
  BY <1>23 DEF Read, At
<1>24. ASSUME NEW a \in Addrs \cup {None}, SetupBase(a) PROVE Running'
  BY <1>24 DEF SetupBase, Nobody
<1>25. ASSUME NEW l \in Lines \cup {None}, SetupLine(l) PROVE Running'
  BY <1>25 DEF SetupLine, Nobody
<1>26. CASE FrameArrives
  BY <1>26 DEF FrameArrives
<1>27. CASE ErrorStatus
  BY <1>27 DEF ErrorStatus
<1>28. CASE HandlerEnter
  BY <1>28 DEF HandlerEnter
<1>29. CASE HandlerSource
  BY <1>29 DEF HandlerSource, Reached, Pending
<1>30. CASE HandlerStore
  BY <1>30 DEF HandlerStore, Reached
<1>31. CASE HandlerUndo
  BY <1>31 DEF HandlerUndo, Reached
<1>32. CASE UNCHANGED vars
  BY <1>32 DEF vars
<1>q. QED
  BY <1>1, <1>2, <1>3, <1>4, <1>5, <1>6, <1>7, <1>8, <1>9, <1>10, <1>11,
     <1>12, <1>13, <1>14, <1>15, <1>16, <1>17, <1>18, <1>19, <1>20, <1>21,
     <1>22, <1>23, <1>24, <1>25, <1>26, <1>27, <1>28, <1>29, <1>30, <1>31,
     <1>32
     DEF Next, OpenStep, CloseStep, HandlerStep

(* Whoever has the channel open has everything that belongs to it, and is  *)
(* alone, on a channel with an interrupt that nobody moves.                *)
THEOREM HolderOwns == Spec => []HolderHasAll
<1>1. Init => TypeOK /\ Owned /\ Running
  BY InitType DEF Init, Owned, Running, Idle, HasRegion, HasMap, HasIrq, HasRxq, HasTxq
<1>2. TypeOK /\ Owned /\ Running /\ [Next]_vars => (TypeOK /\ Owned /\ Running)'
  BY NextType, NextOwned, NextRunning
<1>3. TypeOK /\ Owned /\ Running => HolderHasAll
  BY DEF Owned, Running, HolderHasAll, At, HasRegion, HasIrq, HasRxq, HasTxq
<1> QED BY <1>1, <1>2, <1>3, PTL DEF Spec

-----------------------------------------------------------------------------
(* The converse, until an open fails half-way: memory belongs to a process *)
(* on its way to free it, whatever cansetup does; region and interrupt do  *)
(* unless the channel has moved.                                           *)
QueuesReleased ==
  ~spoiled =>
    /\ mem["rx"] = "live" => \E p \in Procs : pc[p] \in HasRxq
    /\ mem["tx"] = "live" => \E p \in Procs : pc[p] \in HasTxq

Released ==
  (~spoiled /\ ~moved) =>
    /\ \A a \in Addrs : region[a] # None => a = base /\ pc[region[a]] \in HasRegion
    /\ \A l \in Lines : irq[l] # None => l = line /\ pc[irq[l]] \in HasIrq

(* Every step keeps QueuesReleased: both queues are freed in one step. *)
LEMMA NextQueuesReleased ==
  ASSUME TypeOK, QueuesReleased, [Next]_vars PROVE QueuesReleased'
<1> USE DEF TypeOK, QueuesReleased, HasRxq, HasTxq, entryVars, devVars, kernelVars, chipVars, rxVars, failVars
<1>1. ASSUME NEW p \in Procs, OpenRefused(p) PROVE QueuesReleased'
  BY <1>1 DEF OpenRefused, Goto, At
<1>2. ASSUME NEW p \in Procs, OpenTest(p) PROVE QueuesReleased'
  BY <1>2 DEF OpenTest, Goto, At
<1>3. ASSUME NEW p \in Procs, OpenGiveUp(p) PROVE QueuesReleased'
  BY <1>3 DEF OpenGiveUp, Goto, At
<1>4. ASSUME NEW p \in Procs, OpenMark(p) PROVE QueuesReleased'
  BY <1>4 DEF OpenMark, Goto, At
<1>5. ASSUME NEW p \in Procs, OpenNoDevice(p) PROVE QueuesReleased'
  BY <1>5 DEF OpenNoDevice, Goto, At
<1>6. ASSUME NEW p \in Procs, OpenRegion(p) PROVE QueuesReleased'
  BY <1>6 DEF OpenRegion, Goto, At
<1>7. ASSUME NEW p \in Procs, RegionBusy(p) PROVE QueuesReleased'
  BY <1>7 DEF RegionBusy, Fail, Goto, At
<1>8. ASSUME NEW p \in Procs, OpenMap(p) PROVE QueuesReleased'
  BY <1>8 DEF OpenMap, Goto, At
<1>9. ASSUME NEW p \in Procs, OpenIrq(p) PROVE QueuesReleased'
  BY <1>9 DEF OpenIrq, Goto, At
<1>10. ASSUME NEW p \in Procs, IrqBusy(p) PROVE QueuesReleased'
  BY <1>10 DEF IrqBusy, Fail, Fault, Goto, At
<1>11. ASSUME NEW p \in Procs, OpenRxq(p) PROVE QueuesReleased'
  BY <1>11 DEF OpenRxq, OpenQueue, Goto, At
<1>12. ASSUME NEW p \in Procs, OpenTxq(p) PROVE QueuesReleased'
  BY <1>12 DEF OpenTxq, OpenQueue, Goto, At
<1>13. ASSUME NEW p \in Procs, NoMemory(p) PROVE QueuesReleased'
  BY <1>13 DEF NoMemory, Fail, Fault, Goto, At
<1>14. ASSUME NEW p \in Procs, OpenReset(p) PROVE QueuesReleased'
  BY <1>14 DEF OpenReset, Goto, At, Reached
<1>15. ASSUME NEW p \in Procs, NoBoard(p) PROVE QueuesReleased'
  BY <1>15 DEF NoBoard, Fail, Fault, Goto, At
<1>16. ASSUME NEW p \in Procs, OpenStart(p) PROVE QueuesReleased'
  BY <1>16 DEF OpenStart, Goto, At, Reached
<1>17. ASSUME NEW p \in Procs, CloseStop(p) PROVE QueuesReleased'
  BY <1>17 DEF CloseStop, Goto, At, Reached
<1>18. ASSUME NEW p \in Procs, CloseRegion(p) PROVE QueuesReleased'
  BY <1>18 DEF CloseRegion, Goto, At
<1>19. ASSUME NEW p \in Procs, CloseQueues(p) PROVE QueuesReleased'
  BY <1>19 DEF CloseQueues, Goto, At
<1>20. ASSUME NEW p \in Procs, CloseIrq(p) PROVE QueuesReleased'
  BY <1>20 DEF CloseIrq, Goto, At
<1>21. ASSUME NEW p \in Procs, CloseSync(p) PROVE QueuesReleased'
  BY <1>21 DEF CloseSync, Goto, At
<1>22. ASSUME NEW p \in Procs, CloseUnmark(p) PROVE QueuesReleased'
  BY <1>22 DEF CloseUnmark, Goto, At
<1>23. ASSUME NEW p \in Procs, Read(p) PROVE QueuesReleased'
  BY <1>23 DEF Read, At
<1>24. ASSUME NEW a \in Addrs \cup {None}, SetupBase(a) PROVE QueuesReleased'
  BY <1>24 DEF SetupBase, Nobody
<1>25. ASSUME NEW l \in Lines \cup {None}, SetupLine(l) PROVE QueuesReleased'
  BY <1>25 DEF SetupLine, Nobody
<1>26. CASE FrameArrives
  BY <1>26 DEF FrameArrives
<1>27. CASE ErrorStatus
  BY <1>27 DEF ErrorStatus
<1>28. CASE HandlerEnter
  BY <1>28 DEF HandlerEnter
<1>29. CASE HandlerSource
  BY <1>29 DEF HandlerSource, Reached, Pending
<1>30. CASE HandlerStore
  BY <1>30 DEF HandlerStore, Reached
<1>31. CASE HandlerUndo
  BY <1>31 DEF HandlerUndo, Reached
<1>32. CASE UNCHANGED vars
  BY <1>32 DEF vars
<1>q. QED
  BY <1>1, <1>2, <1>3, <1>4, <1>5, <1>6, <1>7, <1>8, <1>9, <1>10, <1>11,
     <1>12, <1>13, <1>14, <1>15, <1>16, <1>17, <1>18, <1>19, <1>20, <1>21,
     <1>22, <1>23, <1>24, <1>25, <1>26, <1>27, <1>28, <1>29, <1>30, <1>31,
     <1>32
     DEF Next, OpenStep, CloseStep, HandlerStep

(* Every step keeps Released, in builds that release their region. *)
LEMMA NextReleased ==
  ASSUME Build # "mem", TypeOK, Released, [Next]_vars PROVE Released'
<1> USE DEF TypeOK, Released, Idle, HasRegion, HasIrq,
            entryVars, devVars, kernelVars, chipVars, rxVars, failVars
<1>1. ASSUME NEW p \in Procs, OpenRefused(p) PROVE Released'
  BY <1>1 DEF OpenRefused, Goto, At
<1>2. ASSUME NEW p \in Procs, OpenTest(p) PROVE Released'
  BY <1>2 DEF OpenTest, Goto, At
<1>3. ASSUME NEW p \in Procs, OpenGiveUp(p) PROVE Released'
  BY <1>3 DEF OpenGiveUp, Goto, At
<1>4. ASSUME NEW p \in Procs, OpenMark(p) PROVE Released'
  BY <1>4 DEF OpenMark, Goto, At
<1>5. ASSUME NEW p \in Procs, OpenNoDevice(p) PROVE Released'
  BY <1>5 DEF OpenNoDevice, Goto, At
<1>6. ASSUME NEW p \in Procs, OpenRegion(p) PROVE Released'
  BY <1>6 DEF OpenRegion, Goto, At
<1>7. ASSUME NEW p \in Procs, RegionBusy(p) PROVE Released'
  BY <1>7 DEF RegionBusy, Fail, Goto, At
<1>8. ASSUME NEW p \in Procs, OpenMap(p) PROVE Released'
  BY <1>8 DEF OpenMap, Goto, At
<1>9. ASSUME NEW p \in Procs, OpenIrq(p) PROVE Released'
  BY <1>9 DEF OpenIrq, Goto, At
<1>10. ASSUME NEW p \in Procs, IrqBusy(p) PROVE Released'
  BY <1>10 DEF IrqBusy, Fail, Fault, Goto, At
<1>11. ASSUME NEW p \in Procs, OpenRxq(p) PROVE Released'
  BY <1>11 DEF OpenRxq, OpenQueue, Goto, At
<1>12. ASSUME NEW p \in Procs, OpenTxq(p) PROVE Released'
  BY <1>12 DEF OpenTxq, OpenQueue, Goto, At
<1>13. ASSUME NEW p \in Procs, NoMemory(p) PROVE Released'
  BY <1>13 DEF NoMemory, Fail, Fault, Goto, At
<1>14. ASSUME NEW p \in Procs, OpenReset(p) PROVE Released'
  BY <1>14 DEF OpenReset, Goto, At, Reached
<1>15. ASSUME NEW p \in Procs, NoBoard(p) PROVE Released'
  BY <1>15 DEF NoBoard, Fail, Fault, Goto, At
<1>16. ASSUME NEW p \in Procs, OpenStart(p) PROVE Released'
  BY <1>16 DEF OpenStart, Goto, At, Reached
<1>17. ASSUME NEW p \in Procs, CloseStop(p) PROVE Released'
  BY <1>17 DEF CloseStop, Goto, At, Reached
<1>18. ASSUME NEW p \in Procs, CloseRegion(p) PROVE Released'
  BY <1>18 DEF CloseRegion, Goto, At
<1>19. ASSUME NEW p \in Procs, CloseQueues(p) PROVE Released'
  BY <1>19 DEF CloseQueues, Goto, At
<1>20. ASSUME NEW p \in Procs, CloseIrq(p) PROVE Released'
  BY <1>20 DEF CloseIrq, Goto, At
<1>21. ASSUME NEW p \in Procs, CloseSync(p) PROVE Released'
  BY <1>21 DEF CloseSync, Goto, At
<1>22. ASSUME NEW p \in Procs, CloseUnmark(p) PROVE Released'
  BY <1>22 DEF CloseUnmark, Goto, At
<1>23. ASSUME NEW p \in Procs, Read(p) PROVE Released'
  BY <1>23 DEF Read, At
<1>24. ASSUME NEW a \in Addrs \cup {None}, SetupBase(a) PROVE Released'
  <2> SUFFICES ASSUME ~spoiled, ~moved, Nobody \/ base = None, NEW x \in Addrs, region[x] # None
               PROVE  FALSE
    BY <1>24 DEF SetupBase
  <2>1. x = base /\ pc[region[x]] \in HasRegion
    OBVIOUS
  <2>2. region[x] \in Procs
    OBVIOUS
  <2> QED BY <2>1, <2>2 DEF Nobody
<1>25. ASSUME NEW l \in Lines \cup {None}, SetupLine(l) PROVE Released'
  <2> SUFFICES ASSUME ~spoiled, ~moved, Nobody \/ line = None, NEW x \in Lines, irq[x] # None
               PROVE  FALSE
    BY <1>25 DEF SetupLine
  <2>1. x = line /\ pc[irq[x]] \in HasIrq
    OBVIOUS
  <2>2. irq[x] \in Procs
    OBVIOUS
  <2> QED BY <2>1, <2>2 DEF Nobody
<1>26. CASE FrameArrives
  BY <1>26 DEF FrameArrives
<1>27. CASE ErrorStatus
  BY <1>27 DEF ErrorStatus
<1>28. CASE HandlerEnter
  BY <1>28 DEF HandlerEnter
<1>29. CASE HandlerSource
  BY <1>29 DEF HandlerSource, Reached, Pending
<1>30. CASE HandlerStore
  BY <1>30 DEF HandlerStore, Reached
<1>31. CASE HandlerUndo
  BY <1>31 DEF HandlerUndo, Reached
<1>32. CASE UNCHANGED vars
  BY <1>32 DEF vars
<1>q. QED
  BY <1>1, <1>2, <1>3, <1>4, <1>5, <1>6, <1>7, <1>8, <1>9, <1>10, <1>11,
     <1>12, <1>13, <1>14, <1>15, <1>16, <1>17, <1>18, <1>19, <1>20, <1>21,
     <1>22, <1>23, <1>24, <1>25, <1>26, <1>27, <1>28, <1>29, <1>30, <1>31,
     <1>32
     DEF Next, OpenStep, CloseStep, HandlerStep

(* Builds for port access and for PCI free the memory whatever cansetup    *)
(* does, and release region and interrupt unless the channel has moved,    *)
(* always unless an open has failed half-way.  A build for memory access   *)
(* does not release its region.                                            *)
THEOREM NothingIsLeaked == ASSUME Build # "mem" PROVE Spec => []NothingLeaks
<1>1. Init => TypeOK /\ QueuesReleased /\ Released
  BY InitType DEF Init, QueuesReleased, Released, HasRegion, HasIrq, HasRxq, HasTxq
<1>2. TypeOK /\ QueuesReleased /\ Released /\ [Next]_vars
        => (TypeOK /\ QueuesReleased /\ Released)'
  BY NextType, NextQueuesReleased, NextReleased
<1>3. TypeOK /\ QueuesReleased /\ Released => NothingLeaks
  BY DEF TypeOK, QueuesReleased, Released, NothingLeaks, Nobody, Idle,
         HasRegion, HasIrq, HasRxq, HasTxq
<1> QED BY <1>1, <1>2, <1>3, PTL DEF Spec

-----------------------------------------------------------------------------
(* The flag is set only while some process is past the point where it sets *)
(* the flag, until an open fails half-way.                                 *)
Marked ==
  (~spoiled /\ isopen = 1) => \E p \in Procs : pc[p] \notin Idle \cup {"mark"}

(* The steps that end a call after the flag is set either clear the flag or *)
(* spoil the device; every other step leaves a witness where it was, or     *)
(* past the mark.                                                           *)
LEMMA NextMarked == ASSUME TypeOK, Marked, [Next]_vars PROVE Marked'
<1> USE DEF TypeOK, Marked, Idle, entryVars, devVars, kernelVars, chipVars, rxVars, failVars
<1>1. ASSUME NEW p \in Procs, OpenRefused(p) PROVE Marked'
  BY <1>1 DEF OpenRefused, Goto, At
<1>2. ASSUME NEW p \in Procs, OpenTest(p) PROVE Marked'
  BY <1>2 DEF OpenTest, Goto, At
<1>3. ASSUME NEW p \in Procs, OpenGiveUp(p) PROVE Marked'
  BY <1>3 DEF OpenGiveUp, Goto, At
<1>4. ASSUME NEW p \in Procs, OpenMark(p) PROVE Marked'
  BY <1>4 DEF OpenMark, Goto, At
<1>5. ASSUME NEW p \in Procs, OpenNoDevice(p) PROVE Marked'
  BY <1>5 DEF OpenNoDevice, Goto, At
<1>6. ASSUME NEW p \in Procs, OpenRegion(p) PROVE Marked'
  BY <1>6 DEF OpenRegion, Goto, At
<1>7. ASSUME NEW p \in Procs, RegionBusy(p) PROVE Marked'
  BY <1>7 DEF RegionBusy, Fail, Goto, At
<1>8. ASSUME NEW p \in Procs, OpenMap(p) PROVE Marked'
  BY <1>8 DEF OpenMap, Goto, At
<1>9. ASSUME NEW p \in Procs, OpenIrq(p) PROVE Marked'
  BY <1>9 DEF OpenIrq, Goto, At
<1>10. ASSUME NEW p \in Procs, IrqBusy(p) PROVE Marked'
  BY <1>10 DEF IrqBusy, Fail, Fault, Goto, At
<1>11. ASSUME NEW p \in Procs, OpenRxq(p) PROVE Marked'
  BY <1>11 DEF OpenRxq, OpenQueue, Goto, At
<1>12. ASSUME NEW p \in Procs, OpenTxq(p) PROVE Marked'
  BY <1>12 DEF OpenTxq, OpenQueue, Goto, At
<1>13. ASSUME NEW p \in Procs, NoMemory(p) PROVE Marked'
  BY <1>13 DEF NoMemory, Fail, Fault, Goto, At
<1>14. ASSUME NEW p \in Procs, OpenReset(p) PROVE Marked'
  BY <1>14 DEF OpenReset, Goto, At, Reached
<1>15. ASSUME NEW p \in Procs, NoBoard(p) PROVE Marked'
  BY <1>15 DEF NoBoard, Fail, Fault, Goto, At
<1>16. ASSUME NEW p \in Procs, OpenStart(p) PROVE Marked'
  BY <1>16 DEF OpenStart, Goto, At, Reached
<1>17. ASSUME NEW p \in Procs, CloseStop(p) PROVE Marked'
  BY <1>17 DEF CloseStop, Goto, At, Reached
<1>18. ASSUME NEW p \in Procs, CloseRegion(p) PROVE Marked'
  BY <1>18 DEF CloseRegion, Goto, At
<1>19. ASSUME NEW p \in Procs, CloseQueues(p) PROVE Marked'
  BY <1>19 DEF CloseQueues, Goto, At
<1>20. ASSUME NEW p \in Procs, CloseIrq(p) PROVE Marked'
  BY <1>20 DEF CloseIrq, Goto, At
<1>21. ASSUME NEW p \in Procs, CloseSync(p) PROVE Marked'
  BY <1>21 DEF CloseSync, Goto, At
<1>22. ASSUME NEW p \in Procs, CloseUnmark(p) PROVE Marked'
  BY <1>22 DEF CloseUnmark, Goto, At
<1>23. ASSUME NEW p \in Procs, Read(p) PROVE Marked'
  BY <1>23 DEF Read, At
<1>24. ASSUME NEW a \in Addrs \cup {None}, SetupBase(a) PROVE Marked'
  BY <1>24 DEF SetupBase, Nobody
<1>25. ASSUME NEW l \in Lines \cup {None}, SetupLine(l) PROVE Marked'
  BY <1>25 DEF SetupLine, Nobody
<1>26. CASE FrameArrives
  BY <1>26 DEF FrameArrives
<1>27. CASE ErrorStatus
  BY <1>27 DEF ErrorStatus
<1>28. CASE HandlerEnter
  BY <1>28 DEF HandlerEnter
<1>29. CASE HandlerSource
  BY <1>29 DEF HandlerSource, Reached, Pending
<1>30. CASE HandlerStore
  BY <1>30 DEF HandlerStore, Reached
<1>31. CASE HandlerUndo
  BY <1>31 DEF HandlerUndo, Reached
<1>32. CASE UNCHANGED vars
  BY <1>32 DEF vars
<1>q. QED
  BY <1>1, <1>2, <1>3, <1>4, <1>5, <1>6, <1>7, <1>8, <1>9, <1>10, <1>11,
     <1>12, <1>13, <1>14, <1>15, <1>16, <1>17, <1>18, <1>19, <1>20, <1>21,
     <1>22, <1>23, <1>24, <1>25, <1>26, <1>27, <1>28, <1>29, <1>30, <1>31,
     <1>32
     DEF Next, OpenStep, CloseStep, HandlerStep

(* Who is alone finds the flag clear, and finds nobody else holding the    *)
(* region or the interrupt.                                                *)
LEMMA AloneIsFree ==
  ASSUME TypeOK, Released, Marked, ~spoiled, ~moved, NEW p \in Procs, Alone(p)
  PROVE  /\ At(p, "closed") => isopen # 1
         /\ (At(p, "region") /\ base # None) => region[base] = None
         /\ (At(p, "irq") /\ line # None) => irq[line] = None
<1> USE DEF Alone, At, Idle
<1>1. At(p, "closed") => isopen # 1
  BY DEF Marked
<1>2. (At(p, "region") /\ base # None) => region[base] = None
  BY DEF TypeOK, Released, HasRegion
<1>3. (At(p, "irq") /\ line # None) => irq[line] = None
  BY DEF TypeOK, Released, HasIrq
<1> QED BY <1>1, <1>2, <1>3

(* The steps that end an open without success: refusals, the ones that     *)
(* find region or interrupt taken, no address configured or another board. *)
LEMMA EndsOfOpen ==
  ASSUME TypeOK, [Next]_vars, NEW p \in Procs, pc[p] \in Opening \cup {"closed"},
         pc'[p] \in Idle, pc'[p] # pc[p]
  PROVE  \/ OpenRefused(p) \/ OpenNoDevice(p) \/ RegionBusy(p) \/ IrqBusy(p)
         \/ NoMemory(p) \/ NoBoard(p)
<1> DEFINE Ends == \/ OpenRefused(p) \/ OpenNoDevice(p) \/ RegionBusy(p) \/ IrqBusy(p)
                   \/ NoMemory(p) \/ NoBoard(p)
<1> SUFFICES Ends
  OBVIOUS
<1> USE DEF TypeOK, Opening, Idle
<1>1. ASSUME NEW q \in Procs, OpenRefused(q) PROVE Ends
  BY <1>1 DEF OpenRefused, Goto, At
<1>2. ASSUME NEW q \in Procs, OpenTest(q) PROVE Ends
  BY <1>2 DEF OpenTest, Goto, At
<1>3. ASSUME NEW q \in Procs, OpenGiveUp(q) PROVE Ends
  BY <1>3 DEF OpenGiveUp, Goto, At
<1>4. ASSUME NEW q \in Procs, OpenMark(q) PROVE Ends
  BY <1>4 DEF OpenMark, Goto, At
<1>5. ASSUME NEW q \in Procs, OpenNoDevice(q) PROVE Ends
  BY <1>5 DEF OpenNoDevice, Goto, At
<1>6. ASSUME NEW q \in Procs, OpenRegion(q) PROVE Ends
  BY <1>6 DEF OpenRegion, Goto, At
<1>7. ASSUME NEW q \in Procs, RegionBusy(q) PROVE Ends
  BY <1>7 DEF RegionBusy, Fail, Goto, At
<1>8. ASSUME NEW q \in Procs, OpenMap(q) PROVE Ends
  BY <1>8 DEF OpenMap, Goto, At
<1>9. ASSUME NEW q \in Procs, OpenIrq(q) PROVE Ends
  BY <1>9 DEF OpenIrq, Goto, At
<1>10. ASSUME NEW q \in Procs, IrqBusy(q) PROVE Ends
  BY <1>10 DEF IrqBusy, Fail, Fault, Goto, At
<1>11. ASSUME NEW q \in Procs, OpenRxq(q) PROVE Ends
  BY <1>11 DEF OpenRxq, OpenQueue, Goto, At
<1>12. ASSUME NEW q \in Procs, OpenTxq(q) PROVE Ends
  BY <1>12 DEF OpenTxq, OpenQueue, Goto, At
<1>13. ASSUME NEW q \in Procs, NoMemory(q) PROVE Ends
  BY <1>13 DEF NoMemory, Fail, Fault, Goto, At
<1>14. ASSUME NEW q \in Procs, OpenReset(q) PROVE Ends
  BY <1>14 DEF OpenReset, Goto, At, Reached
<1>15. ASSUME NEW q \in Procs, NoBoard(q) PROVE Ends
  BY <1>15 DEF NoBoard, Fail, Fault, Goto, At
<1>16. ASSUME NEW q \in Procs, OpenStart(q) PROVE Ends
  BY <1>16 DEF OpenStart, Goto, At, Reached
<1>17. ASSUME NEW q \in Procs, CloseStop(q) PROVE Ends
  BY <1>17 DEF CloseStop, Goto, At, Reached
<1>18. ASSUME NEW q \in Procs, CloseRegion(q) PROVE Ends
  BY <1>18 DEF CloseRegion, Goto, At
<1>19. ASSUME NEW q \in Procs, CloseQueues(q) PROVE Ends
  BY <1>19 DEF CloseQueues, Goto, At
<1>20. ASSUME NEW q \in Procs, CloseIrq(q) PROVE Ends
  BY <1>20 DEF CloseIrq, Goto, At
<1>21. ASSUME NEW q \in Procs, CloseSync(q) PROVE Ends
  BY <1>21 DEF CloseSync, Goto, At
<1>22. ASSUME NEW q \in Procs, CloseUnmark(q) PROVE Ends
  BY <1>22 DEF CloseUnmark, Goto, At
<1>23. ASSUME NEW q \in Procs, Read(q) PROVE Ends
  BY <1>23 DEF Read, At
<1>24. ASSUME NEW a \in Addrs \cup {None}, SetupBase(a) PROVE Ends
  BY <1>24 DEF SetupBase, Nobody
<1>25. ASSUME NEW l \in Lines \cup {None}, SetupLine(l) PROVE Ends
  BY <1>25 DEF SetupLine, Nobody
<1>26. CASE FrameArrives
  BY <1>26 DEF FrameArrives
<1>27. CASE ErrorStatus
  BY <1>27 DEF ErrorStatus
<1>28. CASE HandlerEnter
  BY <1>28 DEF HandlerEnter
<1>29. CASE HandlerSource
  BY <1>29 DEF HandlerSource, Reached, Pending
<1>30. CASE HandlerStore
  BY <1>30 DEF HandlerStore, Reached
<1>31. CASE HandlerUndo
  BY <1>31 DEF HandlerUndo, Reached
<1>32. CASE UNCHANGED vars
  BY <1>32 DEF vars
<1>q. QED
  BY <1>1, <1>2, <1>3, <1>4, <1>5, <1>6, <1>7, <1>8, <1>9, <1>10, <1>11,
     <1>12, <1>13, <1>14, <1>15, <1>16, <1>17, <1>18, <1>19, <1>20, <1>21,
     <1>22, <1>23, <1>24, <1>25, <1>26, <1>27, <1>28, <1>29, <1>30, <1>31,
     <1>32
     DEF Next, OpenStep, CloseStep, HandlerStep

(* A configured channel that nobody else uses opens, whatever races went   *)
(* before, unless an open failed half-way, the channel has moved or a      *)
(* request is refused.                                                     *)
THEOREM FreeOpens == ASSUME Build # "mem" PROVE Spec => FreeDeviceOpens
<1> DEFINE Inv == TypeOK /\ Owned /\ Released /\ Marked
<1> DEFINE Opens ==
      \A p \in Procs :
        (Alone(p) /\ base = Home /\ ~spoiled /\ ~moved' /\ faults' = faults)
          => ~(pc[p] \in Opening \cup {"closed"} /\ pc'[p] \in Idle /\ pc'[p] # pc[p])
<1>1. Init => Inv
  BY InitType DEF Init, Owned, Released, Marked, Idle,
                  HasRegion, HasMap, HasIrq, HasRxq, HasTxq
<1>2. Inv /\ [Next]_vars => Inv'
  BY NextType, NextOwned, NextReleased, NextMarked
<1>3. ASSUME Inv, [Next]_vars, NEW p \in Procs,
             Alone(p), base = Home, ~spoiled, ~moved', faults' = faults,
             pc[p] \in Opening \cup {"closed"}, pc'[p] \in Idle, pc'[p] # pc[p]
      PROVE  FALSE
  <2>1. ~Fault
    BY <1>3 DEF Fault, TypeOK
  <2>2. CASE ~moved
    <3>1. ~OpenRefused(p)
      BY <1>3, <2>2, AloneIsFree DEF OpenRefused
    <3>2. ~RegionBusy(p)
      BY <1>3, <2>2, AloneIsFree DEF RegionBusy
    <3>3. ~IrqBusy(p)
      BY <1>3, <2>1, <2>2, AloneIsFree DEF IrqBusy
    <3>4. ~OpenNoDevice(p) /\ ~NoMemory(p)
      BY <1>3, <2>1 DEF OpenNoDevice, NoMemory
    <3>5. ~NoBoard(p)
      BY <1>3, <2>1, <2>2 DEF NoBoard, Reached, Owned, HasMap, At
    <3> QED BY <1>3, <3>1, <3>2, <3>3, <3>4, <3>5, EndsOfOpen
  <2>3. CASE moved
    BY <1>3, <2>3, EndsOfOpen
       DEF OpenRefused, OpenNoDevice, RegionBusy, IrqBusy, NoMemory, NoBoard, Fail, entryVars
  <2> QED BY <2>2, <2>3
<1>4. Inv /\ [Next]_vars => [Opens]_vars
  BY <1>3
<1> QED BY <1>1, <1>2, <1>4, PTL DEF Spec, FreeDeviceOpens
=============================================================================
