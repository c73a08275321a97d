---------------------------- MODULE ChipControl ----------------------------
(***************************************************************************)
(* Controlling a channel that is in use: the commands STOP, START and      *)
(* RESET and the configuration of the acceptance filter (can_Command and   *)
(* can_Config in ioctl.c, CAN_StartChip, CAN_StopChip, CAN_ChipReset and   *)
(* CAN_SetMask in sja1000funcs.c), composed with the transmit path.        *)
(*                                                                         *)
(* In reset mode the controller sends nothing, and the addresses of the    *)
(* transmit buffer belong to the acceptance registers; while it operates   *)
(* they belong to the transmit buffer.  sendcanmsg and CAN_SetMask write   *)
(* to these addresses and neither looks at the mode.                       *)
(*                                                                         *)
(* One process does both the writing and the controlling.  With Care it    *)
(* stops and resets only a channel that has come to rest, configures and   *)
(* starts only a stopped one, and writes only to a running one.            *)
(***************************************************************************)
EXTENDS TxPath

CONSTANTS
  Settings,  \* values of AccCode and AccMask
  Garbage,   \* what the acceptance registers hold after sendcanmsg wrote there
  Care       \* is the process careful?

ASSUME ControlAssumption ==
  /\ Settings # {} /\ Garbage \notin Settings
  /\ Care \in BOOLEAN

VARIABLES
  ctl,      \* where the process is in can_ioctl
  table,    \* AccCode[minor] and AccMask[minor]
  acc,      \* the acceptance registers
  stopped,  \* the process has stopped or reset the channel, and not started it
  undone    \* history: CAN_Interrupt has undone a reset request of the process

ctlVars  == <<ctl, table, acc, stopped, undone>>
allVars  == <<vars, ctlVars>>
txVars   == <<qVars, txinprogress, armed, pc, irqsrc, pollVars, raced>>

CtlInit ==
  /\ Init
  /\ ctl = "user" /\ stopped = FALSE /\ undone = FALSE
  /\ table \in Settings /\ acc = table

(* The process is not in another system call. *)
InUserMode == ctl = "user" /\ \A w \in Writers : pc[w] = "user"

AtRest == idle

-----------------------------------------------------------------------------
(* A step of the transmit path.  The process writes when it is in no other *)
(* call; what sendcanmsg writes in reset mode ends in the acceptance       *)
(* registers.                                                              *)

Writing == \E w \in Writers : pc[w] = "user" /\ pc'[w] = "copy"

Loading == \E c \in Contexts : pc[c] = "send" /\ pc'[c] = "request"

Beside ==
  /\ Writing => ctl = "user" /\ ~(Care /\ stopped)
  /\ acc' = IF reset /\ Loading THEN Garbage ELSE acc
  /\ undone' = (undone \/ (stopped /\ reset /\ ~reset'))
  /\ UNCHANGED <<ctl, table, stopped>>

TxStep == Next /\ Beside

-----------------------------------------------------------------------------
(* Reset mode aborts a transmission and releases the buffer.  Interrupts   *)
(* that are pending may get lost.                                          *)
EnterReset ==
  /\ reset' = TRUE /\ tbs' = TRUE
  /\ wire' = IF tbs THEN wire ELSE txbuf
  /\ ir' \in SUBSET ir
  /\ UNCHANGED <<txbuf, es, bs, faults>>

(* CMD_STOP: CAN_StopChip *)
StopChip ==
  /\ InUserMode /\ (Care => AtRest)
  /\ EnterReset
  /\ stopped' = TRUE
  /\ UNCHANGED <<txVars, ctl, table, acc, undone>>

(* CMD_START: CAN_StartChip clears the interrupts ... *)
StartChip ==
  /\ InUserMode /\ (Care => stopped)
  /\ ir' = {}
  /\ ctl' = "start" /\ stopped' = FALSE
  /\ UNCHANGED <<txVars, tbs, txbuf, es, bs, reset, wire, faults, table, acc, undone>>

(* ... and undoes the reset request. *)
StartOperation ==
  /\ ctl = "start"
  /\ reset' = FALSE
  /\ ctl' = "user"
  /\ UNCHANGED <<txVars, ir, tbs, txbuf, es, bs, wire, faults, table, acc, stopped, undone>>

(* CMD_RESET: CAN_ChipReset requests the reset mode, ... *)
ResetChip ==
  /\ InUserMode /\ (Care => AtRest)
  /\ EnterReset
  /\ ctl' = "present" /\ stopped' = TRUE
  /\ UNCHANGED <<txVars, table, acc, undone>>

(* ... gives up unless it finds the controller in it ("no board"), ... *)
ResetPresent ==
  /\ ctl = "present"
  /\ ctl' = IF reset THEN "setup" ELSE "user"
  /\ UNCHANGED <<txVars, chipVars, table, acc, stopped, undone>>

(* ... sets up canmode, the output control and the bit timing. *)
ResetSetup ==
  /\ ctl = "setup"
  /\ EnterReset
  /\ ctl' = "mask"
  /\ UNCHANGED <<txVars, table, acc, stopped, undone>>

(* CONF_ACC, CONF_ACCM, CONF_ACCC *)
ConfigAcc(v) ==
  /\ InUserMode /\ (Care => stopped)
  /\ table' = v
  /\ ctl' = "mask"
  /\ UNCHANGED <<txVars, chipVars, acc, stopped, undone>>

(* Faulty variant: the registers are not written. *)
SetMaskLost ==
  /\ ctl = "mask"
  /\ ctl' = "user"
  /\ UNCHANGED <<txVars, chipVars, table, acc, stopped, undone>>

(* CAN_SetMask, the end of CAN_ChipReset and of the configuration.  While  *)
(* the controller operates it overwrites the transmit buffer, unless that  *)
(* is locked.                                                              *)
SetMask ==
  /\ ctl = "mask"
  /\ ctl' = "user"
  /\ acc' = IF reset THEN table ELSE acc
  /\ txbuf' \in IF ~reset /\ tbs THEN Counter ELSE {txbuf}
  /\ UNCHANGED <<txVars, ir, tbs, es, bs, reset, wire, faults, table, stopped, undone>>

Call ==
  \/ StopChip \/ StartChip \/ ResetChip
  \/ \E v \in Settings : ConfigAcc(v)

Continue == StartOperation \/ ResetPresent \/ ResetSetup \/ SetMask

CtlNext == TxStep \/ Call \/ Continue

CtlSpec == CtlInit /\ [][CtlNext]_allVars

(* As in TxPath; in addition a system call that has begun goes on. *)
CtlFairSpec ==
  /\ CtlSpec
  /\ \A w \in Writers :
       WF_allVars((WriteCopy(w) \/ WritePublish(w) \/ WriteTestIdle(w)
                   \/ WriteClearIdle(w)) /\ Beside)
  /\ \A c \in Contexts : WF_allVars(Consume(c) /\ Beside)
  /\ WF_allVars(Interrupt /\ Beside)
  /\ WF_allVars(Timer /\ Beside)
  /\ WF_allVars(TxDone /\ Beside)
  /\ WF_allVars(ErrorClear /\ Beside)
  /\ WF_allVars(Recover /\ Beside)
  /\ WF_allVars(Continue)

-----------------------------------------------------------------------------
(* While the channel operates, the acceptance registers hold AccCode and   *)
(* AccMask: "contents of the message acceptance mask and acceptance code   *)
(* registers" (core.c:77-79); unless the handler put the channel back into *)
(* operation behind the back of a process that was configuring it.         *)
AccAsConfigured == (~raced /\ ~reset /\ ctl = "user" /\ ~undone) => acc = table

(* Once the process leaves the channel running, no message stays at the    *)
(* head of the queue: stopping and starting must not "lock the tx queue"   *)
(* (sja1000funcs.c:637-642).                                               *)
StartedSends == <>[](ctl = "user" /\ ~stopped /\ ~raced) => HeadIsSent

(* SingleToken and WireInOrder of TxPath are proved of this module as well *)
(* (TxPath_proofs): control must not disturb the right to send or the      *)
(* order of the messages.                                                  *)
=============================================================================
