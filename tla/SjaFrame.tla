------------------------------ MODULE SjaFrame ------------------------------
(***************************************************************************)
(* How a message of the user becomes the registers of a transmit buffer    *)
(* (sendcanmsg), how a frame found in the receive buffer becomes a message *)
(* (readcanmsg), and how the acceptance code and mask get into the filter  *)
(* registers (CAN_SetMask), for one frame that travels from one SJA1000 to *)
(* another (sja1000funcs.c).                                               *)
(*                                                                         *)
(* A register or an identifier is the set of the positions of its 1 bits.  *)
(* The sums in readcanmsg add terms without a common bit: they are unions. *)
(* Of the data, the first two bytes are kept: a filter may ask for them.   *)
(***************************************************************************)
EXTENDS Integers

CONSTANTS
  Ids,      \* identifiers a user may write: sets of bits of an unsigned long
  Lengths,  \* lengths a user may write (a negative one is not modelled)
  Dlcs,     \* length codes other nodes may send
  Bytes,    \* contents of a data byte: sets of its bits
  Filters   \* acceptance settings: [id, rtr, low, any, anyrtr, anylow], see Code

Bit == 0 .. 31
ByteBit == 0 .. 7

ASSUME FrameAssumption ==
  /\ Ids \subseteq SUBSET Bit
  /\ Lengths \subseteq Nat
  /\ Dlcs \subseteq 0 .. 15
  /\ Bytes \subseteq SUBSET ByteBit /\ {} \in Bytes
  /\ Filters \subseteq [id : Ids, rtr : BOOLEAN, low : SUBSET Bit,
                        any : Ids, anyrtr : BOOLEAN, anylow : SUBSET Bit]

(* w >> n, w << n and the conversion to uint8 *)
Shr(w, n) == {b \in Bit : b + n \in w}
Shl(w, n) == {b \in Bit : b - n \in w}
Uint8(w)  == w \cap ByteBit

VARIABLES
  stage,   \* "start", "loaded", "arrived", "dropped", "read"
  filter,  \* the acceptance setting of the receiving node
  msg,     \* the message written, or what another node sends
  regs,    \* frame registers: [ext, rtr, dlc, canid, data]
  got      \* the message read: [ext, rtr, id, length, bytes, data]

frameVars == <<stage, filter, msg, regs, got>>

-----------------------------------------------------------------------------
(* sendcanmsg, from the length check on *)

ClampedLength(n) == IF n > 8 THEN 8 ELSE n

EncodeId(ext, id) ==
  IF ext
  THEN <<Uint8(Shr(id, 21)), Uint8(Shr(id, 13)), Uint8(Shr(id, 5)), Uint8(Shl(id, 3))>>
  ELSE <<Uint8(Shr(id, 3)), Shl(id, 5) \cap 5 .. 7>>

(* The loops over the data: n bytes are copied, the others keep what they  *)
(* had, which nobody looks at.                                             *)
FirstBytes(data, n) == [i \in 1 .. 2 |-> IF i <= n THEN data[i] ELSE {}]

Encode(m) ==
  [ext |-> m.ext, rtr |-> m.rtr, dlc |-> ClampedLength(m.length),
   canid |-> EncodeId(m.ext, m.id), data |-> FirstBytes(m.data, ClampedLength(m.length))]

-----------------------------------------------------------------------------
(* readcanmsg.  Of a remote frame it copies as many (stale) bytes, too.   *)

(* Faulty variant: the last term of an extended identifier is not shifted. *)
DecodeIdUnshifted(ext, canid) ==
  IF ext
  THEN Shl(canid[1], 21) \cup Shl(canid[2], 13) \cup Shl(canid[3], 5) \cup canid[4]
  ELSE Shl(canid[1], 3) \cup Shr(canid[2], 5)

DecodeId(ext, canid) ==
  IF ext
  THEN Shl(canid[1], 21) \cup Shl(canid[2], 13) \cup Shl(canid[3], 5)
       \cup Shr(canid[4], 3)
  ELSE Shl(canid[1], 3) \cup Shr(canid[2], 5)

Decode(r) ==
  [ext |-> r.ext, rtr |-> r.rtr, id |-> DecodeId(r.ext, r.canid),
   length |-> r.dlc,        \* reg & 0x0f
   bytes |-> r.dlc % 9,     \* reg %= 9
   data |-> FirstBytes(r.data, r.dlc % 9)]

-----------------------------------------------------------------------------
(* The acceptance words as the manual page of ioctl() has a program build  *)
(* them (ioctl.c:87-116), and their way into the registers.  What a        *)
(* program writes to the bits below the remote flag is its own choice.     *)

Code(ext, f) ==
  LET shift == IF ext THEN 3 ELSE 21
  IN  Shl(f.id, shift) \cup (IF f.rtr THEN {shift - 1} ELSE {})
      \cup (f.low \cap 0 .. shift - 2)

Mask(ext, f) ==
  LET shift == IF ext THEN 3 ELSE 21
  IN  Shl(f.any, shift) \cup (IF f.anyrtr THEN {shift - 1} ELSE {})
      \cup (f.anylow \cap 0 .. shift - 2)

RegisterBytes(w) ==
  <<Uint8(Shr(w, 24)), Uint8(Shr(w, 16)), Uint8(Shr(w, 8)), Uint8(w)>>

MaskRegisters(code, mask) == [code |-> RegisterBytes(code), mask |-> RegisterBytes(mask)]

(* The controller: single filter configuration.  A bit is compared unless  *)
(* its mask bit is set: the identifier, the remote flag, and of a standard *)
(* frame the first two data bytes (ioctl.c:79-82), if the frame has them.  *)
HeaderBits(ext, k) == IF k = 4 THEN (IF ext THEN 2 .. 7 ELSE {})
                      ELSE IF ext \/ k = 1 THEN ByteBit
                      ELSE IF k = 2 THEN 4 .. 7 ELSE {}

HasByte(r, i) == ~r.rtr /\ i <= r.dlc

(* Faulty variant: the data bytes are not compared. *)
ComparedHeader(r, k) == HeaderBits(r.ext, k)

Compared(r, k) ==
  HeaderBits(r.ext, k)
    \cup (IF k \in {3, 4} /\ ~r.ext /\ HasByte(r, k - 2) THEN ByteBit ELSE {})

FilterByte(r, k) ==
  IF r.ext
  THEN r.canid[k] \cup (IF k = 4 /\ r.rtr THEN {2} ELSE {})
  ELSE CASE k = 1 -> r.canid[1]
         [] k = 2 -> r.canid[2] \cup (IF r.rtr THEN {4} ELSE {})
         [] OTHER -> r.data[k - 2]

Accepts(a, r) ==
  \A k \in 1 .. 4 : \A b \in Compared(r, k) :
    b \in a.mask[k] \/ (b \in a.code[k] <=> b \in FilterByte(r, k))

-----------------------------------------------------------------------------
(* The filter registers of the receiving node, set for the frame format.   *)
AcceptRegs == MaskRegisters(Code(msg.ext, filter), Mask(msg.ext, filter))

Message == [ext : BOOLEAN, rtr : BOOLEAN, id : Ids, length : Lengths,
            data : [1 .. 2 -> Bytes]]

Nothing == [ext |-> FALSE, rtr |-> FALSE, id |-> {}, length |-> 0,
            data |-> [i \in 1 .. 2 |-> {}]]
NoRegs  == Encode(Nothing)
NoGot   == Decode(NoRegs)

FrameInit ==
  /\ stage = "start"
  /\ filter \in Filters
  /\ msg = Nothing /\ regs = NoRegs /\ got = NoGot

(* can_write on one node *)
Send(m) ==
  /\ stage = "start"
  /\ stage' = "loaded"
  /\ msg' = m /\ regs' = Encode(m)
  /\ UNCHANGED <<filter, got>>

(* Another node: any length code; at most eight bytes follow it. *)
SendForeign(m, dlc) ==
  /\ stage = "start"
  /\ stage' = "loaded"
  /\ msg' = m /\ regs' = [Encode(m) EXCEPT !.dlc = dlc, !.data = m.data]
  /\ UNCHANGED <<filter, got>>

Arrive ==
  /\ stage = "loaded"
  /\ stage' = IF Accepts(AcceptRegs, regs) THEN "arrived" ELSE "dropped"
  /\ UNCHANGED <<filter, msg, regs, got>>

ReadFrame ==
  /\ stage = "arrived"
  /\ stage' = "read"
  /\ got' = Decode(regs)
  /\ UNCHANGED <<filter, msg, regs>>

(* The next frame; this one was read, or the controller dropped it. *)
Again ==
  /\ stage \in {"read", "dropped"}
  /\ stage' = "start" /\ msg' = Nothing /\ regs' = NoRegs /\ got' = NoGot
  /\ UNCHANGED filter

FrameNext ==
  \/ \E m \in Message : Send(m) \/ \E d \in Dlcs : SendForeign(m, d)
  \/ Arrive
  \/ ReadFrame
  \/ Again

FrameSpec == FrameInit /\ [][FrameNext]_frameVars

-----------------------------------------------------------------------------
IdBits(ext) == IF ext THEN 0 .. 28 ELSE 0 .. 10

(* A message arrives as it was written: format, remote flag, the           *)
(* identifier as far as the format holds it, the length up to eight, as    *)
(* many bytes as the length says, and in a frame with data the first two   *)
(* of them (sendcanmsg against readcanmsg).                                *)
RoundTrip ==
  (stage = "read" /\ regs.dlc = ClampedLength(msg.length)) =>
    /\ got.ext = msg.ext /\ got.rtr = msg.rtr
    /\ got.id = msg.id \cap IdBits(msg.ext)
    /\ got.length = ClampedLength(msg.length)
    /\ got.bytes = got.length
    /\ \A i \in 1 .. 2 : i <= got.length => got.data[i] = msg.data[i]

(* What a setting asks of the data of a standard frame: the bits 8..15 of  *)
(* the words stand for the first data byte, 0..7 for the second.           *)
DataAgrees ==
  \A i \in 1 .. 2 : \A b \in ByteBit :
    HasByte(regs, i) =>
      \/ 8 * (2 - i) + b \in filter.anylow
      \/ (b \in msg.data[i] <=> 8 * (2 - i) + b \in filter.low)

(* A frame passes the filter iff its identifier and remote flag agree with *)
(* the setting wherever the setting asks for it, and, in a standard frame, *)
(* the data bytes it has agree wherever the low bits of the mask are 0:    *)
(* the way of the words through CAN_SetMask into the controller.  So the   *)
(* manual page is right about the bits it calls compared (ioctl.c:79-82),  *)
(* and wrong that the low bits of a standard frame's words are "of no      *)
(* interest" (ioctl.c:114-115): as 1 bits of the mask they are.            *)
FilterExact ==
  stage = "loaded" =>
    (Accepts(AcceptRegs, regs) <=>
       /\ \A b \in IdBits(msg.ext) \ filter.any : b \in msg.id <=> b \in filter.id
       /\ filter.anyrtr \/ (msg.rtr <=> filter.rtr)
       /\ msg.ext \/ DataAgrees)

(* "limit count to 8 bytes" (sja1000funcs.c:481): a frame with a length    *)
(* code above eight has eight bytes.                                       *)
CountLimited == stage = "read" => got.bytes = ClampedLength(regs.dlc)
=============================================================================
