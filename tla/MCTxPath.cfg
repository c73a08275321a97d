CONSTANTS
  Size <- MCSize
  Wrap <- MCWrap
  Writers = {w1}
  Delays = {FALSE, TRUE}
  Polls = TRUE
  MaxFaults = 2
SPECIFICATION Spec
INVARIANTS TypeOK SingleToken ChipAgrees EndIsTold NoLostKick NoLostWakeup
PROPERTY WireInOrder
CONSTRAINT NotRaced
