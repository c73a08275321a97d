CONSTANTS
  Size <- MCSize
  Wrap <- MCWrap
  Msgs = {m1, m2}
  NoMsg = NoMsg
SPECIFICATION Spec
INVARIANTS TypeOK LengthInBounds NoSlotShared
PROPERTY ImplementsFifo
