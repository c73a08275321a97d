CONSTANTS
  MaxChannels <- MCMaxChannels
  Slots <- MCSlots
SPECIFICATION ScanSpec
INVARIANTS ScanTypeOK OnePerController OwnBoard
CHECK_DEADLOCK FALSE
