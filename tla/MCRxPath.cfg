CONSTANTS
  Size <- MCSize
  Wrap <- MCWrap
  ChipSize <- MCChipSize
  Frames <- MCFrames
  MaxFaults = 1
SPECIFICATION FairSpec
INVARIANTS TypeOK NoFrameLost FrameToRead NoLostWakeup
PROPERTY FrameIsRead
