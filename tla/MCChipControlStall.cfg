CONSTANTS
  Size <- MCSize
  Wrap <- MCWrap
  Writers = {w1}
  Delays = {FALSE}
  Polls = FALSE
  MaxFaults = 0
  Settings = {s1, s2}
  Garbage = Garbage
  Care = FALSE
SPECIFICATION CtlFairSpec
PROPERTY StartedSends
