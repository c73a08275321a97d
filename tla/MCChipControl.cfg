CONSTANTS
  Size <- MCSize
  Wrap <- MCWrap
  Writers = {w1}
  Delays = {FALSE, TRUE}
  Polls = FALSE
  MaxFaults = 1
  Settings = {s1, s2}
  Garbage = Garbage
  Care = TRUE
SPECIFICATION CtlFairSpec
INVARIANT AccAsConfigured
PROPERTY StartedSends
CONSTRAINT NotRaced
