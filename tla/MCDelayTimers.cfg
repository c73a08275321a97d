CONSTANTS
  c1 = c1
  c2 = c2
  Channels <- MCTwo
  Timers = 2
  Delays <- MCDelays
  Lengths <- MCLengths
  Remotes <- MCDataOnly
  Baud = 300
  MaxUsec = 2147483
  MaxMsgs = 2
SPECIFICATION FairSpec
INVARIANTS TypeOK PoolSuffices OwnTimer OnTime
PROPERTY HeadGoesOut
CHECK_DEADLOCK FALSE
