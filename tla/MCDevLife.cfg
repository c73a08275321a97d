CONSTANTS
  Procs = {p1, p2}
  None = None
  Build = "port"
  Addrs = {a1, a2}
  Home = a1
  Lines = {l1}
  HomeLine = l1
  RxSize = 1
  MaxFaults = 1
  MaxSetups = 3
SPECIFICATION FairSpec
INVARIANTS TypeOK HolderHasAll 
PROPERTIES FreeDeviceOpens CloseReturns
CONSTRAINT NotBoth
