CONSTANTS
  Procs = {p1, p2}
  None = None
  Build = "port"
  Addrs = {a1}
  Home = a1
  Lines = {l1}
  HomeLine = l1
  RxSize = 1
  MaxFaults = 0
  MaxSetups = 2
SPECIFICATION Spec
PROPERTY EnxioIsTrue
