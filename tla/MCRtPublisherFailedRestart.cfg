SPECIFICATION Spec
CONSTANTS
  a1 = a1
  a2 = a2
  a3 = a3
  Addrs = {a1, a2, a3}
  Grace = 2
  StallBound = 2
  Blocks <- BlockLengths
  MaxClock = 6
  MaxGen = 3
  RestartMayFail = TRUE
  NoNode = NoNode
INVARIANT FlagCoversCallback
