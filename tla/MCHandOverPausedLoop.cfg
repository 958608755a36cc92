SPECIFICATION HandOverSpec
CONSTANTS
  Slots = {s1, s2}
  Lead = 1
  Attempts = 2
  Lag = 1
  Block = 1
  Longest = 3
  MaxCalls = 5
  PrimeMayFail = FALSE
  VerdictMayTimeOut = FALSE
  KeepWhilePaused = TRUE
SYMMETRY SlotSymmetry
INVARIANTS SpeedInEffect
