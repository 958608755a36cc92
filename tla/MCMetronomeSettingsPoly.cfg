SPECIFICATION Spec
CONSTANTS
  MaxBeats = 3
  BpmMin = 1
  BpmMax = 3
  PolyMin = 2
  PolyMax = 3
  SubMax = 2
  RampBarsMax = 2
  RampSecMax = 3
  MuteMax = 2
  Sounds = {0, 1}
  Typed = {9}
  CountInBars = {0, 1}
  StoredSongs <- WithoutPoly
  MaxOps = 2
INVARIANTS FalseRightAfterLoad
CHECK_DEADLOCK FALSE
