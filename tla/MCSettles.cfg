SPECIFICATION MCSpec
CONSTANTS
  Total = 5
  RingFrames = 4
  RingSize = 4
  RefillChunk = 5
  Block = 3
  SeekFrames = {1, 5, 6}
  stemA = stemA
  stemB = stemB
  songC = songC
INVARIANTS
  InOrder
  EndIsReal
  NoFalseUnderrun
PROPERTIES
  StopReturns
  ReadsToTheEnd
  LoadSettles
