SPECIFICATION SessionSpec
CONSTANTS
  stemA = stemA
  stemB = stemB
  songC = songC
  Screens <- MCScreens
  PlayerOf <- MCPlayerOf
  Stems = {"s1"}
  Loops = {"l1"}
  Names = {"typed"}
  FirstName = "bundled"
  MaxOpens = 2
  MaxTaps = 3
  MaxWork = 5
INVARIANTS NameStored
CHECK_DEADLOCK FALSE
