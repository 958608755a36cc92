\* RtPublisher on three addresses, a grace window of two units and blocks of one
\* or two units; MixerSession on every pair of screens that can meet.
SPECIFICATION MCSpec
CONSTANTS
  Addrs = {a1, a2, a3}
  Grace = 2
  StallBound = 2
  Blocks <- BlockLengths
  MaxClock = 6
  MaxGen = 3
  RestartMayFail = FALSE
  NoNode = NoNode
  Screens <- MCScreens
  PlayerOf <- MCPlayerOf
  Stems = {"s1"}
  Loops = {"l1"}
  Names = {"typed"}
  FirstName = "bundled"
  MaxOpens = 3
  MaxTaps = 2
  MaxWork = 4
  Slots = {k1, k2}
  Lead = 1
  Attempts = 2
  Lag = 1
  Block = 2
  Longest = 4
  MaxCalls = 3
  PrimeMayFail = TRUE
  VerdictMayTimeOut = TRUE
  KeepWhilePaused = FALSE
  stemA = stemA
  stemB = stemB
  songC = songC
  syncedSong = syncedSong
  plainSong = plainSong
  NoLyrics = NoLyrics
INVARIANTS
  NoUseAfterFree
  NoLeakNoDoubleFree
  FlagCoversCallback
  HandOversLand
  MixerHasOneOwner
  TakesAreKept
PROPERTIES
  SwapsAreSeen
