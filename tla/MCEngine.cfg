SPECIFICATION MCSpec
CONSTANTS
  Threads = {t1, t2}
  Sources = {metronome, mixer}
  StallAfter = 3
  IdleGrace = 4
  QueueSize = 2
  MaxHolders = 1
  StreamMayDie = TRUE
  Holder = Holder
SYMMETRY ThreadSymmetry
INVARIANTS
  NoSilentStart
  StartedIsWatched
  SongAtTheHead
PROPERTIES
  KeepMovesNothing
