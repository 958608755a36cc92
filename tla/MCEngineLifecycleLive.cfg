SPECIFICATION FairSpec
CONSTANTS
  t1 = t1
  metronome = metronome
  Threads = {t1}
  Sources = {metronome}
  StallAfter = 3
  IdleGrace = 4
  QueueSize = 2
  MaxHolders = 1
  StreamMayDie = TRUE
  Holder = Holder
PROPERTIES
  CallsReturn
  DeadStreamRestarted
  HealthyIdleDeviceStops
