\* A ring of four slots and two items: it fills, drains and wraps.
SPECIFICATION MCSpec
CONSTANTS
  Capacity = 4
  Items = {x, y}
  Blank = Blank
  Notes = {1, 2}
  Errors <- HopErrors
  Unit = 4
  Window = 2
  FullScale = 5
  Dwell = 2
  MaxHops = 3
  MaxFrames = 5
  MaxResets = 1
  Routes = {"a", "b"}
  Top = 2
  Counts = {1, 2}
  Volumes = {1, 2}
  Unity = 1
  MaxPresses = 2
  MaxTurns = 2
  MaxFaults = 1
  MaxKills = 1
  MaxJobs = 3
  MaxChanges = 3
  MaxRuns = 2
  Menus = {"menu"}
  Prompts = {"prompt"}
  Height = 5
  MaxItems = 2
  MaxOpens = 3
  Tempos = {60, 90}
  MaxNow = 1
  MaxTaps = 5
INVARIANTS
  NoSlotRace
  SettingsAgree
  TouchesAnswer
  PracticeIsCounted
  CardTells
  TunerListens
  ReadoutAgrees
  CalibrationIsMeasured
  RigFollowsOutput
  PhoneIsFollowed
  SheetsObey
PROPERTIES
  IsFifo
CHECK_DEADLOCK FALSE
