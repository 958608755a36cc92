SPECIFICATION MCSpec
CONSTANTS
  s1 = s1
  j1 = j1
  lyricsA = lyricsA
  lyricsB = lyricsB
  f1 = f1
  f2 = f2
  Rows = {r1, r2}
  MaxRequests = 2
  MaxFaults = 1
  MaxVisits = 2
INVARIANTS
  LibraryIsAsStored
  AnalysisComesToAnEnd
  StemFilesKept
  HomeIsKept
  StorageTells
  BackupKeepsItsWord
  UpgradesKeepRows
PROPERTIES
  StepsKeep
CHECK_DEADLOCK FALSE
