\* Runs from TS 0 on, without TS 1, and runs joined later, with gaps and faults.
SPECIFICATION FairSpec
CONSTANTS
  BypassConsecutiveTs = FALSE
  WriteMissingTs = TRUE
  NoTs = NoTs
  TsIndices = {0, 2, 3, 5, 6}
  SourceSkips = TRUE
  MaxTimeslices = 4
  SendMayFail = TRUE
  TsMayGetLost = TRUE
INVARIANTS
  TypeOK
  InOrderWithoutHoles
  EveryTsInOnePlace
  MissedAreMissing
  NoReadyTsIsHeld
PROPERTIES
  EofLeadsToClose
  StopLeadsToClose
  ImplementsArchive
CHECK_DEADLOCK FALSE
