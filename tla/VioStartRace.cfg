\* TS 1 overtakes TS 0 at the start of a run.
SPECIFICATION Spec
CONSTANTS
  BypassConsecutiveTs = FALSE
  WriteMissingTs = TRUE
  NoTs = NoTs
  TsIndices = {0, 1, 2, 3}
  SourceSkips = TRUE
  MaxTimeslices = 4
  SendMayFail = FALSE
  TsMayGetLost = FALSE
INVARIANTS
  NoReadyTsIsHeld
CHECK_DEADLOCK FALSE
