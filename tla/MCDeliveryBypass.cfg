\* The consecutive TS check bypassed, no TS missed.
SPECIFICATION Spec
CONSTANTS
  BypassConsecutiveTs = TRUE
  WriteMissingTs = TRUE
  NoTs = NoTs
  TsIndices = {0, 1, 2, 3, 4}
  SourceSkips = FALSE
  MaxTimeslices = 5
  SendMayFail = FALSE
  TsMayGetLost = FALSE
INVARIANTS
  EofCloseIsComplete
CHECK_DEADLOCK FALSE
