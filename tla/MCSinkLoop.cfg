\* One call from every small state, with empty entries for missed TS.
SPECIFICATION LoopSpec
CONSTANTS
  BypassConsecutiveTs = FALSE
  WriteMissingTs = TRUE
  NoTs = NoTs
  MaxIndex = 4
  MaxMissed = 3
PROPERTY HandlersRunTheLoop
CHECK_DEADLOCK FALSE
