\* Candidates of three and four hits on five stations.
SPECIFICATION Spec
CONSTANTS
  Hits = {1, 2, 3, 4, 5, 6, 7, 8, 9, 10, 11}
  Station <- StationOf
  FrontKey <- Fronts
  BackKey <- Backs
  Pool <- Found
  NStations = 5
  MinLevel = 0
  MaxRounds = 100
  MaxCandidates = 4
  None = None
INVARIANTS
  WinnersShareNoStrip
  SharedOnlyByExtension
  DeadHaveRivals
CHECK_DEADLOCK FALSE
