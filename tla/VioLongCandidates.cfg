\* The long candidates of the last iteration.
SPECIFICATION Spec
CONSTANTS
  Hits = {1, 2, 3, 4, 5, 6, 7, 8, 9, 10, 11, 12, 13, 14, 15, 16, 17, 18, 19, 20, 21, 22}
  FrontKey <- Fronts
  BackKey <- Backs
  Pool <- Candidates
  MaxCandidates = 5
PROPERTIES
  LongCandidatesCompete
CHECK_DEADLOCK FALSE
