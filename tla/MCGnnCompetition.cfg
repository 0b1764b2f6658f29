\* Nine candidates, up to five per iteration, three iterations.
SPECIFICATION Spec
CONSTANTS
  Hits = {1, 2, 3, 4, 5, 6, 7, 8, 9, 10, 11, 12, 13, 14, 15, 16, 17, 18, 19, 20, 21, 22}
  FrontKey <- Fronts
  BackKey <- Backs
  Pool <- Candidates
  MaxCandidates = 5
INVARIANTS
  FourHitsAreLeft
  FlagsBelongToTracks
  SharedOnlyByBegging
CHECK_DEADLOCK FALSE
