\* Four tracks of any shape, in any order.
SPECIFICATION Spec
CONSTANTS
  NTracks = 4
  Shapes <- TrackShapes
  NStations = 9
  Chi2s = {1, 2, 60}
  MaxChi2 = 50
  ResetChi2 = 100000
  NoNeighbour = 65535
INVARIANTS
  LinksAreMutual
  NoStaleChi2
  EveryHitInItsRun
CHECK_DEADLOCK FALSE
