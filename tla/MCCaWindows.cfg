\* Timeslices of four hits, one and two threads, with and without the cut on hits per station.
SPECIFICATION Spec
CONSTANTS
  NHits = 4
  Particles = {"p", "q"}
  Inputs <- Timeslices
  Station <- TwoStations
  ThreadCounts = {1, 2}
  Cuts = {1, 3}
  WindowLength = 2
  MinHits = 2
  BogusAfter = 50
  BogusBefore <- Before
  Infinity = 100
INVARIANTS
  HitsUsedOnce
  InteriorSavedWhole
  NoHitLost
PROPERTIES
  TimesliceEnds
CHECK_DEADLOCK FALSE
