\* Two clients in each split mode; sends may fail.
SPECIFICATION FairSpec
CONSTANTS
  c1 = c1
  c2 = c2
  p1 = p1
  p2 = p2
  p3 = p3
  full = full
  Clients = {c1, c2}
  Parts = {p1, p2}
  Requests = {p1, p2, p3, full, FirstIndex}
  FirstIndex = FirstIndex
  fuPublishFreqTs = 100
  Setups <- MCSetups
INVARIANTS
  EofCountsWhatWasSent
  EveryHoleIsReported
  OnlyTheEndLeavesUnanswered
  PartsInOrder
  PartsLostByOverflowOnly
PROPERTIES
  QuietAfterEnding
  SamplerEnds
CHECK_DEADLOCK FALSE
