\* Two devices of either style (one may be an older one) with shared names, one name with two classes.
SPECIFICATION FairSpec
CONSTANTS
  s1 = s1
  s2 = s2
  h1 = h1
  h2 = h2
  Senders = {s1, s2}
  Names = {h1, h2}
  HistType <- Types
  HistoNames <- Arrays
  Canvases <- OwnCanvases
  Styles <- OneOlder
  NoHisto = NoHisto
  MaxFills = 1
  MaxQueue = 1
  MaxRuns = 2
  MaxRestarts = 1
INVARIANTS
  EveryFillCountedOnce
  ReceivedIsServed
PROPERTIES
  ShownIsStable
  PostRunEnds
CHECK_DEADLOCK FALSE
