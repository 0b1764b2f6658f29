\* Each trigger, and the selection, on small timeslices.
SPECIFICATION Spec
CONSTANTS
  sts = sts
  tof = tof
  bmon = bmon
  s1 = s1
  s2 = s2
  f1 = f1
  f2 = f2
  f3 = f3
  b1 = b1
  b2 = b2
  none = none
  Sts = sts
  Tof = tof
  Bmon = bmon
  NoStation = none
  StationOf <- MCStationOf
  Cases <- MCCases
INVARIANTS
  TriggersAreSeparated
  ClustersAreMinimal
  NoClusterMissed
  V0FindsEveryPair
  TriggerDigisInEvent
  EventsAsSelected
CHECK_DEADLOCK FALSE
