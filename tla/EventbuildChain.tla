--------------------------- MODULE EventbuildChain ---------------------------
(***************************************************************************)
(* EventbuildChain::Run on one timeslice: one of three triggers gives the  *)
(* times, EventBuilder copies for each of them the digis of a time         *)
(* interval per detector, DigiEventSelector drops events.                  *)
(*                                                                         *)
(* Times are integers; those that the code halves are kept doubled.        *)
(***************************************************************************)
EXTENDS TimeClusterTrigger, V0Trigger, DigiEventSelector

CONSTANT Cases   \* configurations with timeslices

VARIABLES
  triggerKind,  \* the configured trigger that comes first: "v0", "hits",
                \* "digis", or "none"
  fWindows,     \* per detector: the interval around a trigger
  digiData,     \* per detector: sequence of digis
  hitTimes,     \* of the trigger detector
  phase,        \* "start", "search", "build", "done", "thrown"
  events        \* sequence of [fTime, digis], fTime doubled

inputs == <<trigger, tracks, vertices, PairDeltaT_max, selector, triggerKind, fWindows,
            digiData, hitTimes>>
clusterVars == <<dataVec, winStart, current, clusters>>
pairVars == <<trackIter1, trackIter2, pairs, errTracksUnsorted>>
vars == <<inputs, clusterVars, pairVars, phase, events>>

Digis == [time : Int, address : DOMAIN StationOf, side : {0, 1}]

ASSUME ChainAssumption ==
  \A c \in Cases :
    /\ c.trigger.fWinSize \in Nat /\ c.trigger.fDeadTime \in Nat
    /\ c.trigger.fMinNumData \in Nat
    /\ c.hitTimes \in Seq(Int)
    /\ c.tracks \in Seq([time : Int, selected : BOOLEAN])
    /\ c.vertices \subseteq {p \in (DOMAIN c.tracks) \X (DOMAIN c.tracks) : p[1] < p[2]}
    /\ c.PairDeltaT_max \in Nat
    /\ \A det \in Detectors :
         /\ c.digiData[det] \in Seq(Digis)
         /\ c.fWindows[det] \in Int \X Int /\ c.fWindows[det][1] <= c.fWindows[det][2]
         /\ c.selector.fMinNumDigis[det] \in Nat /\ c.selector.fMinNumLayers[det] \in Nat

\* EventBuilder is undefined on digis that are not in order; the trigger on the
\* digis of the trigger detector throws before.
ASSUME DigisInOrder ==
  \A c \in Cases, det \in Detectors : det # Bmon \/ c.triggerKind # "digis" =>
    IsSorted([i \in DOMAIN c.digiData[det] |-> c.digiData[det][i].time])

Init ==
  /\ \E c \in Cases :
       /\ trigger = c.trigger /\ selector = c.selector
       /\ tracks = c.tracks /\ vertices = c.vertices /\ PairDeltaT_max = c.PairDeltaT_max
       /\ triggerKind = c.triggerKind /\ fWindows = c.fWindows
       /\ digiData = c.digiData /\ hitTimes = c.hitTimes
  /\ dataVec = <<>> /\ winStart = 1 /\ current = 1 /\ clusters = <<>>
  /\ V0Init
  /\ phase = "start"
  /\ events = <<>>

-----------------------------------------------------------------------------
DigiTimes == [i \in DOMAIN digiData[Bmon] |-> digiData[Bmon][i].time]

\* The trigger is called; TimeClusterTrigger throws on unsorted times.
Trigger(times) ==
  IF IsSorted(times)
  THEN Load(times) /\ phase' = "search"
  ELSE UNCHANGED clusterVars /\ phase' = "thrown"

UseV0Trigger ==
  /\ triggerKind = "v0"
  /\ phase' = "search"
  /\ UNCHANGED clusterVars

\* HitMultTrigger sorts the times first.
UseHitMultTrigger ==
  /\ triggerKind = "hits"
  /\ \E p \in [DOMAIN hitTimes -> DOMAIN hitTimes] :
       LET sorted == [i \in DOMAIN hitTimes |-> hitTimes[p[i]]]
       IN  /\ \A i, j \in DOMAIN hitTimes : p[i] = p[j] => i = j
           /\ IsSorted(sorted)
           /\ Trigger(sorted)

UseDigiTrigger == triggerKind = "digis" /\ Trigger(DigiTimes)

NoTriggerConfigured ==
  /\ triggerKind = "none"
  /\ phase' = "thrown"
  /\ UNCHANGED clusterVars

Run ==
  /\ phase = "start"
  /\ UseV0Trigger \/ UseHitMultTrigger \/ UseDigiTrigger \/ NoTriggerConfigured
  /\ UNCHANGED <<inputs, pairVars, events>>

SearchClusters ==
  /\ phase = "search" /\ triggerKind # "v0"
  /\ Search
  /\ UNCHANGED <<inputs, pairVars, phase, events>>

SearchV0s ==
  /\ phase = "search" /\ triggerKind = "v0"
  /\ FindV0s
  /\ UNCHANGED <<inputs, clusterVars, phase, events>>

EndOfSearch ==
  /\ phase = "search"
  /\ IF triggerKind = "v0" THEN V0Done ELSE SearchDone
  /\ phase' = "build"
  /\ UNCHANGED <<inputs, clusterVars, pairVars, events>>

\* The trigger times, doubled, in the order in which they were found.
Triggers ==
  IF triggerKind = "v0" THEN [n \in DOMAIN pairs |-> PairTime(pairs[n])]
                        ELSE [n \in DOMAIN clusters |-> TriggerTime(clusters[n])]

-----------------------------------------------------------------------------
\* Mutant: a digi at the lower border is left out.
UntilStart(det, time, fTime) == 2 * time - fTime <= 2 * fWindows[det][1]

\* [trigger + first, trigger + second]
BeforeWindow(det, time, fTime) == 2 * time - fTime < 2 * fWindows[det][1]
BehindWindow(det, time, fTime) == 2 * time - fTime > 2 * fWindows[det][2]

\* std::lower_bound, std::upper_bound
IsLower(det, fTime, i) ==
  /\ \A k \in 1 .. i - 1 : BeforeWindow(det, digiData[det][k].time, fTime)
  /\ i <= Len(digiData[det]) => ~BeforeWindow(det, digiData[det][i].time, fTime)
IsUpper(det, fTime, lower, i) ==
  /\ \A k \in lower .. i - 1 : ~BehindWindow(det, digiData[det][k].time, fTime)
  /\ i <= Len(digiData[det]) => BehindWindow(det, digiData[det][i].time, fTime)

CopyRange(det, fTime) ==
  LET end == Len(digiData[det]) + 1
      lower == CHOOSE i \in 1 .. end : IsLower(det, fTime, i)
      upper == CHOOSE i \in lower .. end : IsUpper(det, fTime, lower, i)
  IN  SubSeq(digiData[det], lower, upper - 1)

EventOf(fTime) ==
  [fTime |-> fTime, digis |-> [det \in Detectors |-> CopyRange(det, fTime)]]

BuildEvent ==
  /\ phase = "build" /\ Len(events) < Len(Triggers)
  /\ events' = Append(events, EventOf(Triggers[Len(events) + 1]))
  /\ UNCHANGED <<inputs, clusterVars, pairVars, phase>>

\* The elements of s at the positions S, in their order.
AtPositions(s, S) ==
  [k \in 1 .. Cardinality(S) |-> s[CHOOSE i \in S : Cardinality({j \in S : j < i}) = k - 1]]

SelectEvents ==
  /\ phase = "build" /\ Len(events) = Len(Triggers)
  /\ IF \E n \in DOMAIN events : LayersThrow(events[n])
     THEN phase' = "thrown" /\ UNCHANGED events
     ELSE /\ phase' = "done"
          /\ events' = AtPositions(events, {n \in DOMAIN events : IsSelected(events[n])})
  /\ UNCHANGED <<inputs, clusterVars, pairVars>>

Next ==
  \/ Run \/ SearchClusters \/ SearchV0s \/ EndOfSearch \/ BuildEvent \/ SelectEvents

Spec == Init /\ [][Next]_vars

-----------------------------------------------------------------------------
\* The digis that made a trigger are in its event, if the interval of their
\* detector covers half of the trigger window on both sides.
TriggerDigisInEvent ==
  triggerKind = "digis" /\ 2 * fWindows[Bmon][1] <= -fWinSize /\ fWinSize <= 2 * fWindows[Bmon][2] =>
    \A n \in DOMAIN events : \A m \in DOMAIN clusters :
      events[n].fTime = TriggerTime(clusters[m]) =>
        \A i \in clusters[m][1] .. clusters[m][2] :
          \E k \in DOMAIN events[n].digis[Bmon] : events[n].digis[Bmon][k] = digiData[Bmon][i]

\* The events that are left are those of the triggers that meet the selection,
\* in order; a mask for another detector than BMON is left out, it drops all.
EventsAsSelected ==
  phase = "done" /\ fMaskedChannels[Sts] = {} /\ fMaskedChannels[Tof] = {} =>
    LET built == [n \in DOMAIN Triggers |-> EventOf(Triggers[n])]
    IN  events = AtPositions(built, {n \in DOMAIN built : Meets(built[n])})
=============================================================================
