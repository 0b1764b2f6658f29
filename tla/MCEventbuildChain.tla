-------------------------- MODULE MCEventbuildChain --------------------------
(* Timeslices and configurations for TLC: one part for each trigger, and    *)
(* one for the selection.                                                   *)
EXTENDS EventbuildChain, TLC

CONSTANTS sts, tof, bmon, s1, s2, f1, f2, f3, b1, b2, none

\* Strips f1 and f2 are in different stations, f3 in none.
MCStationOf == s1 :> 1 @@ s2 :> 2 @@ f1 :> 1 @@ f2 :> 2 @@ f3 :> none @@ b1 :> 0 @@ b2 :> 0

SortedSeqs(n, S) == {t \in UNION {[1 .. l -> S] : l \in 0 .. n} : IsSorted(t)}

DigisOf(times, addresses, sides) ==
  [i \in DOMAIN times |->
     [time |-> times[i], address |-> addresses[i], side |-> sides[i]]]
Channels(times) ==
  DigisOf(times, [i \in DOMAIN times |-> IF i = 1 THEN b1 ELSE b2], [i \in DOMAIN times |-> 0])

Search3(win, min, dead) == [fWinSize |-> win, fMinNumData |-> min, fDeadTime |-> dead]
Data(s, t, b) == sts :> s @@ tof :> t @@ bmon :> b
Case(kind, trig, windows, sel, digis, hits, trks, verts) ==
  [triggerKind |-> kind, trigger |-> trig, fWindows |-> windows, selector |-> sel,
   digiData |-> digis, hitTimes |-> hits, tracks |-> trks, vertices |-> verts,
   PairDeltaT_max |-> 1]
Select3(minDigis, minLayers, masked) ==
  [fMinNumDigis |-> minDigis, fMinNumLayers |-> minLayers, fMaskedChannels |-> masked]
All == Select3(Data(0, 0, 0), Data(0, 0, 0), Data({}, {}, {}))
Windows == Data(<<0, 1>>, <<0, 3>>, <<-1, 1>>)

SomeTof == DigisOf(<<0, 2, 3>>, <<f1, f1, f2>>, <<0, 1, 0>>)

DigiCases ==
  {Case("digis", Search3(win, min, dead), Windows, All,
        Data(<<>>, SomeTof, Channels(t)), <<>>, <<>>, {}) :
     t \in SortedSeqs(4, 0 .. 4) \cup {<<1, 0>>}, win \in 0 .. 2, min \in 1 .. 3, dead \in {0, 1, 2}}
  \cup {Case("none", Search3(1, 1, 1), Windows, All, Data(<<>>, <<>>, <<>>), <<>>, <<>>, {})}

HitCases ==
  {Case("hits", Search3(1, min, 2), Windows, All, Data(<<>>, SomeTof, <<>>), h, <<>>, {}) :
     h \in UNION {[1 .. n -> 0 .. 3] : n \in 0 .. 4}, min \in {0, 2}}

TracksOf(n, times) == [1 .. n -> [time : times, selected : BOOLEAN]]
PairsOf(n) == {p \in (1 .. n) \X (1 .. n) : p[1] < p[2]}
V0Cases ==
  {Case("v0", Search3(1, 1, 1), Windows, All, Data(<<>>, SomeTof, <<>>), <<>>, t, PairsOf(3)) :
     t \in TracksOf(3, 0 .. 3)}
  \cup {Case("v0", Search3(1, 1, 1), Windows, All, Data(<<>>, SomeTof, <<>>), <<>>, t, v) :
     t \in TracksOf(4, 0 .. 2), v \in {PairsOf(4), {<<1, 3>>, <<2, 4>>}}}

Selections == {
  All,
  Select3(Data(0, 2, 1), Data(0, 1, 0), Data({}, {}, {b1})),
  Select3(Data(2, 0, 2), Data(1, 0, 0), Data({}, {}, {b1})),
  Select3(Data(0, 0, 1), Data(0, 2, 0), Data({}, {}, {})),
  Select3(Data(0, 1, 0), Data(0, 0, 0), Data({}, {f1}, {b1})),
  Select3(Data(0, 1, 0), Data(0, 1, 1), Data({}, {}, {}))}

SelectionCases ==
  {Case("digis", Search3(1, 2, 0), Data(<<-1, 2>>, <<-1, 1>>, <<-1, 1>>), sel,
        d, <<>>, <<>>, {}) :
     sel \in Selections,
     d \in UNION {{Data(<<>>, DigisOf(t, a, s), Channels(<<0, 0, 2, 3>>)) :
                     a \in [1 .. 3 -> {f1, f2, f3}], s \in [1 .. 3 -> {0, 1}]} :
                  t \in {<<0, 0, 0>>, <<0, 1, 2>>}}
          \cup {Data(DigisOf(<<0, 1, 2>>, a, s), <<>>, Channels(<<0, 0, 1>>)) :
                  a \in [1 .. 3 -> {s1, s2}], s \in [1 .. 3 -> {0, 1}]}}

MCCases == DigiCases \cup HitCases \cup V0Cases \cup SelectionCases
=============================================================================
