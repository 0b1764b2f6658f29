------------------------ MODULE EventbuildChainProofs ------------------------
(***************************************************************************)
(* Event building, for all timeslices and settings: the time clusters, the *)
(* pairs of tracks, what comes into the events and which of them are left. *)
(***************************************************************************)
EXTENDS EventbuildChain, SequenceTheorems, FiniteSetTheorems, WellFoundedInduction, TLAPS

DataType ==
  /\ fWinSize \in Nat /\ fDeadTime \in Nat /\ fMinNumData \in Nat
  /\ hitTimes \in Seq(Int) /\ DigiTimes \in Seq(Int)

Places == Nat \X Nat

SearchType ==
  /\ dataVec \in Seq(Int) /\ IsSorted(dataVec)
  /\ winStart \in Nat /\ current \in Nat
  /\ 1 <= winStart /\ winStart <= current /\ current <= Len(dataVec) + 1
  /\ clusters \in Seq(Places)

\* What was found lies behind the window, with the dead time.
ClustersBehind ==
  \A n \in DOMAIN clusters :
    /\ 1 <= clusters[n][1] /\ clusters[n][1] <= clusters[n][2]
    /\ clusters[n][2] < winStart
    /\ winStart <= Len(dataVec) => dataVec[winStart] - dataVec[clusters[n][2]] > fDeadTime

WindowNotFull == current - winStart < Threshold

\* A datum that the window left belongs to a trigger or is too early.
LeftForAReason ==
  \A v \in 1 .. winStart - 1 :
    \/ \E n \in DOMAIN clusters : dataVec[v] - dataVec[clusters[n][2]] <= fDeadTime
    \/ current <= Len(dataVec) => dataVec[current] - dataVec[v] > fWinSize

SearchInv ==
  /\ SearchType
  /\ ClustersBehind /\ TriggersAreSeparated
  /\ WindowNotFull /\ ClustersAreMinimal
  /\ LeftForAReason /\ NoClusterMissed

ChainInv == DataType /\ SearchInv

TimesOf(digis) == [i \in DOMAIN digis |-> digis[i].time]

LEMMA DigiFacts ==
  ASSUME NEW digis \in Seq(Digis)
  PROVE  /\ DOMAIN digis = 1 .. Len(digis) /\ Len(digis) \in Nat
         /\ \A i \in 1 .. Len(digis) : digis[i] \in Digis /\ digis[i].time \in Int
         /\ TimesOf(digis) \in Seq(Int)
<1>1. DOMAIN digis = 1 .. Len(digis) /\ Len(digis) \in Nat
  OBVIOUS
<1>2. \A i \in 1 .. Len(digis) : digis[i] \in Digis
  BY ElementOfSeq
<1>3. \A i \in 1 .. Len(digis) : digis[i].time \in Int
  BY <1>2 DEF Digis
<1>4. TimesOf(digis) \in [1 .. Len(digis) -> Int]
  BY <1>1, <1>3 DEF TimesOf
<1> HIDE DEF TimesOf
<1>5. TimesOf(digis) \in Seq(Int)
  BY <1>1, <1>4
<1> QED BY <1>1, <1>2, <1>3, <1>5

LEMMA InitChainInv == Init => ChainInv
<1> SUFFICES ASSUME Init PROVE ChainInv
  OBVIOUS
<1>1. DataType
  <2>1. PICK c \in Cases :
          trigger = c.trigger /\ digiData = c.digiData /\ hitTimes = c.hitTimes
    BY DEF Init
  <2>2. c.trigger.fWinSize \in Nat /\ c.trigger.fDeadTime \in Nat
        /\ c.trigger.fMinNumData \in Nat /\ c.hitTimes \in Seq(Int)
    BY ChainAssumption
  <2>3. c.digiData[Bmon] \in Seq(Digis)
    BY ChainAssumption DEF Detectors
  <2>4. DigiTimes \in Seq(Int)
    BY <2>1, <2>3, DigiFacts DEF DigiTimes, TimesOf
  <2> QED BY <2>1, <2>2, <2>4 DEF DataType, fWinSize, fDeadTime, fMinNumData
<1>2. SearchInv
  BY <1>1 DEF Init, DataType, SearchInv, SearchType, IsSorted, ClustersBehind, TriggersAreSeparated,
     WindowNotFull, ClustersAreMinimal, LeftForAReason, NoClusterMissed, Threshold
<1> QED BY <1>1, <1>2 DEF ChainInv

LEMMA InputsStay == ASSUME DataType, UNCHANGED inputs PROVE DataType'
  BY DEF DataType, inputs, fWinSize, fDeadTime, fMinNumData, DigiTimes

LEMMA NothingNew ==
  ASSUME SearchInv, UNCHANGED <<inputs, clusterVars>>
  PROVE  SearchInv'
  BY DEF SearchInv, SearchType, IsSorted, ClustersBehind, TriggersAreSeparated,
     WindowNotFull, ClustersAreMinimal, LeftForAReason, NoClusterMissed, Threshold,
     inputs, clusterVars, fWinSize, fDeadTime, fMinNumData

\* A trigger starts on sorted times.
LEMMA LoadInv ==
  ASSUME DataType, NEW times \in Seq(Int), IsSorted(times), Load(times)
  PROVE  SearchInv'
<1> USE DEF Load, DataType, fWinSize, fDeadTime, fMinNumData
<1>1. SearchType'
  BY DEF SearchType, IsSorted
<1>2. ClustersBehind' /\ TriggersAreSeparated' /\ ClustersAreMinimal' /\ LeftForAReason'
  BY DEF ClustersBehind, TriggersAreSeparated, ClustersAreMinimal, LeftForAReason
<1>3. WindowNotFull' /\ NoClusterMissed'
  BY DEF WindowNotFull, NoClusterMissed, Threshold
<1> QED BY <1>1, <1>2, <1>3 DEF SearchInv

LEMMA RunInv == ASSUME ChainInv, Run PROVE SearchInv'
<1>1. CASE UNCHANGED clusterVars
  BY <1>1, NothingNew DEF ChainInv, Run
<1>2. ASSUME NEW times \in Seq(Int), Trigger(times), ~UNCHANGED clusterVars
      PROVE  SearchInv'
  BY <1>2, LoadInv DEF ChainInv, Trigger
<1>3. CASE UseDigiTrigger
  BY <1>1, <1>2, <1>3 DEF UseDigiTrigger, ChainInv, DataType
<1>4. CASE UseHitMultTrigger
  <2>1. PICK p \in [DOMAIN hitTimes -> DOMAIN hitTimes] :
          Trigger([i \in DOMAIN hitTimes |-> hitTimes[p[i]]])
    BY <1>4 DEF UseHitMultTrigger
  <2>2. [i \in DOMAIN hitTimes |-> hitTimes[p[i]]] \in Seq(Int)
    <3>1. hitTimes \in Seq(Int)
      BY DEF ChainInv, DataType
    <3>2. /\ DOMAIN hitTimes = 1 .. Len(hitTimes) /\ Len(hitTimes) \in Nat
          /\ \A i \in DOMAIN hitTimes : hitTimes[i] \in Int
      BY <3>1
    <3> QED BY <3>2
  <2> QED BY <1>1, <1>2, <2>1, <2>2
<1> QED BY <1>1, <1>3, <1>4 DEF Run, UseV0Trigger, NoTriggerConfigured
-----------------------------------------------------------------------------
\* What the steps of the loop need of the data.
LEMMA Facts ==
  ASSUME ChainInv, UNCHANGED trigger
  PROVE  /\ fWinSize' = fWinSize /\ fDeadTime' = fDeadTime /\ Threshold' = Threshold
         /\ fWinSize \in Nat /\ fDeadTime \in Nat /\ Threshold \in Nat \ {0}
         /\ fMinNumData \in Nat
         /\ Threshold = IF fMinNumData = 0 THEN 1 ELSE fMinNumData
         /\ winStart \in Nat /\ current \in Nat
         /\ 1 <= winStart /\ winStart <= current /\ current <= Len(dataVec) + 1
         /\ DOMAIN dataVec = 1 .. Len(dataVec) /\ Len(dataVec) \in Nat
         /\ \A i \in 1 .. Len(dataVec) : dataVec[i] \in Int
         /\ \A i, j \in 1 .. Len(dataVec) : i <= j => dataVec[i] <= dataVec[j]
         /\ DOMAIN clusters = 1 .. Len(clusters) /\ Len(clusters) \in Nat
         /\ clusters \in Seq(Places)
         /\ \A n \in DOMAIN clusters : clusters[n][1] \in Nat /\ clusters[n][2] \in Nat
<1> USE DEF ChainInv, SearchInv, SearchType, DataType
<1>1. /\ fWinSize' = fWinSize /\ fDeadTime' = fDeadTime /\ Threshold' = Threshold
      /\ fWinSize \in Nat /\ fDeadTime \in Nat /\ Threshold \in Nat \ {0}
      /\ Threshold = IF fMinNumData = 0 THEN 1 ELSE fMinNumData
  BY DEF fWinSize, fDeadTime, fMinNumData, Threshold
<1>2. /\ DOMAIN dataVec = 1 .. Len(dataVec) /\ Len(dataVec) \in Nat
      /\ \A i \in 1 .. Len(dataVec) : dataVec[i] \in Int
  OBVIOUS
<1>3. \A i, j \in 1 .. Len(dataVec) : i <= j => dataVec[i] <= dataVec[j]
  <2> SUFFICES ASSUME NEW i \in 1 .. Len(dataVec), NEW j \in 1 .. Len(dataVec), i < j
      PROVE  dataVec[i] <= dataVec[j]
    BY <1>2
  <2>1. IsSorted(dataVec)
    OBVIOUS
  <2> QED BY <2>1, <1>2 DEF IsSorted
<1>4. DOMAIN clusters = 1 .. Len(clusters) /\ Len(clusters) \in Nat
  OBVIOUS
<1>5. \A n \in DOMAIN clusters : clusters[n] \in Places
  BY ElementOfSeq
<1>6. \A n \in DOMAIN clusters : clusters[n][1] \in Nat /\ clusters[n][2] \in Nat
  BY <1>5 DEF Places
<1> QED BY <1>1, <1>2, <1>3, <1>4, <1>6

\* A round of the loop that gives a trigger.
LEMMA CreateTriggerInv ==
  ASSUME ChainInv, ~SearchDone, UNCHANGED <<trigger, dataVec>>,
         NEW w \in winStart .. current, MovedStart(w), CreateTrigger(w)
  PROVE  SearchInv'
<1> DEFINE c == <<w, current>>
<1>0. /\ fWinSize' = fWinSize /\ fDeadTime' = fDeadTime /\ Threshold' = Threshold
      /\ fWinSize \in Nat /\ fDeadTime \in Nat /\ Threshold \in Nat \ {0}
      /\ fMinNumData \in Nat /\ Threshold = IF fMinNumData = 0 THEN 1 ELSE fMinNumData
      /\ dataVec' = dataVec
  BY Facts
<1>1. PICK next \in current + 1 .. Len(dataVec) + 1 :
        AfterDeadTime(next) /\ winStart' = next /\ current' = next
  BY DEF CreateTrigger
<1>3. /\ DOMAIN dataVec = 1 .. Len(dataVec) /\ Len(dataVec) \in Nat
      /\ \A i \in 1 .. Len(dataVec) : dataVec[i] \in Int
      /\ \A i, j \in 1 .. Len(dataVec) : i <= j => dataVec[i] <= dataVec[j]
      /\ winStart \in Nat /\ current \in Nat
      /\ 1 <= winStart /\ winStart <= current /\ current <= Len(dataVec)
  BY Facts DEF SearchDone
<1>4. /\ \A n \in DOMAIN clusters : clusters[n][1] \in Nat /\ clusters[n][2] \in Nat
      /\ DOMAIN clusters = 1 .. Len(clusters) /\ Len(clusters) \in Nat
      /\ clusters \in Seq(Places)
  BY Facts
<1>i. ClustersBehind /\ TriggersAreSeparated /\ WindowNotFull /\ ClustersAreMinimal
      /\ LeftForAReason /\ NoClusterMissed /\ dataVec \in Seq(Int) /\ IsSorted(dataVec)
  BY DEF ChainInv, SearchInv, SearchType
<1>2. /\ clusters' = Append(clusters, c) /\ clusters' \in Seq(Places)
      /\ Len(clusters') = Len(clusters) + 1 /\ DOMAIN clusters' = 1 .. Len(clusters) + 1
      /\ clusters'[Len(clusters) + 1] = c
      /\ \A n \in DOMAIN clusters : n \in DOMAIN clusters' /\ clusters'[n] = clusters[n]
  <2>1. c \in Places
    BY <1>3 DEF Places
  <2>2. clusters' = Append(clusters, c)
    BY DEF CreateTrigger
  <2> HIDE DEF c
  <2> QED BY <2>1, <2>2, <1>4
<1>5. SearchType'
  BY <1>0, <1>1, <1>2, <1>3, <1>i DEF SearchType, IsSorted
<1>6. \A v \in current .. next - 1 : dataVec[v] - dataVec[current] <= fDeadTime
  BY <1>0, <1>1, <1>3 DEF AfterDeadTime
<1>7. ClustersBehind'
  <2> SUFFICES ASSUME NEW n \in DOMAIN clusters'
      PROVE  /\ 1 <= clusters'[n][1] /\ clusters'[n][1] <= clusters'[n][2]
             /\ clusters'[n][2] < next
             /\ next <= Len(dataVec) => dataVec[next] - dataVec[clusters'[n][2]] > fDeadTime
    BY <1>0, <1>1 DEF ClustersBehind
  <2>1. CASE n = Len(clusters) + 1
    BY <2>1, <1>1, <1>2, <1>3 DEF AfterDeadTime
  <2>2. CASE n \in DOMAIN clusters
    <3>1. /\ 1 <= clusters[n][1] /\ clusters[n][1] <= clusters[n][2]
          /\ clusters[n][2] < winStart
          /\ winStart <= Len(dataVec) => dataVec[winStart] - dataVec[clusters[n][2]] > fDeadTime
      BY <2>2, <1>i DEF ClustersBehind
    <3>2. clusters[n][1] \in Nat /\ clusters[n][2] \in 1 .. Len(dataVec)
      BY <2>2, <3>1, <1>3, <1>4
    <3>3. ASSUME next <= Len(dataVec)
          PROVE  dataVec[next] - dataVec[clusters[n][2]] > fDeadTime
      <4>1. dataVec[winStart] - dataVec[clusters[n][2]] > fDeadTime
        BY <3>1, <1>3
      <4>2. dataVec[winStart] <= dataVec[next] /\ dataVec[next] \in Int
        BY <3>3, <1>1, <1>3
      <4>3. dataVec[winStart] \in Int /\ dataVec[clusters[n][2]] \in Int
        BY <3>2, <1>3
      <4> QED BY <4>1, <4>2, <4>3, <1>0
    <3> QED BY <2>2, <3>1, <3>2, <3>3, <1>1, <1>2, <1>3
  <2> QED BY <2>1, <2>2, <1>2
<1>8. TriggersAreSeparated'
  <2> SUFFICES ASSUME NEW m \in DOMAIN clusters', NEW n \in DOMAIN clusters', m < n
      PROVE  /\ clusters'[m][2] < clusters'[n][1]
             /\ dataVec[clusters'[n][1]] - dataVec[clusters'[m][2]] > fDeadTime
    BY <1>0 DEF TriggersAreSeparated
  <2>1. CASE n \in DOMAIN clusters
    BY <2>1, <1>2, <1>i DEF TriggersAreSeparated
  <2>2. CASE n = Len(clusters) + 1
    <3>1. m \in DOMAIN clusters
      BY <2>2, <1>2
    <3>0. /\ 1 <= clusters[m][1] /\ clusters[m][1] <= clusters[m][2]
          /\ clusters[m][2] < winStart
          /\ winStart <= Len(dataVec) => dataVec[winStart] - dataVec[clusters[m][2]] > fDeadTime
      BY <3>1, <1>i DEF ClustersBehind
    <3>2. /\ 1 <= clusters[m][2] /\ clusters[m][2] < winStart
          /\ dataVec[winStart] - dataVec[clusters[m][2]] > fDeadTime
      BY <3>0, <3>1, <1>3, <1>4
    <3>3. dataVec[winStart] <= dataVec[w]
      BY <1>3
    <3>4. clusters'[m][2] = clusters[m][2] /\ clusters'[n][1] = w
      BY <2>2, <3>1, <1>2
    <3>5. /\ clusters[m][2] \in 1 .. Len(dataVec) /\ winStart \in 1 .. Len(dataVec)
          /\ w \in 1 .. Len(dataVec) /\ winStart <= w /\ clusters[m][2] \in Nat
      BY <3>1, <3>2, <1>3, <1>4
    <3>6. /\ dataVec[clusters[m][2]] \in Int /\ dataVec[winStart] \in Int /\ dataVec[w] \in Int
      BY <3>5, <1>3
    <3>7. clusters[m][2] < w
      BY <3>2, <3>5
    <3>8. dataVec[w] - dataVec[clusters[m][2]] > fDeadTime
      BY <3>2, <3>3, <3>6, <1>0
    <3> QED BY <3>4, <3>7, <3>8
  <2> QED BY <2>1, <2>2, <1>2
<1>9. WindowNotFull'
  BY <1>0, <1>1, <1>3 DEF WindowNotFull
<1>10. ClustersAreMinimal'
  <2>1. /\ current - w + 1 = Threshold
        /\ dataVec[current] - dataVec[w] <= fWinSize
    BY <1>0, <1>3, <1>i DEF WindowNotFull, MovedStart, CreateTrigger, Enough
  <2> SUFFICES ASSUME NEW n \in DOMAIN clusters'
      PROVE  /\ clusters'[n][2] - clusters'[n][1] + 1 = Threshold
             /\ dataVec[clusters'[n][2]] - dataVec[clusters'[n][1]] <= fWinSize
    BY <1>0 DEF ClustersAreMinimal
  <2> QED BY <2>1, <1>2, <1>4, <1>i DEF ClustersAreMinimal
<1>11. LeftForAReason'
  <2> SUFFICES ASSUME NEW v \in 1 .. next - 1
      PROVE  dataVec[v] - dataVec[current] <= fDeadTime
    <3>1. Len(clusters) + 1 \in DOMAIN clusters' /\ clusters'[Len(clusters) + 1][2] = current
      BY <1>2, <1>4
    <3> QED BY <3>1, <1>0, <1>1 DEF LeftForAReason
  <2>1. CASE v < current
    <3>1. v \in 1 .. Len(dataVec) /\ current \in 1 .. Len(dataVec)
      BY <2>1, <1>3
    <3> QED BY <2>1, <3>1, <1>0, <1>3
  <2>2. CASE v >= current
    BY <2>2, <1>1, <1>3, <1>6
  <2> QED BY <2>1, <2>2, <1>1, <1>3
<1>12. NoClusterMissed'
  <2> SUFFICES ASSUME NEW i \in DOMAIN dataVec, NEW j \in Int, j = i + Threshold - 1,
                      j < next, j <= Len(dataVec), dataVec[j] - dataVec[i] <= fWinSize
      PROVE  \E n \in DOMAIN clusters' :
               /\ clusters'[n][1] <= j
               /\ dataVec[i] - dataVec[clusters'[n][2]] <= fDeadTime
    <3>1. \A i \in DOMAIN dataVec : i + Threshold - 1 \in Int
      BY <1>0, <1>3
    <3> QED BY <3>1, <1>0, <1>1 DEF NoClusterMissed
  <2>1. CASE j < current
    BY <2>1, <1>2, <1>3, <1>i DEF NoClusterMissed
  <2>2. CASE j >= current
    <3>1. i <= j
      BY <1>0, <1>3
    <3>2. dataVec[i] - dataVec[current] <= fDeadTime
      <4>1. /\ i \in 1 .. Len(dataVec) /\ j \in 1 .. Len(dataVec)
            /\ current \in 1 .. Len(dataVec) /\ j \in current .. next - 1
        BY <2>2, <3>1, <1>1, <1>3
      <4>2. dataVec[i] <= dataVec[j] /\ dataVec[j] - dataVec[current] <= fDeadTime
        BY <4>1, <3>1, <1>3, <1>6
      <4>3. dataVec[i] \in Int /\ dataVec[j] \in Int /\ dataVec[current] \in Int
        BY <4>1, <1>3
      <4> QED BY <4>2, <4>3, <1>0
    <3>3. Len(clusters) + 1 \in DOMAIN clusters' /\ clusters'[Len(clusters) + 1] = <<w, current>>
      BY <1>2, <1>4
    <3>4. w <= j
      BY <2>2, <1>3, <3>1
    <3>5. /\ clusters'[Len(clusters) + 1][1] = w
          /\ clusters'[Len(clusters) + 1][2] = current
      BY <3>3
    <3> QED BY <3>2, <3>3, <3>4, <3>5
  <2> QED BY <2>1, <2>2, <1>0, <1>3
<1> QED BY <1>5, <1>7, <1>8, <1>9, <1>10, <1>11, <1>12 DEF SearchInv

\* A round without a trigger.
LEMMA NextDatumInv ==
  ASSUME ChainInv, ~SearchDone, UNCHANGED <<trigger, dataVec>>,
         NEW w \in winStart .. current, MovedStart(w), NextDatum(w)
  PROVE  SearchInv'
<1>0. /\ fWinSize' = fWinSize /\ fDeadTime' = fDeadTime /\ Threshold' = Threshold
      /\ fWinSize \in Nat /\ fDeadTime \in Nat /\ Threshold \in Nat \ {0}
      /\ fMinNumData \in Nat /\ Threshold = IF fMinNumData = 0 THEN 1 ELSE fMinNumData
  BY Facts
<1>1. winStart' = w /\ current' = current + 1 /\ clusters' = clusters /\ dataVec' = dataVec
  BY DEF NextDatum
<1>3. /\ DOMAIN dataVec = 1 .. Len(dataVec) /\ Len(dataVec) \in Nat
      /\ \A i \in 1 .. Len(dataVec) : dataVec[i] \in Int
      /\ \A i, j \in 1 .. Len(dataVec) : i <= j => dataVec[i] <= dataVec[j]
      /\ winStart \in Nat /\ current \in Nat
      /\ 1 <= winStart /\ winStart <= current /\ current <= Len(dataVec)
  BY Facts DEF SearchDone
<1>4. /\ \A n \in DOMAIN clusters : clusters[n][1] \in Nat /\ clusters[n][2] \in Nat
      /\ clusters \in Seq(Places)
  BY Facts
<1>i. ClustersBehind /\ TriggersAreSeparated /\ WindowNotFull /\ ClustersAreMinimal
      /\ LeftForAReason /\ NoClusterMissed /\ dataVec \in Seq(Int) /\ IsSorted(dataVec)
  BY DEF ChainInv, SearchInv, SearchType
<1>5. SearchType'
  BY <1>1, <1>3, <1>4, <1>i DEF SearchType, IsSorted
<1>6. ClustersBehind'
  <2> SUFFICES ASSUME NEW n \in DOMAIN clusters
      PROVE  /\ 1 <= clusters[n][1] /\ clusters[n][1] <= clusters[n][2]
             /\ clusters[n][2] < w
             /\ w <= Len(dataVec) => dataVec[w] - dataVec[clusters[n][2]] > fDeadTime
    BY <1>0, <1>1 DEF ClustersBehind
  <2>1. /\ 1 <= clusters[n][1] /\ clusters[n][1] <= clusters[n][2]
        /\ clusters[n][2] < winStart
        /\ winStart <= Len(dataVec) => dataVec[winStart] - dataVec[clusters[n][2]] > fDeadTime
    BY <1>i DEF ClustersBehind
  <2>2. winStart <= w /\ w \in Nat /\ clusters[n][2] \in Nat /\ clusters[n][2] < w
    BY <2>1, <1>3, <1>4
  <2>3. ASSUME w <= Len(dataVec) PROVE dataVec[w] - dataVec[clusters[n][2]] > fDeadTime
    <3>1. /\ clusters[n][2] \in 1 .. Len(dataVec) /\ winStart \in 1 .. Len(dataVec)
          /\ w \in 1 .. Len(dataVec)
      BY <2>1, <2>2, <2>3, <1>3, <1>4
    <3>2. /\ dataVec[clusters[n][2]] \in Int /\ dataVec[winStart] \in Int /\ dataVec[w] \in Int
          /\ dataVec[winStart] <= dataVec[w]
      BY <3>1, <2>2, <1>3
    <3> QED BY <2>1, <3>2, <1>0, <1>3
  <2> QED BY <2>1, <2>2, <2>3
<1>7. TriggersAreSeparated' /\ ClustersAreMinimal'
  BY <1>0, <1>1, <1>i DEF TriggersAreSeparated, ClustersAreMinimal
<1>8. WindowNotFull'
  BY <1>0, <1>1, <1>3 DEF WindowNotFull, NextDatum, Enough
<1>9. \A v \in 1 .. w - 1 :
        \/ \E n \in DOMAIN clusters : dataVec[v] - dataVec[clusters[n][2]] <= fDeadTime
        \/ dataVec[current] - dataVec[v] > fWinSize
  <2> SUFFICES ASSUME NEW v \in 1 .. w - 1,
                      ~ \E n \in DOMAIN clusters :
                          dataVec[v] - dataVec[clusters[n][2]] <= fDeadTime
      PROVE  dataVec[current] - dataVec[v] > fWinSize
    OBVIOUS
  <2>1. CASE v \in 1 .. winStart - 1
    BY <2>1, <1>3, <1>i DEF LeftForAReason
  <2>2. CASE v \in winStart .. w - 1
    BY <2>2 DEF MovedStart
  <2> QED BY <2>1, <2>2, <1>3
<1>10. LeftForAReason'
  <2> SUFFICES ASSUME NEW v \in 1 .. w - 1, current + 1 <= Len(dataVec),
                      dataVec[current] - dataVec[v] > fWinSize
      PROVE  dataVec[current + 1] - dataVec[v] > fWinSize
    BY <1>0, <1>1, <1>9 DEF LeftForAReason
  <2>1. dataVec[current] <= dataVec[current + 1]
    BY <1>3
  <2> QED BY <2>1, <1>0, <1>3
<1>11. NoClusterMissed'
  <2> SUFFICES ASSUME NEW i \in DOMAIN dataVec, NEW j \in Int, j = i + Threshold - 1,
                      j < current + 1, j <= Len(dataVec), dataVec[j] - dataVec[i] <= fWinSize
      PROVE  \E n \in DOMAIN clusters :
               /\ clusters[n][1] <= j
               /\ dataVec[i] - dataVec[clusters[n][2]] <= fDeadTime
    <3>1. \A i \in DOMAIN dataVec : i + Threshold - 1 \in Int
      BY <1>0, <1>3
    <3> QED BY <3>1, <1>0, <1>1 DEF NoClusterMissed
  <2>1. CASE j < current
    BY <2>1, <1>3, <1>i DEF NoClusterMissed
  <2>2. CASE j = current
    <3>1. i \in 1 .. w - 1
      BY <2>2, <1>0, <1>3 DEF NextDatum, Enough
    <3>2. PICK n \in DOMAIN clusters : dataVec[i] - dataVec[clusters[n][2]] <= fDeadTime
      <4>1. /\ dataVec[current] \in Int /\ dataVec[i] \in Int
            /\ dataVec[current] - dataVec[i] <= fWinSize
        BY <2>2, <1>3
      <4>2. ~(dataVec[current] - dataVec[i] > fWinSize)
        BY <4>1, <1>0
      <4> QED BY <3>1, <4>2, <1>9
    <3>3. clusters[n][1] <= j
      <4>1. /\ clusters[n][1] <= clusters[n][2] /\ clusters[n][2] < winStart
            /\ clusters[n][1] \in Nat /\ clusters[n][2] \in Nat
        BY <1>4, <1>i DEF ClustersBehind
      <4> QED BY <4>1, <2>2, <1>3
    <3> QED BY <3>2, <3>3
  <2> QED BY <2>1, <2>2, <1>3
<1> QED BY <1>5, <1>6, <1>7, <1>8, <1>10, <1>11 DEF SearchInv

LEMMA NextChainInv == ChainInv /\ [Next]_vars => ChainInv'
<1> SUFFICES ASSUME ChainInv, [Next]_vars PROVE ChainInv'
  OBVIOUS
<1>1. UNCHANGED inputs
  BY DEF Next, vars, Run, SearchClusters, SearchV0s, EndOfSearch, BuildEvent, SelectEvents
<1>2. DataType'
  BY <1>1, InputsStay DEF ChainInv
<1>3. CASE Run
  BY <1>2, <1>3, RunInv DEF ChainInv
<1>4. CASE SearchClusters
  <2>1. ~SearchDone /\ UNCHANGED <<trigger, dataVec>>
    BY <1>4 DEF SearchClusters, Search
  <2>2. PICK w \in winStart .. current :
          MovedStart(w) /\ (CreateTrigger(w) \/ NextDatum(w))
    BY <1>4 DEF SearchClusters, Search
  <2> QED BY <1>2, <2>1, <2>2, CreateTriggerInv, NextDatumInv DEF ChainInv
<1>5. CASE UNCHANGED clusterVars
  BY <1>1, <1>2, <1>5, NothingNew DEF ChainInv
<1> QED
  BY <1>3, <1>4, <1>5 DEF Next, vars, SearchV0s, EndOfSearch, BuildEvent, SelectEvents

LEMMA ChainInvariant == Spec => []ChainInv
  BY InitChainInv, NextChainInv, PTL DEF Spec

\* No datum is in two triggers, and the dead time is between them.
THEOREM DeadTimeKept == Spec => []TriggersAreSeparated
<1>1. ChainInv => TriggersAreSeparated
  BY DEF ChainInv, SearchInv
<1> QED BY <1>1, ChainInvariant, PTL

\* A trigger is as many data as the threshold says, within the window.
THEOREM TriggersAreDense == Spec => []ClustersAreMinimal
<1>1. ChainInv => ClustersAreMinimal
  BY DEF ChainInv, SearchInv
<1> QED BY <1>1, ChainInvariant, PTL

\* No cluster of data is passed over outside of the dead times.
THEOREM EveryClusterTriggers == Spec => []NoClusterMissed
<1>1. ChainInv => NoClusterMissed
  BY DEF ChainInv, SearchInv
<1> QED BY <1>1, ChainInvariant, PTL

-----------------------------------------------------------------------------
\* Proofs by the first counterexample.
LEMMA Least ==
  ASSUME NEW S \in SUBSET Nat, S # {}
  PROVE  \E m \in S : \A x \in S : m <= x
<1> DEFINE R == OpToRel(<, Nat)
<1>1. IsWellFoundedOn(R, Nat)
  BY NatLessThanWellFounded
<1>2. PICK m \in S : \A y \in S : ~(<<y, m>> \in R)
  <2> HIDE DEF R
  <2> QED BY <1>1, WFMin
<1>3. \A y \in S : ~(y < m)
  BY <1>2 DEF OpToRel
<1> QED BY <1>3

-----------------------------------------------------------------------------
(* The pairs of tracks.                                                    *)

Time(i) == tracks[i].time
Sel(i) == tracks[i].selected

V0Type ==
  /\ tracks \in Seq([time : Int, selected : BOOLEAN])
  /\ vertices \subseteq {p \in (DOMAIN tracks) \X (DOMAIN tracks) : p[1] < p[2]}
  /\ PairDeltaT_max \in Nat
  /\ trackIter1 \in Nat \ {0} /\ trackIter2 \in Nat /\ trackIter1 < trackIter2
  /\ pairs \in Seq(Nat \X Nat) /\ errTracksUnsorted \in Nat

Found == {pairs[n] : n \in DOMAIN pairs}
Wanted == {p \in vertices :
             /\ Sel(p[1]) /\ Sel(p[2])
             /\ Time(p[1]) - Time(p[2]) \in -PairDeltaT_max .. PairDeltaT_max}

\* Two tracks the loops came to are in order and were taken if they are wanted, or
\* a track between them, already too late, ended the inner loop.
Tried(i, k) == i < trackIter1 \/ (i = trackIter1 /\ k < trackIter2)
Reached(i, k) == /\ Time(i) <= Time(k)
                 /\ <<i, k>> \in Wanted => <<i, k>> \in Found
CutOff(i, k) == \E m \in i + 1 .. k - 1 : Sel(m) /\ Time(m) - Time(i) > PairDeltaT_max
PairsTried ==
  \A i, k \in DOMAIN tracks :
    i < k /\ Sel(i) /\ Sel(k) /\ Tried(i, k) => Reached(i, k) \/ CutOff(i, k)

V0Inv == V0Type /\ Found \subseteq Wanted /\ (errTracksUnsorted = 0 => PairsTried)

LEMMA V0Facts ==
  ASSUME V0Type
  PROVE  /\ DOMAIN tracks = 1 .. Len(tracks) /\ Len(tracks) \in Nat
         /\ \A i \in DOMAIN tracks : Time(i) \in Int /\ Sel(i) \in BOOLEAN
         /\ DOMAIN pairs = 1 .. Len(pairs) /\ Len(pairs) \in Nat
<1>1. \A i \in DOMAIN tracks : tracks[i] \in [time : Int, selected : BOOLEAN]
  <2> DEFINE T == [time : Int, selected : BOOLEAN]
  <2>1. tracks \in Seq(T)
    BY DEF V0Type
  <2> HIDE DEF T
  <2>2. \A i \in DOMAIN tracks : tracks[i] \in T
    BY <2>1
  <2> QED BY <2>2 DEF T
<1>2. \A i \in DOMAIN tracks : Time(i) \in Int /\ Sel(i) \in BOOLEAN
  BY <1>1 DEF Time, Sel
<1> QED BY <1>2 DEF V0Type

LEMMA InitV0Inv == Init => V0Inv
<1> SUFFICES ASSUME Init PROVE V0Inv
  OBVIOUS
<1>1. V0Type
  BY ChainAssumption DEF Init, V0Init, V0Type
<1>2. Found = {}
  BY DEF Init, V0Init, Found
<1>3. PairsTried
  BY <1>1, V0Facts DEF PairsTried, Tried, Init, V0Init
<1> QED BY <1>1, <1>2, <1>3 DEF V0Inv

\* A step that adds no pair and no error keeps what is known of the pairs tried.
LEMMA NoPairAdded ==
  ASSUME V0Inv, UNCHANGED <<tracks, vertices, PairDeltaT_max, pairs, errTracksUnsorted>>,
         trackIter1' \in Nat \ {0}, trackIter2' \in Nat, trackIter1' < trackIter2',
         errTracksUnsorted = 0 =>
           \A i, k \in DOMAIN tracks :
             i < k /\ Sel(i) /\ Sel(k) /\ Tried(i, k)' /\ ~Tried(i, k) => Reached(i, k) \/ CutOff(i, k)
  PROVE  V0Inv'
<1>1. V0Type'
  BY DEF V0Inv, V0Type
<1>2. Found' = Found /\ Wanted' = Wanted
  BY DEF Found, Wanted, Time, Sel
<1>3. \A i, k : /\ Time(i)' = Time(i) /\ Sel(i)' = Sel(i)
                /\ Reached(i, k)' = Reached(i, k) /\ CutOff(i, k)' = CutOff(i, k)
  BY <1>2 DEF Time, Sel, Reached, CutOff
<1>4. ASSUME errTracksUnsorted = 0 PROVE PairsTried'
  BY <1>3, <1>4 DEF PairsTried, V0Inv
<1> QED BY <1>1, <1>2, <1>4 DEF V0Inv

LEMMA FindV0sInv == ASSUME V0Inv, FindV0s PROVE V0Inv'
<1>0. UNCHANGED <<tracks, vertices, PairDeltaT_max>>
  BY DEF FindV0s
<1>1. V0Type
  BY DEF V0Inv
<1>2. /\ DOMAIN tracks = 1 .. Len(tracks) /\ Len(tracks) \in Nat
      /\ \A i \in DOMAIN tracks : Time(i) \in Int /\ Sel(i) \in BOOLEAN
      /\ DOMAIN pairs = 1 .. Len(pairs) /\ Len(pairs) \in Nat
  BY <1>1, V0Facts
<1>3. /\ trackIter1 \in Nat \ {0} /\ trackIter2 \in Nat /\ trackIter1 < trackIter2
      /\ PairDeltaT_max \in Nat /\ trackIter1 <= Len(tracks)
  BY <1>1, <1>2 DEF V0Type, FindV0s, V0Done
<1>4. CASE SkipFirst
  <2>1. trackIter1' = trackIter1 + 1 /\ trackIter2' = trackIter1 + 2
    BY <1>4 DEF SkipFirst, NextFirst
  <2>2. UNCHANGED <<pairs, errTracksUnsorted>>
    BY <1>4 DEF SkipFirst, NextFirst
  <2>3. ASSUME NEW i \in DOMAIN tracks, NEW k \in DOMAIN tracks,
               i < k, Sel(i), Sel(k), Tried(i, k)', ~Tried(i, k)
        PROVE  FALSE
    <3>1. i = trackIter1 /\ ~(k < trackIter2)
      BY <2>1, <2>3, <1>2, <1>3 DEF Tried
    <3> QED BY <3>1, <2>3, <1>2, <1>3, <1>4 DEF SkipFirst, Sel
  <2>4. trackIter1' \in Nat \ {0} /\ trackIter2' \in Nat /\ trackIter1' < trackIter2'
    BY <2>1, <1>3
  <2> QED BY <2>2, <2>3, <2>4, <1>0, NoPairAdded
<1>5. CASE SkipSecond
  <2>1. /\ trackIter1' = trackIter1 /\ trackIter2' = trackIter2 + 1
        /\ UNCHANGED <<pairs, errTracksUnsorted>> /\ ~Sel(trackIter2)
    BY <1>5 DEF SkipSecond, NextSecond, Sel
  <2>2. ASSUME NEW i \in DOMAIN tracks, NEW k \in DOMAIN tracks,
               i < k, Sel(i), Sel(k), Tried(i, k)', ~Tried(i, k)
        PROVE  FALSE
    BY <2>1, <2>2, <1>2, <1>3 DEF Tried
  <2>3. trackIter1' \in Nat \ {0} /\ trackIter2' \in Nat /\ trackIter1' < trackIter2'
    BY <2>1, <1>3
  <2> QED BY <2>1, <2>2, <2>3, <1>0, NoPairAdded
<1>6. CASE Unsorted
  <2>1. /\ trackIter1' = trackIter1 /\ trackIter2' = trackIter2 + 1
        /\ errTracksUnsorted' = errTracksUnsorted + 1 /\ pairs' = pairs
    BY <1>6 DEF Unsorted, NextSecond, CountUnsorted
  <2>2. V0Type' /\ errTracksUnsorted' # 0
    BY <2>1, <1>0, <1>1 DEF V0Type
  <2>3. Found' = Found /\ Wanted' = Wanted
    BY <2>1, <1>0 DEF Found, Wanted, Time, Sel
  <2> QED BY <2>2, <2>3 DEF V0Inv
<1>7. CASE TooLate
  <2>1. /\ trackIter1' = trackIter1 + 1 /\ trackIter2' = trackIter1 + 2
        /\ UNCHANGED <<pairs, errTracksUnsorted>>
        /\ Sel(trackIter1) /\ Sel(trackIter2) /\ trackIter2 \in DOMAIN tracks
        /\ Time(trackIter2) - Time(trackIter1) > PairDeltaT_max
    BY <1>2, <1>3, <1>7 DEF TooLate, NextFirst, BothSelected, Sel, Time, time1, time2
  <2>2. ASSUME NEW i \in DOMAIN tracks, NEW k \in DOMAIN tracks,
               i < k, Sel(i), Sel(k), Tried(i, k)', ~Tried(i, k)
        PROVE  Reached(i, k) \/ CutOff(i, k)
    <3>1. i = trackIter1 /\ trackIter2 <= k
      BY <2>1, <2>2, <1>2, <1>3 DEF Tried
    <3>2. CASE k = trackIter2
      <4>1. Time(i) <= Time(k) /\ ~(Time(i) - Time(k) \in -PairDeltaT_max .. PairDeltaT_max)
        BY <2>1, <3>1, <3>2, <1>2, <1>3
      <4> QED BY <4>1 DEF Reached, Wanted
    <3>3. CASE k # trackIter2
      <4>1. trackIter2 \in i + 1 .. k - 1
        BY <3>1, <3>3, <1>2, <1>3
      <4> QED BY <4>1, <2>1, <3>1 DEF CutOff
    <3> QED BY <3>2, <3>3
  <2>3. trackIter1' \in Nat \ {0} /\ trackIter2' \in Nat /\ trackIter1' < trackIter2'
    BY <2>1, <1>3
  <2> QED BY <2>1, <2>2, <2>3, <1>0, NoPairAdded
<1>8. CASE FindPair
  <2> DEFINE p == <<trackIter1, trackIter2>>
  <2>1. /\ trackIter1' = trackIter1 /\ trackIter2' = trackIter2 + 1
        /\ errTracksUnsorted' = errTracksUnsorted
        /\ Sel(trackIter1) /\ Sel(trackIter2) /\ trackIter2 \in DOMAIN tracks
        /\ Time(trackIter2) - Time(trackIter1) \in 0 .. PairDeltaT_max
        /\ pairs' = IF p \in vertices THEN Append(pairs, p) ELSE pairs
    BY <1>2, <1>3, <1>8 DEF FindPair, NextSecond, BothSelected, Sel, Time, time1, time2
  <2>2. p \in Nat \X Nat /\ pairs \in Seq(Nat \X Nat)
    BY <1>1, <1>3 DEF V0Type
  <2>3. V0Type'
    <3>1. pairs' \in Seq(Nat \X Nat)
      BY <2>1, <2>2
    <3>2. trackIter1' \in Nat \ {0} /\ trackIter2' \in Nat /\ trackIter1' < trackIter2'
      BY <2>1, <1>3
    <3> QED BY <3>1, <3>2, <2>1, <1>0, <1>1, Zenon DEF V0Type
  <2>4. Found' = Found \cup ({p} \cap vertices) /\ Wanted' = Wanted
    <3>1. CASE p \in vertices
      <4>1. pairs' = Append(pairs, p)
        BY <3>1, <2>1
      <4> HIDE DEF p
      <4>2. /\ DOMAIN pairs' = 1 .. Len(pairs) + 1 /\ pairs'[Len(pairs) + 1] = p
            /\ \A n \in 1 .. Len(pairs) : pairs'[n] = pairs[n]
        BY <4>1, <2>2
      <4>3. Found' = Found \cup {p}
        BY <4>2, <1>2 DEF Found
      <4> QED BY <4>3, <3>1, <1>0 DEF Wanted, Time, Sel
    <3>2. CASE p \notin vertices
      BY <3>2, <2>1, <1>0 DEF Found, Wanted, Time, Sel
    <3> QED BY <3>1, <3>2
  <2>5. p \in vertices => p \in Wanted
    <3>1. Time(p[1]) - Time(p[2]) \in -PairDeltaT_max .. PairDeltaT_max
      BY <2>1, <1>2, <1>3
    <3> QED BY <3>1, <2>1 DEF Wanted
  <2>6. ASSUME errTracksUnsorted = 0 PROVE PairsTried'
    <3> SUFFICES ASSUME NEW i \in DOMAIN tracks, NEW k \in DOMAIN tracks,
                        i < k, Sel(i), Sel(k), Tried(i, k)'
        PROVE  Reached(i, k)' \/ CutOff(i, k)'
      BY <1>0 DEF PairsTried, Sel
    <3>1. CutOff(i, k)' = CutOff(i, k) /\ Time(i)' = Time(i) /\ Time(k)' = Time(k)
      BY <1>0 DEF CutOff, Time, Sel
    <3>2. CASE Tried(i, k)
      BY <2>4, <2>6, <3>1, <3>2 DEF V0Inv, PairsTried, Reached
    <3>3. CASE ~Tried(i, k)
      <4>1. i = trackIter1 /\ k = trackIter2
        BY <2>1, <3>3, <1>2, <1>3 DEF Tried
      <4>2. Time(i) <= Time(k)
        BY <4>1, <2>1, <1>2, <1>3
      <4>3. <<i, k>> \in Wanted => <<i, k>> \in Found'
        BY <4>1, <2>4 DEF Wanted
      <4> QED BY <4>2, <4>3, <2>4, <3>1 DEF Reached
    <3> QED BY <3>2, <3>3
  <2> QED BY <2>1, <2>3, <2>4, <2>5, <2>6 DEF V0Inv
<1> QED BY <1>4, <1>5, <1>6, <1>7, <1>8 DEF FindV0s

LEMMA V0Invariant == Spec => []V0Inv
<1>1. V0Inv /\ [Next]_vars => V0Inv'
  <2> SUFFICES ASSUME V0Inv, [Next]_vars PROVE V0Inv'
    OBVIOUS
  <2>1. CASE UNCHANGED <<inputs, pairVars>>
    BY <2>1 DEF V0Inv, V0Type, PairsTried, Tried, Reached, CutOff, Found, Wanted, Time, Sel,
       inputs, pairVars
  <2>2. CASE SearchV0s
    BY <2>2, FindV0sInv DEF SearchV0s
  <2> QED BY <2>1, <2>2 DEF Next, vars, Run, SearchClusters, EndOfSearch, BuildEvent, SelectEvents
<1> QED BY <1>1, InitV0Inv, PTL DEF Spec

\* If all pairs were tried, the selected tracks are in order.
LEMMA TriedInOrder ==
  ASSUME V0Type, PairsTried, V0Done
  PROVE  \A i, k \in DOMAIN tracks : i < k /\ Sel(i) /\ Sel(k) => Time(i) <= Time(k)
<1>0. /\ DOMAIN tracks = 1 .. Len(tracks) /\ Len(tracks) \in Nat
      /\ \A i \in DOMAIN tracks : Time(i) \in Int /\ Sel(i) \in BOOLEAN
      /\ PairDeltaT_max \in Nat /\ trackIter1 \in Nat
  BY V0Facts DEF V0Type
<1> DEFINE OK(i) == \A k \in DOMAIN tracks : i < k /\ Sel(i) /\ Sel(k) => Time(i) <= Time(k)
           Bad == {d \in Nat : Len(tracks) - d \in DOMAIN tracks /\ ~OK(Len(tracks) - d)}
<1>1. SUFFICES ASSUME Bad # {} PROVE FALSE
  <2>1. ASSUME NEW i \in DOMAIN tracks, ~OK(i) PROVE Bad # {}
    <3>1. Len(tracks) - i \in Nat /\ Len(tracks) - (Len(tracks) - i) = i
      BY <1>0
    <3>2. Len(tracks) - i \in Bad
      BY <2>1, <3>1
    <3> QED BY <3>2
  <2> QED BY <2>1
<1>2. PICK d \in Bad : \A x \in Bad : d <= x
  <2>1. Bad \in SUBSET Nat
    OBVIOUS
  <2> HIDE DEF Bad
  <2> QED BY <1>1, <2>1, Least
<1> DEFINE i == Len(tracks) - d
<1>3. i \in DOMAIN tracks /\ ~OK(i)
  BY <1>2
<1>4. \A m \in DOMAIN tracks : i < m => OK(m)
  <2> SUFFICES ASSUME NEW m \in DOMAIN tracks, i < m, ~OK(m) PROVE FALSE
    OBVIOUS
  <2>1. Len(tracks) - m \in Nat /\ Len(tracks) - (Len(tracks) - m) = m
    BY <1>0
  <2>2. Len(tracks) - m \in Bad
    BY <2>1
  <2>3. d <= Len(tracks) - m /\ d \in Nat
    BY <2>2, <1>2
  <2> QED BY <2>3, <1>0
<1>5. i \in Nat
  BY <1>3, <1>0
<1> HIDE DEF i, Bad
<1>6. PICK k \in DOMAIN tracks : i < k /\ Sel(i) /\ Sel(k) /\ ~(Time(i) <= Time(k))
  BY <1>3
<1>7. Tried(i, k)
  BY <1>0, <1>3, <1>5 DEF Tried, V0Done
<1>8. CutOff(i, k)
  BY <1>3, <1>6, <1>7 DEF PairsTried, Reached
<1>9. PICK m \in i + 1 .. k - 1 : Sel(m) /\ Time(m) - Time(i) > PairDeltaT_max
  BY <1>8 DEF CutOff
<1>10. m \in DOMAIN tracks /\ i < m /\ m < k
  BY <1>0, <1>3, <1>5, <1>6
<1>11. Time(m) <= Time(k)
  BY <1>4, <1>6, <1>9, <1>10
<1> QED BY <1>0, <1>3, <1>6, <1>9, <1>10, <1>11

\* The trigger gives all pairs that are close in time and pass the cuts, and no
\* others, unless tracks out of order were counted.
THEOREM AllPairsFound == Spec => []V0FindsEveryPair
<1>1. V0Inv => V0FindsEveryPair
  <2> SUFFICES ASSUME V0Inv, V0Done, errTracksUnsorted = 0 PROVE Found = Wanted
    BY DEF V0FindsEveryPair, Found, Wanted, Time, Sel
  <2>1. V0Type /\ PairsTried /\ Found \subseteq Wanted
    BY DEF V0Inv
  <2>2. /\ DOMAIN tracks = 1 .. Len(tracks) /\ Len(tracks) \in Nat
        /\ \A i \in DOMAIN tracks : Time(i) \in Int /\ Sel(i) \in BOOLEAN
        /\ PairDeltaT_max \in Nat /\ trackIter1 \in Nat
    BY <2>1, V0Facts DEF V0Type
  <2>3. ASSUME NEW p \in Wanted PROVE p \in Found
    <3>1. PICK i \in DOMAIN tracks, k \in DOMAIN tracks : p = <<i, k>> /\ i < k
      BY <2>1, <2>3 DEF V0Type, Wanted
    <3>2. Sel(i) /\ Sel(k) /\ Time(i) - Time(k) \in -PairDeltaT_max .. PairDeltaT_max
      BY <3>1 DEF Wanted
    <3>3. Tried(i, k)
      BY <2>2 DEF Tried, V0Done
    <3>4. ~CutOff(i, k)
      <4> SUFFICES ASSUME NEW m \in i + 1 .. k - 1, Sel(m), Time(m) - Time(i) > PairDeltaT_max
          PROVE  FALSE
        BY DEF CutOff
      <4>1. m \in DOMAIN tracks /\ m < k
        BY <2>2
      <4>2. Time(m) <= Time(k)
        BY <2>1, <3>2, <4>1, TriedInOrder
      <4> QED BY <2>2, <3>2, <4>1, <4>2
    <3> QED BY <2>1, <2>3, <3>1, <3>2, <3>3, <3>4 DEF PairsTried, Reached
  <2> QED BY <2>1, <2>3
<1> QED BY <1>1, V0Invariant, PTL

-----------------------------------------------------------------------------
(* What comes into an event.                                               *)

InputType ==
  \A det \in Detectors :
    /\ digiData[det] \in Seq(Digis)
    /\ fMinNumDigis[det] \in Nat /\ fMinNumLayers[det] \in Nat
    /\ fWindows[det][1] \in Int /\ fWindows[det][2] \in Int

LEMMA InitInputType == Init => InputType
<1> SUFFICES ASSUME Init, NEW det \in Detectors
    PROVE  /\ digiData[det] \in Seq(Digis)
           /\ fMinNumDigis[det] \in Nat /\ fMinNumLayers[det] \in Nat
           /\ fWindows[det][1] \in Int /\ fWindows[det][2] \in Int
  BY DEF InputType
<1>1. PICK c \in Cases : selector = c.selector /\ digiData = c.digiData /\ fWindows = c.fWindows
  BY DEF Init
<1>2. /\ c.digiData[det] \in Seq(Digis) /\ c.fWindows[det] \in Int \X Int
      /\ c.selector.fMinNumDigis[det] \in Nat /\ c.selector.fMinNumLayers[det] \in Nat
  BY ChainAssumption
<1> QED BY <1>1, <1>2 DEF fMinNumDigis, fMinNumLayers

\* The borders of a copied range.
Ends(det, f, lower, upper) ==
  /\ lower \in 1 .. Len(digiData[det]) + 1 /\ IsLower(det, f, lower)
  /\ upper \in lower .. Len(digiData[det]) + 1 /\ IsUpper(det, f, lower, upper)

LEMMA CopyRangeEnds ==
  ASSUME InputType, NEW det \in Detectors, NEW f
  PROVE  \E lower, upper :
           /\ Ends(det, f, lower, upper)
           /\ CopyRange(det, f) = SubSeq(digiData[det], lower, upper - 1)
<1> DEFINE d == digiData[det]
           end == Len(d) + 1
           Before(k) == BeforeWindow(det, d[k].time, f)
           Behind(k) == BehindWindow(det, d[k].time, f)
           lower == CHOOSE i \in 1 .. end : IsLower(det, f, i)
           upper == CHOOSE i \in lower .. end : IsUpper(det, f, lower, i)
<1>1. Len(d) \in Nat
  BY DigiFacts DEF InputType
<1>2. lower \in 1 .. end /\ IsLower(det, f, lower)
  <2> HIDE DEF Before
  <2> DEFINE L == {i \in 1 .. end : i = end \/ ~Before(i)}
  <2>1. L \in SUBSET Nat /\ L # {}
    <3>1. end \in L /\ 1 .. end \subseteq Nat
      BY <1>1
    <3> QED BY <3>1
  <2> HIDE DEF L
  <2>2. PICK m \in L : \A x \in L : m <= x
    BY <2>1, Least
  <2>3. m \in 1 .. end /\ (m = end \/ ~Before(m))
    BY DEF L
  <2>4. ASSUME NEW k \in 1 .. m - 1 PROVE Before(k)
    <3>1. k \in 1 .. end /\ ~(m <= k)
      BY <2>3, <2>4, <1>1
    <3> QED BY <2>2, <3>1 DEF L
  <2>5. IsLower(det, f, m)
    BY <2>3, <2>4, <1>1 DEF IsLower, Before
  <2> QED BY <2>3, <2>5
<1> HIDE DEF lower
<1>3. upper \in lower .. end /\ IsUpper(det, f, lower, upper)
  <2> HIDE DEF Behind
  <2> DEFINE U == {i \in lower .. end : i = end \/ Behind(i)}
  <2>1. U \in SUBSET Nat /\ U # {}
    BY <1>1, <1>2
  <2> HIDE DEF U
  <2>2. PICK m \in U : \A x \in U : m <= x
    BY <2>1, Least
  <2>3. m \in lower .. end /\ (m = end \/ Behind(m))
    BY DEF U
  <2>4. ASSUME NEW k \in lower .. m - 1 PROVE ~Behind(k)
    <3>1. k \in lower .. end /\ ~(m <= k)
      BY <1>2, <2>3, <2>4, <1>1
    <3> QED BY <2>2, <3>1 DEF U
  <2>5. IsUpper(det, f, lower, m)
    BY <2>3, <2>4, <1>1, <1>2 DEF IsUpper, Behind
  <2> QED BY <2>3, <2>5
<1>4. CopyRange(det, f) = SubSeq(d, lower, upper - 1)
  BY DEF CopyRange, lower
<1> HIDE DEF upper
<1> QED BY <1>2, <1>3, <1>4 DEF Ends

LEMMA CopyRangeType ==
  ASSUME InputType, NEW det \in Detectors, NEW f
  PROVE  CopyRange(det, f) \in Seq(Digis)
<1>1. PICK lower, upper :
        /\ Ends(det, f, lower, upper)
        /\ CopyRange(det, f) = SubSeq(digiData[det], lower, upper - 1)
  BY CopyRangeEnds
<1>2. digiData[det] \in Seq(Digis) /\ Len(digiData[det]) \in Nat
  BY DigiFacts DEF InputType
<1>3. lower \in 1 .. Len(digiData[det]) + 1 /\ upper - 1 \in lower - 1 .. Len(digiData[det])
  BY <1>1, <1>2 DEF Ends
<1> QED BY <1>1, <1>2, <1>3, SubSeqProperties

\* Of digis in order, all those within the interval are copied.
LEMMA CopyRangeComplete ==
  ASSUME InputType, NEW det \in Detectors, NEW f \in Int, IsSorted(TimesOf(digiData[det])),
         NEW i \in 1 .. Len(digiData[det]),
         ~BeforeWindow(det, digiData[det][i].time, f), ~BehindWindow(det, digiData[det][i].time, f)
  PROVE  \E k \in DOMAIN CopyRange(det, f) : CopyRange(det, f)[k] = digiData[det][i]
<1> DEFINE d == digiData[det]
<1>1. PICK lower, upper :
        Ends(det, f, lower, upper) /\ CopyRange(det, f) = SubSeq(d, lower, upper - 1)
  BY CopyRangeEnds
<1>2. /\ d \in Seq(Digis) /\ DOMAIN d = 1 .. Len(d) /\ Len(d) \in Nat
      /\ \A k \in 1 .. Len(d) : d[k].time \in Int
      /\ fWindows[det][1] \in Int /\ fWindows[det][2] \in Int
  BY DigiFacts DEF InputType
<1>3. /\ lower \in 1 .. Len(d) + 1 /\ upper \in lower .. Len(d) + 1
      /\ IsLower(det, f, lower) /\ IsUpper(det, f, lower, upper)
  BY <1>1 DEF Ends
<1>4. lower <= i
  <2> SUFFICES ASSUME i < lower PROVE FALSE
    BY <1>2, <1>3
  <2>1. i \in 1 .. lower - 1
    BY <1>2, <1>3
  <2> QED BY <2>1, <1>3 DEF IsLower
<1>5. i < upper
  <2> SUFFICES ASSUME upper <= i PROVE FALSE
    BY <1>2, <1>3
  <2>1. upper \in 1 .. Len(d)
    BY <1>2, <1>3
  <2>2. 2 * d[upper].time - f > 2 * fWindows[det][2]
    BY <2>1, <1>2, <1>3 DEF IsUpper, BehindWindow
  <2>3. d[upper].time <= d[i].time
    <3>1. CASE upper = i
      BY <3>1, <1>2
    <3>2. CASE upper < i
      BY <3>2, <2>1, <1>2 DEF IsSorted, TimesOf
    <3> QED BY <3>1, <3>2, <1>2, <2>1
  <2>4. ~(2 * d[i].time - f > 2 * fWindows[det][2])
    BY DEF BehindWindow
  <2>5. d[upper].time \in Int /\ d[i].time \in Int
    BY <2>1, <1>2
  <2>6. ASSUME NEW a \in Int, NEW b \in Int, NEW w \in Int, a <= b,
               2 * a - f > 2 * w, ~(2 * b - f > 2 * w)
        PROVE  FALSE
    BY <2>6
  <2> HIDE DEF d
  <2> QED BY <1>2, <2>2, <2>3, <2>4, <2>5, <2>6
<1> DEFINE k == i - lower + 1
<1> HIDE DEF d
<1>6. k \in 1 .. upper - lower /\ lower + k - 1 = i
  BY <1>2, <1>3, <1>4, <1>5
<1>7. /\ Len(SubSeq(d, lower, upper - 1)) = upper - lower
      /\ DOMAIN SubSeq(d, lower, upper - 1) = 1 .. upper - lower
      /\ SubSeq(d, lower, upper - 1)[k] = d[lower + k - 1]
  BY <1>2, <1>3, <1>6
<1> QED BY <1>1, <1>6, <1>7 DEF d

-----------------------------------------------------------------------------
(* From the triggers to the events.                                        *)

\* Each position of the result is one of S.
HasPositions(S) ==
  \A k \in 1 .. Cardinality(S) : \E i \in S : Cardinality({j \in S : j < i}) = k - 1

LEMMA PositionsExist ==
  ASSUME NEW N \in Nat, NEW S \in SUBSET (1 .. N)
  PROVE  HasPositions(S)
<1> DEFINE Bad == {n \in Nat : \E T \in SUBSET (1 .. n) : ~HasPositions(T)}
<1>1. SUFFICES ASSUME Bad # {} PROVE FALSE
  OBVIOUS
<1>2. PICK n \in Bad : \A x \in Bad : n <= x
  <2>1. Bad \in SUBSET Nat
    OBVIOUS
  <2> HIDE DEF Bad
  <2> QED BY <1>1, <2>1, Least
<1>3. PICK T \in SUBSET (1 .. n) : ~HasPositions(T)
  BY <1>2
<1>4. n \in Nat
  BY <1>2
<1>5. n # 0
  <2> SUFFICES ASSUME n = 0 PROVE FALSE
    OBVIOUS
  <2>1. T = {}
    BY <1>3
  <2>2. Cardinality(T) = 0
    BY <2>1, FS_EmptySet
  <2> QED BY <1>3, <2>2 DEF HasPositions
<1>6. n - 1 \in Nat /\ n - 1 \notin Bad
  <2>1. n - 1 \in Nat /\ ~(n <= n - 1)
    BY <1>4, <1>5
  <2> HIDE DEF Bad
  <2> QED BY <2>1, <1>2
<1>7. \A U \in SUBSET (1 .. n - 1) : HasPositions(U)
  BY <1>6
<1> HIDE DEF Bad
<1>8. n \in T
  <2> SUFFICES ASSUME n \notin T PROVE FALSE
    OBVIOUS
  <2>1. T \in SUBSET (1 .. n - 1)
    BY <1>3, <1>4
  <2> QED BY <2>1, <1>3, <1>7
<1> DEFINE U == T \ {n}
<1>9. /\ IsFiniteSet(T) /\ IsFiniteSet(U)
      /\ Cardinality(T) = Cardinality(U) + 1 /\ Cardinality(U) \in Nat
  <2>1. IsFiniteSet(1 .. n)
    BY <1>4, FS_Interval
  <2>2. IsFiniteSet(T) /\ IsFiniteSet(U)
    BY <2>1, <1>3, FS_Subset
  <2>3. Cardinality(U) = Cardinality(T) - 1 /\ Cardinality(T) \in Nat /\ Cardinality(U) \in Nat
    BY <2>2, <1>8, FS_RemoveElement, FS_CardinalityType
  <2> QED BY <2>2, <2>3
<1>10. HasPositions(U)
  <2>1. U \in SUBSET (1 .. n - 1)
    BY <1>3, <1>4
  <2> QED BY <2>1, <1>7
<1>11. ASSUME NEW k \in 1 .. Cardinality(T)
       PROVE  \E i \in T : Cardinality({j \in T : j < i}) = k - 1
  <2>1. CASE k = Cardinality(T)
    <3>1. \A j \in T : j < n <=> j # n
      BY <1>3, <1>4
    <3>2. {j \in T : j < n} = U
      BY <3>1
    <3>3. Cardinality({j \in T : j < n}) = k - 1
      BY <3>2, <2>1, <1>9
    <3> QED BY <3>3, <1>8
  <2>2. CASE k # Cardinality(T)
    <3>1. k \in 1 .. Cardinality(U)
      BY <2>2, <1>9
    <3>2. PICK i \in U : Cardinality({j \in U : j < i}) = k - 1
      BY <3>1, <1>10 DEF HasPositions
    <3>3. {j \in T : j < i} = {j \in U : j < i}
      BY <1>3, <1>4
    <3> QED BY <3>2, <3>3
  <2> QED BY <2>1, <2>2
<1> QED BY <1>3, <1>11 DEF HasPositions

IsPart(q, s, S) == \A k \in DOMAIN q : \E i \in S : q[k] = s[i]

LEMMA AtPositionsElement ==
  ASSUME NEW s, NEW N \in Nat, NEW S \in SUBSET (1 .. N)
  PROVE  IsPart(AtPositions(s, S), s, S)
<1> SUFFICES ASSUME NEW k \in DOMAIN AtPositions(s, S)
    PROVE  \E i \in S : AtPositions(s, S)[k] = s[i]
  BY DEF IsPart
<1>1. k \in 1 .. Cardinality(S)
  BY DEF AtPositions
<1> DEFINE i == CHOOSE i \in S : Cardinality({j \in S : j < i}) = k - 1
<1>2. i \in S
  BY <1>1, PositionsExist DEF HasPositions
<1>3. AtPositions(s, S)[k] = s[i]
  BY <1>1 DEF AtPositions
<1> HIDE DEF i
<1> QED BY <1>2, <1>3

Built == [n \in DOMAIN Triggers |-> EventOf(Triggers[n])]

Left == {n \in DOMAIN Built : IsSelected(Built[n])}
BuiltTo == \E n \in 0 .. Len(Triggers) : events = [k \in 1 .. n |-> Built[k]]

\* The events are those of the first triggers, and in the end those that are
\* selected; data of a digi trigger are the digis.
BuiltInv ==
  /\ phase \in {"start", "search", "build", "done", "thrown"}
  /\ phase \in {"start", "search"} => events = <<>>
  /\ phase = "build" => BuiltTo
  /\ phase = "thrown" => events = <<>> \/ BuiltTo
  /\ phase = "done" => events = AtPositions(Built, Left)
  /\ phase \notin {"start", "thrown"} /\ triggerKind = "digis" => dataVec = DigiTimes
  /\ phase = "thrown" /\ triggerKind = "digis" => events = <<>> \/ dataVec = DigiTimes

AllInv == ChainInv /\ V0Inv /\ InputType /\ BuiltInv

LEMMA TriggersFacts ==
  ASSUME ChainInv, V0Inv
  PROVE  DOMAIN Triggers = 1 .. Len(Triggers) /\ Len(Triggers) \in Nat /\ DOMAIN Built = DOMAIN Triggers
<1>1. /\ DOMAIN pairs = 1 .. Len(pairs) /\ Len(pairs) \in Nat
      /\ DOMAIN clusters = 1 .. Len(clusters) /\ Len(clusters) \in Nat
  BY DEF ChainInv, SearchInv, SearchType, V0Inv, V0Type
<1>2. DOMAIN Triggers = IF triggerKind = "v0" THEN 1 .. Len(pairs) ELSE 1 .. Len(clusters)
  BY <1>1 DEF Triggers
<1>3. DOMAIN Triggers = 1 .. Len(Triggers) /\ Len(Triggers) \in Nat
  <2>1. CASE triggerKind = "v0"
    BY <2>1, <1>1 DEF Triggers
  <2>2. CASE triggerKind # "v0"
    BY <2>2, <1>1 DEF Triggers
  <2> QED BY <2>1, <2>2
<1> QED BY <1>3 DEF Built

LEMMA InitBuiltInv == Init => BuiltInv
  BY DEF Init, BuiltInv

\* The events do not change with what was there before.
LEMMA TriggersStay ==
  ASSUME UNCHANGED <<inputs, clusterVars, pairVars>>
  PROVE  /\ Triggers' = Triggers /\ Built' = Built /\ DigiTimes' = DigiTimes
         /\ Left' = Left
<1>1. Triggers' = Triggers
  BY DEF inputs, clusterVars, pairVars, Triggers, TriggerTime, PairTime
<1>2. \A f : EventOf(f)' = EventOf(f)
  BY DEF inputs, EventOf, CopyRange, IsLower, IsUpper, BeforeWindow, BehindWindow
<1>3. Built' = Built /\ DigiTimes' = DigiTimes
  BY <1>1, <1>2 DEF Built, DigiTimes, inputs
<1>4. Left' = Left
  BY <1>3 DEF Left, inputs, IsSelected, EnoughDigis, EnoughLayers, EnoughUnmasked, nDigisAccepted,
     ActiveStations, FirstDigi, fMinNumDigis, fMinNumLayers, fMaskedChannels
<1> QED BY <1>1, <1>3, <1>4

LEMMA BuildEventInv ==
  ASSUME AllInv, BuildEvent
  PROVE  BuiltTo'
<1>1. /\ DOMAIN Triggers = 1 .. Len(Triggers) /\ Len(Triggers) \in Nat
      /\ DOMAIN Built = DOMAIN Triggers
  BY TriggersFacts DEF AllInv
<1>2. Triggers' = Triggers /\ Built' = Built
  BY TriggersStay DEF BuildEvent
<1>3. PICK n \in 0 .. Len(Triggers) : events = [k \in 1 .. n |-> Built[k]]
  BY DEF BuildEvent, AllInv, BuiltInv, BuiltTo
<1>4. Len(events) = n
  BY <1>3
<1>5. n + 1 \in 1 .. Len(Triggers) /\ events' = Append(events, EventOf(Triggers[n + 1]))
  BY <1>1, <1>4 DEF BuildEvent
<1>6. Built[n + 1] = EventOf(Triggers[n + 1])
  BY <1>1, <1>5 DEF Built
<1> HIDE DEF Built
<1>7. events' = [k \in 1 .. n + 1 |-> Built[k]]
  <2> DEFINE e == Built[n + 1]
  <2>1. events' = Append([k \in 1 .. n |-> Built[k]], e)
    BY <1>3, <1>5, <1>6
  <2>2. Append([k \in 1 .. n |-> Built[k]], e) = [k \in 1 .. n + 1 |-> Built[k]]
    BY <1>3
  <2> QED BY <2>1, <2>2
<1> QED BY <1>2, <1>5, <1>7 DEF BuiltTo

LEMMA NextBuiltInv ==
  ASSUME AllInv, [Next]_vars
  PROVE  BuiltInv'
<1>1. BuiltInv
  BY DEF AllInv
<1>2. CASE Run
  <2>1. phase = "start" /\ events = <<>> /\ UNCHANGED <<inputs, events>>
    BY <1>1, <1>2 DEF Run, BuiltInv
  <2>2. DigiTimes' = DigiTimes /\ triggerKind' = triggerKind
    BY <2>1 DEF DigiTimes, inputs
  <2>3. CASE UseDigiTrigger
    <3>1. phase' = "thrown" \/ (phase' = "search" /\ dataVec' = DigiTimes)
      BY <2>3 DEF UseDigiTrigger, Trigger, Load
    <3> QED BY <2>1, <2>2, <3>1 DEF BuiltInv
  <2>4. CASE ~UseDigiTrigger
    <3>1. phase' = "thrown" \/ (phase' = "search" /\ triggerKind # "digis")
      BY <1>2, <2>4 DEF Run, UseV0Trigger, UseHitMultTrigger, NoTriggerConfigured, Trigger
    <3> QED BY <2>1, <2>2, <3>1 DEF BuiltInv
  <2> QED BY <2>3, <2>4
<1>3. CASE SearchClusters
  <2>1. /\ phase = "search" /\ events = <<>> /\ UNCHANGED <<inputs, events, phase, dataVec>>
    BY <1>1, <1>3 DEF SearchClusters, Search, BuiltInv
  <2>2. DigiTimes' = DigiTimes /\ triggerKind' = triggerKind
    BY <2>1 DEF DigiTimes, inputs
  <2> QED BY <1>1, <2>1, <2>2 DEF BuiltInv
<1>4. CASE SearchV0s
  <2>1. phase = "search" /\ events = <<>> /\ UNCHANGED <<inputs, events, phase, dataVec>>
    BY <1>1, <1>4 DEF SearchV0s, BuiltInv, clusterVars
  <2>2. DigiTimes' = DigiTimes /\ triggerKind' = triggerKind
    BY <2>1 DEF DigiTimes, inputs
  <2> QED BY <1>1, <2>1, <2>2 DEF BuiltInv
<1>5. CASE EndOfSearch
  <2>1. /\ phase = "search" /\ phase' = "build" /\ events = <<>>
        /\ UNCHANGED <<inputs, clusterVars, pairVars, events>>
    BY <1>1, <1>5 DEF EndOfSearch, BuiltInv
  <2>2. DigiTimes' = DigiTimes /\ triggerKind' = triggerKind /\ dataVec' = dataVec
        /\ Triggers' = Triggers /\ Built' = Built
    BY <2>1, TriggersStay DEF inputs, clusterVars
  <2>3. Len(Triggers) \in Nat
    BY TriggersFacts DEF AllInv
  <2>4. events' = [k \in 1 .. 0 |-> Built[k]]
    BY <2>1
  <2>5. BuiltTo'
    BY <2>2, <2>3, <2>4 DEF BuiltTo
  <2> QED BY <1>1, <2>1, <2>2, <2>5 DEF BuiltInv
<1>6. CASE BuildEvent
  <2>1. phase = "build" /\ phase' = "build" /\ UNCHANGED <<inputs, clusterVars, pairVars>>
    BY <1>6 DEF BuildEvent
  <2>2. DigiTimes' = DigiTimes /\ triggerKind' = triggerKind /\ dataVec' = dataVec
    BY <2>1, TriggersStay DEF inputs, clusterVars
  <2> QED BY <1>1, <1>6, <2>1, <2>2, BuildEventInv DEF BuiltInv
<1>7. CASE SelectEvents
  <2>1. phase = "build" /\ UNCHANGED <<inputs, clusterVars, pairVars>>
        /\ Len(events) = Len(Triggers)
    BY <1>7 DEF SelectEvents
  <2>2. /\ DigiTimes' = DigiTimes /\ triggerKind' = triggerKind /\ dataVec' = dataVec
        /\ Triggers' = Triggers /\ Built' = Built
        /\ Left' = Left
    BY <2>1, TriggersStay DEF inputs, clusterVars
  <2>3. BuiltTo
    BY <1>1, <2>1 DEF BuiltInv
  <2>4. CASE phase' = "thrown" /\ UNCHANGED events
    <3>1. BuiltTo'
      BY <2>2, <2>3, <2>4 DEF BuiltTo
    <3> QED BY <1>1, <2>1, <2>2, <2>4, <3>1 DEF BuiltInv
  <2>5. CASE phase' = "done" /\ events' = AtPositions(events, {n \in DOMAIN events : IsSelected(events[n])})
    <3>1. PICK n \in 0 .. Len(Triggers) : events = [k \in 1 .. n |-> Built[k]]
      BY <2>3 DEF BuiltTo
    <3>2. /\ DOMAIN Triggers = 1 .. Len(Triggers) /\ Len(Triggers) \in Nat
          /\ DOMAIN Built = DOMAIN Triggers
      BY TriggersFacts DEF AllInv
    <3>3. Len(events) = n
      BY <3>1, <3>2
    <3>4. events = Built
      <4>1. events = [k \in DOMAIN Built |-> Built[k]]
        BY <2>1, <3>1, <3>2, <3>3
      <4> QED BY <4>1 DEF Built
    <3>5. events' = AtPositions(Built, Left)
      BY <2>5, <3>4 DEF Left
    <3>6. events' = AtPositions(Built, Left)'
      BY <2>2, <3>5
    <3> QED BY <1>1, <2>1, <2>2, <2>5, <3>4, <3>6 DEF BuiltInv
  <2> QED BY <1>7, <2>4, <2>5 DEF SelectEvents
<1>8. CASE UNCHANGED vars
  <2>1. UNCHANGED <<inputs, clusterVars, pairVars, phase, events>>
    BY <1>8 DEF vars
  <2>2. /\ DigiTimes' = DigiTimes /\ triggerKind' = triggerKind /\ dataVec' = dataVec
        /\ Triggers' = Triggers /\ Built' = Built
        /\ Left' = Left
    BY <2>1, TriggersStay DEF inputs, clusterVars
  <2>3. BuiltTo' = BuiltTo
    BY <2>1, <2>2 DEF BuiltTo
  <2>4. AtPositions(Built, Left)' = AtPositions(Built, Left)
    BY <2>2
  <2> QED BY <1>1, <2>1, <2>2, <2>3, <2>4 DEF BuiltInv
<1> QED BY <1>2, <1>3, <1>4, <1>5, <1>6, <1>7, <1>8 DEF Next

LEMMA AllInvariant == Spec => []AllInv
<1>1. Init => AllInv
  BY InitChainInv, InitV0Inv, InitInputType, InitBuiltInv DEF AllInv
<1>2. InputType /\ [Next]_vars => InputType'
  <2> SUFFICES ASSUME InputType, [Next]_vars PROVE InputType'
    OBVIOUS
  <2>1. UNCHANGED <<digiData, selector, fWindows>>
    BY DEF Next, vars, inputs, Run, SearchClusters, SearchV0s, EndOfSearch, BuildEvent, SelectEvents
  <2> QED BY <2>1 DEF InputType, fMinNumDigis, fMinNumLayers
<1>3. AllInv /\ [Next]_vars => BuiltInv'
  BY NextBuiltInv
<1>4. AllInv <=> ChainInv /\ V0Inv /\ InputType /\ BuiltInv
  BY DEF AllInv
<1> QED BY <1>1, <1>2, <1>3, <1>4, ChainInvariant, V0Invariant, PTL DEF Spec

\* Whatever phase it is, an event is what was built for a trigger.
LEMMA EventsAreBuilt ==
  ASSUME AllInv, NEW n \in DOMAIN events
  PROVE  /\ \E k \in DOMAIN Triggers : events[n] = EventOf(Triggers[k])
         /\ triggerKind = "digis" => dataVec = DigiTimes
<1>1. /\ DOMAIN Triggers = 1 .. Len(Triggers) /\ Len(Triggers) \in Nat
      /\ DOMAIN Built = DOMAIN Triggers
  BY TriggersFacts DEF AllInv
<1>2. events # <<>> /\ phase \in {"build", "done", "thrown"}
  BY DEF AllInv, BuiltInv
<1>3. \E k \in DOMAIN Built : events[n] = Built[k]
  <2>1. CASE BuiltTo
    BY <2>1, <1>1 DEF BuiltTo
  <2>2. CASE events = AtPositions(Built, Left)
    <3>1. Left \in SUBSET (1 .. Len(Triggers))
      BY <1>1 DEF Left
    <3>2. n \in DOMAIN AtPositions(Built, Left)
      BY <2>2
    <3>3. \E k \in Left : AtPositions(Built, Left)[n] = Built[k]
      <4>1. IsPart(AtPositions(Built, Left), Built, Left)
        BY <3>1, <1>1, AtPositionsElement
      <4> QED BY <3>2, <4>1 DEF IsPart
    <3> QED BY <2>2, <3>3 DEF Left
  <2> QED BY <1>2, <2>1, <2>2 DEF AllInv, BuiltInv
<1>4. triggerKind = "digis" => dataVec = DigiTimes
  BY <1>2 DEF AllInv, BuiltInv
<1> QED BY <1>1, <1>3, <1>4 DEF Built

\* The digis that made a trigger come into the event of that trigger.
THEOREM TriggerDigisComeIn == Spec => []TriggerDigisInEvent
<1>1. AllInv => TriggerDigisInEvent
  <2> SUFFICES ASSUME AllInv, triggerKind = "digis",
                      2 * fWindows[Bmon][1] <= -fWinSize, fWinSize <= 2 * fWindows[Bmon][2],
                      NEW n \in DOMAIN events, NEW m \in DOMAIN clusters,
                      events[n].fTime = TriggerTime(clusters[m]),
                      NEW i \in clusters[m][1] .. clusters[m][2]
      PROVE  \E k \in DOMAIN events[n].digis[Bmon] : events[n].digis[Bmon][k] = digiData[Bmon][i]
    BY DEF TriggerDigisInEvent
  <2> DEFINE f == TriggerTime(clusters[m])
             d == digiData[Bmon]
             first == clusters[m][1]
             last == clusters[m][2]
  <2>1. /\ ChainInv /\ InputType /\ Bmon \in Detectors /\ dataVec = DigiTimes
        /\ \E k \in DOMAIN Triggers : events[n] = EventOf(Triggers[k])
    BY EventsAreBuilt DEF AllInv, Detectors
  <2>2. events[n] = EventOf(f)
    BY <2>1 DEF EventOf
  <2>3. events[n].digis[Bmon] = CopyRange(Bmon, f)
    BY <2>1, <2>2 DEF EventOf
  <2>4. /\ d \in Seq(Digis) /\ DOMAIN d = 1 .. Len(d) /\ Len(d) \in Nat
        /\ \A k \in 1 .. Len(d) : d[k].time \in Int
        /\ TimesOf(d) = dataVec /\ Len(dataVec) = Len(d)
        /\ \A k \in 1 .. Len(d) : dataVec[k] = d[k].time
        /\ fWindows[Bmon][1] \in Int /\ fWindows[Bmon][2] \in Int
    BY <2>1, DigiFacts DEF InputType, DigiTimes, TimesOf
  <2>5. /\ fWinSize \in Nat /\ winStart \in Nat /\ winStart <= Len(dataVec) + 1
        /\ IsSorted(dataVec) /\ first \in Nat /\ last \in Nat
        /\ 1 <= first /\ first <= last /\ last < winStart
        /\ dataVec[last] - dataVec[first] <= fWinSize
    <3>1. /\ 1 <= first /\ first <= last /\ last < winStart
          /\ dataVec[last] - dataVec[first] <= fWinSize
      BY <2>1 DEF ChainInv, SearchInv, ClustersBehind, ClustersAreMinimal
    <3>2. /\ fWinSize \in Nat /\ winStart \in Nat /\ winStart <= current
          /\ current \in Nat /\ current <= Len(dataVec) + 1 /\ IsSorted(dataVec)
      BY <2>1 DEF ChainInv, DataType, SearchInv, SearchType
    <3>3. clusters[m] \in Places
      <4>1. clusters \in Seq(Places)
        BY <2>1 DEF ChainInv, SearchInv, SearchType
      <4> QED BY <4>1
    <3>4. first \in Nat /\ last \in Nat
      BY <3>3 DEF Places
    <3> QED BY <3>1, <3>2, <3>4, <2>4
  <2>6. first \in 1 .. Len(d) /\ last \in 1 .. Len(d) /\ i \in 1 .. Len(d)
    <3>1. i \in first .. last
      OBVIOUS
    <3>2. Len(d) \in Nat /\ winStart <= Len(d) + 1
      BY <2>4, <2>5
    <3> HIDE DEF d, first, last
    <3> QED BY <2>5, <3>1, <3>2
  <2>7. /\ f = dataVec[first] + dataVec[last]
        /\ dataVec[first] \in Int /\ dataVec[last] \in Int /\ dataVec[i] \in Int
    BY <2>4, <2>6 DEF TriggerTime
  <2>8. dataVec[first] <= dataVec[i] /\ dataVec[i] <= dataVec[last]
    <3>1. \A j, k \in 1 .. Len(d) : j <= k => dataVec[j] <= dataVec[k]
      <4> SUFFICES ASSUME NEW j \in 1 .. Len(d), NEW k \in 1 .. Len(d), j < k
          PROVE  dataVec[j] <= dataVec[k]
        BY <2>4
      <4>1. DOMAIN dataVec = 1 .. Len(d)
        BY <2>4 DEF TimesOf
      <4> QED BY <4>1, <2>5 DEF IsSorted
    <3> QED BY <3>1, <2>5, <2>6
  <2>9. ~BeforeWindow(Bmon, d[i].time, f) /\ ~BehindWindow(Bmon, d[i].time, f)
    <3> HIDE DEF f, d
    <3>1. ASSUME NEW a \in Int, NEW b \in Int, NEW t \in Int, NEW v \in Int, NEW w \in Int,
                 NEW s \in Nat, a <= t, t <= b, b - a <= s, 2 * v <= -s, s <= 2 * w
          PROVE  ~(2 * t - (a + b) < 2 * v) /\ ~(2 * t - (a + b) > 2 * w)
      BY <3>1
    <3>2. /\ ~(2 * dataVec[i] - f < 2 * fWindows[Bmon][1])
          /\ ~(2 * dataVec[i] - f > 2 * fWindows[Bmon][2])
      BY <3>1, <2>4, <2>5, <2>7, <2>8
    <3> QED BY <3>2, <2>4, <2>6 DEF BeforeWindow, BehindWindow
  <2>10. f \in Int
    BY <2>7
  <2> HIDE DEF f
  <2> QED BY <2>1, <2>3, <2>4, <2>5, <2>6, <2>9, <2>10, CopyRangeComplete
<1> QED BY <1>1, AllInvariant, PTL

-----------------------------------------------------------------------------
(* Which events are left.                                                  *)

\* The first digi of an address.
IsFirst(digis, a, j) ==
  /\ j \in DOMAIN digis /\ digis[j].address = a
  /\ \A k \in 1 .. j - 1 : digis[k].address # a

LEMMA FirstDigiIsFirst ==
  ASSUME NEW digis \in Seq(Digis), NEW i \in DOMAIN digis
  PROVE  IsFirst(digis, digis[i].address, FirstDigi(digis, i))
<1> DEFINE a == digis[i].address
           Same == {j \in 1 .. i : digis[j].address = a}
           First(j) == /\ digis[j].address = a
                       /\ \A k \in 1 .. j - 1 : digis[k].address # a
<1>1. DOMAIN digis = 1 .. Len(digis) /\ Len(digis) \in Nat /\ i \in 1 .. Len(digis)
  BY DigiFacts
<1>2. Same \in SUBSET Nat /\ i \in Same
  BY <1>1
<1>3. PICK m \in Same : \A x \in Same : m <= x
  <2> HIDE DEF Same
  <2> QED BY <1>2, Least
<1>4. m \in 1 .. i /\ digis[m].address = a
  BY <1>3
<1>5. \A k \in 1 .. m - 1 : digis[k].address # a
  <2> SUFFICES ASSUME NEW k \in 1 .. m - 1, digis[k].address = a PROVE FALSE
    OBVIOUS
  <2>1. k \in Same /\ ~(m <= k)
    BY <1>1, <1>4
  <2> HIDE DEF Same
  <2> QED BY <1>3, <2>1
<1>6. First(m)
  BY <1>4, <1>5
<1>7. FirstDigi(digis, i) = CHOOSE j \in 1 .. i : First(j)
  BY DEF FirstDigi
<1> HIDE DEF First
<1>8. FirstDigi(digis, i) \in 1 .. i /\ First(FirstDigi(digis, i))
  BY <1>4, <1>6, <1>7
<1>9. FirstDigi(digis, i) \in DOMAIN digis
  BY <1>1, <1>8
<1> QED BY <1>8, <1>9 DEF First, IsFirst

LEMMA OneFirst ==
  ASSUME NEW digis \in Seq(Digis), NEW a, NEW i, NEW j, IsFirst(digis, a, i), IsFirst(digis, a, j)
  PROVE  i = j
<1>1. i \in Nat /\ j \in Nat /\ 1 <= i /\ 1 <= j
  BY DigiFacts DEF IsFirst
<1>2. ~(i < j)
  <2> SUFFICES ASSUME i < j PROVE FALSE
    OBVIOUS
  <2>1. i \in 1 .. j - 1
    BY <1>1
  <2> QED BY <2>1 DEF IsFirst
<1>3. ~(j < i)
  <2> SUFFICES ASSUME j < i PROVE FALSE
    OBVIOUS
  <2>1. j \in 1 .. i - 1
    BY <1>1
  <2> QED BY <2>1 DEF IsFirst
<1> QED BY <1>1, <1>2, <1>3

\* The addresses with digis from both sides, as Meets has them.
Hit(digis) == {<<digis[i].address, digis[i].side>> : i \in DOMAIN digis}
BothSides(digis) == {a \in DOMAIN StationOf : \A side \in {0, 1} : <<a, side>> \in Hit(digis)}

\* Comparing each digi with the first of its address finds both sides.
LEMMA ActiveAreBothSides ==
  ASSUME NEW digis \in Seq(Digis)
  PROVE  ActiveStations(digis) = {StationOf[a] : a \in BothSides(digis)} \ {NoStation}
<1> DEFINE Other(k) == digis[k].side # digis[FirstDigi(digis, k)].side
<1>1. /\ DOMAIN digis = 1 .. Len(digis) /\ Len(digis) \in Nat
      /\ \A i \in DOMAIN digis : digis[i] \in Digis
  BY DigiFacts
<1>2. \A i \in DOMAIN digis : digis[i].address \in DOMAIN StationOf /\ digis[i].side \in {0, 1}
  BY <1>1 DEF Digis
<1>3. ASSUME NEW i \in DOMAIN digis, Other(i)
      PROVE  digis[i].address \in BothSides(digis)
  <2>1. /\ FirstDigi(digis, i) \in DOMAIN digis
        /\ digis[FirstDigi(digis, i)].address = digis[i].address
    BY FirstDigiIsFirst DEF IsFirst
  <2>2. ASSUME NEW side \in {0, 1} PROVE <<digis[i].address, side>> \in Hit(digis)
    <3>1. CASE digis[i].side = side
      BY <3>1 DEF Hit
    <3>2. CASE digis[i].side # side
      <4>1. digis[FirstDigi(digis, i)].side = side
        BY <1>2, <1>3, <2>1, <3>2
      <4> QED BY <2>1, <4>1 DEF Hit
    <3> QED BY <3>1, <3>2
  <2> QED BY <1>2, <2>2 DEF BothSides
<1>4. ASSUME NEW a \in BothSides(digis)
      PROVE  \E i \in DOMAIN digis : Other(i) /\ digis[i].address = a
  <2>1. PICK i0 \in DOMAIN digis : digis[i0].address = a /\ digis[i0].side = 0
    BY DEF BothSides, Hit
  <2>2. PICK i1 \in DOMAIN digis : digis[i1].address = a /\ digis[i1].side = 1
    BY DEF BothSides, Hit
  <2>3. FirstDigi(digis, i0) = FirstDigi(digis, i1)
    BY <2>1, <2>2, FirstDigiIsFirst, OneFirst
  <2> QED BY <2>1, <2>2, <2>3
<1>5. ActiveStations(digis) = {StationOf[digis[i].address] : i \in {k \in DOMAIN digis : Other(k)}} \ {NoStation}
  BY DEF ActiveStations
<1> HIDE DEF Other
<1> QED BY <1>3, <1>4, <1>5

LEMMA SelectedMeets ==
  ASSUME InputType, fMaskedChannels[Sts] = {}, fMaskedChannels[Tof] = {},
         NEW event, \A det \in Detectors : event.digis[det] \in Seq(Digis)
  PROVE  IsSelected(event) <=> Meets(event)
<1> DEFINE D(det) == event.digis[det]
           Unmasked(det) == {i \in DOMAIN D(det) : D(det)[i].address \notin fMaskedChannels[det]}
<1>1. \A det \in {Sts, Tof} :
        Cardinality(ActiveStations(D(det)))
          = Cardinality({StationOf[a] : a \in BothSides(D(det))} \ {NoStation})
  BY ActiveAreBothSides DEF Detectors
<1>2. EnoughLayers(event) <=>
        \A det \in {Sts, Tof} :
          Cardinality({StationOf[a] : a \in BothSides(D(det))} \ {NoStation}) >= fMinNumLayers[det]
  BY <1>1 DEF EnoughLayers
<1>3. ASSUME NEW det \in Detectors
      PROVE  /\ Len(D(det)) \in Nat /\ Cardinality(Unmasked(det)) \in Nat
             /\ Cardinality(Unmasked(det)) <= Len(D(det))
             /\ fMaskedChannels[det] = {} => Cardinality(Unmasked(det)) = Len(D(det))
             /\ fMinNumDigis[det] \in Nat
  <2>1. DOMAIN D(det) = 1 .. Len(D(det)) /\ Len(D(det)) \in Nat
    BY DigiFacts
  <2>2. IsFiniteSet(1 .. Len(D(det))) /\ Cardinality(1 .. Len(D(det))) = Len(D(det))
    BY <2>1, FS_Interval
  <2>3. Unmasked(det) \subseteq 1 .. Len(D(det))
    BY <2>1
  <2>4. fMaskedChannels[det] = {} => Unmasked(det) = 1 .. Len(D(det))
    BY <2>1
  <2> HIDE DEF Unmasked, D
  <2>5. /\ IsFiniteSet(Unmasked(det)) /\ Cardinality(Unmasked(det)) \in Nat
        /\ Cardinality(Unmasked(det)) <= Len(D(det))
    BY <2>2, <2>3, FS_Subset, FS_CardinalityType
  <2>6. fMinNumDigis[det] \in Nat
    BY DEF InputType
  <2> QED BY <2>1, <2>2, <2>4, <2>5, <2>6
<1>4. /\ EnoughDigis(event) <=> \A det \in Detectors : Len(D(det)) >= fMinNumDigis[det]
      /\ EnoughUnmasked(event) <=>
           \A det \in Detectors : fMaskedChannels[det] # {} /\ fMinNumDigis[det] > 0
             => (IF det = Bmon THEN Cardinality(Unmasked(det)) ELSE 0) >= fMinNumDigis[det]
  BY DEF EnoughDigis, EnoughUnmasked, nDigisAccepted
<1> HIDE DEF Unmasked, D
<1>5. EnoughDigis(event) /\ EnoughUnmasked(event)
        <=> \A det \in Detectors : Cardinality(Unmasked(det)) >= fMinNumDigis[det]
  <2>1. ASSUME NEW det \in Detectors
        PROVE  /\ Len(D(det)) >= fMinNumDigis[det]
               /\ fMaskedChannels[det] # {} /\ fMinNumDigis[det] > 0
                    => (IF det = Bmon THEN Cardinality(Unmasked(det)) ELSE 0) >= fMinNumDigis[det]
               <=> Cardinality(Unmasked(det)) >= fMinNumDigis[det]
    <3>1. CASE fMaskedChannels[det] = {}
      BY <1>3, <3>1
    <3>2. CASE fMaskedChannels[det] # {}
      <4>1. det = Bmon
        BY <3>2 DEF Detectors
      <4> QED BY <1>3, <3>2, <4>1
    <3> QED BY <3>1, <3>2
  <2> QED BY <1>4, <2>1
<1>6. Meets(event) <=>
        /\ \A det \in Detectors : Cardinality(Unmasked(det)) >= fMinNumDigis[det]
        /\ \A det \in {Sts, Tof} :
             Cardinality({StationOf[a] : a \in BothSides(D(det))} \ {NoStation}) >= fMinNumLayers[det]
  BY DEF Meets, Unmasked, D, BothSides, Hit
<1> QED BY <1>2, <1>5, <1>6 DEF IsSelected

\* What is left are the events that the configuration asks for, in their order.
THEOREM SelectionAsAsked == Spec => []EventsAsSelected
<1>1. AllInv => EventsAsSelected
  <2> SUFFICES ASSUME AllInv, phase = "done", fMaskedChannels[Sts] = {}, fMaskedChannels[Tof] = {}
      PROVE  events = AtPositions(Built, {n \in DOMAIN Built : Meets(Built[n])})
    BY DEF EventsAsSelected, Built
  <2>1. events = AtPositions(Built, Left) /\ InputType
    BY DEF AllInv, BuiltInv
  <2>2. ASSUME NEW n \in DOMAIN Built PROVE IsSelected(Built[n]) <=> Meets(Built[n])
    <3>1. Built[n] = EventOf(Triggers[n])
      BY DEF Built
    <3>2. ASSUME NEW det \in Detectors PROVE Built[n].digis[det] \in Seq(Digis)
      <4>1. Built[n].digis[det] = CopyRange(det, Triggers[n])
        BY <3>1 DEF EventOf
      <4> QED BY <2>1, <4>1, CopyRangeType
    <3> QED BY <2>1, <3>2, SelectedMeets
  <2>3. Left = {n \in DOMAIN Built : Meets(Built[n])}
    BY <2>2 DEF Left
  <2> QED BY <2>1, <2>3
<1> QED BY <1>1, AllInvariant, PTL
=============================================================================
