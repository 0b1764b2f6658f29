-------------------------- MODULE TimeClusterTrigger --------------------------
(***************************************************************************)
(* TimeClusterTrigger: clusters of data in time.  A window moves over the  *)
(* sorted times; where it holds enough of them it gives a trigger, and the *)
(* search goes on after the dead time.  One step is one round of the loop. *)
(***************************************************************************)
EXTENDS Integers, Sequences

VARIABLES
  trigger,             \* fWinSize, fMinNumData, fDeadTime
  dataVec,             \* the times
  winStart, current,   \* positions in dataVec
  clusters             \* per trigger: first and last datum of its window

triggerVars == <<trigger, dataVec, winStart, current, clusters>>

fWinSize == trigger.fWinSize
fMinNumData == trigger.fMinNumData
fDeadTime == trigger.fDeadTime

IsSorted(s) == \A i, j \in DOMAIN s : i < j => s[i] <= s[j]

\* Twice the time of a trigger, 0.5 * (current + winStart) in the code.
TriggerTime(c) == dataVec[c[1]] + dataVec[c[2]]

Load(data) ==
  /\ dataVec' = data
  /\ winStart' = 1 /\ current' = 1 /\ clusters' = <<>>
  /\ UNCHANGED trigger

-----------------------------------------------------------------------------
\* Mutant: the window is not moved.
KeptStart(w) == w = winStart

\* The window start is moved until the window reaches the current datum.
MovedStart(w) ==
  /\ w \in winStart .. current
  /\ \A v \in winStart .. w - 1 : dataVec[current] - dataVec[v] > fWinSize
  /\ dataVec[current] - dataVec[w] <= fWinSize

\* Mutant: the dead time begins with the window.
DeadFromStart(w) ==
  /\ w \in current + 1 .. Len(dataVec) + 1
  /\ \A v \in current + 1 .. w - 1 : dataVec[v] - dataVec[winStart] <= fDeadTime
  /\ w <= Len(dataVec) => dataVec[w] - dataVec[winStart] > fDeadTime

\* The first datum after the dead time.
AfterDeadTime(w) ==
  /\ w \in current + 1 .. Len(dataVec) + 1
  /\ \A v \in current + 1 .. w - 1 : dataVec[v] - dataVec[current] <= fDeadTime
  /\ w <= Len(dataVec) => dataVec[w] - dataVec[current] > fDeadTime

\* Mutant: one datum more is asked for.
MoreThanEnough(w) == current - w >= fMinNumData

Enough(w) == current - w >= fMinNumData - 1

CreateTrigger(w) ==
  /\ Enough(w)
  /\ clusters' = Append(clusters, <<w, current>>)
  /\ \E next \in current + 1 .. Len(dataVec) + 1 :
       AfterDeadTime(next) /\ winStart' = next /\ current' = next

NextDatum(w) ==
  /\ ~Enough(w)
  /\ winStart' = w /\ current' = current + 1
  /\ UNCHANGED clusters

SearchDone == current > Len(dataVec)

Search ==
  /\ ~SearchDone
  /\ \E w \in winStart .. current :
       MovedStart(w) /\ (CreateTrigger(w) \/ NextDatum(w))
  /\ UNCHANGED <<trigger, dataVec>>

-----------------------------------------------------------------------------
Threshold == IF fMinNumData = 0 THEN 1 ELSE fMinNumData

\* "Each datum can contribute to only one trigger. Consecutive triggers are
\* separated by at least the dead time": the data of a trigger come after those
\* of the one before, by more than the dead time.
TriggersAreSeparated ==
  \A m, n \in DOMAIN clusters : m < n =>
    /\ clusters[m][2] < clusters[n][1]
    /\ dataVec[clusters[n][1]] - dataVec[clusters[m][2]] > fDeadTime

\* Each trigger is made of as many data as the threshold says, as the unit test
\* expects of numInTrigger, and they are within the window.
ClustersAreMinimal ==
  \A n \in DOMAIN clusters :
    /\ clusters[n][2] - clusters[n][1] + 1 = Threshold
    /\ dataVec[clusters[n][2]] - dataVec[clusters[n][1]] <= fWinSize

\* "A trigger is generated when the number density of data exceeds a given
\* threshold": of enough data within a window some belong to a trigger or to its
\* dead time.
NoClusterMissed ==
  \A i \in DOMAIN dataVec :
    LET j == i + Threshold - 1
    IN  j < current /\ j <= Len(dataVec) /\ dataVec[j] - dataVec[i] <= fWinSize
          => \E n \in DOMAIN clusters :
               /\ clusters[n][1] <= j
               /\ dataVec[i] - dataVec[clusters[n][2]] <= fDeadTime
=============================================================================
