------------------------------ MODULE V0Trigger ------------------------------
(***************************************************************************)
(* V0Trigger: pairs of selected tracks that are close in time and meet     *)
(* outside of the target.  The inner loop ends at the first track that is  *)
(* too late, which is right for tracks that are sorted in time; the others *)
(* are counted.                                                            *)
(*                                                                         *)
(* The cuts on a track (Select) and on a pair (CalcPCA, distance and z) are *)
(* numeric: a track has "selected", and "vertices" are the pairs that pass. *)
(***************************************************************************)
EXTENDS Integers, Sequences

VARIABLES
  tracks,                  \* the input: [time, selected] of each
  vertices,                \* the pairs of them that pass the cuts
  PairDeltaT_max,
  trackIter1, trackIter2,
  pairs,                   \* the pairs that gave a trigger
  errTracksUnsorted

v0Vars == <<tracks, vertices, PairDeltaT_max, trackIter1, trackIter2, pairs,
            errTracksUnsorted>>

time1 == tracks[trackIter1].time
time2 == tracks[trackIter2].time
PairTime(p) == tracks[p[1]].time + tracks[p[2]].time   \* twice tVertex

V0Init ==
  /\ trackIter1 = 1 /\ trackIter2 = 2
  /\ pairs = <<>> /\ errTracksUnsorted = 0

V0Done == trackIter1 > Len(tracks)

NextFirst ==
  /\ trackIter1' = trackIter1 + 1 /\ trackIter2' = trackIter1 + 2
  /\ UNCHANGED <<pairs, errTracksUnsorted>>

NextSecond == trackIter2' = trackIter2 + 1 /\ UNCHANGED trackIter1

SkipFirst ==
  /\ trackIter2 > Len(tracks) \/ ~tracks[trackIter1].selected
  /\ NextFirst

BothSelected ==
  /\ trackIter2 <= Len(tracks)
  /\ tracks[trackIter1].selected

SkipSecond ==
  /\ BothSelected /\ ~tracks[trackIter2].selected
  /\ NextSecond
  /\ UNCHANGED <<pairs, errTracksUnsorted>>

\* Mutant: an earlier track is passed over like any other.
NotCounted == UNCHANGED <<pairs, errTracksUnsorted>>

CountUnsorted == errTracksUnsorted' = errTracksUnsorted + 1 /\ UNCHANGED pairs

Unsorted ==
  /\ BothSelected /\ tracks[trackIter2].selected
  /\ time2 < time1
  /\ NextSecond
  /\ CountUnsorted

TooLate ==
  /\ BothSelected /\ tracks[trackIter2].selected
  /\ time2 - time1 > PairDeltaT_max
  /\ NextFirst

FindPair ==
  /\ BothSelected /\ tracks[trackIter2].selected
  /\ time2 - time1 \in 0 .. PairDeltaT_max
  /\ pairs' = IF <<trackIter1, trackIter2>> \in vertices
              THEN Append(pairs, <<trackIter1, trackIter2>>) ELSE pairs
  /\ NextSecond
  /\ UNCHANGED errTracksUnsorted

FindV0s ==
  /\ ~V0Done
  /\ SkipFirst \/ SkipSecond \/ Unsorted \/ TooLate \/ FindPair
  /\ UNCHANGED <<tracks, vertices, PairDeltaT_max>>

-----------------------------------------------------------------------------
\* "The class returns a list of trigger times corresponding to track pairs
\* satisfying the selection criteria": all of them are found, unless
\* errTracksUnsorted tells that the tracks were not in order.
V0FindsEveryPair ==
  V0Done /\ errTracksUnsorted = 0 =>
    {pairs[n] : n \in DOMAIN pairs} =
      {p \in vertices :
         /\ tracks[p[1]].selected /\ tracks[p[2]].selected
         /\ tracks[p[1]].time - tracks[p[2]].time \in -PairDeltaT_max .. PairDeltaT_max}
=============================================================================
