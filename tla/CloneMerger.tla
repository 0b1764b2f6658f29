----------------------------- MODULE CloneMerger -----------------------------
(***************************************************************************)
(* CloneMerger::Exec: pairs of short reconstructed tracks, one of which    *)
(* ends before the other begins, are linked if their extrapolations agree; *)
(* a linked pair becomes one track.  All tracks share one list of hits, in *)
(* which the hits of a track follow each other.                            *)
(*                                                                         *)
(* The chi2 of a pair is open; one above the cut also stands for a pair    *)
(* that the times exclude.                                                 *)
(***************************************************************************)
EXTENDS Integers, Sequences, FiniteSets, SequencesExt

CONSTANTS NTracks,       \* extTracks.size()
          Shapes,        \* what a track may be: the stations of its hits
          NStations,     \* active stations
          Chi2s,         \* chi2 of pairs
          MaxChi2,       \* 50
          ResetChi2,     \* 100000
          NoNeighbour    \* kNoNeighbour

Tracks == 1 .. NTracks

ASSUME CloneMergerAssumption ==
  /\ NTracks \in Nat /\ NStations \in Nat /\ NoNeighbour \notin Tracks
  /\ Chi2s \subseteq Int /\ MaxChi2 \in Int /\ ResetChi2 \in Int /\ MaxChi2 < ResetChi2

ASSUME ShapesAssumption ==
  \A s \in Shapes : /\ s \in Seq(0 .. NStations - 1) /\ s # <<>>
                    /\ \A m, n \in DOMAIN s : m < n => s[m] < s[n]

VARIABLES
  shape,                   \* of each track
  step,                    \* "link", "store", "end"
  iTr, jTr,                \* the loops over pairs; iTr is the downstream track
  neighbour, trackChi2, isDownstreamNeighbour, isStored,
  tracksNew,               \* fTracksNew: [track, nHits]
  recoHits                 \* fRecoHitsNew: <<track, number of its hit>>

links == <<neighbour, trackChi2, isDownstreamNeighbour>>
vars == <<shape, step, iTr, jTr, links, isStored, tracksNew, recoHits>>

firstStation(t) == shape[t][1]
lastStation(t) == shape[t][Len(shape[t])]
maxLengthForMerge == NStations - 3
IsLinked(t) == neighbour[t] # NoNeighbour

Init ==
  /\ shape \in [Tracks -> Shapes]
  /\ step = "link" /\ iTr = 1 /\ jTr = 1
  /\ neighbour = [t \in Tracks |-> NoNeighbour]
  /\ trackChi2 = [t \in Tracks |-> ResetChi2]
  /\ isDownstreamNeighbour = [t \in Tracks |-> FALSE]
  /\ isStored = [t \in Tracks |-> FALSE]
  /\ tracksNew = <<>> /\ recoHits = <<>>

-----------------------------------------------------------------------------
MayMerge(i, j) ==
  /\ i # j /\ firstStation(i) > lastStation(j)
  /\ Len(shape[i]) <= maxLengthForMerge /\ Len(shape[j]) <= maxLengthForMerge

NextPair ==
  /\ iTr' = IF jTr = NTracks THEN iTr + 1 ELSE iTr
  /\ jTr' = IF jTr = NTracks THEN 1 ELSE jTr + 1

AtPair == step = "link" /\ iTr \in Tracks /\ jTr \in Tracks

\* Mutants: only the partner of the first track is released; the chi2 of a
\* partner that is released stays.
OldPartnersOfOne(i, j) == {neighbour[i]} \cap Tracks
KeptChi2(released) == trackChi2

OldPartners(i, j) == {neighbour[i], neighbour[j]} \cap Tracks
FreedChi2(released) == [t \in Tracks |-> IF t \in released THEN ResetChi2 ELSE trackChi2[t]]

Downstream(released, i, j) ==
  [t \in Tracks |-> IF t = i THEN TRUE
                    ELSE t \notin released \cup {j} /\ isDownstreamNeighbour[t]]

\* A pair that agrees better than one of the two did so far: both leave their
\* partners, who are free again.
Link(i, j, chi2) ==
  LET released == OldPartners(i, j)
      freed == FreedChi2(released)
  IN  /\ neighbour' = [t \in Tracks |-> IF t = i THEN j ELSE IF t = j THEN i
                                        ELSE IF t \in released THEN NoNeighbour ELSE neighbour[t]]
      /\ trackChi2' = [t \in Tracks |-> IF t \in {i, j} THEN chi2 ELSE freed[t]]
      /\ isDownstreamNeighbour' = Downstream(released, i, j)

Agrees(i, j, chi2) == chi2 <= MaxChi2 /\ (chi2 < trackChi2[i] \/ chi2 < trackChi2[j])

LinkPair ==
  /\ AtPair /\ MayMerge(iTr, jTr)
  /\ \E chi2 \in Chi2s : Agrees(iTr, jTr, chi2) /\ Link(iTr, jTr, chi2)
  /\ NextPair
  /\ UNCHANGED <<shape, step, isStored, tracksNew, recoHits>>

SkipPair ==
  /\ AtPair
  /\ MayMerge(iTr, jTr) =>
       \E chi2 \in Chi2s : ~Agrees(iTr, jTr, chi2)
  /\ NextPair
  /\ UNCHANGED <<shape, step, links, isStored, tracksNew, recoHits>>

EndOfPairs ==
  /\ step = "link" /\ iTr \notin Tracks
  /\ step' = "store" /\ iTr' = 1 /\ jTr' = 1
  /\ UNCHANGED <<shape, links, isStored, tracksNew, recoHits>>

-----------------------------------------------------------------------------
HitsOf(t) == [n \in DOMAIN shape[t] |-> <<t, n>>]

Merged(t) == IF isDownstreamNeighbour[t] THEN HitsOf(neighbour[t]) \o HitsOf(t)
             ELSE HitsOf(t) \o HitsOf(neighbour[t])

\* Mutant: the partner is not marked as stored.
MarkStoredSelf(t) == [isStored EXCEPT ![t] = TRUE]
MarkStored(t) == [isStored EXCEPT ![neighbour[t]] = TRUE]

StoreTrack ==
  /\ step = "store" /\ iTr \in Tracks /\ ~isStored[iTr]
  /\ IF IsLinked(iTr)
     THEN /\ isStored' = MarkStored(iTr)
          /\ recoHits' = recoHits \o Merged(iTr)
          /\ tracksNew' = Append(tracksNew,
               [track |-> iTr, nHits |-> Len(shape[iTr]) + Len(shape[neighbour[iTr]])])
     ELSE /\ recoHits' = recoHits \o HitsOf(iTr)
          /\ tracksNew' = Append(tracksNew, [track |-> iTr, nHits |-> Len(shape[iTr])])
          /\ UNCHANGED isStored
  /\ iTr' = iTr + 1
  /\ UNCHANGED <<shape, step, jTr, links>>

SkipStored ==
  /\ step = "store" /\ iTr \in Tracks /\ isStored[iTr]
  /\ iTr' = iTr + 1
  /\ UNCHANGED <<shape, step, jTr, links, isStored, tracksNew, recoHits>>

EndOfTracks ==
  /\ step = "store" /\ iTr \notin Tracks
  /\ step' = "end"
  /\ UNCHANGED <<shape, iTr, jTr, links, isStored, tracksNew, recoHits>>

Next == \/ LinkPair \/ SkipPair \/ EndOfPairs
        \/ StoreTrack \/ SkipStored \/ EndOfTracks

Spec == Init /\ [][Next]_vars

-----------------------------------------------------------------------------
\* Type invariant.
TypeOK ==
  /\ shape \in [Tracks -> Shapes]
  /\ step \in {"link", "store", "end"}
  /\ iTr \in 1 .. NTracks + 1 /\ jTr \in 1 .. NTracks + 1
  /\ neighbour \in [Tracks -> Tracks \cup {NoNeighbour}]
  /\ trackChi2 \in [Tracks -> {c \in Chi2s : c <= MaxChi2} \cup {ResetChi2}]
  /\ isDownstreamNeighbour \in [Tracks -> BOOLEAN]
  /\ isStored \in [Tracks -> BOOLEAN]

\* Whatever was displaced by what, links are mutual, at most one per track, and
\* of two linked tracks the one that begins behind the end of the other, and
\* only that one, counts as downstream.
LinksAreMutual ==
  \A t \in Tracks :
    IF IsLinked(t)
    THEN LET p == neighbour[t]
         IN  /\ p # t /\ neighbour[p] = t
             /\ (isDownstreamNeighbour[t] <=> firstStation(t) > lastStation(p))
             /\ isDownstreamNeighbour[t] # isDownstreamNeighbour[p]
    ELSE ~isDownstreamNeighbour[t]

\* A track that lost its partner competes like one that never had any, and
\* partners agree on their chi2.
NoStaleChi2 ==
  \A t \in Tracks : IF IsLinked(t) THEN trackChi2[t] = trackChi2[neighbour[t]]
                    ELSE trackChi2[t] = ResetChi2

\* The lengths of the new tracks cut the list of hits into runs, each with the
\* hits of its track in the order of their stations; no hit stands twice in the
\* list, and in the end none is missing.
StartsOf(lengths) ==
  LET start[n \in 1 .. Len(lengths) + 1] ==
        IF n = 1 THEN 0 ELSE start[n - 1] + lengths[n - 1]
  IN  start
Starts == StartsOf([n \in DOMAIN tracksNew |-> tracksNew[n].nHits])
Run(n) == SubSeq(recoHits, Starts[n] + 1, Starts[n + 1])
EveryHitInItsRun ==
  /\ Len(recoHits) = Starts[Len(tracksNew) + 1] /\ IsInjective(recoHits)
  /\ \A n \in DOMAIN tracksNew :
       /\ Range(HitsOf(tracksNew[n].track)) \subseteq Range(Run(n))
       /\ \A k, l \in DOMAIN Run(n) :
            k < l => shape[Run(n)[k][1]][Run(n)[k][2]] < shape[Run(n)[l][1]][Run(n)[l][2]]
  /\ step = "end" => \A t \in Tracks : Range(HitsOf(t)) \subseteq Range(recoHits)
===============================================================================
