----------------------------- MODULE CaCompetition -----------------------------
(***************************************************************************)
(* CreateTracks of the cellular automaton (class TrackFinderWindow): from  *)
(* the longest tracks to the shortest, candidates are collected, compete   *)
(* for the strips of their hits, and the winners mark their strips used.   *)
(*                                                                         *)
(* A candidate is what CAFindTrack may return for a first triplet: a       *)
(* sequence of unused hits with a chi2.  Which of them it finds is open.   *)
(***************************************************************************)
EXTENDS Integers, Sequences, FiniteSets, SequencesExt, FiniteSetsExt

CONSTANTS Hits, Station, FrontKey, BackKey,   \* of each hit
          Pool,            \* what CAFindTrack may return: [hits, chi2]
          NStations,       \* active stations
          MinLevel,        \* min_level: a track has at least three hits more
          MaxRounds,       \* 100 rounds of the competition
          MaxCandidates,   \* bound on the candidates of one level
          None

Keys == {FrontKey[h] : h \in Hits} \cup {BackKey[h] : h \in Hits}

ASSUME CaCompetitionAssumption ==
  /\ Station \in [Hits -> 0 .. NStations - 1]
  /\ IsFiniteSet(Pool)
  /\ \A c \in Pool : /\ c.hits \in Seq(Hits) /\ Len(c.hits) >= 3 /\ c.chi2 \in Int
                     /\ \A i \in 1 .. Len(c.hits) - 1 : Station[c.hits[i]] < Station[c.hits[i + 1]]
  /\ NStations \in Nat /\ MinLevel \in Nat /\ MaxRounds \in Nat \ {0} /\ None \notin Nat

VARIABLES
  level,        \* firstTripletLevel
  step,         \* "create", "mark", "decide", "select", "end"
  cands,        \* fvTrackCandidates: [hits, chi2]
  alive,        \* the candidates that are alive
  owner,        \* fvHitKeyToTrack: key |-> candidate or None
  round,        \* iComp
  next,         \* the candidate that is marked or selected next
  used,         \* HitKeyFlags
  recoTracks    \* [hits, core, level]; the core of a track is what competed

vars == <<level, step, cands, alive, owner, round, next, used, recoTracks>>

\* The strips of a track in the order in which they are looked at.
Strips(hits) ==
  [n \in 1 .. 2 * Len(hits) |-> LET h == hits[(n + 1) \div 2]
                                IN  IF n % 2 = 1 THEN FrontKey[h] ELSE BackKey[h]]
StripSet(hits) == {FrontKey[hits[i]] : i \in DOMAIN hits} \cup {BackKey[hits[i]] : i \in DOMAIN hits}
Unused(hits) == StripSet(hits) \cap used = {}
FirstStation(c) == Station[c.hits[1]]

Init ==
  /\ level = NStations - 3 /\ step = "create"
  /\ cands = <<>> /\ alive = {} /\ owner = [k \in Keys |-> None]
  /\ round = 0 /\ next = 1
  /\ used = {} /\ recoTracks = <<>>

\* Candidates of unused hits with at least the length of the level, but for one
\* hit, in the order of their first stations.  All are dead and own nothing.
CreateTrackCandidates ==
  /\ step = "create" /\ level >= MinLevel
  /\ \E S \in SUBSET {c \in Pool : /\ Unused(c.hits)
                                   /\ Len(c.hits) >= Max({level + 2, MinLevel + 3})} :
       /\ Cardinality(S) <= MaxCandidates
       /\ \E order \in SetToSeqs(S) :
            /\ \A i, j \in DOMAIN order : i < j => FirstStation(order[i]) <= FirstStation(order[j])
            /\ cands' = order
  /\ alive' = {} /\ owner' = [k \in Keys |-> None]
  /\ round' = 0 /\ next' = 1 /\ step' = "mark"
  /\ UNCHANGED <<level, used, recoTracks>>

-----------------------------------------------------------------------------
\* Branch::IsBetterThan; of two equal ones each is better than the other.
IsBetterThan(i, j) ==
  LET a == cands[i]
      b == cands[j]
  IN  IF Len(a.hits) # Len(b.hits) THEN Len(a.hits) > Len(b.hits)
      ELSE IF FirstStation(a) # FirstStation(b) THEN FirstStation(a) < FirstStation(b)
      ELSE a.chi2 <= b.chi2

\* Mutant: a strip is also taken from a better candidate that is dead.
MayTakeWorse(i, k) == owner[k] \in {None, i} \/ owner[k] \notin alive

\* updateStrip: a strip of another is taken if that one is dead and not better.
MayTake(i, k) == owner[k] \in {None, i} \/ (owner[k] \notin alive /\ IsBetterThan(i, owner[k]))

\* A dead candidate takes its strips up to the first that it may not take.
Taken(i) ==
  LET ks == Strips(cands[i].hits)
  IN  {ks[n] : n \in {n \in DOMAIN ks : MayTake(i, ks[n]) /\ \A l \in 1 .. n - 1 : MayTake(i, ks[l])}}

\* First loop of a round of DoCompetitionLoop.
MarkStrips ==
  /\ step = "mark" /\ next <= Len(cands)
  /\ owner' = IF next \in alive THEN owner
              ELSE [k \in Keys |-> IF k \in Taken(next) THEN next ELSE owner[k]]
  /\ next' = next + 1
  /\ UNCHANGED <<level, step, cands, alive, round, used, recoTracks>>

MarkedAll ==
  /\ step = "mark" /\ next > Len(cands)
  /\ step' = "decide"
  /\ UNCHANGED <<level, cands, alive, owner, round, next, used, recoTracks>>

\* The losers release what they hold.
ReleaseStrips(winners) == [k \in Keys |-> IF owner[k] \in winners THEN owner[k] ELSE None]

\* Mutant: the front strips of a candidate decide.
OwnsFront(i) == \A n \in DOMAIN cands[i].hits : owner[FrontKey[cands[i].hits[n]]] = i

OwnsAll(i) == \A k \in StripSet(cands[i].hits) : owner[k] = i

Repeats(winners) == winners # alive

\* Second loop: who owns all its strips comes alive; if someone did, there is
\* another round.
DecideRound ==
  /\ step = "decide"
  /\ LET winners == alive \cup {i \in DOMAIN cands : OwnsAll(i)}
     IN  /\ owner' = ReleaseStrips(winners)
         /\ alive' = winners
         /\ step' = IF Repeats(winners) /\ round + 1 < MaxRounds THEN "mark" ELSE "select"
  /\ round' = round + 1 /\ next' = 1
  /\ UNCHANGED <<level, cands, used, recoTracks>>

-----------------------------------------------------------------------------
MarkUsed(core, hits) == used \cup StripSet(hits)

\* Mutant: every hit of the window may be added.
FreeAny == Hits

Free == {h \in Hits : {FrontKey[h], BackKey[h]} \cap used = {}}

\* ExtendBranch adds unused hits on stations before and after; here at most one each.
HitsBefore(hits) == {<<>>} \cup {<<h>> : h \in {g \in Free : Station[g] < Station[Head(hits)]}}
HitsAfter(hits) == {<<>>} \cup {<<h>> : h \in {g \in Free : Station[g] > Station[Last(hits)]}}
Extensions(hits) == {b \o hits \o a : b \in HitsBefore(hits), a \in HitsAfter(hits)}

\* SelectTracks, one candidate at a time; only shorter tracks than all stations
\* are extended.  Then the next shorter level begins.
SelectTrack ==
  /\ step = "select" /\ next <= Len(cands)
  /\ LET c == cands[next]
     IN  IF next \in alive
         THEN \E hits \in IF Len(c.hits) < NStations THEN Extensions(c.hits) ELSE {c.hits} :
                /\ used' = MarkUsed(c.hits, hits)
                /\ recoTracks' = Append(recoTracks, [hits |-> hits, core |-> c.hits, level |-> level])
         ELSE UNCHANGED <<used, recoTracks>>
  /\ next' = next + 1
  /\ UNCHANGED <<level, step, cands, alive, owner, round>>

NextLevel ==
  /\ step = "select" /\ next > Len(cands)
  /\ level' = level - 1
  /\ step' = IF level > MinLevel THEN "create" ELSE "end"
  /\ cands' = <<>> /\ alive' = {} /\ next' = 1
  /\ UNCHANGED <<owner, round, used, recoTracks>>

DoCompetitionLoop == MarkStrips \/ MarkedAll \/ DecideRound
SelectTracks == SelectTrack \/ NextLevel

Next == CreateTrackCandidates \/ DoCompetitionLoop \/ SelectTracks

Spec == Init /\ [][Next]_vars /\ WF_vars(Next)

-----------------------------------------------------------------------------
\* Two candidates that are alive never share a strip, in any round and whatever
\* the order and the ties of the candidates.
WinnersShareNoStrip ==
  \A i, j \in alive : i # j => StripSet(cands[i].hits) \cap StripSet(cands[j].hits) = {}

\* Two tracks share a strip only where the first was extended over a hit that the
\* second, already alive at the same level, had won.
SharedOnlyByExtension ==
  \A i, j \in DOMAIN recoTracks :
    LET a == recoTracks[i]
        b == recoTracks[j]
    IN  i < j => \A k \in StripSet(a.hits) \cap StripSet(b.hits) :
                   a.level = b.level /\ k \notin StripSet(a.core) /\ k \in StripSet(b.core)

\* A candidate that stays dead lost a strip to one that is alive, or to one that
\* is better, or as good and later.  Hence the best of the dead have rivals that
\* are alive, but not all: a dead one can keep others dead that no winner meets.
Rivals(i) == {j \in DOMAIN cands \ {i} : StripSet(cands[i].hits) \cap StripSet(cands[j].hits) # {}}
Beats(j, i) == IsBetterThan(j, i) /\ (IsBetterThan(i, j) => j > i)
DeadHaveRivals ==
  step = "select" /\ round < MaxRounds =>
    \A i \in DOMAIN cands \ alive : \E j \in Rivals(i) : j \in alive \/ Beats(j, i)
=============================================================================
