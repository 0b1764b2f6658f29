------------------------- MODULE CaCompetitionProofs -------------------------
(***************************************************************************)
(* The competition for strips, for every set of hits and candidates, every *)
(* number of stations and rounds.                                          *)
(*                                                                         *)
(* OwnersInv: the candidates alive own their strips alone.  SavedInv: the  *)
(* strips of a saved track are marked, and it comes from a winner.         *)
(* RivalInv: who is dead met a winner or a better candidate.               *)
(***************************************************************************)
EXTENDS CaCompetition, FiniteSetTheorems, TLAPS

\* What the competition relies on: candidates of the pool, and the owner of each
\* strip of a candidate that is alive is that candidate.
OwnersInv ==
  /\ \A i \in DOMAIN cands : i \in Nat /\ cands[i] \in Pool
  /\ alive \subseteq DOMAIN cands
  /\ \A i \in alive : \A k \in StripSet(cands[i].hits) : owner[k] = i

LEMMA StripsAreKeys ==
  ASSUME NEW c \in Pool
  PROVE  StripSet(c.hits) \subseteq Keys
<1>1. c.hits \in Seq(Hits)
  BY CaCompetitionAssumption
<1>2. \A n \in DOMAIN c.hits : c.hits[n] \in Hits
  BY <1>1
<1> QED BY <1>2 DEF StripSet, Keys

\* The candidates of a level are taken from the pool and numbered from one.
LEMMA CreateMakesCands ==
  ASSUME CreateTrackCandidates
  PROVE  \A i \in DOMAIN cands' : i \in Nat /\ cands'[i] \in Pool
<1>1. PICK S \in SUBSET {c \in Pool : /\ Unused(c.hits)
                                      /\ Len(c.hits) >= Max({level + 2, MinLevel + 3})} :
        cands' \in SetToSeqs(S)
  BY DEF CreateTrackCandidates
<1>2. cands' \in [1 .. Cardinality(S) -> S]
  BY <1>1 DEF SetToSeqs
<1>3. DOMAIN cands' = 1 .. Cardinality(S) /\ \A i \in DOMAIN cands' : cands'[i] \in S
  BY <1>2
<1> QED BY <1>1, <1>3

\* A candidate that is dead takes no strip from one that is alive.
LEMMA TakenFromNoneAlive ==
  ASSUME OwnersInv, NEW i, i \notin alive, NEW k \in Taken(i)
  PROVE  owner[k] \notin alive
<1>1. MayTake(i, k)
  BY DEF Taken
<1>2. None \notin alive
  BY CaCompetitionAssumption DEF OwnersInv
<1> QED BY <1>1, <1>2 DEF MayTake

LEMMA InitOwnersInv == Init => OwnersInv
  BY DEF Init, OwnersInv

LEMMA MarkKeepsOwners ==
  ASSUME OwnersInv, MarkStrips
  PROVE  OwnersInv'
<1>1. cands' = cands /\ alive' = alive
  BY DEF MarkStrips
<1>2. ASSUME NEW i \in alive, NEW k \in StripSet(cands[i].hits)
      PROVE  owner'[k] = i
  <2>1. owner[k] = i /\ k \in Keys
    BY StripsAreKeys DEF OwnersInv
  <2>2. next \in alive \/ k \notin Taken(next)
    BY <2>1, TakenFromNoneAlive
  <2> QED BY <2>1, <2>2 DEF MarkStrips
<1> QED BY <1>1, <1>2 DEF OwnersInv, StripSet

\* Who wins a round owns all its strips, and no winner's strips are released.
LEMMA DecideKeepsOwners ==
  ASSUME OwnersInv, DecideRound
  PROVE  OwnersInv'
<1> DEFINE winners == alive \cup {i \in DOMAIN cands : OwnsAll(i)}
<1>1. cands' = cands /\ alive' = winners /\ owner' = ReleaseStrips(winners)
  BY DEF DecideRound
<1>2. ASSUME NEW i \in winners, NEW k \in StripSet(cands[i].hits)
      PROVE  owner'[k] = i
  <2>1. owner[k] = i
    BY DEF OwnersInv, OwnsAll
  <2>2. k \in Keys
    BY StripsAreKeys DEF OwnersInv
  <2> QED BY <1>1, <2>1, <2>2 DEF ReleaseStrips
<1>3. winners \subseteq DOMAIN cands
  BY DEF OwnersInv
<1> QED BY <1>1, <1>2, <1>3 DEF OwnersInv, StripSet

LEMMA NextOwnersInv == OwnersInv /\ [Next]_vars => OwnersInv'
<1> SUFFICES ASSUME OwnersInv, [Next]_vars PROVE OwnersInv'
  OBVIOUS
<1>1. CASE CreateTrackCandidates
  <2>1. alive' = {}
    BY <1>1 DEF CreateTrackCandidates
  <2> QED BY <1>1, <2>1, CreateMakesCands DEF OwnersInv
<1>2. CASE MarkStrips
  BY <1>2, MarkKeepsOwners
<1>3. CASE DecideRound
  BY <1>3, DecideKeepsOwners
<1>4. CASE NextLevel
  BY <1>4 DEF NextLevel, OwnersInv
<1>5. CASE UNCHANGED <<cands, alive, owner>>
  BY <1>5 DEF OwnersInv, StripSet
<1>6. \/ CreateTrackCandidates \/ MarkStrips \/ DecideRound \/ NextLevel
      \/ UNCHANGED <<cands, alive, owner>>
  BY DEF Next, DoCompetitionLoop, SelectTracks, MarkedAll, SelectTrack, vars
<1> QED BY <1>1, <1>2, <1>3, <1>4, <1>5, <1>6

LEMMA OwnersShareNothing == OwnersInv => WinnersShareNoStrip
  BY DEF OwnersInv, WinnersShareNoStrip

\* Candidates that are alive never share a strip, whatever the candidates, their
\* order, their ties and the number of rounds.
THEOREM WinnersAreDisjoint == Spec => []WinnersShareNoStrip
  BY InitOwnersInv, NextOwnersInv, OwnersShareNothing, PTL DEF Spec

-----------------------------------------------------------------------------
\* Tracks saved so far have marked their strips; those of this level come from
\* winners that were selected, and no candidate meets one of an earlier level.
SavedInv ==
  /\ OwnersInv
  /\ level \in Int
  /\ recoTracks \in Seq([hits : Seq(Hits), core : Seq(Hits), level : Int])
  /\ \A n \in DOMAIN recoTracks : StripSet(recoTracks[n].hits) \subseteq used
  /\ \A n \in DOMAIN recoTracks :
       \/ recoTracks[n].level > level
       \/ /\ recoTracks[n].level = level /\ step = "select"
          /\ \E m \in alive : m < next /\ recoTracks[n].core = cands[m].hits
  /\ \A n \in DOMAIN recoTracks : recoTracks[n].level > level =>
       \A i \in DOMAIN cands : StripSet(cands[i].hits) \cap StripSet(recoTracks[n].hits) = {}
  /\ SharedOnlyByExtension

LEMMA StripsOfConcat ==
  ASSUME NEW s \in Seq(Hits), NEW t \in Seq(Hits)
  PROVE  StripSet(s \o t) \subseteq StripSet(s) \cup StripSet(t)
<1>1. ASSUME NEW n \in DOMAIN (s \o t)
      PROVE  (\E m \in DOMAIN s : (s \o t)[n] = s[m]) \/ (\E m \in DOMAIN t : (s \o t)[n] = t[m])
  <2>1. n \in 1 .. Len(s) + Len(t)
    OBVIOUS
  <2>2. CASE n <= Len(s)
    BY <2>1, <2>2
  <2>3. CASE n > Len(s)
    <3>1. n - Len(s) \in DOMAIN t /\ (s \o t)[n] = t[n - Len(s)]
      BY <2>1, <2>3
    <3> QED BY <3>1
  <2> QED BY <2>1, <2>2, <2>3
<1> QED BY <1>1 DEF StripSet

\* An extension only adds hits whose strips nobody uses.
LEMMA ExtensionsAddFree ==
  ASSUME NEW core \in Seq(Hits), NEW hits \in Extensions(core)
  PROVE  /\ hits \in Seq(Hits)
         /\ \A k \in StripSet(hits) : k \in StripSet(core) \/ k \notin used
<1> DEFINE Parts == {<<>>} \cup {<<h>> : h \in Free}
<1>1. HitsBefore(core) \subseteq Parts /\ HitsAfter(core) \subseteq Parts
  BY DEF HitsBefore, HitsAfter
<1> HIDE DEF Parts
<1>2. PICK b \in HitsBefore(core), a \in HitsAfter(core) : hits = b \o core \o a
  BY DEF Extensions
<1>3. b \in Parts /\ a \in Parts /\ hits = b \o core \o a
  BY <1>1, <1>2
<1>4. ASSUME NEW p \in Parts
      PROVE  p \in Seq(Hits) /\ StripSet(p) \cap used = {}
  <2>1. CASE p = <<>>
    BY <2>1 DEF StripSet
  <2>2. CASE p # <<>>
    <3>1. PICK h \in Free : p = <<h>>
      BY <1>4, <2>2 DEF Parts
    <3>2. StripSet(p) = {FrontKey[h], BackKey[h]}
      BY <3>1 DEF StripSet
    <3> QED BY <3>1, <3>2 DEF Free
  <2> QED BY <2>1, <2>2
<1>5. b \in Seq(Hits) /\ a \in Seq(Hits) /\ b \o core \in Seq(Hits)
  BY <1>3, <1>4
<1>6. StripSet(hits) \subseteq StripSet(b) \cup StripSet(core) \cup StripSet(a)
  BY <1>3, <1>5, StripsOfConcat
<1>7. hits \in Seq(Hits)
  BY <1>3, <1>5
<1> QED BY <1>3, <1>4, <1>6, <1>7

LEMMA InitSavedInv == Init => SavedInv
<1> SUFFICES ASSUME Init PROVE SavedInv
  OBVIOUS
<1>1. OwnersInv
  BY InitOwnersInv
<1>2. level \in Int
  BY CaCompetitionAssumption DEF Init
<1> QED BY <1>1, <1>2 DEF Init, SavedInv, SharedOnlyByExtension

\* A track that is saved meets earlier ones of its level only over their
\* extensions, and with what it won itself.
LEMMA SaveKeepsInv ==
  ASSUME SavedInv, SelectTrack, next \in alive
  PROVE  SavedInv'
<1> DEFINE core == cands[next].hits
<1>1. PICK hits \in IF Len(core) < NStations THEN Extensions(core) ELSE {core} :
        /\ used' = MarkUsed(core, hits)
        /\ recoTracks' = Append(recoTracks, [hits |-> hits, core |-> core, level |-> level])
  BY DEF SelectTrack
<1>2. /\ UNCHANGED <<level, step, cands, alive, owner>> /\ step = "select" /\ next' = next + 1
  BY DEF SelectTrack
<1>3. OwnersInv' /\ OwnersInv
  BY NextOwnersInv DEF Next, SelectTracks, SavedInv
<1>4. core \in Seq(Hits) /\ next \in DOMAIN cands /\ next \in Nat
  BY CaCompetitionAssumption, <1>3 DEF OwnersInv
<1>5. /\ hits \in Seq(Hits)
      /\ \A k \in StripSet(hits) : k \in StripSet(core) \/ k \notin used
  BY <1>1, <1>4, ExtensionsAddFree
<1>6. recoTracks' \in Seq([hits : Seq(Hits), core : Seq(Hits), level : Int])
  BY <1>1, <1>4, <1>5 DEF SavedInv
<1> DEFINE N == Len(recoTracks)
<1>7. /\ N \in Nat /\ DOMAIN recoTracks = 1 .. N /\ DOMAIN recoTracks' = 1 .. N + 1
      /\ \A n \in 1 .. N : recoTracks'[n] = recoTracks[n]
      /\ recoTracks'[N + 1] = [hits |-> hits, core |-> core, level |-> level]
  BY <1>1, <1>4, <1>5 DEF SavedInv
<1> HIDE DEF N, core
<1>8. \A n \in DOMAIN recoTracks' : StripSet(recoTracks'[n].hits) \subseteq used'
  BY <1>1, <1>7 DEF SavedInv, MarkUsed
<1>9. ASSUME NEW n \in 1 .. N + 1
      PROVE  \/ recoTracks'[n].level > level
             \/ /\ recoTracks'[n].level = level
                /\ \E m \in alive : m < next' /\ recoTracks'[n].core = cands[m].hits
  <2>1. CASE n \in 1 .. N
    <3>1. CASE recoTracks[n].level > level
      BY <1>7, <2>1, <3>1
    <3>2. CASE ~(recoTracks[n].level > level)
      <4>1. PICK m \in alive : /\ recoTracks[n].level = level
                               /\ m < next /\ recoTracks[n].core = cands[m].hits
        BY <1>7, <2>1, <3>2 DEF SavedInv
      <4>2. m \in Nat
        BY <1>3 DEF OwnersInv
      <4> QED BY <1>2, <1>4, <1>7, <2>1, <4>1, <4>2
    <3> QED BY <3>1, <3>2
  <2>2. CASE n = N + 1
    <3>1. next < next'
      BY <1>2, <1>4
    <3> QED BY <1>7, <2>2, <3>1 DEF core
  <2> QED BY <1>7, <2>1, <2>2
<1>10. ASSUME NEW n \in 1 .. N + 1, recoTracks'[n].level > level, NEW i \in DOMAIN cands
       PROVE  StripSet(cands[i].hits) \cap StripSet(recoTracks'[n].hits) = {}
  <2>1. n \in 1 .. N
    BY <1>7, <1>10 DEF SavedInv
  <2> QED BY <1>7, <1>10, <2>1 DEF SavedInv
<1>11. ASSUME NEW n \in 1 .. N, NEW k \in StripSet(recoTracks[n].hits) \cap StripSet(hits)
       PROVE  /\ recoTracks[n].level = level
              /\ k \notin StripSet(recoTracks[n].core) /\ k \in StripSet(core)
  <2>1. k \in StripSet(core)
    BY <1>5, <1>7 DEF SavedInv
  <2>2. ~(recoTracks[n].level > level)
    BY <1>4, <1>7, <2>1 DEF SavedInv, core
  <2>3. PICK m \in alive : /\ recoTracks[n].level = level
                           /\ m < next /\ recoTracks[n].core = cands[m].hits
    BY <1>7, <2>2 DEF SavedInv
  <2>4. m # next
    BY <2>3, <1>4
  <2>5. StripSet(cands[m].hits) \cap StripSet(core) = {}
    BY <1>3, <2>4, OwnersShareNothing DEF WinnersShareNoStrip, core
  <2> QED BY <2>1, <2>3, <2>5
<1>12. SharedOnlyByExtension'
  <2> SUFFICES ASSUME NEW i \in 1 .. N + 1, NEW j \in 1 .. N + 1, i < j,
                      NEW k \in StripSet(recoTracks'[i].hits) \cap StripSet(recoTracks'[j].hits)
               PROVE  /\ recoTracks'[i].level = recoTracks'[j].level
                      /\ k \notin StripSet(recoTracks'[i].core)
                      /\ k \in StripSet(recoTracks'[j].core)
    BY <1>7 DEF SharedOnlyByExtension
  <2>1. i \in 1 .. N
    BY <1>7
  <2>2. CASE j \in 1 .. N
    BY <1>7, <2>1, <2>2 DEF SavedInv, SharedOnlyByExtension
  <2>3. CASE j = N + 1
    BY <1>7, <1>11, <2>1, <2>3
  <2> QED BY <1>7, <2>2, <2>3
<1>13. level' \in Int
  BY <1>2 DEF SavedInv
<1>14. \A n \in DOMAIN recoTracks' :
        \/ recoTracks'[n].level > level'
        \/ /\ recoTracks'[n].level = level' /\ step' = "select"
           /\ \E m \in alive' : m < next' /\ recoTracks'[n].core = cands'[m].hits
  BY <1>2, <1>7, <1>9
<1>15. \A n \in DOMAIN recoTracks' : recoTracks'[n].level > level' =>
        \A i \in DOMAIN cands' : StripSet(cands'[i].hits) \cap StripSet(recoTracks'[n].hits) = {}
  BY <1>2, <1>7, <1>10
<1> QED BY <1>3, <1>6, <1>8, <1>12, <1>13, <1>14, <1>15 DEF SavedInv
LEMMA SharingUnchanged ==
  ASSUME SavedInv, UNCHANGED recoTracks
  PROVE  SharedOnlyByExtension'
<1>1. SharedOnlyByExtension
  BY DEF SavedInv
<1> QED BY <1>1 DEF SharedOnlyByExtension

\* A new level only looks at candidates that no saved track meets.
LEMMA CreateKeepsSaved ==
  ASSUME SavedInv, CreateTrackCandidates
  PROVE  SavedInv'
<1>1. PICK S \in SUBSET {c \in Pool : /\ Unused(c.hits)
                                      /\ Len(c.hits) >= Max({level + 2, MinLevel + 3})} :
        cands' \in SetToSeqs(S)
  BY DEF CreateTrackCandidates
<1>2. \A i \in DOMAIN cands' : cands'[i] \in S
  BY <1>1 DEF SetToSeqs
<1>3. \A i \in DOMAIN cands' : StripSet(cands'[i].hits) \cap used = {}
  BY <1>1, <1>2 DEF Unused
<1>4. OwnersInv'
  BY NextOwnersInv DEF SavedInv, Next
<1>5. UNCHANGED <<level, used, recoTracks>> /\ step = "create"
  BY DEF CreateTrackCandidates
<1>6. \A n \in DOMAIN recoTracks : recoTracks[n].level > level
  BY <1>5 DEF SavedInv
<1>7. \A n \in DOMAIN recoTracks : \A i \in DOMAIN cands' :
        StripSet(cands'[i].hits) \cap StripSet(recoTracks[n].hits) = {}
  BY <1>3 DEF SavedInv
<1>8. SharedOnlyByExtension'
  BY <1>5, SharingUnchanged
<1> QED BY <1>4, <1>5, <1>6, <1>7, <1>8 DEF SavedInv

\* Behind the last candidate all saved tracks belong to an earlier level.
LEMMA NextLevelKeepsSaved ==
  ASSUME SavedInv, NextLevel
  PROVE  SavedInv'
<1>1. OwnersInv'
  BY NextOwnersInv DEF SavedInv, Next, SelectTracks
<1>2. UNCHANGED <<used, recoTracks>> /\ level' = level - 1 /\ DOMAIN cands' = {}
  BY DEF NextLevel
<1>3. ASSUME NEW n \in DOMAIN recoTracks
      PROVE  recoTracks[n].level \in Int /\ recoTracks[n].level >= level
  <2> DEFINE T == [hits : Seq(Hits), core : Seq(Hits), level : Int]
  <2>1. recoTracks \in Seq(T)
    BY DEF SavedInv
  <2> HIDE DEF T
  <2>2. recoTracks[n] \in T
    BY <2>1
  <2>3. recoTracks[n] \in [hits : Seq(Hits), core : Seq(Hits), level : Int]
    BY <2>2 DEF T
  <2>4. level \in Int /\ (recoTracks[n].level > level \/ recoTracks[n].level = level)
    BY DEF SavedInv
  <2> QED BY <2>3, <2>4
<1>4. level' \in Int /\ \A n \in DOMAIN recoTracks : recoTracks[n].level > level'
  BY <1>2, <1>3 DEF SavedInv
<1>5. SharedOnlyByExtension'
  BY <1>2, SharingUnchanged
<1> QED BY <1>1, <1>2, <1>4, <1>5 DEF SavedInv

\* The competition saves nothing; nor does a candidate that is dead.
LEMMA OthersKeepSaved ==
  ASSUME SavedInv, OwnersInv', UNCHANGED <<level, cands, alive, used, recoTracks>>,
         step' = step, next' = next \/ (next \in Nat /\ next' = next + 1)
  PROVE  SavedInv'
<1>1. \A m \in alive : m \in Nat
  BY DEF SavedInv, OwnersInv
<1>2. \A m \in alive : m < next => m < next'
  BY <1>1
<1>3. SharedOnlyByExtension'
  BY SharingUnchanged
<1> QED BY <1>2, <1>3 DEF SavedInv

LEMMA CompetitionKeepsSaved ==
  ASSUME SavedInv, OwnersInv', UNCHANGED <<level, cands, used, recoTracks>>,
         step # "select"
  PROVE  SavedInv'
<1>1. \A n \in DOMAIN recoTracks : recoTracks[n].level > level
  BY DEF SavedInv
<1>2. SharedOnlyByExtension'
  BY SharingUnchanged
<1> QED BY <1>1, <1>2 DEF SavedInv

NextType == next \in Nat

LEMMA NextSavedInv == SavedInv /\ NextType /\ [Next]_vars => SavedInv'
<1> SUFFICES ASSUME SavedInv, NextType, [Next]_vars PROVE SavedInv'
  OBVIOUS
<1>1. OwnersInv'
  BY NextOwnersInv DEF SavedInv
<1>2. CASE CreateTrackCandidates
  BY <1>2, CreateKeepsSaved
<1>3. CASE DoCompetitionLoop
  <2>1. UNCHANGED <<level, cands, used, recoTracks>> /\ step # "select"
    BY <1>3 DEF DoCompetitionLoop, MarkStrips, MarkedAll, DecideRound
  <2> QED BY <1>1, <2>1, CompetitionKeepsSaved
<1>4. CASE SelectTrack
  <2>1. CASE next \in alive
    BY <1>4, <2>1, SaveKeepsInv
  <2>2. CASE next \notin alive
    BY <1>1, <1>4, <2>2, OthersKeepSaved DEF SelectTrack, NextType
  <2> QED BY <2>1, <2>2
<1>5. CASE NextLevel
  BY <1>5, NextLevelKeepsSaved
<1>6. CASE UNCHANGED vars
  BY <1>1, <1>6, OthersKeepSaved DEF vars
<1> QED BY <1>2, <1>3, <1>4, <1>5, <1>6 DEF Next, SelectTracks

LEMMA NextTypeStep == NextType /\ [Next]_vars => NextType'
  BY DEF NextType, Next, CreateTrackCandidates, DoCompetitionLoop, MarkStrips, MarkedAll, DecideRound,
         SelectTracks, SelectTrack, NextLevel, vars

\* Tracks that are saved share strips only where one was extended over a hit of
\* another winner of its level.
THEOREM OnlyExtensionsShare == Spec => []SharedOnlyByExtension
<1>1. Init => SavedInv /\ NextType
  BY InitSavedInv DEF Init, NextType
<1>2. SavedInv /\ NextType /\ [Next]_vars => (SavedInv /\ NextType)'
  BY NextSavedInv, NextTypeStep
<1>3. SavedInv => SharedOnlyByExtension
  BY DEF SavedInv
<1> QED BY <1>1, <1>2, <1>3, PTL DEF Spec

-----------------------------------------------------------------------------
(* Who stays dead.                                                         *)

\* A candidate owns only strips of its own, and one that is dead and has marked
\* owns all of them still or has a rival that is alive or beats it.
Lost(i) == \E j \in Rivals(i) : j \in alive \/ Beats(j, i)

StripsInv ==
  /\ cands \in Seq(Pool) /\ next \in Nat \ {0} /\ round \in Nat
  /\ DOMAIN owner = Keys
  /\ step \in {"mark", "decide"} =>
       \A k \in Keys : \/ owner[k] = None
                       \/ owner[k] \in DOMAIN cands /\ k \in StripSet(cands[owner[k]].hits)

MarkedInv ==
  /\ step = "mark" => \A i \in DOMAIN cands \ alive : i < next => OwnsAll(i) \/ Lost(i)
  /\ step = "decide" => \A i \in DOMAIN cands \ alive : OwnsAll(i) \/ Lost(i)

RivalInv == StripsInv /\ MarkedInv /\ DeadHaveRivals

\* The strips of a track are those of its hits, front and back.
LEMMA StripsOfHits ==
  ASSUME NEW hits \in Seq(Hits)
  PROVE  /\ DOMAIN Strips(hits) = 1 .. 2 * Len(hits)
         /\ \A n \in DOMAIN Strips(hits) : Strips(hits)[n] \in StripSet(hits)
         /\ \A k \in StripSet(hits) : \E n \in DOMAIN Strips(hits) : Strips(hits)[n] = k
<1>1. DOMAIN Strips(hits) = 1 .. 2 * Len(hits)
  BY DEF Strips
<1>2. ASSUME NEW n \in 1 .. 2 * Len(hits)
      PROVE  Strips(hits)[n] \in StripSet(hits)
  <2>1. (n + 1) \div 2 \in DOMAIN hits
    OBVIOUS
  <2> QED BY <2>1 DEF Strips, StripSet
<1>3. ASSUME NEW i \in DOMAIN hits
      PROVE  /\ 2 * i - 1 \in 1 .. 2 * Len(hits) /\ Strips(hits)[2 * i - 1] = FrontKey[hits[i]]
             /\ 2 * i \in 1 .. 2 * Len(hits) /\ Strips(hits)[2 * i] = BackKey[hits[i]]
  <2>1. i \in 1 .. Len(hits) /\ Len(hits) \in Nat
    OBVIOUS
  <2>2. /\ (2 * i - 1) % 2 = 1 /\ ((2 * i - 1) + 1) \div 2 = i
        /\ (2 * i) % 2 = 0 /\ (2 * i + 1) \div 2 = i
    BY <2>1
  <2>3. 2 * i - 1 \in 1 .. 2 * Len(hits) /\ 2 * i \in 1 .. 2 * Len(hits)
    BY <2>1
  <2> DEFINE a == 2 * i - 1
             b == 2 * i
  <2>4. /\ a \in 1 .. 2 * Len(hits) /\ a % 2 = 1 /\ (a + 1) \div 2 = i
        /\ b \in 1 .. 2 * Len(hits) /\ b % 2 = 0 /\ (b + 1) \div 2 = i
    BY <2>2, <2>3
  <2> HIDE DEF a, b
  <2>5. Strips(hits)[a] = FrontKey[hits[i]] /\ Strips(hits)[b] = BackKey[hits[i]]
    BY <2>4 DEF Strips
  <2> QED BY <2>4, <2>5 DEF a, b
<1>4. ASSUME NEW k \in StripSet(hits)
      PROVE  \E n \in DOMAIN Strips(hits) : Strips(hits)[n] = k
  <2>1. PICK i \in DOMAIN hits : k = FrontKey[hits[i]] \/ k = BackKey[hits[i]]
    BY DEF StripSet
  <2> QED BY <1>1, <1>3, <2>1
<1> QED BY <1>1, <1>2, <1>4

\* Of two candidates one is better than the other, or each is.
LEMMA BetterIsTotal ==
  ASSUME cands \in Seq(Pool), NEW i \in DOMAIN cands, NEW j \in DOMAIN cands,
         ~IsBetterThan(i, j)
  PROVE  IsBetterThan(j, i)
<1>1. cands[i] \in Pool /\ cands[j] \in Pool
  OBVIOUS
<1>2. \A c \in Pool : /\ Len(c.hits) \in Nat /\ FirstStation(c) \in Int /\ c.chi2 \in Int
  <2> TAKE c \in Pool
  <2>1. c.hits \in Seq(Hits) /\ Len(c.hits) >= 3 /\ c.chi2 \in Int
    BY CaCompetitionAssumption
  <2>2. c.hits[1] \in Hits /\ Len(c.hits) \in Nat
    BY <2>1
  <2> QED BY <2>1, <2>2, CaCompetitionAssumption DEF FirstStation
<1> QED BY <1>1, <1>2 DEF IsBetterThan

\* A dead candidate that is stopped at a strip lost it to a rival.
LEMMA StoppedIsLost ==
  ASSUME StripsInv, step = "mark", NEW i \in DOMAIN cands, i \notin alive,
         NEW k \in StripSet(cands[i].hits), ~MayTake(i, k)
  PROVE  Lost(i)
<1> DEFINE j == owner[k]
<1>1. cands \in Seq(Pool) /\ k \in Keys
  BY StripsAreKeys DEF StripsInv
<1>2. j # None /\ j # i /\ (j \in alive \/ ~IsBetterThan(i, j))
  BY DEF MayTake
<1>3. j \in DOMAIN cands /\ k \in StripSet(cands[j].hits)
  BY <1>1, <1>2 DEF StripsInv
<1>4. j \in Rivals(i)
  BY <1>2, <1>3 DEF Rivals
<1>5. j \in alive \/ Beats(j, i)
  BY <1>1, <1>2, <1>3, BetterIsTotal DEF Beats
<1> QED BY <1>4, <1>5 DEF Lost

\* What a dead candidate takes is of its own strips.
LEMMA TakenIsOwn ==
  ASSUME cands \in Seq(Pool), NEW i \in DOMAIN cands
  PROVE  /\ Taken(i) \subseteq StripSet(cands[i].hits)
         /\ \A k \in Taken(i) : MayTake(i, k)
         /\ \A k \in StripSet(cands[i].hits) \ Taken(i) :
              \E l \in StripSet(cands[i].hits) : ~MayTake(i, l)
<1> DEFINE ks == Strips(cands[i].hits)
<1>1. cands[i].hits \in Seq(Hits)
  BY CaCompetitionAssumption
<1>2. /\ DOMAIN ks = 1 .. 2 * Len(cands[i].hits)
      /\ \A n \in DOMAIN ks : ks[n] \in StripSet(cands[i].hits)
      /\ \A k \in StripSet(cands[i].hits) : \E n \in DOMAIN ks : ks[n] = k
  BY <1>1, StripsOfHits
<1>3. Taken(i) = {ks[n] : n \in {m \in DOMAIN ks : MayTake(i, ks[m])
                                    /\ \A l \in 1 .. m - 1 : MayTake(i, ks[l])}}
  BY DEF Taken
<1> HIDE DEF ks
<1>4. ASSUME NEW k \in StripSet(cands[i].hits), k \notin Taken(i)
      PROVE  \E l \in StripSet(cands[i].hits) : ~MayTake(i, l)
  <2>1. PICK n \in DOMAIN ks : ks[n] = k
    BY <1>2
  <2>2. CASE ~MayTake(i, ks[n])
    BY <1>2, <2>2
  <2>3. CASE MayTake(i, ks[n])
    <3>1. PICK l \in 1 .. n - 1 : ~MayTake(i, ks[l])
      BY <1>3, <1>4, <2>1, <2>3
    <3>2. Len(cands[i].hits) \in Nat
      BY <1>1
    <3>3. l \in DOMAIN ks
      BY <1>2, <3>2
    <3> QED BY <1>2, <3>1, <3>3
  <2> QED BY <2>2, <2>3
<1> QED BY <1>2, <1>3, <1>4

\* Marking: who is stopped lost to the owner it met, who is robbed to the robber,
\* who is better or as good, and later.
LEMMA MarkKeepsRivals ==
  ASSUME OwnersInv, RivalInv, MarkStrips
  PROVE  RivalInv'
<1>1. /\ cands' = cands /\ alive' = alive /\ step = "mark" /\ step' = "mark"
      /\ round' = round /\ next' = next + 1
  BY DEF MarkStrips
<1>2. cands \in Seq(Pool) /\ next \in Nat \ {0} /\ next \in DOMAIN cands
  BY DEF RivalInv, StripsInv, MarkStrips
<1>3. \A i \in DOMAIN cands : StripSet(cands[i].hits) \subseteq Keys
  BY <1>2, StripsAreKeys
<1>4. \A i \in DOMAIN cands : (Lost(i))' <=> Lost(i)
  BY <1>1 DEF Lost, Rivals, Beats, IsBetterThan, FirstStation, StripSet
<1>5. CASE next \in alive
  <2>1. owner' = owner
    BY <1>5 DEF MarkStrips
  <2>2. \A i \in DOMAIN cands : (OwnsAll(i))' <=> OwnsAll(i)
    BY <1>1, <2>1 DEF OwnsAll, StripSet
  <2>3. \A i \in DOMAIN cands' \ alive' : i < next' => (OwnsAll(i))' \/ (Lost(i))'
    BY <1>1, <1>2, <1>4, <1>5, <2>2 DEF RivalInv, MarkedInv
  <2>4. StripsInv'
    BY <1>1, <1>2, <2>1 DEF RivalInv, StripsInv, StripSet
  <2> QED BY <1>1, <2>3, <2>4 DEF RivalInv, MarkedInv, DeadHaveRivals
<1>6. CASE next \notin alive
  <2>1. owner' = [k \in Keys |-> IF k \in Taken(next) THEN next ELSE owner[k]]
    BY <1>6 DEF MarkStrips
  <2>2. /\ Taken(next) \subseteq StripSet(cands[next].hits)
        /\ \A k \in Taken(next) : MayTake(next, k)
        /\ \A k \in StripSet(cands[next].hits) \ Taken(next) :
             \E l \in StripSet(cands[next].hits) : ~MayTake(next, l)
    BY <1>2, TakenIsOwn
  <2>3. StripsInv'
    <3>1. \A k \in Keys : \/ owner'[k] = None
                          \/ owner'[k] \in DOMAIN cands' /\ k \in StripSet(cands'[owner'[k]].hits)
      BY <1>1, <1>2, <2>1, <2>2 DEF RivalInv, StripsInv
    <3>2. next + 1 \in Nat \ {0}
      BY <1>2
    <3>3. \A k : k \in StripSet(cands'[owner'[k]].hits) <=> k \in (StripSet(cands[owner[k]].hits))'
      BY <1>1 DEF StripSet
    <3> QED BY <1>1, <1>2, <2>1, <3>1, <3>2, <3>3 DEF RivalInv, StripsInv, StripSet
  <2>4. (\A k \in StripSet(cands[next].hits) : owner'[k] = next) \/ Lost(next)
    <3>1. CASE StripSet(cands[next].hits) \subseteq Taken(next)
      BY <1>2, <1>3, <2>1, <3>1
    <3>2. CASE ~(StripSet(cands[next].hits) \subseteq Taken(next))
      BY <1>1, <1>2, <1>6, <2>2, <3>2, StoppedIsLost DEF RivalInv
    <3> QED BY <3>1, <3>2
  <2>5. ASSUME NEW i \in DOMAIN cands \ alive, i < next
        PROVE  (OwnsAll(i))' \/ Lost(i)
    <3>1. CASE Lost(i)
      BY <3>1
    <3>2. CASE OwnsAll(i) /\ StripSet(cands[i].hits) \cap Taken(next) = {}
      BY <1>1, <1>3, <2>1, <3>2 DEF OwnsAll, StripSet
    <3>3. CASE OwnsAll(i) /\ StripSet(cands[i].hits) \cap Taken(next) # {}
      <4>1. PICK k \in StripSet(cands[i].hits) : k \in Taken(next)
        BY <3>3
      <4>2. owner[k] = i /\ i # next /\ i # None
        BY <1>2, <2>5, <3>3, CaCompetitionAssumption DEF OwnsAll
      <4>3. IsBetterThan(next, i)
        BY <2>2, <4>1, <4>2 DEF MayTake
      <4>4. Beats(next, i)
        BY <1>2, <2>5, <4>3 DEF Beats
      <4>5. next \in Rivals(i)
        BY <1>2, <2>2, <4>1, <4>2 DEF Rivals
      <4> QED BY <4>4, <4>5 DEF Lost
    <3>4. OwnsAll(i) \/ Lost(i)
      BY <1>1, <2>5 DEF RivalInv, MarkedInv
    <3> QED BY <3>1, <3>2, <3>3, <3>4
  <2>6. ASSUME NEW i \in DOMAIN cands' \ alive', i < next'
        PROVE  (OwnsAll(i))' \/ (Lost(i))'
    <3>1. i \in DOMAIN cands \ alive /\ i \in Nat /\ (i < next \/ i = next)
      BY <1>1, <1>2, <2>6
    <3>2. CASE i < next
      BY <1>4, <2>5, <3>1, <3>2
    <3>3. CASE i = next
      <4>1. (OwnsAll(i))' <=> \A k \in StripSet(cands[i].hits) : owner'[k] = i
        BY <1>1 DEF OwnsAll, StripSet
      <4> QED BY <1>4, <2>4, <3>1, <3>3, <4>1
    <3> QED BY <3>1, <3>2, <3>3
  <2> QED BY <1>1, <2>3, <2>6 DEF RivalInv, MarkedInv, DeadHaveRivals
<1> QED BY <1>5, <1>6

\* Candidates are made dead and own nothing.
LEMMA CreateMakesRivals ==
  ASSUME RivalInv, CreateTrackCandidates
  PROVE  RivalInv'
<1>1. PICK S \in SUBSET {c \in Pool : /\ Unused(c.hits)
                                      /\ Len(c.hits) >= Max({level + 2, MinLevel + 3})} :
        cands' \in SetToSeqs(S)
  BY DEF CreateTrackCandidates
<1>2. IsFiniteSet(S) /\ Cardinality(S) \in Nat
  BY <1>1, CaCompetitionAssumption, FS_Subset, FS_CardinalityType
<1>3. cands' \in [1 .. Cardinality(S) -> S]
  BY <1>1 DEF SetToSeqs
<1>4. cands' \in Seq(Pool) /\ \A i \in DOMAIN cands' : i \in Nat /\ i >= 1
  BY <1>1, <1>2, <1>3
<1>5. /\ alive' = {} /\ owner' = [k \in Keys |-> None]
      /\ round' = 0 /\ next' = 1 /\ step' = "mark"
  BY DEF CreateTrackCandidates
<1>6. StripsInv'
  BY <1>4, <1>5 DEF StripsInv
<1>7. MarkedInv' /\ DeadHaveRivals'
  BY <1>4, <1>5 DEF MarkedInv, DeadHaveRivals
<1> QED BY <1>6, <1>7 DEF RivalInv

\* When a round ends without a new winner, the dead have lost to rivals.
LEMMA DecideKeepsRivals ==
  ASSUME RivalInv, DecideRound
  PROVE  RivalInv'
<1> DEFINE winners == alive \cup {i \in DOMAIN cands : OwnsAll(i)}
<1>1. /\ cands' = cands /\ alive' = winners /\ owner' = ReleaseStrips(winners)
      /\ step = "decide" /\ round' = round + 1 /\ next' = 1
      /\ step' = IF Repeats(winners) /\ round + 1 < MaxRounds THEN "mark" ELSE "select"
  BY DEF DecideRound
<1>2. cands \in Seq(Pool) /\ DOMAIN owner = Keys /\ round \in Nat
  BY DEF RivalInv, StripsInv
<1>3. StripsInv'
  <2>1. ASSUME NEW k \in Keys
        PROVE  \/ owner'[k] = None
               \/ owner'[k] \in DOMAIN cands /\ k \in StripSet(cands[owner'[k]].hits)
    BY <1>1, <2>1 DEF ReleaseStrips, RivalInv, StripsInv
  <2>2. DOMAIN owner' = Keys
    BY <1>1 DEF ReleaseStrips
  <2> QED BY <1>1, <1>2, <2>1, <2>2 DEF StripsInv
<1>4. MarkedInv'
  BY <1>1, <1>2 DEF MarkedInv
<1>5. ASSUME step' = "select", round' < MaxRounds, NEW i \in DOMAIN cands' \ alive'
      PROVE  \E j \in Rivals(i)' : j \in alive' \/ Beats(j, i)'
  <2>1. winners = alive
    BY <1>1, <1>2, <1>5, CaCompetitionAssumption DEF Repeats
  <2>2. i \in DOMAIN cands \ alive /\ ~OwnsAll(i)
    BY <1>1, <1>5
  <2>3. Lost(i)
    BY <1>1, <2>2 DEF RivalInv, MarkedInv
  <2>4. Rivals(i)' = Rivals(i) /\ \A j : Beats(j, i)' <=> Beats(j, i)
    BY <1>1 DEF Rivals, Beats, IsBetterThan, FirstStation, StripSet
  <2> QED BY <1>1, <2>1, <2>3, <2>4 DEF Lost
<1>6. DeadHaveRivals'
  BY <1>5 DEF DeadHaveRivals
<1> QED BY <1>3, <1>4, <1>6 DEF RivalInv

LEMMA RivalsUnchanged ==
  ASSUME DeadHaveRivals, UNCHANGED <<step, round, cands, alive>>
  PROVE  DeadHaveRivals'
<1>1. \A i, j : Rivals(i)' = Rivals(i) /\ (Beats(j, i)' <=> Beats(j, i))
  BY DEF Rivals, Beats, IsBetterThan, FirstStation, StripSet
<1> QED BY <1>1 DEF DeadHaveRivals

LEMMA InitRivalInv == Init => RivalInv
  BY DEF Init, RivalInv, StripsInv, MarkedInv, DeadHaveRivals

LEMMA NextRivalInv == OwnersInv /\ RivalInv /\ [Next]_vars => RivalInv'
<1> SUFFICES ASSUME OwnersInv, RivalInv, [Next]_vars PROVE RivalInv'
  OBVIOUS
<1>1. CASE CreateTrackCandidates
  BY <1>1, CreateMakesRivals
<1>2. CASE MarkStrips
  BY <1>2, MarkKeepsRivals
<1>3. CASE MarkedAll
  <2>1. /\ UNCHANGED <<level, cands, alive, owner, round, next, used, recoTracks>>
        /\ step = "mark" /\ next > Len(cands) /\ step' = "decide"
    BY <1>3 DEF MarkedAll
  <2>2. \A i \in DOMAIN cands : i < next
    BY <2>1 DEF RivalInv, StripsInv
  <2>3. \A i \in DOMAIN cands \ alive : OwnsAll(i) \/ Lost(i)
    BY <2>1, <2>2 DEF RivalInv, MarkedInv
  <2>4. \A i : (OwnsAll(i)' <=> OwnsAll(i)) /\ (Lost(i)' <=> Lost(i))
    BY <2>1 DEF OwnsAll, Lost, Rivals, Beats, IsBetterThan, FirstStation, StripSet
  <2>5. MarkedInv'
    BY <2>1, <2>3, <2>4 DEF MarkedInv
  <2>6. StripsInv'
    BY <2>1 DEF RivalInv, StripsInv, StripSet
  <2> QED BY <2>1, <2>5, <2>6 DEF RivalInv, DeadHaveRivals
<1>4. CASE DecideRound
  BY <1>4, DecideKeepsRivals
<1>5. CASE SelectTrack
  <2>1. UNCHANGED <<step, round, cands, alive, owner>> /\ step = "select" /\ next' = next + 1
    BY <1>5 DEF SelectTrack
  <2>2. DeadHaveRivals'
    BY <2>1, RivalsUnchanged DEF RivalInv
  <2>3. StripsInv' /\ MarkedInv'
    BY <2>1 DEF RivalInv, StripsInv, MarkedInv
  <2> QED BY <2>2, <2>3 DEF RivalInv
<1>6. CASE NextLevel
  <2>1. /\ cands' = <<>> /\ next' = 1 /\ UNCHANGED <<owner, round>>
        /\ step' \in {"create", "end"}
    BY <1>6 DEF NextLevel
  <2> QED BY <2>1 DEF RivalInv, StripsInv, MarkedInv, DeadHaveRivals
<1>7. CASE UNCHANGED vars
  <2>1. UNCHANGED <<step, round, cands, alive, owner, next>>
    BY <1>7 DEF vars
  <2>2. DeadHaveRivals'
    BY <2>1, RivalsUnchanged DEF RivalInv
  <2>3. \A i : (OwnsAll(i)' <=> OwnsAll(i)) /\ (Lost(i)' <=> Lost(i))
    BY <2>1 DEF OwnsAll, Lost, Rivals, Beats, IsBetterThan, FirstStation, StripSet
  <2>4. MarkedInv'
    BY <2>1, <2>3 DEF RivalInv, MarkedInv
  <2>5. StripsInv'
    BY <2>1 DEF RivalInv, StripsInv, StripSet
  <2> QED BY <2>2, <2>4, <2>5 DEF RivalInv
<1> QED BY <1>1, <1>2, <1>3, <1>4, <1>5, <1>6, <1>7 DEF Next, DoCompetitionLoop, SelectTracks

\* A candidate that is still dead when the competition ended by itself lost a strip
\* to one that is alive, or to one that beats it.
THEOREM DeadLostToRivals == Spec => []DeadHaveRivals
<1>1. Init => OwnersInv /\ RivalInv
  BY InitOwnersInv, InitRivalInv
<1>2. OwnersInv /\ RivalInv /\ [Next]_vars => (OwnersInv /\ RivalInv)'
  BY NextOwnersInv, NextRivalInv
<1>3. RivalInv => DeadHaveRivals
  BY DEF RivalInv
<1> QED BY <1>1, <1>2, <1>3, PTL DEF Spec
==============================================================================
