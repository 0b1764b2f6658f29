------------------------- MODULE GnnCompetitionProofs -------------------------
(***************************************************************************)
(* What the altruistic competition leaves, for every set of hits and of    *)
(* candidates, whatever the classifier rejects.                            *)
(*                                                                         *)
(* The inductive invariant has three parts: Shape, for the lengths of the  *)
(* tracks; Flags, for whose the flags are; Apart, for who may share a      *)
(* strip.  All need that a candidate has no strip of a saved track: it was *)
(* found with the flags of these set, and they are never taken back.       *)
(***************************************************************************)
EXTENDS GnnCompetition, FiniteSetTheorems, SequenceTheorems, WellFoundedInduction, TLAPS

-----------------------------------------------------------------------------
(* Facts about the data.                                                   *)

LEMMA MinIsLeast ==
  ASSUME NEW S \in SUBSET Nat, S # {}
  PROVE  Min(S) \in S
<1> DEFINE R == OpToRel(<, Nat)
<1>1. IsWellFoundedOn(R, Nat)
  BY NatLessThanWellFounded
<1>2. PICK m \in S : \A y \in S : ~(<<y, m>> \in R)
  <2> HIDE DEF R
  <2> QED BY <1>1, WFMin
<1>3. \A y \in S : ~(y < m)
  BY <1>2 DEF OpToRel
<1>4. m \in S /\ \A y \in S : m <= y
  BY <1>3
<1> QED BY <1>4 DEF Min

\* A list with one element less.
IsRemoved(r, s, i) ==
  /\ Len(r) = Len(s) - 1 /\ DOMAIN r = 1 .. Len(s) - 1
  /\ \A k \in 1 .. i - 1 : r[k] = s[k]
  /\ \A k \in i .. Len(s) - 1 : r[k] = s[k + 1]

LEMMA RemoveAtFacts ==
  ASSUME NEW S, NEW s \in Seq(S), NEW i \in 1 .. Len(s)
  PROVE  RemoveAt(s, i) \in Seq(S) /\ IsRemoved(RemoveAt(s, i), s, i)
<1> DEFINE a == SubSeq(s, 1, i - 1)
           b == SubSeq(s, i + 1, Len(s))
<1>1. Len(s) \in Nat /\ i \in Nat /\ 1 <= i /\ i <= Len(s)
  OBVIOUS
<1>2. /\ a \in Seq(S) /\ Len(a) = i - 1 /\ \A k \in 1 .. i - 1 : a[k] = s[k]
  BY <1>1
<1>3. /\ b \in Seq(S) /\ Len(b) = Len(s) - i
      /\ \A k \in 1 .. Len(s) - i : b[k] = s[i + k]
  <2>1. b \in Seq(S) /\ Len(b) = Len(s) - i
    BY <1>1
  <2>2. \A k \in 1 .. Len(s) - i : b[k] = s[(i + 1) + k - 1]
    BY <1>1
  <2>3. \A k \in 1 .. Len(s) - i : (i + 1) + k - 1 = i + k
    BY <1>1
  <2> QED BY <2>1, <2>2, <2>3
<1> HIDE DEF a, b
<1> DEFINE r == a \o b
<1>4. r \in Seq(S) /\ Len(r) = Len(s) - 1 /\ DOMAIN r = 1 .. Len(s) - 1
  <2>1. a \in Seq(S) /\ b \in Seq(S)
    BY <1>2, <1>3
  <2>3. r \in Seq(S) /\ Len(r) = Len(a) + Len(b)
    BY <2>1
  <2>2. Len(r) = Len(s) - 1
    BY <1>1, <1>2, <1>3, <2>3
  <2> HIDE DEF r
  <2> QED BY <2>2, <2>3
<1>5. \A k \in 1 .. i - 1 : r[k] = s[k]
  BY <1>1, <1>2, <1>3
<1>6. ASSUME NEW k \in i .. Len(s) - 1 PROVE r[k] = s[k + 1]
  <2>1. k - (i - 1) \in 1 .. Len(s) - i /\ i + (k - (i - 1)) = k + 1
    BY <1>1
  <2>2. k \in 1 .. Len(a) + Len(b) /\ ~(k <= Len(a)) /\ k - Len(a) = k - (i - 1)
    BY <1>1, <1>2, <1>3
  <2>3. r[k] = b[k - Len(a)]
    BY <1>2, <1>3, <2>2
  <2>4. b[k - (i - 1)] = s[i + (k - (i - 1))]
    BY <1>3, <2>1
  <2> QED BY <2>1, <2>2, <2>3, <2>4
<1>7. RemoveAt(s, i) = r
  BY DEF RemoveAt, a, b
<1> HIDE DEF r
<1> QED BY <1>4, <1>5, <1>6, <1>7 DEF IsRemoved

\* Counting from the front of a finite set of positions comes to each number.
LEMMA PositionsExist ==
  ASSUME NEW N \in Nat, NEW S \in SUBSET (1 .. N), NEW k \in 1 .. Cardinality(S)
  PROVE  \E i \in S : Cardinality({j \in S : j < i}) = k - 1
<1> DEFINE before(i) == {j \in S : j < i}
<1>1. IsFiniteSet(S)
  <2>1. IsFiniteSet(1 .. N)
    BY FS_Interval
  <2> QED BY <2>1, FS_Subset
<1>2. Cardinality(S) \in Nat
  BY <1>1, FS_CardinalityType
<1>3. ASSUME NEW i \in S
      PROVE  /\ IsFiniteSet(before(i)) /\ Cardinality(before(i)) \in 0 .. Cardinality(S) - 1
  <2>1. before(i) \in SUBSET S /\ before(i) # S
    OBVIOUS
  <2> HIDE DEF before
  <2>2. /\ IsFiniteSet(before(i)) /\ Cardinality(before(i)) <= Cardinality(S)
        /\ Cardinality(before(i)) # Cardinality(S)
    BY <1>1, <2>1, FS_Subset
  <2>3. Cardinality(before(i)) \in Nat
    BY <2>2, FS_CardinalityType
  <2> QED BY <1>2, <2>2, <2>3
<1>4. ASSUME NEW i \in S, NEW l \in S, i < l
      PROVE  Cardinality(before(i)) < Cardinality(before(l))
  <2>1. before(i) \in SUBSET before(l) /\ i \in before(l) /\ i \notin before(i)
    <3>1. i \in Int /\ l \in Int /\ \A j \in S : j \in Int
      OBVIOUS
    <3>2. \A j \in S : j < i => j < l
      BY <1>4, <3>1
    <3>3. before(i) \in SUBSET before(l)
      BY <3>2
    <3>4. i \in before(l) /\ ~(i < i)
      BY <1>4, <3>1
    <3> QED BY <3>3, <3>4
  <2> HIDE DEF before
  <2>2. before(i) # before(l) /\ IsFiniteSet(before(l))
    BY <1>3, <2>1
  <2>3. /\ Cardinality(before(i)) <= Cardinality(before(l))
        /\ Cardinality(before(i)) # Cardinality(before(l))
    BY <2>1, <2>2, FS_Subset
  <2>4. Cardinality(before(i)) \in Nat /\ Cardinality(before(l)) \in Nat
    BY <1>3
  <2> QED BY <2>3, <2>4
<1> SUFFICES ASSUME \A i \in S : Cardinality(before(i)) # k - 1 PROVE FALSE
  OBVIOUS
<1> DEFINE T == (0 .. Cardinality(S) - 1) \ {k - 1}
           f == [i \in S |-> Cardinality(before(i))]
<1>5. f \in [S -> T]
  BY <1>3
<1>6. IsFiniteSet(T) /\ Cardinality(T) = Cardinality(S) - 1
  <2> DEFINE n == Cardinality(S)
             U == 0 .. n - 1
  <2>1. n \in Nat /\ k \in 1 .. n
    BY <1>2
  <2>2. k - 1 \in U
    BY <2>1
  <2> HIDE DEF n
  <2>3. IsFiniteSet(U) /\ Cardinality(U) = n
    <3>1. n - 1 \in Int /\ 0 \in Int
      BY <2>1
    <3>2. IsFiniteSet(U) /\ Cardinality(U) = IF 0 > n - 1 THEN 0 ELSE (n - 1) - 0 + 1
      BY <3>1, FS_Interval
    <3> QED BY <2>1, <3>2
  <2> HIDE DEF U
  <2>4. IsFiniteSet(U \ {k - 1}) /\ Cardinality(U \ {k - 1}) = n - 1
    BY <2>2, <2>3, FS_RemoveElement
  <2> QED BY <2>4 DEF n, U
<1>7. \E x, y \in S : x # y /\ f[x] = f[y]
  <2>1. Cardinality(T) < Cardinality(S)
    BY <1>2, <1>6
  <2> HIDE DEF T, f
  <2> QED BY <1>1, <1>5, <1>6, <2>1, FS_PigeonHole
<1>8. PICK x \in S, y \in S : x # y /\ Cardinality(before(x)) = Cardinality(before(y))
  BY <1>7
<1>9. x < y \/ y < x
  BY <1>8
<1>10. Cardinality(before(x)) \in Int /\ Cardinality(before(y)) \in Int
  BY <1>3
<1> HIDE DEF before
<1> QED BY <1>4, <1>8, <1>9, <1>10

IsPart(q, s, S) == DOMAIN q = 1 .. Cardinality(S) /\ \A k \in DOMAIN q : \E i \in S : q[k] = s[i]

LEMMA AtPositionsIsPart ==
  ASSUME NEW s, NEW N \in Nat, NEW S \in SUBSET (1 .. N)
  PROVE  IsPart(AtPositions(s, S), s, S)
<1>1. DOMAIN AtPositions(s, S) = 1 .. Cardinality(S)
  BY DEF AtPositions
<1>2. ASSUME NEW k \in 1 .. Cardinality(S) PROVE \E i \in S : AtPositions(s, S)[k] = s[i]
  <2> DEFINE i == CHOOSE i \in S : Cardinality({j \in S : j < i}) = k - 1
  <2>1. i \in S
    BY PositionsExist
  <2>2. AtPositions(s, S)[k] = s[i]
    BY DEF AtPositions
  <2> HIDE DEF i
  <2> QED BY <2>1, <2>2
<1> QED BY <1>1, <1>2 DEF IsPart

-----------------------------------------------------------------------------
(* Strips.                                                                 *)

\* All hits of g are hits of h.
AreAmong(g, h) == \A k \in DOMAIN g : \E n \in DOMAIN h : g[k] = h[n]

LEMMA StripsAmong ==
  ASSUME NEW g, NEW h, AreAmong(g, h)
  PROVE  Strips(g) \subseteq Strips(h)
  BY DEF AreAmong, Strips

\* Without its used hits a track has no used strip.
LEMMA FreeHitsFacts ==
  ASSUME Track.hits \in Seq(Hits)
  PROVE  /\ FreeHits \in Seq(Hits) /\ Len(FreeHits) = NLeft
         /\ AreAmong(FreeHits, Track.hits) /\ Strips(FreeHits) \cap used = {}
<1> DEFINE h == Track.hits
           D == DOMAIN h
           S == D \ UsedAt
<1>1. /\ Len(h) \in Nat /\ D = 1 .. Len(h) /\ UsedAt \in SUBSET D
      /\ \A n \in S : h[n] \in Hits /\ ~IsUsed(h[n])
  BY DEF UsedAt
<1>2. /\ IsFiniteSet(S) /\ Cardinality(S) = Len(h) - Cardinality(UsedAt)
      /\ Cardinality(S) \in Nat
  <2>1. IsFiniteSet(D) /\ Cardinality(D) = Len(h)
    BY <1>1, FS_Interval
  <2>2. D \cap UsedAt = UsedAt
    BY <1>1
  <2> HIDE DEF D
  <2>3. IsFiniteSet(S) /\ Cardinality(S) = Cardinality(D) - Cardinality(D \cap UsedAt)
    BY <2>1, FS_Difference
  <2> HIDE DEF S
  <2> QED BY <2>1, <2>2, <2>3, FS_CardinalityType
<1>3. IsPart(FreeHits, h, S)
  <2>1. S \in SUBSET (1 .. Len(h))
    BY <1>1
  <2>2. FreeHits = AtPositions(h, S)
    BY DEF FreeHits
  <2> HIDE DEF S, h
  <2> QED BY <1>1, <2>1, <2>2, AtPositionsIsPart
<1>4. FreeHits = [k \in 1 .. Cardinality(S) |-> FreeHits[k]]
  BY DEF FreeHits, AtPositions
<1> HIDE DEF S
<1>5. \A k \in 1 .. Cardinality(S) : FreeHits[k] \in Hits /\ ~IsUsed(FreeHits[k])
  BY <1>1, <1>3 DEF IsPart
<1>6. FreeHits \in Seq(Hits) /\ Len(FreeHits) = Cardinality(S)
  <2>1. FreeHits \in [1 .. Cardinality(S) -> Hits]
    BY <1>4, <1>5, Zenon
  <2> QED BY <1>2, <2>1
<1>7. Strips(FreeHits) \cap used = {}
  BY <1>3, <1>5 DEF IsPart, Strips, IsUsed
<1>8. AreAmong(FreeHits, h)
  BY <1>1, <1>3 DEF IsPart, AreAmong, S
<1> QED BY <1>2, <1>6, <1>7, <1>8 DEF NLeft

\* The first of the given hits is taken out of a track of a donor.
LEMMA GivenFacts ==
  ASSUME NEW b, tracks[b].hits \in Seq(Hits), Given(b) # {}
  PROVE  LET h == tracks[b].hits
             g == RemoveAt(h, Min(Given(b)))
         IN  /\ g \in Seq(Hits) /\ Len(g) = Len(h) - 1
             /\ AreAmong(g, h) /\ Cleared(b) \subseteq Strips(h)
             /\ Strips(h) \subseteq Strips(g) \cup Cleared(b)
<1> DEFINE h == tracks[b].hits
           i == Min(Given(b))
           g == RemoveAt(h, i)
<1>1. Len(h) \in Nat /\ DOMAIN h = 1 .. Len(h) /\ h \in Seq(Hits)
  OBVIOUS
<1>2. i \in 1 .. Len(h)
  <2>1. Given(b) \in SUBSET Nat /\ Given(b) \in SUBSET (1 .. Len(h))
    BY DEF Given
  <2>2. i \in Given(b)
    BY <2>1, MinIsLeast
  <2> QED BY <2>1, <2>2
<1>3. Cleared(b) = StripsOf(h[i])
  BY DEF Cleared
<1> HIDE DEF h, i
<1>4. g \in Seq(Hits) /\ IsRemoved(g, h, i)
  BY <1>1, <1>2, RemoveAtFacts
<1> HIDE DEF g
<1>5. /\ Len(g) = Len(h) - 1 /\ DOMAIN g = 1 .. Len(h) - 1
      /\ \A k \in 1 .. i - 1 : g[k] = h[k]
      /\ \A k \in i .. Len(h) - 1 : g[k] = h[k + 1]
  BY <1>4 DEF IsRemoved
<1>6. AreAmong(g, h)
  <2> SUFFICES ASSUME NEW k \in 1 .. Len(h) - 1 PROVE \E n \in 1 .. Len(h) : g[k] = h[n]
    BY <1>1, <1>5 DEF AreAmong
  <2>1. CASE k < i
    <3>1. k \in 1 .. i - 1 /\ k \in 1 .. Len(h)
      BY <1>1, <1>2, <2>1
    <3> QED BY <1>5, <3>1
  <2>2. CASE ~(k < i)
    <3>1. k \in i .. Len(h) - 1 /\ k + 1 \in 1 .. Len(h)
      BY <1>1, <1>2, <2>2
    <3> QED BY <1>5, <3>1
  <2> QED BY <2>1, <2>2
<1>7. ASSUME NEW n \in 1 .. Len(h), n # i PROVE \E k \in DOMAIN g : h[n] = g[k]
  <2>1. CASE n < i
    <3>1. n \in 1 .. i - 1 /\ n \in 1 .. Len(h) - 1
      BY <1>1, <1>2, <2>1
    <3> QED BY <1>5, <3>1
  <2>2. CASE ~(n < i)
    <3>1. n - 1 \in i .. Len(h) - 1 /\ n - 1 \in 1 .. Len(h) - 1 /\ (n - 1) + 1 = n
      BY <1>1, <1>2, <1>7, <2>2
    <3>2. g[n - 1] = h[n]
      BY <1>5, <3>1
    <3> QED BY <1>5, <3>1, <3>2
  <2> QED BY <2>1, <2>2
<1>8. Strips(h) \subseteq Strips(g) \cup Cleared(b)
  BY <1>1, <1>3, <1>7 DEF Strips
<1>9. Cleared(b) \subseteq Strips(h)
  BY <1>1, <1>2, <1>3 DEF Strips
<1>10. /\ g \in Seq(Hits) /\ Len(g) = Len(h) - 1 /\ AreAmong(g, h) /\ Cleared(b) \subseteq Strips(h)
       /\ Strips(h) \subseteq Strips(g) \cup Cleared(b)
  BY <1>4, <1>5, <1>6, <1>8, <1>9
<1> QED BY <1>10 DEF g, h, i

-----------------------------------------------------------------------------
(* The invariant.                                                          *)

Candidates == [hits : Seq(Hits), score : Nat]
RecoTracks == [hits : Seq(Hits), iter : Nat, beggars : Nat]

Shape ==
  /\ iter \in Nat /\ beggars \in Nat /\ step \in {"create", "compete", "save"}
  /\ tracks \in Seq(Candidates) /\ recoTracks \in Seq(RecoTracks)
  /\ \A n \in DOMAIN tracks : Len(tracks[n].hits) >= MinLength
  /\ \A n \in DOMAIN recoTracks : Len(recoTracks[n].hits) >= MinLength
  /\ iTrack \in 1 .. Len(tracks) + 1
  /\ step = "create" => tracks = <<>>
  /\ step = "save" => iTrack = Len(tracks) + 1

\* No candidate has a strip of a saved track, and the flags of these stay set.
Flags ==
  /\ used \subseteq Accepted \cup Saved /\ Saved \subseteq used
  /\ \A n \in DOMAIN tracks : Strips(tracks[n].hits) \cap Saved = {}

\* As long as nobody begged, accepted tracks have flags of their own.
AcceptedApart ==
  \A n \in 1 .. iTrack - 1 :
    /\ Strips(tracks[n].hits) \subseteq used
    /\ \A m \in 1 .. iTrack - 1 :
         m # n => Strips(tracks[m].hits) \cap Strips(tracks[n].hits) = {}

Apart ==
  /\ SharedOnlyByBegging
  /\ beggars = 0 => AcceptedApart

GnnInv == Shape /\ Flags /\ Apart

LEMMA ShapeFacts ==
  ASSUME Shape
  PROVE  /\ Len(tracks) \in Nat /\ DOMAIN tracks = 1 .. Len(tracks)
         /\ \A n \in 1 .. Len(tracks) : tracks[n] \in Candidates
         /\ \A n \in 1 .. Len(tracks) : /\ tracks[n].hits \in Seq(Hits) /\ tracks[n].score \in Nat
                                        /\ Len(tracks[n].hits) >= MinLength
         /\ \A n \in 1 .. iTrack - 1 : n \in 1 .. Len(tracks) /\ n # iTrack
         /\ iTrack \in Nat \ {0}
<1>1. /\ Len(tracks) \in Nat /\ DOMAIN tracks = 1 .. Len(tracks)
      /\ \A n \in 1 .. Len(tracks) : tracks[n] \in Candidates
  BY DEF Shape
<1>2. \A n \in 1 .. Len(tracks) : tracks[n].hits \in Seq(Hits) /\ tracks[n].score \in Nat
  BY <1>1 DEF Candidates
<1>3. iTrack \in 1 .. Len(tracks) + 1 /\ \A n \in DOMAIN tracks : Len(tracks[n].hits) >= MinLength
  BY DEF Shape
<1>4. \A n \in 1 .. iTrack - 1 : n \in 1 .. Len(tracks) /\ n # iTrack
  BY <1>1, <1>3
<1> QED BY <1>1, <1>2, <1>3, <1>4

\* While the saved tracks are as before, what is said of them is.
LEMMA SavedStay ==
  ASSUME UNCHANGED recoTracks
  PROVE  Saved' = Saved /\ (SharedOnlyByBegging => SharedOnlyByBegging')
  BY DEF Saved, SharedOnlyByBegging

LEMMA InitGnnInv == Init => GnnInv
<1> SUFFICES ASSUME Init PROVE GnnInv
  OBVIOUS
<1>1. Shape
  BY DEF Init, Shape
<1>2. Flags
  BY DEF Init, Flags, Saved
<1>3. Apart
  BY DEF Init, Apart, AcceptedApart, SharedOnlyByBegging
<1> QED BY <1>1, <1>2, <1>3 DEF GnnInv

LEMMA CreateKeeps ==
  ASSUME GnnInv, CreateCandidates
  PROVE  GnnInv'
<1>1. /\ step = "create" /\ iTrack' = 1 /\ beggars' = 0
      /\ UNCHANGED <<iter, used, recoTracks>>
  BY DEF CreateCandidates
<1>2. PICK S \in SUBSET Found : \/ tracks' = <<>> /\ step' = "save"
                                \/ tracks' \in Sorted(S) /\ step' = "compete"
  <2>1. PICK S \in SUBSET Found :
          IF Iterations[iter] = 3 /\ Short(S) = {}
          THEN tracks' = <<>> /\ step' = "save"
          ELSE \E rejected \in IF Iterations[iter] = 3 THEN SUBSET Short(S) ELSE {{}} :
                 tracks' \in Sorted(S \ rejected) /\ step' = "compete"
    BY DEF CreateCandidates
  <2>2. CASE tracks' = <<>> /\ step' = "save"
    BY <2>2
  <2>3. CASE \E rejected : tracks' \in Sorted(S \ rejected) /\ step' = "compete"
    <3>1. PICK rejected : tracks' \in Sorted(S \ rejected) /\ step' = "compete"
      BY <2>3
    <3>2. S \ rejected \in SUBSET Found
      OBVIOUS
    <3> QED BY <3>1, <3>2
  <2> QED BY <2>1, <2>2, <2>3
<1>3. \A c \in Found : /\ c \in Candidates /\ Len(c.hits) >= MinLength
                       /\ Strips(c.hits) \cap used = {}
  BY GnnCompetitionAssumption DEF Found, Candidates
<1>4. tracks' \in Seq(Found) /\ Len(tracks') \in Nat /\ (step' = "save" => tracks' = <<>>)
      /\ step' \in {"compete", "save"}
  <2>1. CASE tracks' = <<>> /\ step' = "save"
    BY <2>1
  <2>2. CASE tracks' \in Sorted(S) /\ step' = "compete"
    <3>1. IsFiniteSet(S) /\ Cardinality(S) \in Nat
      <4>1. S \in SUBSET Pool /\ IsFiniteSet(Pool)
        BY GnnCompetitionAssumption DEF Found
      <4>2. IsFiniteSet(S)
        BY <4>1, FS_Subset
      <4> QED BY <4>2, FS_CardinalityType
    <3>2. tracks' \in SetToSeqs(S)
      BY <2>2 DEF Sorted
    <3>3. tracks' \in [1 .. Cardinality(S) -> S]
      BY <3>2 DEF SetToSeqs
    <3> HIDE DEF Found
    <3>4. tracks' \in [1 .. Cardinality(S) -> Found]
      BY <3>3
    <3>5. tracks' \in Seq(Found) /\ Len(tracks') = Cardinality(S)
      BY <3>1, <3>4
    <3> QED BY <2>2, <3>1, <3>5
  <2> QED BY <1>2, <2>1, <2>2
<1>5. \A n \in DOMAIN tracks' : tracks'[n] \in Found
  BY <1>4
<1>6. tracks' \in Seq(Candidates)
  BY <1>3, <1>4
<1>7. Shape'
  <2>1. \A n \in DOMAIN tracks' : Len(tracks'[n].hits) >= MinLength
    BY <1>3, <1>5
  <2>2. 1 \in 1 .. Len(tracks') + 1 /\ (tracks' = <<>> => 1 = Len(tracks') + 1)
    BY <1>4
  <2>3. Candidates' = Candidates /\ RecoTracks' = RecoTracks
    BY DEF Candidates, RecoTracks
  <2>4. /\ iter \in Nat /\ recoTracks \in Seq(RecoTracks)
        /\ \A n \in DOMAIN recoTracks : Len(recoTracks[n].hits) >= MinLength
    BY DEF GnnInv, Shape
  <2> HIDE DEF Candidates, RecoTracks
  <2> QED BY <1>1, <1>4, <1>6, <2>1, <2>2, <2>3, <2>4 DEF Shape, MinLength
<1>8. Flags'
  <2>1. used = Saved
    <3>1. 1 .. iTrack - 1 = {}
      BY <1>1 DEF GnnInv, Shape
    <3> QED BY <3>1 DEF GnnInv, Flags, Accepted
  <2>2. Saved' = Saved
    BY <1>1, SavedStay
  <2>3. \A n \in DOMAIN tracks' : Strips(tracks'[n].hits) \cap used = {}
    BY <1>3, <1>5
  <2> QED BY <1>1, <2>1, <2>2, <2>3 DEF Flags
<1>9. Apart'
  <2>1. AcceptedApart'
    BY <1>1 DEF AcceptedApart
  <2> QED BY <1>1, <2>1, SavedStay DEF GnnInv, Apart
<1> QED BY <1>7, <1>8, <1>9 DEF GnnInv

\* The candidate that competes is accepted, perhaps with fewer hits, none of
\* which is used.
LEMMA AcceptKeeps ==
  ASSUME GnnInv, Competes, NEW h \in Seq(Hits), Len(h) >= MinLength,
         AreAmong(h, Track.hits), Strips(h) \cap used = {},
         tracks' = [tracks EXCEPT ![iTrack].hits = h],
         used' = used \cup Strips(h), iTrack' = iTrack + 1,
         UNCHANGED <<iter, step, beggars, recoTracks>>
  PROVE  GnnInv'
<1> DEFINE N == Len(tracks)
           U == [tracks[iTrack] EXCEPT !.hits = h]
<1>1. /\ N \in Nat /\ DOMAIN tracks = 1 .. N /\ iTrack \in 1 .. N
      /\ \A n \in 1 .. N : tracks[n] \in Candidates /\ Len(tracks[n].hits) >= MinLength
      /\ step = "compete"
  BY ShapeFacts DEF GnnInv, Competes
<1>2. U \in Candidates /\ U.hits = h
  BY <1>1 DEF Candidates
<1>3. /\ tracks' \in Seq(Candidates) /\ Len(tracks') = N /\ DOMAIN tracks' = 1 .. N
      /\ \A n \in 1 .. N : n # iTrack => tracks'[n] = tracks[n]
      /\ tracks'[iTrack].hits = h
  <2>1. tracks' = [tracks EXCEPT ![iTrack] = U]
    OBVIOUS
  <2> HIDE DEF U, Candidates
  <2>2. tracks \in Seq(Candidates)
    BY DEF GnnInv, Shape
  <2>3. tracks' \in Seq(Candidates) /\ Len(tracks') = N /\ DOMAIN tracks' = 1 .. N
    BY <1>1, <1>2, <2>1, <2>2
  <2>4. \A n \in 1 .. N : tracks'[n] = IF n = iTrack THEN U ELSE tracks[n]
    BY <1>1, <2>1
  <2> QED BY <1>1, <1>2, <2>3, <2>4
<1>4. Shape'
  <2>1. \A n \in DOMAIN tracks' : Len(tracks'[n].hits) >= MinLength
    BY <1>1, <1>3
  <2>2. iTrack' \in 1 .. Len(tracks') + 1
    BY <1>1, <1>3
  <2>3. Candidates' = Candidates /\ RecoTracks' = RecoTracks
    BY DEF Candidates, RecoTracks
  <2>4. /\ iter \in Nat /\ beggars \in Nat /\ recoTracks \in Seq(RecoTracks)
        /\ \A n \in DOMAIN recoTracks : Len(recoTracks[n].hits) >= MinLength
    BY DEF GnnInv, Shape
  <2> HIDE DEF Candidates, RecoTracks, N, U
  <2> QED BY <1>1, <1>3, <2>1, <2>2, <2>3, <2>4 DEF Shape, MinLength
<1>5. /\ \A n \in 1 .. iTrack' - 1 : n = iTrack \/ n \in 1 .. iTrack - 1
      /\ \A n \in 1 .. iTrack - 1 : n \in 1 .. iTrack' - 1 /\ n \in 1 .. N /\ n # iTrack
      /\ iTrack \in 1 .. iTrack' - 1
  BY <1>1
<1>6. \A n \in 1 .. iTrack - 1 : tracks'[n] = tracks[n]
  BY <1>3, <1>5
<1> HIDE DEF N, U
<1>7. Accepted' = Accepted \cup Strips(h)
  BY <1>3, <1>5, <1>6 DEF Accepted
<1>8. Strips(h) \subseteq Strips(tracks[iTrack].hits)
  BY StripsAmong DEF Track
<1>9. Flags'
  <2>1. Saved' = Saved
    BY SavedStay
  <2>2. \A n \in 1 .. N : Strips(tracks'[n].hits) \cap Saved = {}
    BY <1>1, <1>3, <1>8 DEF GnnInv, Flags
  <2> QED BY <1>3, <1>7, <2>1, <2>2 DEF GnnInv, Flags
<1>10. ASSUME AcceptedApart PROVE AcceptedApart'
  <2>1. ASSUME NEW n \in 1 .. iTrack' - 1 PROVE Strips(tracks'[n].hits) \subseteq used'
    BY <1>3, <1>5, <1>6, <1>10 DEF AcceptedApart
  <2>2. \A n \in 1 .. iTrack - 1 : Strips(tracks'[n].hits) \cap Strips(h) = {}
    BY <1>6, <1>10 DEF AcceptedApart
  <2>3. ASSUME NEW n \in 1 .. iTrack' - 1, NEW m \in 1 .. iTrack' - 1, m # n
        PROVE  Strips(tracks'[m].hits) \cap Strips(tracks'[n].hits) = {}
    <3>1. CASE n = iTrack
      BY <1>3, <1>5, <2>2, <2>3, <3>1
    <3>2. CASE m = iTrack
      BY <1>3, <1>5, <2>2, <2>3, <3>2
    <3>3. CASE n \in 1 .. iTrack - 1 /\ m \in 1 .. iTrack - 1
      BY <1>6, <1>10, <2>3, <3>3 DEF AcceptedApart
    <3> QED BY <1>5, <3>1, <3>2, <3>3
  <2> QED BY <2>1, <2>3 DEF AcceptedApart
<1>11. Apart'
  BY <1>10, SavedStay DEF GnnInv, Apart
<1> QED BY <1>4, <1>9, <1>11 DEF GnnInv

LEMMA CleanKeeps ==
  ASSUME GnnInv, CleanTrack
  PROVE  GnnInv'
<1>1. Competes /\ iTrack \in 1 .. Len(tracks) /\ DOMAIN tracks = 1 .. Len(tracks)
  BY ShapeFacts DEF CleanTrack, Competes, GnnInv
<1>2. /\ Track \in Candidates /\ Track.hits \in Seq(Hits) /\ Len(Track.hits) >= MinLength
  BY <1>1, ShapeFacts DEF Track, GnnInv
<1>3. Strips(Track.hits) \cap used = {}
  BY DEF CleanTrack, UsedAt, IsUsed, Strips
<1>4. tracks' = [tracks EXCEPT ![iTrack].hits = Track.hits]
  <2>1. tracks \in Seq(Candidates) /\ tracks' = tracks
    BY DEF GnnInv, Shape, CleanTrack, Keep
  <2>2. [Track EXCEPT !.hits = Track.hits] = Track
    BY <1>2 DEF Candidates
  <2> HIDE DEF Candidates
  <2>3. [tracks EXCEPT ![iTrack] = Track] = tracks
    BY <1>1, <2>1 DEF Track
  <2> QED BY <2>1, <2>2, <2>3 DEF Track
<1>5. /\ used' = used \cup Strips(Track.hits) /\ iTrack' = iTrack + 1
      /\ UNCHANGED <<iter, step, beggars, recoTracks>>
  BY DEF CleanTrack, Keep, Track
<1>6. AreAmong(Track.hits, Track.hits)
  BY DEF AreAmong
<1> QED BY <1>1, <1>2, <1>3, <1>4, <1>5, <1>6, AcceptKeeps

LEMMA TrimKeeps ==
  ASSUME GnnInv, TrimTrack
  PROVE  GnnInv'
<1>1. Competes /\ iTrack \in 1 .. Len(tracks) /\ DOMAIN tracks = 1 .. Len(tracks)
  BY ShapeFacts DEF TrimTrack, Competes, GnnInv
<1>2. Track \in Candidates /\ Track.hits \in Seq(Hits)
  BY <1>1, ShapeFacts DEF Track, GnnInv
<1>3. /\ FreeHits \in Seq(Hits) /\ Len(FreeHits) >= MinLength
      /\ AreAmong(FreeHits, Track.hits) /\ Strips(FreeHits) \cap used = {}
  BY <1>2, FreeHitsFacts DEF TrimTrack, Enough
<1>4. /\ tracks' = [tracks EXCEPT ![iTrack].hits = FreeHits]
      /\ used' = used \cup Strips(tracks'[iTrack].hits) /\ iTrack' = iTrack + 1
      /\ UNCHANGED <<iter, step, beggars, recoTracks>>
  BY DEF TrimTrack, Keep
<1>5. tracks'[iTrack].hits = FreeHits
  <2>1. tracks'[iTrack] = [Track EXCEPT !.hits = FreeHits]
    BY <1>1, <1>4 DEF Track
  <2> QED BY <1>2, <2>1 DEF Candidates
<1> QED BY <1>1, <1>3, <1>4, <1>5, AcceptKeeps

\* A candidate without hope leaves the list; those behind it move up.
LEMMA RemoveKeeps ==
  ASSUME GnnInv, RemoveTrack
  PROVE  GnnInv'
<1> DEFINE N == Len(tracks)
<1>1. /\ N \in Nat /\ DOMAIN tracks = 1 .. N /\ iTrack \in 1 .. N
      /\ \A n \in 1 .. N : tracks[n] \in Candidates /\ Len(tracks[n].hits) >= MinLength
      /\ step = "compete" /\ tracks \in Seq(Candidates)
  BY ShapeFacts DEF GnnInv, RemoveTrack, Competes, Shape
<1>2. tracks' = RemoveAt(tracks, iTrack) /\ UNCHANGED <<iter, step, iTrack, used, beggars, recoTracks>>
  BY DEF RemoveTrack
<1>3. tracks' \in Seq(Candidates) /\ IsRemoved(tracks', tracks, iTrack)
  <2> HIDE DEF Candidates
  <2> QED BY <1>1, <1>2, RemoveAtFacts
<1>4. /\ Len(tracks') = N - 1 /\ DOMAIN tracks' = 1 .. N - 1
      /\ \A k \in 1 .. iTrack - 1 : tracks'[k] = tracks[k]
  BY <1>3 DEF IsRemoved
<1>5. ASSUME NEW k \in 1 .. N - 1 PROVE \E n \in 1 .. N : tracks'[k] = tracks[n]
  <2>1. CASE k < iTrack
    <3>1. k \in 1 .. iTrack - 1 /\ k \in 1 .. N
      BY <1>1, <2>1
    <3> QED BY <1>4, <3>1
  <2>2. CASE ~(k < iTrack)
    <3>1. k \in iTrack .. N - 1 /\ k + 1 \in 1 .. N
      BY <1>1, <2>2
    <3> QED BY <1>3, <3>1 DEF IsRemoved
  <2> QED BY <2>1, <2>2
<1>6. Shape'
  <2>1. \A n \in DOMAIN tracks' : Len(tracks'[n].hits) >= MinLength
    BY <1>1, <1>4, <1>5
  <2>2. iTrack' \in 1 .. Len(tracks') + 1
    BY <1>1, <1>2, <1>4
  <2>3. Candidates' = Candidates /\ RecoTracks' = RecoTracks
    BY DEF Candidates, RecoTracks
  <2>4. /\ iter \in Nat /\ beggars \in Nat /\ recoTracks \in Seq(RecoTracks)
        /\ \A n \in DOMAIN recoTracks : Len(recoTracks[n].hits) >= MinLength
    BY DEF GnnInv, Shape
  <2> HIDE DEF Candidates, RecoTracks, N
  <2> QED BY <1>1, <1>2, <1>3, <2>1, <2>2, <2>3, <2>4 DEF Shape, MinLength
<1> HIDE DEF N
<1>7. Accepted' = Accepted
  BY <1>2, <1>4 DEF Accepted
<1>8. Flags'
  <2>1. Saved' = Saved
    BY <1>2, SavedStay
  <2>2. \A n \in 1 .. N - 1 : Strips(tracks'[n].hits) \cap Saved = {}
    BY <1>1, <1>5 DEF GnnInv, Flags
  <2> QED BY <1>2, <1>4, <1>7, <2>1, <2>2 DEF GnnInv, Flags
<1>9. Apart'
  <2>1. AcceptedApart => AcceptedApart'
    BY <1>2, <1>4 DEF AcceptedApart
  <2> QED BY <1>2, <2>1, SavedStay DEF GnnInv, Apart
<1> QED BY <1>6, <1>8, <1>9 DEF GnnInv

\* Donors keep four hits, and the flags of what they give are those of no other
\* hit that anybody keeps before the beggar sets its own.
LEMMA BegKeeps ==
  ASSUME GnnInv, BegTrack
  PROVE  GnnInv'
<1> DEFINE N == Len(tracks)
           Given1(b) == RemoveAt(tracks[b].hits, Min(Given(b)))
           Poorer(b) == [tracks[b] EXCEPT !.hits = Given1(b)]
           cleared == UNION {Cleared(b) : b \in Donors}
<1>1. /\ N \in Nat /\ DOMAIN tracks = 1 .. N /\ iTrack \in 1 .. N
      /\ \A n \in 1 .. N : /\ tracks[n] \in Candidates /\ tracks[n].hits \in Seq(Hits)
                           /\ Len(tracks[n].hits) >= MinLength
      /\ \A n \in 1 .. iTrack - 1 : n \in 1 .. N /\ n # iTrack
      /\ step = "compete" /\ beggars \in Nat
  BY ShapeFacts DEF GnnInv, BegTrack, Begs, Competes, Shape
<1>2. /\ tracks' = [b \in DOMAIN tracks |-> IF b \in Donors THEN Poorer(b) ELSE tracks[b]]
      /\ used' = (used \ cleared) \cup Strips(tracks'[iTrack].hits)
      /\ iTrack' = iTrack + 1 /\ beggars' = beggars + 1
      /\ UNCHANGED <<iter, step, recoTracks>>
  BY DEF BegTrack, Keep
<1>3. \A b \in Donors : /\ b \in 1 .. N /\ b \in 1 .. iTrack - 1 /\ b # iTrack
                        /\ Len(tracks[b].hits) > Len(tracks[iTrack].hits) /\ Given(b) # {}
  BY <1>1 DEF Donors, Track
<1>4. ASSUME NEW b \in Donors
      PROVE  /\ Given1(b) \in Seq(Hits) /\ Len(Given1(b)) >= MinLength
             /\ AreAmong(Given1(b), tracks[b].hits)
             /\ Cleared(b) \subseteq Strips(tracks[b].hits)
             /\ Strips(tracks[b].hits) \subseteq Strips(Given1(b)) \cup Cleared(b)
  <2>1. /\ Given1(b) \in Seq(Hits) /\ Len(Given1(b)) = Len(tracks[b].hits) - 1
        /\ AreAmong(Given1(b), tracks[b].hits)
        /\ Cleared(b) \subseteq Strips(tracks[b].hits)
        /\ Strips(tracks[b].hits) \subseteq Strips(Given1(b)) \cup Cleared(b)
    BY <1>1, <1>3, GivenFacts
  <2>2. Len(tracks[b].hits) \in Nat /\ Len(tracks[iTrack].hits) \in Nat
    BY <1>1, <1>3
  <2>3. Len(tracks[b].hits) - 1 >= MinLength
    BY <1>1, <1>3, <2>2 DEF MinLength
  <2> HIDE DEF Given1
  <2> QED BY <2>1, <2>3
<1> HIDE DEF Given1
<1>5. \A b \in Donors : Poorer(b) \in Candidates /\ Poorer(b).hits = Given1(b)
  BY <1>1, <1>3, <1>4 DEF Candidates
<1> HIDE DEF Poorer
<1>6. /\ DOMAIN tracks' = 1 .. N /\ tracks'[iTrack] = tracks[iTrack]
      /\ \A n \in 1 .. N : n \in Donors => tracks'[n].hits = Given1(n) /\ tracks'[n] \in Candidates
      /\ \A n \in 1 .. N : n \notin Donors => tracks'[n] = tracks[n]
  BY <1>1, <1>2, <1>3, <1>5
<1>7. tracks' \in Seq(Candidates) /\ Len(tracks') = N
  <2>1. \A n \in 1 .. N : tracks'[n] \in Candidates
    BY <1>1, <1>6
  <2>2. tracks' = [n \in 1 .. N |-> tracks'[n]]
    BY <1>1, <1>2
  <2> HIDE DEF N, Candidates
  <2>3. tracks' \in [1 .. N -> Candidates]
    BY <2>1, <2>2, Zenon
  <2> QED BY <1>1, <2>3
<1>8. Shape'
  <2>1. \A n \in 1 .. N : Len(tracks'[n].hits) >= MinLength
    BY <1>1, <1>4, <1>6
  <2>2. iTrack' \in 1 .. Len(tracks') + 1 /\ beggars' \in Nat
    BY <1>1, <1>2, <1>7
  <2>3. Candidates' = Candidates /\ RecoTracks' = RecoTracks
    BY DEF Candidates, RecoTracks
  <2>4. /\ iter \in Nat /\ recoTracks \in Seq(RecoTracks)
        /\ \A n \in DOMAIN recoTracks : Len(recoTracks[n].hits) >= MinLength
    BY DEF GnnInv, Shape
  <2> HIDE DEF Candidates, RecoTracks, N
  <2> QED BY <1>1, <1>2, <1>6, <1>7, <2>1, <2>2, <2>3, <2>4 DEF Shape, MinLength
<1>9. /\ \A n \in 1 .. iTrack - 1 : n \in 1 .. iTrack' - 1
      /\ iTrack \in 1 .. iTrack' - 1
  BY <1>1, <1>2
<1> HIDE DEF N, cleared
<1>10. Saved' = Saved
  BY <1>2, SavedStay
<1>11. \A n \in 1 .. N : Strips(tracks'[n].hits) \subseteq Strips(tracks[n].hits)
  BY <1>4, <1>6, StripsAmong
<1>12. used' \subseteq Accepted' \cup Saved'
  <2>1. Strips(tracks'[iTrack].hits) \subseteq Accepted'
    BY <1>9 DEF Accepted
  <2>2. ASSUME NEW x \in used, x \notin cleared, x \notin Saved PROVE x \in Accepted'
    <3>1. PICK n \in 1 .. iTrack - 1 : x \in Strips(tracks[n].hits)
      BY <2>2 DEF GnnInv, Flags, Accepted
    <3>2. x \in Strips(tracks'[n].hits)
      <4>1. CASE n \in Donors
        BY <1>1, <1>4, <1>6, <2>2, <3>1, <4>1 DEF cleared
      <4>2. CASE n \notin Donors
        BY <1>1, <1>6, <3>1, <4>2
      <4> QED BY <4>1, <4>2
    <3> QED BY <1>9, <3>1, <3>2 DEF Accepted
  <2> QED BY <1>2, <1>10, <2>1, <2>2
<1>13. Saved' \subseteq used'
  <2>1. cleared \cap Saved = {}
    BY <1>1, <1>3, <1>4 DEF cleared, GnnInv, Flags
  <2> QED BY <1>2, <1>10, <2>1 DEF GnnInv, Flags
<1>14. Flags'
  BY <1>1, <1>6, <1>10, <1>11, <1>12, <1>13 DEF GnnInv, Flags
<1>15. Apart'
  <2>1. beggars' # 0
    BY <1>1, <1>2
  <2> QED BY <1>2, <2>1, SavedStay DEF GnnInv, Apart
<1> QED BY <1>8, <1>14, <1>15 DEF GnnInv

LEMMA EndCompetitionKeeps ==
  ASSUME GnnInv, EndCompetition
  PROVE  GnnInv'
<1>1. /\ step' = "save" /\ iTrack > Len(tracks)
      /\ UNCHANGED <<iter, tracks, iTrack, used, beggars, recoTracks>>
  BY DEF EndCompetition
<1>2. iTrack = Len(tracks) + 1
  BY <1>1, ShapeFacts DEF GnnInv, Shape
<1>3. Shape'
  <2>1. Candidates' = Candidates /\ RecoTracks' = RecoTracks
    BY DEF Candidates, RecoTracks
  <2> HIDE DEF Candidates, RecoTracks
  <2> QED BY <1>1, <1>2, <2>1 DEF GnnInv, Shape, MinLength
<1>4. Flags'
  <2>1. Accepted' = Accepted /\ Saved' = Saved
    BY <1>1 DEF Accepted, Saved
  <2> QED BY <1>1, <2>1 DEF GnnInv, Flags
<1>5. Apart'
  <2>1. AcceptedApart => AcceptedApart'
    BY <1>1 DEF AcceptedApart
  <2> QED BY <1>1, <2>1, SavedStay DEF GnnInv, Apart
<1> QED BY <1>3, <1>4, <1>5 DEF GnnInv

\* What is saved has its flags set, and shares strips with what is saved in the
\* same iteration only.
LEMMA SaveKeeps ==
  ASSUME GnnInv, PrepareFinalTracks
  PROVE  GnnInv'
<1> DEFINE N == Len(tracks)
           M == Len(recoTracks)
           new == [n \in DOMAIN tracks |->
                     [hits |-> tracks[n].hits, iter |-> iter, beggars |-> beggars]]
<1>1. /\ N \in Nat /\ DOMAIN tracks = 1 .. N /\ iTrack - 1 = N
      /\ \A n \in 1 .. N : tracks[n].hits \in Seq(Hits) /\ Len(tracks[n].hits) >= MinLength
      /\ iter \in Nat /\ beggars \in Nat
  BY ShapeFacts DEF GnnInv, Shape, PrepareFinalTracks
<1>2. /\ recoTracks \in Seq(RecoTracks) /\ M \in Nat /\ DOMAIN recoTracks = 1 .. M
      /\ \A n \in 1 .. M : recoTracks[n] \in RecoTracks /\ Len(recoTracks[n].hits) >= MinLength
  BY DEF GnnInv, Shape
<1>3. /\ used' = used \cup UNION {Strips(tracks[n].hits) : n \in DOMAIN tracks}
      /\ recoTracks' = recoTracks \o new /\ tracks' = <<>> /\ iTrack' = 1
      /\ iter' = iter + 1 /\ step' = "create" /\ beggars' = beggars
  BY DEF PrepareFinalTracks, MarkFinal
<1>4. /\ new \in Seq(RecoTracks) /\ Len(new) = N
      /\ \A n \in 1 .. N : /\ new[n].hits = tracks[n].hits /\ new[n].iter = iter
                           /\ new[n].beggars = beggars
  <2>1. \A n \in 1 .. N : [hits |-> tracks[n].hits, iter |-> iter, beggars |-> beggars] \in RecoTracks
    BY <1>1 DEF RecoTracks
  <2> HIDE DEF RecoTracks, N
  <2>2. new \in [1 .. N -> RecoTracks]
    BY <1>1, <2>1
  <2> QED BY <1>1, <2>2
<1> HIDE DEF new
<1>5. /\ recoTracks' \in Seq(RecoTracks) /\ Len(recoTracks') = M + N
      /\ DOMAIN recoTracks' = 1 .. M + N
      /\ \A n \in 1 .. M : recoTracks'[n] = recoTracks[n]
      /\ \A n \in 1 .. N : recoTracks'[M + n] = new[n]
      /\ \A n \in 1 .. M + N : n \in 1 .. M \/ \E k \in 1 .. N : n = M + k
  <2> HIDE DEF RecoTracks
  <2>1. /\ recoTracks' \in Seq(RecoTracks) /\ Len(recoTracks') = M + N
        /\ \A n \in 1 .. M : recoTracks'[n] = recoTracks[n]
    <3>1. /\ recoTracks \o new \in Seq(RecoTracks)
          /\ Len(recoTracks \o new) = Len(recoTracks) + Len(new)
          /\ \A n \in 1 .. Len(recoTracks) + Len(new) :
               (recoTracks \o new)[n] = IF n <= Len(recoTracks) THEN recoTracks[n]
                                        ELSE new[n - Len(recoTracks)]
      <4>1. recoTracks \in Seq(RecoTracks) /\ new \in Seq(RecoTracks)
        BY <1>2, <1>4
      <4> QED BY <4>1, ConcatProperties, Zenon
    <3>2. \A n \in 1 .. M : n \in 1 .. M + N /\ n <= M
      BY <1>1, <1>2
    <3> HIDE DEF N
    <3> QED BY <1>3, <1>4, <3>1, <3>2
  <2>2. ASSUME NEW n \in 1 .. N PROVE recoTracks'[M + n] = new[n]
    <3>1. M + n \in 1 .. M + N /\ ~(M + n <= M) /\ (M + n) - M = n
      BY <1>1, <1>2
    <3> QED BY <1>2, <1>3, <1>4, <3>1
  <2>3. ASSUME NEW n \in 1 .. M + N, n \notin 1 .. M PROVE \E k \in 1 .. N : n = M + k
    <3>1. n - M \in 1 .. N /\ n = M + (n - M)
      BY <1>1, <1>2, <2>3
    <3> QED BY <3>1
  <2>4. DOMAIN recoTracks' = 1 .. M + N
    BY <2>1
  <2> HIDE DEF M, N
  <2> QED BY <2>1, <2>2, <2>3, <2>4
<1>6. Shape'
  <2>1. ASSUME NEW n \in 1 .. M + N PROVE Len(recoTracks'[n].hits) >= MinLength
    <3>1. CASE n \in 1 .. M
      BY <1>2, <1>5, <3>1
    <3>2. CASE n \notin 1 .. M
      <4>1. PICK k \in 1 .. N : n = M + k
        BY <1>5, <3>2
      <4>2. recoTracks'[n].hits = tracks[k].hits
        BY <1>4, <1>5, <4>1
      <4> QED BY <1>1, <4>2
    <3> QED BY <3>1, <3>2
  <2>2. Candidates' = Candidates /\ RecoTracks' = RecoTracks
    BY DEF Candidates, RecoTracks
  <2>3. tracks' \in Seq(Candidates)' /\ iTrack' \in 1 .. Len(tracks') + 1 /\ iter' \in Nat
    BY <1>1, <1>3
  <2> HIDE DEF Candidates, RecoTracks, N, M
  <2> QED BY <1>1, <1>3, <1>5, <2>1, <2>2, <2>3 DEF Shape, MinLength
<1> HIDE DEF N, M
<1>7. /\ \A n \in 1 .. M : Strips(recoTracks'[n].hits) \subseteq Saved
      /\ \A n \in 1 .. N : recoTracks'[M + n].hits = tracks[n].hits
      /\ \A n \in 1 .. N : Strips(tracks[n].hits) \cap Saved = {}
  <2>1. \A n \in 1 .. M : Strips(recoTracks[n].hits) \subseteq Saved
    BY <1>2 DEF Saved
  <2>2. \A n \in 1 .. N : Strips(tracks[n].hits) \cap Saved = {}
    BY <1>1 DEF GnnInv, Flags
  <2> QED BY <1>4, <1>5, <2>1, <2>2
<1>8. Accepted = UNION {Strips(tracks[n].hits) : n \in 1 .. N}
  BY <1>1 DEF Accepted
<1>9. Saved' = Saved \cup Accepted
  <2>1. \A n \in DOMAIN recoTracks' : Strips(recoTracks'[n].hits) \subseteq Saved \cup Accepted
    BY <1>5, <1>7, <1>8
  <2>2. \A n \in 1 .. M : n \in 1 .. M + N
    BY <1>1, <1>2
  <2>3. \A n \in 1 .. N : M + n \in 1 .. M + N
    BY <1>1, <1>2
  <2>4. Saved \subseteq Saved'
    BY <1>2, <1>5, <2>2 DEF Saved
  <2>5. Accepted \subseteq Saved'
    BY <1>5, <1>7, <1>8, <2>3 DEF Saved
  <2>6. Saved' \subseteq Saved \cup Accepted
    BY <2>1 DEF Saved
  <2> QED BY <2>4, <2>5, <2>6
<1>10. Flags'
  <2>1. used' = used \cup Accepted
    BY <1>1, <1>3, <1>8
  <2>2. used' \subseteq Saved' /\ Saved' \subseteq used'
    BY <1>9, <2>1 DEF GnnInv, Flags
  <2> QED BY <1>3, <2>2 DEF Flags
<1>11. SharedOnlyByBegging'
  <2> SUFFICES ASSUME NEW m \in 1 .. M + N, NEW n \in 1 .. M + N, m # n,
                      Strips(recoTracks'[m].hits) \cap Strips(recoTracks'[n].hits) # {}
      PROVE  recoTracks'[m].iter = recoTracks'[n].iter /\ recoTracks'[m].beggars > 0
    BY <1>5 DEF SharedOnlyByBegging
  <2>1. CASE m \in 1 .. M /\ n \in 1 .. M
    BY <1>2, <1>5, <2>1 DEF GnnInv, Apart, SharedOnlyByBegging
  <2>2. CASE m \notin 1 .. M /\ n \notin 1 .. M
    <3>1. PICK k \in 1 .. N : m = M + k
      BY <1>5, <2>2
    <3>2. PICK l \in 1 .. N : n = M + l
      BY <1>5, <2>2
    <3>3. /\ recoTracks'[m].iter = iter /\ recoTracks'[n].iter = iter
          /\ recoTracks'[m].beggars = beggars
      BY <1>4, <1>5, <3>1, <3>2
    <3>4. beggars # 0
      <4> SUFFICES ASSUME beggars = 0 PROVE FALSE
        OBVIOUS
      <4>1. k # l /\ k \in 1 .. iTrack - 1 /\ l \in 1 .. iTrack - 1
        BY <1>1, <3>1, <3>2
      <4>2. Strips(tracks[k].hits) \cap Strips(tracks[l].hits) = {}
        BY <4>1 DEF GnnInv, Apart, AcceptedApart
      <4> QED BY <1>7, <3>1, <3>2, <4>2
    <3> QED BY <1>1, <3>3, <3>4
  <2>3. CASE m \in 1 .. M /\ n \notin 1 .. M
    <3>1. PICK l \in 1 .. N : n = M + l
      BY <1>5, <2>3
    <3> QED BY <1>7, <2>3, <3>1
  <2>4. CASE m \notin 1 .. M /\ n \in 1 .. M
    <3>1. PICK k \in 1 .. N : m = M + k
      BY <1>5, <2>4
    <3> QED BY <1>7, <2>4, <3>1
  <2> QED BY <2>1, <2>2, <2>3, <2>4
<1>12. Apart'
  <2>1. AcceptedApart'
    BY <1>3 DEF AcceptedApart
  <2> QED BY <1>11, <2>1 DEF Apart
<1> QED BY <1>6, <1>10, <1>12 DEF GnnInv

LEMMA NextGnnInv == GnnInv /\ [Next]_vars => GnnInv'
<1> SUFFICES ASSUME GnnInv, [Next]_vars PROVE GnnInv'
  OBVIOUS
<1>1. CASE UNCHANGED vars
  <2>1. Shape'
    <3>1. Candidates' = Candidates /\ RecoTracks' = RecoTracks
      BY DEF Candidates, RecoTracks
    <3> HIDE DEF Candidates, RecoTracks
    <3> QED BY <1>1, <3>1 DEF GnnInv, Shape, MinLength, vars
  <2>2. Flags'
    BY <1>1 DEF GnnInv, Flags, Accepted, Saved, vars
  <2>3. Apart'
    BY <1>1 DEF GnnInv, Apart, AcceptedApart, SharedOnlyByBegging, vars
  <2> QED BY <2>1, <2>2, <2>3 DEF GnnInv
<1> QED BY <1>1, CreateKeeps, CleanKeeps, TrimKeeps, BegKeeps, RemoveKeeps, EndCompetitionKeeps,
           SaveKeeps DEF Next

LEMMA AlwaysGnnInv == Spec => []GnnInv
  BY InitGnnInv, NextGnnInv, PTL DEF Spec

\* However often a track was trimmed or robbed, four hits are left to it.
THEOREM FourHitsStay == Spec => []FourHitsAreLeft
<1>1. GnnInv => FourHitsAreLeft
  BY ShapeFacts DEF GnnInv, Shape, FourHitsAreLeft
<1> QED BY <1>1, AlwaysGnnInv, PTL

\* No strip is blocked for a track that is not kept, and between the iterations
\* exactly the strips of the saved tracks are blocked.
THEOREM FlagsHaveTracks == Spec => []FlagsBelongToTracks
<1>1. GnnInv => FlagsBelongToTracks
  <2> SUFFICES ASSUME GnnInv PROVE FlagsBelongToTracks
    OBVIOUS
  <2>1. used \subseteq Accepted \cup Saved /\ Saved \subseteq used
    BY DEF GnnInv, Flags
  <2>2. step = "create" => Accepted = {}
    BY DEF GnnInv, Shape, Accepted
  <2> QED BY <2>1, <2>2 DEF FlagsBelongToTracks
<1> QED BY <1>1, AlwaysGnnInv, PTL

\* Saved tracks share a strip only within one iteration, and only if a candidate
\* of it begged.
THEOREM OnlyBeggarsShare == Spec => []SharedOnlyByBegging
<1>1. GnnInv => SharedOnlyByBegging
  BY DEF GnnInv, Apart
<1> QED BY <1>1, AlwaysGnnInv, PTL
===============================================================================
