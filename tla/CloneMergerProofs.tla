-------------------------- MODULE CloneMergerProofs --------------------------
(***************************************************************************)
(* The links of the clone merger and the lists written from them, for      *)
(* every number of tracks, all shapes and every outcome of the             *)
(* extrapolations.                                                         *)
(***************************************************************************)
EXTENDS CloneMerger, SequenceTheorems, WellFoundedInduction, TLAPS

USE DEF Tracks

\* The state that the links depend on has its type.
LEMMA InitTypeOK == Init => TypeOK
  BY CloneMergerAssumption DEF Init, TypeOK

LEMMA NextPairType ==
  ASSUME TypeOK, AtPair, NextPair
  PROVE  iTr' \in 1 .. NTracks + 1 /\ jTr' \in 1 .. NTracks + 1
  BY CloneMergerAssumption DEF TypeOK, AtPair, NextPair

LEMMA LinkType ==
  ASSUME TypeOK, NEW i \in Tracks, NEW j \in Tracks, NEW chi2 \in Chi2s,
         Agrees(i, j, chi2), Link(i, j, chi2)
  PROVE  /\ neighbour' \in [Tracks -> Tracks \cup {NoNeighbour}]
         /\ trackChi2' \in [Tracks -> {c \in Chi2s : c <= MaxChi2} \cup {ResetChi2}]
         /\ isDownstreamNeighbour' \in [Tracks -> BOOLEAN]
<1> USE DEF TypeOK, Link
<1>1. neighbour' \in [Tracks -> Tracks \cup {NoNeighbour}]
  OBVIOUS
<1>2. FreedChi2(OldPartners(i, j)) \in [Tracks -> {c \in Chi2s : c <= MaxChi2} \cup {ResetChi2}]
  BY DEF FreedChi2
<1>3. trackChi2' \in [Tracks -> {c \in Chi2s : c <= MaxChi2} \cup {ResetChi2}]
  BY <1>2 DEF Agrees
<1>4. isDownstreamNeighbour' \in [Tracks -> BOOLEAN]
  BY Zenon DEF Downstream
<1> QED BY <1>1, <1>3, <1>4

LEMMA NextTypeOK == TypeOK /\ [Next]_vars => TypeOK'
<1> SUFFICES ASSUME TypeOK, [Next]_vars PROVE TypeOK'
  OBVIOUS
<1>1. CASE LinkPair
  <2>1. PICK chi2 \in Chi2s : Agrees(iTr, jTr, chi2) /\ Link(iTr, jTr, chi2)
    BY <1>1 DEF LinkPair
  <2> QED BY <1>1, <2>1, LinkType, NextPairType DEF LinkPair, AtPair, TypeOK
<1>2. CASE SkipPair
  BY <1>2, NextPairType DEF SkipPair, TypeOK, links
<1>3. CASE EndOfPairs
  BY <1>3, CloneMergerAssumption DEF EndOfPairs, TypeOK, links
<1>4. CASE StoreTrack
  <2>1. isStored' \in [Tracks -> BOOLEAN]
    BY <1>4 DEF StoreTrack, MarkStored, TypeOK
  <2> QED BY <1>4, <2>1, CloneMergerAssumption DEF StoreTrack, TypeOK, links
<1>5. CASE SkipStored
  BY <1>5, CloneMergerAssumption DEF SkipStored, TypeOK, links
<1>6. CASE EndOfTracks
  BY <1>6 DEF EndOfTracks, TypeOK, links
<1>7. CASE UNCHANGED vars
  BY <1>7 DEF vars, TypeOK, links
<1> QED BY <1>1, <1>2, <1>3, <1>4, <1>5, <1>6, <1>7 DEF Next

\* The merger's variables have their types in every reachable state.
THEOREM TypeCorrect == Spec => []TypeOK
  BY InitTypeOK, NextTypeOK, PTL DEF Spec
-----------------------------------------------------------------------------
LinksInv == TypeOK /\ LinksAreMutual /\ NoStaleChi2

\* A track begins where it ends or before.
LEMMA FirstBeforeLast ==
  ASSUME TypeOK, NEW t \in Tracks
  PROVE  /\ firstStation(t) \in Int /\ lastStation(t) \in Int
         /\ firstStation(t) <= lastStation(t)
<1>1. shape[t] \in Shapes
  BY DEF TypeOK
<1>2. /\ shape[t] \in Seq(0 .. NStations - 1) /\ shape[t] # <<>>
      /\ \A m, n \in DOMAIN shape[t] : m < n => shape[t][m] < shape[t][n]
  BY <1>1, ShapesAssumption
<1>3. /\ Len(shape[t]) \in Nat \ {0} /\ 1 \in DOMAIN shape[t]
      /\ Len(shape[t]) \in DOMAIN shape[t]
  BY <1>2
<1>4. /\ shape[t][1] \in 0 .. NStations - 1
      /\ shape[t][Len(shape[t])] \in 0 .. NStations - 1
  <2> DEFINE Stations == 0 .. NStations - 1
  <2>1. shape[t] \in Seq(Stations) /\ 1 \in 1 .. Len(shape[t]) /\ Len(shape[t]) \in 1 .. Len(shape[t])
    BY <1>2, <1>3
  <2> HIDE DEF Stations
  <2>2. shape[t][1] \in Stations /\ shape[t][Len(shape[t])] \in Stations
    BY <2>1, ElementOfSeq
  <2> QED BY <2>2 DEF Stations
<1>5. CASE Len(shape[t]) = 1
  BY <1>4, <1>5 DEF firstStation, lastStation
<1>6. CASE Len(shape[t]) # 1
  BY <1>2, <1>3, <1>4, <1>6 DEF firstStation, lastStation
<1> QED BY <1>5, <1>6

\* A new link releases the old partners of both tracks and touches no other link.
LEMMA LinkKeepsInv ==
  ASSUME LinksInv, NEW i \in Tracks, NEW j \in Tracks, NEW chi2 \in Chi2s,
         MayMerge(i, j), Link(i, j, chi2), UNCHANGED shape
  PROVE  LinksAreMutual' /\ NoStaleChi2'
<1> DEFINE released == OldPartners(i, j)
<1>1. /\ neighbour \in [Tracks -> Tracks \cup {NoNeighbour}]
      /\ trackChi2 \in [Tracks -> {c \in Chi2s : c <= MaxChi2} \cup {ResetChi2}]
      /\ isDownstreamNeighbour \in [Tracks -> BOOLEAN]
      /\ i # j
  BY DEF LinksInv, TypeOK, MayMerge
<1>2. \A t \in Tracks :
        /\ neighbour'[t] = IF t = i THEN j ELSE IF t = j THEN i
                           ELSE IF t \in released THEN NoNeighbour ELSE neighbour[t]
        /\ trackChi2'[t] = IF t \in {i, j} THEN chi2
                           ELSE IF t \in released THEN ResetChi2 ELSE trackChi2[t]
  BY DEF Link, FreedChi2
<1>3. \A t \in Tracks : isDownstreamNeighbour'[t] =
                           IF t = i THEN TRUE
                           ELSE t \notin released \cup {j} /\ isDownstreamNeighbour[t]
  BY DEF Link, Downstream
<1>4. ASSUME NEW t \in Tracks \ ({i, j} \cup released), IsLinked(t)
      PROVE  neighbour[t] \in Tracks \ ({i, j} \cup released)
  <2>1. neighbour[t] \in Tracks /\ neighbour[neighbour[t]] = t /\ neighbour[t] # t
    BY <1>1, <1>4 DEF LinksInv, LinksAreMutual, IsLinked
  <2>2. neighbour[t] \notin {i, j}
    BY <2>1, <1>4 DEF OldPartners
  <2>3. ASSUME neighbour[t] \in released PROVE FALSE
    <3>1. PICK k \in {i, j} : neighbour[t] = neighbour[k] /\ neighbour[k] \in Tracks
      BY <2>1, <2>3 DEF OldPartners
    <3>2. neighbour[neighbour[k]] = k
      BY <3>1, CloneMergerAssumption DEF LinksInv, LinksAreMutual, IsLinked
    <3> QED BY <2>1, <3>1, <3>2, <1>4
  <2> QED BY <2>1, <2>2, <2>3
<1>5. \A t \in Tracks : firstStation(t)' = firstStation(t) /\ lastStation(t)' = lastStation(t)
  BY DEF firstStation, lastStation
<1>6. (firstStation(i) > lastStation(j)) /\ ~(firstStation(j) > lastStation(i))
  BY FirstBeforeLast DEF LinksInv, MayMerge
<1>7. NoNeighbour \notin Tracks
  BY CloneMergerAssumption
<1>8. ASSUME NEW t \in Tracks
      PROVE  /\ IF IsLinked(t)' THEN trackChi2'[t] = trackChi2'[neighbour'[t]]
                ELSE trackChi2'[t] = ResetChi2
             /\ IF IsLinked(t)'
                THEN /\ neighbour'[t] # t /\ neighbour'[neighbour'[t]] = t
                     /\ (isDownstreamNeighbour'[t] <=> firstStation(t) > lastStation(neighbour'[t]))
                     /\ isDownstreamNeighbour'[t] # isDownstreamNeighbour'[neighbour'[t]]
                ELSE ~isDownstreamNeighbour'[t]
  <2>1. CASE t = i
    BY <2>1, <1>1, <1>2, <1>3, <1>6, <1>7 DEF IsLinked
  <2>2. CASE t = j
    <3>1. neighbour'[j] = i /\ neighbour'[i] = j /\ trackChi2'[i] = chi2 /\ trackChi2'[j] = chi2
      BY <1>1, <1>2
    <3>2. isDownstreamNeighbour'[i] = TRUE /\ isDownstreamNeighbour'[j] = FALSE
      BY <1>1, <1>3
    <3> QED BY <2>2, <3>1, <3>2, <1>1, <1>6, <1>7 DEF IsLinked
  <2>3. CASE t \in released \ {i, j}
    BY <2>3, <1>2, <1>3, <1>7 DEF IsLinked
  <2>4. CASE t \notin released \cup {i, j}
    <3>1. neighbour'[t] = neighbour[t] /\ trackChi2'[t] = trackChi2[t]
      BY <2>4, <1>2
    <3>2. isDownstreamNeighbour'[t] = isDownstreamNeighbour[t]
      BY <2>4, <1>1, <1>3
    <3>3. CASE IsLinked(t)
      <4> DEFINE p == neighbour[t]
      <4>1. p \in Tracks \ ({i, j} \cup released)
        BY <2>4, <3>3, <1>4
      <4>2. neighbour'[p] = neighbour[p] /\ trackChi2'[p] = trackChi2[p]
        BY <4>1, <1>2
      <4>3. isDownstreamNeighbour'[p] = isDownstreamNeighbour[p]
        BY <4>1, <1>1, <1>3
      <4>4. /\ p # t /\ neighbour[p] = t /\ trackChi2[t] = trackChi2[p]
            /\ (isDownstreamNeighbour[t] <=> firstStation(t) > lastStation(p))
            /\ isDownstreamNeighbour[t] # isDownstreamNeighbour[p]
        BY <3>3 DEF LinksInv, LinksAreMutual, NoStaleChi2
      <4> QED BY <3>1, <3>2, <3>3, <4>2, <4>3, <4>4 DEF IsLinked
    <3>4. CASE ~IsLinked(t)
      <4>1. ~isDownstreamNeighbour[t] /\ trackChi2[t] = ResetChi2
        BY <3>4 DEF LinksInv, LinksAreMutual, NoStaleChi2
      <4> QED BY <3>1, <3>2, <3>4, <4>1 DEF IsLinked
    <3> QED BY <3>3, <3>4
  <2> QED BY <2>1, <2>2, <2>3, <2>4
<1>9. NoStaleChi2'
  BY <1>8 DEF NoStaleChi2
<1>10. \A t \in Tracks : IsLinked(t)' => neighbour'[t] \in Tracks
  BY <1>1, <1>2, <1>7 DEF IsLinked
<1>11. LinksAreMutual'
  BY <1>5, <1>8, <1>10 DEF LinksAreMutual
<1> QED BY <1>9, <1>11

LEMMA InitLinksInv == Init => LinksInv
<1> SUFFICES ASSUME Init PROVE LinksInv
  OBVIOUS
<1>1. LinksAreMutual /\ NoStaleChi2
  BY DEF Init, LinksAreMutual, NoStaleChi2, IsLinked
<1> QED BY <1>1, InitTypeOK DEF LinksInv

LEMMA NextLinksInv == LinksInv /\ [Next]_vars => LinksInv'
<1> SUFFICES ASSUME LinksInv, [Next]_vars PROVE LinksInv'
  OBVIOUS
<1>1. TypeOK'
  BY NextTypeOK DEF LinksInv
<1>2. CASE LinkPair
  <2>1. PICK chi2 \in Chi2s : Agrees(iTr, jTr, chi2) /\ Link(iTr, jTr, chi2)
    BY <1>2 DEF LinkPair
  <2>2. /\ iTr \in Tracks /\ jTr \in Tracks
        /\ MayMerge(iTr, jTr) /\ UNCHANGED shape
    BY <1>2 DEF LinkPair, AtPair
  <2>3. LinksAreMutual' /\ NoStaleChi2'
    BY <2>1, <2>2, LinkKeepsInv
  <2> QED BY <1>1, <2>3 DEF LinksInv
<1>3. CASE UNCHANGED <<shape, links>>
  <2>1. LinksAreMutual' /\ NoStaleChi2'
    BY <1>3 DEF LinksInv, LinksAreMutual, NoStaleChi2, IsLinked, links, firstStation, lastStation
  <2> QED BY <1>1, <2>1 DEF LinksInv
<1>4. LinkPair \/ UNCHANGED <<shape, links>>
  BY DEF Next, SkipPair, EndOfPairs, StoreTrack, SkipStored, EndOfTracks, vars
<1> QED BY <1>2, <1>3, <1>4

\* In every reachable state links are mutual and exclusive, and of two linked
\* tracks exactly the one behind the other is downstream.
THEOREM LinksMutual == Spec => []LinksAreMutual
<1>1. LinksInv => LinksAreMutual
  BY DEF LinksInv
<1> QED BY <1>1, InitLinksInv, NextLinksInv, PTL DEF Spec

\* A track that was left by its partner is as free as one that never had any.
THEOREM Chi2NeverStale == Spec => []NoStaleChi2
<1>1. LinksInv => NoStaleChi2
  BY DEF LinksInv
<1> QED BY <1>1, InitLinksInv, NextLinksInv, PTL DEF Spec

-----------------------------------------------------------------------------
(* Where runs begin.                                                       *)

\* Proofs by the first counterexample.
LEMMA Least ==
  ASSUME NEW S \in SUBSET Nat, S # {}
  PROVE  \E m \in S : \A x \in S : m <= x
<1> DEFINE R == OpToRel(<, Nat)
<1>1. IsWellFoundedOn(R, Nat)
  BY NatLessThanWellFounded
<1>2. PICK m \in S : \A y \in S : ~(<<y, m>> \in R)
  <2> HIDE DEF R
  <2> QED BY <1>1, WFMin
<1>3. \A y \in S : ~(y < m)
  BY <1>2 DEF OpToRel
<1> QED BY <1>3

LEMMA Induction ==
  ASSUME NEW A, 0 \in A, \A n \in Nat : n \in A => n + 1 \in A
  PROVE  \A n \in Nat : n \in A
<1> SUFFICES ASSUME Nat \ A # {} PROVE FALSE
  OBVIOUS
<1>1. PICK m \in Nat \ A : \A x \in Nat \ A : m <= x
  BY Least
<1>2. m # 0 /\ m - 1 \in Nat /\ (m - 1) + 1 = m
  OBVIOUS
<1>3. m - 1 \in A
  BY <1>1, <1>2
<1> QED BY <1>2, <1>3

AreStarts(s, h, N) ==
  /\ s \in [1 .. N + 1 -> Nat] /\ s[1] = 0
  /\ \A n \in 1 .. N : s[n + 1] = s[n] + h[n]

LEMMA StartsExist ==
  ASSUME NEW N \in Nat, NEW h \in [1 .. N -> Nat]
  PROVE  \E s : AreStarts(s, h, N)
<1> DEFINE A == {m \in Nat : m <= N => \E s : AreStarts(s, h, m)}
<1>1. 0 \in A
  <2>1. AreStarts([n \in 1 .. 1 |-> 0], h, 0)
    BY DEF AreStarts
  <2> QED BY <2>1
<1>2. ASSUME NEW m \in Nat, m \in A PROVE m + 1 \in A
  <2> SUFFICES ASSUME m + 1 <= N PROVE \E s : AreStarts(s, h, m + 1)
    OBVIOUS
  <2>1. PICK s : AreStarts(s, h, m)
    BY <1>2
  <2> DEFINE r == [n \in 1 .. m + 2 |-> IF n = m + 2 THEN s[m + 1] + h[m + 1] ELSE s[n]]
  <2>2. h[m + 1] \in Nat /\ s[m + 1] \in Nat /\ \A n \in 1 .. m + 1 : s[n] \in Nat
    BY <2>1 DEF AreStarts
  <2>3. r \in [1 .. m + 2 -> Nat]
    BY <2>2
  <2>4. r[1] = 0
    BY <2>1 DEF AreStarts
  <2>5. ASSUME NEW n \in 1 .. m + 1 PROVE r[n + 1] = r[n] + h[n]
    <3>1. CASE n = m + 1
      BY <3>1
    <3>2. CASE n # m + 1
      <4>1. n \in 1 .. m /\ n + 1 # m + 2 /\ n # m + 2 /\ n \in 1 .. m + 2 /\ n + 1 \in 1 .. m + 2
        BY <3>2
      <4>2. r[n + 1] = s[n + 1] /\ r[n] = s[n]
        BY <4>1
      <4> QED BY <2>1, <4>1, <4>2 DEF AreStarts
    <3> QED BY <3>1, <3>2
  <2>6. (m + 1) + 1 = m + 2
    OBVIOUS
  <2> HIDE DEF r
  <2>7. AreStarts(r, h, m + 1)
    BY <2>3, <2>4, <2>5, <2>6 DEF AreStarts
  <2> QED BY <2>7
<1>3. \A n \in Nat : n \in A
  <2> HIDE DEF A
  <2> QED BY <1>1, <1>2, Induction
<1> QED BY <1>3

\* Starts for a list and for one that continues it agree.
LEMMA StartsAgree ==
  ASSUME NEW N \in Nat, NEW M \in Nat, N <= M, NEW h, NEW g, \A n \in 1 .. N : h[n] = g[n],
         NEW s, NEW r, AreStarts(s, h, N), AreStarts(r, g, M)
  PROVE  \A n \in 1 .. N + 1 : s[n] = r[n]
<1> DEFINE A == {m \in Nat : m <= N => s[m + 1] = r[m + 1]}
<1>1. 0 \in A
  BY DEF AreStarts
<1>2. ASSUME NEW m \in Nat, m \in A PROVE m + 1 \in A
  <2> SUFFICES ASSUME m + 1 <= N PROVE s[(m + 1) + 1] = r[(m + 1) + 1]
    OBVIOUS
  <2>1. s[m + 1] = r[m + 1] /\ m + 1 \in 1 .. N /\ m + 1 \in 1 .. M
    BY <1>2
  <2> QED BY <2>1 DEF AreStarts
<1>3. \A n \in Nat : n \in A
  <2> HIDE DEF A
  <2> QED BY <1>1, <1>2, Induction
<1>4. ASSUME NEW n \in 1 .. N + 1 PROVE s[n] = r[n]
  <2>1. n - 1 \in Nat /\ n - 1 <= N /\ (n - 1) + 1 = n
    OBVIOUS
  <2>2. n - 1 \in A
    BY <1>3, <2>1
  <2> QED BY <2>1, <2>2
<1> QED BY <1>4

LEMMA StartsOfAreStarts ==
  ASSUME NEW h \in Seq(Nat)
  PROVE  AreStarts(StartsOf(h), h, Len(h))
<1> DEFINE N == Len(h)
           Body(s) == [n \in 1 .. N + 1 |-> IF n = 1 THEN 0 ELSE s[n - 1] + h[n - 1]]
           S == CHOOSE s : s = Body(s)
<1>1. N \in Nat /\ h \in [1 .. N -> Nat]
  OBVIOUS
<1>2. PICK s : AreStarts(s, h, N)
  BY <1>1, StartsExist
<1>3. s = Body(s)
  <2>1. s \in [1 .. N + 1 -> Nat]
    BY <1>2 DEF AreStarts
  <2>2. \A n \in 1 .. N + 1 : s[n] = IF n = 1 THEN 0 ELSE s[n - 1] + h[n - 1]
    <3> SUFFICES ASSUME NEW n \in 1 .. N + 1, n # 1 PROVE s[n] = s[n - 1] + h[n - 1]
      BY <1>2 DEF AreStarts
    <3>1. n - 1 \in 1 .. N /\ (n - 1) + 1 = n
      BY <1>1
    <3> QED BY <1>2, <3>1 DEF AreStarts
  <2> HIDE DEF N
  <2> QED BY <2>1, <2>2
<1>4. StartsOf(h) = S
  BY DEF StartsOf
<1>5. S = Body(S)
  <2> HIDE DEF Body
  <2> QED BY <1>3
<1> HIDE DEF S
<1>6. AreStarts(S, h, N)
  <2>1. DOMAIN S = 1 .. N + 1 /\ \A n \in 1 .. N + 1 : S[n] = IF n = 1 THEN 0 ELSE S[n - 1] + h[n - 1]
    BY <1>5
  <2>2. S[1] = 0
    BY <1>1, <2>1
  <2>3. \A n \in 1 .. N : S[n + 1] = S[n] + h[n]
    <3> SUFFICES ASSUME NEW n \in 1 .. N PROVE S[n + 1] = S[n] + h[n]
      OBVIOUS
    <3>1. n + 1 \in 1 .. N + 1 /\ n + 1 # 1 /\ (n + 1) - 1 = n
      BY <1>1
    <3> QED BY <2>1, <3>1
  <2> DEFINE A == {m \in Nat : m <= N => S[m + 1] \in Nat}
  <2>4. 0 \in A
    BY <2>2
  <2>5. ASSUME NEW m \in Nat, m \in A PROVE m + 1 \in A
    <3> SUFFICES ASSUME m + 1 <= N PROVE S[(m + 1) + 1] \in Nat
      OBVIOUS
    <3>1. m + 1 \in 1 .. N /\ S[m + 1] \in Nat
      BY <1>1, <2>5
    <3> QED BY <1>1, <2>3, <3>1
  <2>6. \A n \in Nat : n \in A
    <3> HIDE DEF A
    <3> QED BY <2>4, <2>5, Induction
  <2>7. \A n \in 1 .. N + 1 : S[n] \in Nat
    <3> SUFFICES ASSUME NEW n \in 1 .. N + 1 PROVE S[n] \in Nat
      OBVIOUS
    <3>1. n - 1 \in Nat /\ n - 1 <= N /\ (n - 1) + 1 = n
      BY <1>1
    <3>2. n - 1 \in A
      BY <2>6, <3>1
    <3> QED BY <3>1, <3>2
  <2>8. S \in [1 .. N + 1 -> Nat]
    <3>1. S = [n \in 1 .. N + 1 |-> S[n]]
      BY <1>5
    <3> QED BY <2>7, <3>1
  <2> QED BY <2>2, <2>3, <2>8 DEF AreStarts
<1> QED BY <1>4, <1>6

-----------------------------------------------------------------------------
(* What a new track holds.                                                 *)

Hits == Tracks \X Nat
Station(hit) == shape[hit[1]][hit[2]]
Content(t) == IF IsLinked(t) THEN Merged(t) ELSE HitsOf(t)
Partners(t) == IF IsLinked(t) THEN {t, neighbour[t]} ELSE {t}

\* The hits of some tracks, each once and in the order of their stations.
InOrder(c) == \A k, l \in DOMAIN c : k < l => Station(c[k]) < Station(c[l])
IsContent(c, ts) ==
  /\ c \in Seq(Hits) /\ IsInjective(c)
  /\ \A k \in DOMAIN c : c[k][1] \in ts
  /\ \A u \in ts : Range(HitsOf(u)) \subseteq Range(c)
  /\ InOrder(c)

LEMMA ShapeFacts ==
  ASSUME TypeOK, NEW t \in Tracks
  PROVE  /\ Len(shape[t]) \in Nat \ {0} /\ DOMAIN shape[t] = 1 .. Len(shape[t])
         /\ \A m \in 1 .. Len(shape[t]) : shape[t][m] \in Int
         /\ \A m, n \in 1 .. Len(shape[t]) : m < n => shape[t][m] < shape[t][n]
         /\ \A m \in 1 .. Len(shape[t]) : firstStation(t) <= shape[t][m] /\ shape[t][m] <= lastStation(t)
<1> DEFINE S == 0 .. NStations - 1
<1>1. shape[t] \in Seq(S) /\ shape[t] # <<>>
      /\ \A m, n \in DOMAIN shape[t] : m < n => shape[t][m] < shape[t][n]
  BY ShapesAssumption DEF TypeOK
<1>2. /\ Len(shape[t]) \in Nat \ {0} /\ DOMAIN shape[t] = 1 .. Len(shape[t])
      /\ \A m \in 1 .. Len(shape[t]) : shape[t][m] \in S
  <2> HIDE DEF S
  <2> QED BY <1>1
<1>3. \A m \in 1 .. Len(shape[t]) : shape[t][m] \in Int
  BY <1>2
<1> HIDE DEF S
<1>4. ASSUME NEW m \in 1 .. Len(shape[t])
      PROVE  firstStation(t) <= shape[t][m] /\ shape[t][m] <= lastStation(t)
  <2>1. firstStation(t) <= shape[t][m]
    <3>1. CASE m = 1
      BY <1>3, <3>1 DEF firstStation
    <3>2. CASE m # 1
      <4>1. 1 \in 1 .. Len(shape[t]) /\ 1 < m
        BY <1>2, <3>2
      <4> QED BY <1>1, <1>2, <1>3, <4>1 DEF firstStation
    <3> QED BY <3>1, <3>2
  <2>2. shape[t][m] <= lastStation(t)
    <3>1. CASE m = Len(shape[t])
      BY <1>3, <3>1 DEF lastStation
    <3>2. CASE m # Len(shape[t])
      <4>1. Len(shape[t]) \in 1 .. Len(shape[t]) /\ m < Len(shape[t])
        BY <1>2, <3>2
      <4> QED BY <1>1, <1>2, <1>3, <4>1 DEF lastStation
    <3> QED BY <3>1, <3>2
  <2> QED BY <2>1, <2>2
<1> QED BY <1>1, <1>2, <1>3, <1>4

LEMMA HitsOfFacts ==
  ASSUME TypeOK, NEW t \in Tracks
  PROVE  /\ HitsOf(t) \in Seq(Hits) /\ Len(HitsOf(t)) = Len(shape[t])
         /\ DOMAIN HitsOf(t) = 1 .. Len(shape[t])
         /\ \A k \in 1 .. Len(shape[t]) : HitsOf(t)[k] = <<t, k>>
<1>1. Len(shape[t]) \in Nat /\ DOMAIN shape[t] = 1 .. Len(shape[t])
  BY ShapeFacts
<1>2. \A k \in 1 .. Len(shape[t]) : <<t, k>> \in Hits
  BY <1>1 DEF Hits
<1>3. HitsOf(t) = [k \in 1 .. Len(shape[t]) |-> <<t, k>>]
  BY <1>1 DEF HitsOf
<1>4. HitsOf(t) \in [1 .. Len(shape[t]) -> Hits]
  BY <1>2, <1>3
<1> HIDE DEF Hits
<1> QED BY <1>1, <1>3, <1>4

LEMMA HitsOfContent ==
  ASSUME TypeOK, NEW t \in Tracks
  PROVE  IsContent(HitsOf(t), {t})
<1>1. /\ HitsOf(t) \in Seq(Hits) /\ DOMAIN HitsOf(t) = 1 .. Len(shape[t])
      /\ \A k \in 1 .. Len(shape[t]) : HitsOf(t)[k] = <<t, k>>
  BY HitsOfFacts
<1>2. IsInjective(HitsOf(t)) /\ \A k \in DOMAIN HitsOf(t) : HitsOf(t)[k][1] \in {t}
  BY <1>1 DEF IsInjective
<1>3. InOrder(HitsOf(t))
  BY <1>1, ShapeFacts DEF InOrder, Station
<1> QED BY <1>1, <1>2, <1>3 DEF IsContent

\* A list and another behind it.
IsConcat(c, a, b) ==
  /\ Len(a) \in Nat /\ Len(b) \in Nat
  /\ Len(c) = Len(a) + Len(b) /\ DOMAIN c = 1 .. Len(a) + Len(b)
  /\ \A k \in 1 .. Len(a) : c[k] = a[k]
  /\ \A k \in 1 .. Len(b) : c[Len(a) + k] = b[k]
  /\ \A k \in 1 .. Len(a) + Len(b) :
       k \in 1 .. Len(a) \/ \E l \in 1 .. Len(b) : k = Len(a) + l
  /\ DOMAIN a = 1 .. Len(a) /\ DOMAIN b = 1 .. Len(b)
  /\ Range(c) = Range(a) \cup Range(b)

LEMMA ConcatFacts ==
  ASSUME NEW S, NEW a \in Seq(S), NEW b \in Seq(S)
  PROVE  a \o b \in Seq(S) /\ IsConcat(a \o b, a, b)
<1>1. /\ a \o b \in Seq(S) /\ Len(a) \in Nat /\ Len(b) \in Nat
      /\ Len(a \o b) = Len(a) + Len(b) /\ DOMAIN (a \o b) = 1 .. Len(a) + Len(b)
      /\ \A k \in 1 .. Len(a) : (a \o b)[k] = a[k]
      /\ DOMAIN a = 1 .. Len(a) /\ DOMAIN b = 1 .. Len(b)
  OBVIOUS
<1>2. \A k \in 1 .. Len(b) : (a \o b)[Len(a) + k] = b[k]
  <2> SUFFICES ASSUME NEW k \in 1 .. Len(b) PROVE (a \o b)[Len(a) + k] = b[k]
    OBVIOUS
  <2>1. Len(a) + k \in 1 .. Len(a) + Len(b) /\ ~(Len(a) + k <= Len(a)) /\ Len(a) + k - Len(a) = k
    BY <1>1
  <2> QED BY <1>1, <2>1
<1>3. \A k \in 1 .. Len(a) + Len(b) :
        k \in 1 .. Len(a) \/ \E l \in 1 .. Len(b) : k = Len(a) + l
  <2> SUFFICES ASSUME NEW k \in 1 .. Len(a) + Len(b), k \notin 1 .. Len(a)
      PROVE  \E l \in 1 .. Len(b) : k = Len(a) + l
    OBVIOUS
  <2>1. k - Len(a) \in 1 .. Len(b) /\ k = Len(a) + (k - Len(a))
    BY <1>1
  <2> QED BY <2>1
<1> DEFINE c == a \o b
<1>4. DOMAIN c = 1 .. Len(a) + Len(b) /\ (\A k \in 1 .. Len(a) : c[k] = a[k])
      /\ (\A k \in 1 .. Len(b) : c[Len(a) + k] = b[k])
  BY <1>1, <1>2
<1> HIDE DEF c
<1>5. Range(c) = Range(a) \cup Range(b)
  <2>1. ASSUME NEW k \in DOMAIN c PROVE c[k] \in Range(a) \cup Range(b)
    <3>1. CASE k \in 1 .. Len(a)
      BY <1>1, <1>4, <3>1 DEF Range
    <3>2. CASE k \notin 1 .. Len(a)
      <4>1. PICK l \in 1 .. Len(b) : k = Len(a) + l
        BY <1>3, <1>4, <3>2
      <4>2. c[k] = b[l]
        BY <1>4, <4>1
      <4> QED BY <1>1, <4>2 DEF Range
    <3> QED BY <3>1, <3>2
  <2>2. ASSUME NEW k \in DOMAIN a PROVE a[k] \in Range(c)
    <3>1. k \in DOMAIN c /\ c[k] = a[k]
      BY <1>1, <1>4
    <3> QED BY <3>1 DEF Range
  <2>3. ASSUME NEW k \in DOMAIN b PROVE b[k] \in Range(c)
    <3>1. Len(a) + k \in DOMAIN c /\ c[Len(a) + k] = b[k]
      BY <1>1, <1>4
    <3> QED BY <3>1 DEF Range
  <2> QED BY <2>1, <2>2, <2>3 DEF Range
<1> QED BY <1>1, <1>2, <1>3, <1>5 DEF c, IsConcat

\* Two lists without a common track stay without doubles when put together.
LEMMA ConcatInjective ==
  ASSUME NEW a \in Seq(Hits), NEW b \in Seq(Hits), IsInjective(a), IsInjective(b), NEW T,
         \A k \in DOMAIN a : a[k][1] \in T, \A k \in DOMAIN b : b[k][1] \notin T
  PROVE  IsInjective(a \o b)
<1> DEFINE c == a \o b
<1>0. IsConcat(c, a, b)
  BY ConcatFacts
<1> HIDE DEF c
<1>1. /\ Len(a) \in Nat /\ Len(b) \in Nat /\ DOMAIN c = 1 .. Len(a) + Len(b)
      /\ \A k \in 1 .. Len(a) : c[k] = a[k]
      /\ \A k \in 1 .. Len(b) : c[Len(a) + k] = b[k]
      /\ \A k \in 1 .. Len(a) + Len(b) :
           k \in 1 .. Len(a) \/ \E l \in 1 .. Len(b) : k = Len(a) + l
      /\ DOMAIN a = 1 .. Len(a) /\ DOMAIN b = 1 .. Len(b)
  BY <1>0 DEF IsConcat
<1> SUFFICES ASSUME NEW k \in DOMAIN c, NEW l \in DOMAIN c, c[k] = c[l] PROVE k = l
  BY DEF IsInjective, c
<1>2. CASE k \in 1 .. Len(a)
  <2>1. c[k][1] \in T
    BY <1>1, <1>2
  <2>2. \A n \in 1 .. Len(b) : c[Len(a) + n][1] \notin T
    BY <1>1
  <2>3. l \in 1 .. Len(a)
    BY <1>1, <2>1, <2>2
  <2> QED BY <1>1, <1>2, <2>3 DEF IsInjective
<1>3. CASE k \notin 1 .. Len(a)
  <2>1. PICK m \in 1 .. Len(b) : k = Len(a) + m
    BY <1>1, <1>3
  <2>2. l \notin 1 .. Len(a)
    <3>1. c[k][1] \notin T
      BY <1>1, <2>1
    <3>2. \A n \in 1 .. Len(a) : c[n][1] \in T
      BY <1>1
    <3> QED BY <3>1, <3>2
  <2>3. PICK n \in 1 .. Len(b) : l = Len(a) + n
    BY <1>1, <2>2
  <2>4. b[m] = b[n]
    BY <1>1, <2>1, <2>3
  <2> QED BY <1>1, <2>1, <2>3, <2>4 DEF IsInjective
<1> QED BY <1>2, <1>3

\* A list cut into runs, and one more run behind it.
AreRuns(s, h, hits, C, N) ==
  /\ AreStarts(s, h, N) /\ Len(hits) = s[N + 1]
  /\ \A n \in 1 .. N : /\ h[n] = Len(C[n]) /\ s[n + 1] <= Len(hits)
                       /\ \A k \in 1 .. h[n] : hits[s[n] + k] = C[n][k]

Lengthens(h2, h, N, v) == h2[N + 1] = v /\ \A n \in 1 .. N : h2[n] = h[n]

LEMMA AppendRuns ==
  ASSUME NEW N \in Nat, NEW s, NEW h, NEW hits, NEW C, AreRuns(s, h, hits, C, N),
         NEW hits2, NEW c, IsConcat(hits2, hits, c), NEW h2, NEW C2,
         \A n \in 1 .. N : h[n] \in Nat, Lengthens(h2, h, N, Len(c)), Lengthens(C2, C, N, c)
  PROVE  \E r : AreRuns(r, h2, hits2, C2, N + 1)
<1> DEFINE r == [n \in 1 .. N + 2 |-> IF n = N + 2 THEN s[N + 1] + Len(c) ELSE s[n]]
<1>0. /\ \A n \in 1 .. N : h2[n] = h[n] /\ h[n] \in Nat /\ C2[n] = C[n]
      /\ h2[N + 1] = Len(c) /\ C2[N + 1] = c
  BY DEF Lengthens
<1>1. /\ \A n \in 1 .. N + 1 : s[n] \in Nat
      /\ s[1] = 0 /\ \A n \in 1 .. N : s[n + 1] = s[n] + h[n]
      /\ Len(hits) = s[N + 1]
  BY DEF AreRuns, AreStarts
<1>2. /\ Len(hits) \in Nat /\ Len(c) \in Nat /\ Len(hits2) = Len(hits) + Len(c)
      /\ \A k \in 1 .. Len(hits) : hits2[k] = hits[k]
      /\ \A k \in 1 .. Len(c) : hits2[Len(hits) + k] = c[k]
  BY DEF IsConcat
<1>3. /\ r \in [1 .. N + 2 -> Nat] /\ r[N + 2] = Len(hits2)
      /\ \A n \in 1 .. N + 1 : r[n] = s[n]
  <2>1. r[N + 2] = Len(hits2)
    BY <1>1, <1>2
  <2>2. \A n \in 1 .. N + 1 : r[n] = s[n]
    OBVIOUS
  <2>3. s[N + 1] + Len(c) \in Nat
    BY <1>1, <1>2
  <2>4. r \in [1 .. N + 2 -> Nat]
    BY <1>1, <2>3
  <2> QED BY <2>1, <2>2, <2>4
<1> HIDE DEF r
<1>4. /\ (N + 1) + 1 = N + 2 /\ 1 \in 1 .. N + 1 /\ N + 1 \in 1 .. N + 1
      /\ \A n \in 1 .. N : n \in 1 .. N + 1 /\ n + 1 \in 1 .. N + 1
      /\ \A n \in 1 .. N + 1 : n = N + 1 \/ n \in 1 .. N
  OBVIOUS
<1>5. ASSUME NEW n \in 1 .. N + 1
      PROVE  /\ r[n + 1] = r[n] + h2[n]
             /\ h2[n] = Len(C2[n]) /\ r[n + 1] <= Len(hits2)
             /\ \A k \in 1 .. h2[n] : hits2[r[n] + k] = C2[n][k]
  <2>1. CASE n = N + 1
    <3>1. r[n + 1] = Len(hits) + Len(c) /\ r[n] = Len(hits) /\ h2[n] = Len(c) /\ C2[n] = c
      BY <1>0, <1>1, <1>2, <1>3, <1>4, <2>1
    <3> QED BY <1>2, <3>1
  <2>2. CASE n \in 1 .. N
    <3>1. /\ r[n] = s[n] /\ r[n + 1] = s[n + 1] /\ s[n + 1] = s[n] + h[n]
          /\ h2[n] = h[n] /\ C2[n] = C[n] /\ s[n] \in Nat /\ h[n] \in Nat
      BY <1>0, <1>1, <1>3, <1>4, <2>2
    <3>2. /\ h[n] = Len(C[n]) /\ s[n + 1] <= Len(hits)
          /\ \A k \in 1 .. h[n] : hits[s[n] + k] = C[n][k]
      BY <2>2 DEF AreRuns
    <3>3. s[n + 1] <= Len(hits) + Len(c)
      BY <1>2, <3>1, <3>2
    <3>4. ASSUME NEW k \in 1 .. h[n] PROVE hits2[s[n] + k] = hits[s[n] + k]
      <4>1. s[n] + k \in 1 .. Len(hits)
        BY <1>2, <3>1, <3>2
      <4> QED BY <1>2, <4>1
    <3> QED BY <1>2, <3>1, <3>2, <3>3, <3>4
  <2> QED BY <1>4, <2>1, <2>2
<1>6. AreStarts(r, h2, N + 1)
  BY <1>1, <1>3, <1>4, <1>5 DEF AreStarts
<1>7. AreRuns(r, h2, hits2, C2, N + 1)
  BY <1>3, <1>4, <1>5, <1>6 DEF AreRuns
<1> QED BY <1>7

LEMMA JoinedContent ==
  ASSUME TypeOK, NEW u \in Tracks, NEW d \in Tracks, u # d, lastStation(u) < firstStation(d)
  PROVE  IsContent(HitsOf(u) \o HitsOf(d), {u, d})
<1> DEFINE a == HitsOf(u)
           b == HitsOf(d)
           c == a \o b
<1>1. /\ a \in Seq(Hits) /\ Len(a) = Len(shape[u]) /\ DOMAIN a = 1 .. Len(shape[u])
      /\ \A k \in 1 .. Len(shape[u]) : a[k] = <<u, k>>
  BY HitsOfFacts
<1>2. /\ b \in Seq(Hits) /\ Len(b) = Len(shape[d]) /\ DOMAIN b = 1 .. Len(shape[d])
      /\ \A k \in 1 .. Len(shape[d]) : b[k] = <<d, k>>
  BY HitsOfFacts
<1>3. IsInjective(a) /\ IsInjective(b) /\ InOrder(a) /\ InOrder(b)
  BY HitsOfContent DEF IsContent
<1>4. \A k \in DOMAIN a : a[k][1] = u /\ Station(a[k]) \in Int /\ Station(a[k]) <= lastStation(u)
  BY <1>1, ShapeFacts DEF Station
<1>5. \A k \in DOMAIN b : b[k][1] = d /\ Station(b[k]) \in Int /\ firstStation(d) <= Station(b[k])
  BY <1>2, ShapeFacts DEF Station
<1>6. firstStation(d) \in Int /\ lastStation(u) \in Int
  BY FirstBeforeLast
<1> HIDE DEF a, b
<1>0. c \in Seq(Hits) /\ IsConcat(c, a, b)
  BY <1>1, <1>2, ConcatFacts
<1>7. /\ c \in Seq(Hits) /\ Len(a) \in Nat /\ Len(b) \in Nat /\ DOMAIN c = 1 .. Len(a) + Len(b)
      /\ \A k \in 1 .. Len(a) : c[k] = a[k]
      /\ \A k \in 1 .. Len(b) : c[Len(a) + k] = b[k]
      /\ \A k \in 1 .. Len(a) + Len(b) :
           k \in 1 .. Len(a) \/ \E l \in 1 .. Len(b) : k = Len(a) + l
      /\ DOMAIN a = 1 .. Len(a) /\ DOMAIN b = 1 .. Len(b)
      /\ Range(c) = Range(a) \cup Range(b)
  <2> HIDE DEF c
  <2> QED BY <1>0 DEF IsConcat
<1>8. IsInjective(c)
  <2>1. \A k \in DOMAIN a : a[k][1] \in {u}
    BY <1>4
  <2>2. \A k \in DOMAIN b : b[k][1] \notin {u}
    BY <1>5
  <2> QED BY <1>1, <1>2, <1>3, <2>1, <2>2, ConcatInjective
<1> HIDE DEF c
<1>9. \A k \in DOMAIN c : c[k][1] \in {u, d}
  <2>1. \A k \in 1 .. Len(a) : c[k][1] = u
    BY <1>4, <1>7
  <2>2. \A k \in 1 .. Len(b) : c[Len(a) + k][1] = d
    BY <1>5, <1>7
  <2> QED BY <1>7, <2>1, <2>2
<1>10. InOrder(c)
  <2> SUFFICES ASSUME NEW k \in DOMAIN c, NEW l \in DOMAIN c, k < l
      PROVE  Station(c[k]) < Station(c[l])
    BY DEF InOrder
  <2>1. CASE k \in 1 .. Len(a) /\ l \in 1 .. Len(a)
    BY <1>3, <1>7, <2>1 DEF InOrder
  <2>2. ASSUME k \in 1 .. Len(a), NEW n \in 1 .. Len(b), l = Len(a) + n
        PROVE  Station(c[k]) < Station(c[l])
    <3>1. c[k] = a[k] /\ c[l] = b[n]
      BY <1>7, <2>2
    <3>2. /\ Station(a[k]) \in Int /\ Station(a[k]) <= lastStation(u)
          /\ Station(b[n]) \in Int /\ firstStation(d) <= Station(b[n])
      BY <1>4, <1>5, <1>7, <2>2
    <3> QED BY <1>6, <3>1, <3>2
  <2>3. ASSUME NEW m \in 1 .. Len(b), k = Len(a) + m, NEW n \in 1 .. Len(b), l = Len(a) + n
        PROVE  Station(c[k]) < Station(c[l])
    <3>1. c[k] = b[m] /\ c[l] = b[n] /\ m < n
      BY <1>7, <2>3
    <3> QED BY <1>3, <1>7, <3>1 DEF InOrder
  <2>4. CASE k \in 1 .. Len(a)
    BY <1>7, <2>1, <2>2, <2>4
  <2>5. CASE k \notin 1 .. Len(a)
    <3>1. PICK m \in 1 .. Len(b) : k = Len(a) + m
      BY <1>7, <2>5
    <3>2. l \notin 1 .. Len(a)
      BY <1>7, <3>1
    <3>3. PICK n \in 1 .. Len(b) : l = Len(a) + n
      BY <1>7, <3>2
    <3> QED BY <2>3, <3>1, <3>3
  <2> QED BY <2>4, <2>5
<1>11. \A t \in {u, d} : Range(HitsOf(t)) \subseteq Range(c)
  BY <1>7 DEF a, b
<1>12. IsContent(c, {u, d})
  BY <1>7, <1>8, <1>9, <1>10, <1>11 DEF IsContent
<1> QED BY <1>12 DEF a, b, c

LEMMA ContentFacts ==
  ASSUME LinksInv, NEW t \in Tracks
  PROVE  /\ IsContent(Content(t), Partners(t)) /\ Partners(t) \subseteq Tracks
         /\ Len(Content(t)) = Len(shape[t]) + (IF IsLinked(t) THEN Len(shape[neighbour[t]]) ELSE 0)
<1>1. TypeOK
  BY DEF LinksInv
<1>2. CASE ~IsLinked(t)
  BY <1>1, <1>2, HitsOfFacts, HitsOfContent, ShapeFacts DEF Content, Partners
<1>3. CASE IsLinked(t)
  <2> DEFINE p == neighbour[t]
  <2>1. p \in Tracks
    BY <1>1, <1>3 DEF TypeOK, IsLinked
  <2>2. /\ p # t /\ neighbour[p] = t
        /\ (isDownstreamNeighbour[t] <=> firstStation(t) > lastStation(p))
        /\ isDownstreamNeighbour[t] # isDownstreamNeighbour[p]
    BY <1>3 DEF LinksInv, LinksAreMutual
  <2>3. isDownstreamNeighbour[p] <=> firstStation(p) > lastStation(t)
    <3>1. IsLinked(p)
      BY <2>2, CloneMergerAssumption DEF IsLinked
    <3> QED BY <2>1, <2>2, <3>1 DEF LinksInv, LinksAreMutual
  <2>4. /\ isDownstreamNeighbour[t] \in BOOLEAN /\ isDownstreamNeighbour[p] \in BOOLEAN
        /\ firstStation(t) \in Int /\ lastStation(t) \in Int
        /\ firstStation(p) \in Int /\ lastStation(p) \in Int
    BY <1>1, <2>1, FirstBeforeLast DEF TypeOK
  <2>5. /\ HitsOf(t) \in Seq(Hits) /\ Len(HitsOf(t)) = Len(shape[t])
        /\ HitsOf(p) \in Seq(Hits) /\ Len(HitsOf(p)) = Len(shape[p])
        /\ Len(shape[t]) \in Nat /\ Len(shape[p]) \in Nat
    BY <1>1, <2>1, HitsOfFacts, ShapeFacts
  <2>6. CASE isDownstreamNeighbour[t]
    <3>1. Content(t) = HitsOf(p) \o HitsOf(t)
      BY <1>3, <2>6 DEF Content, Merged
    <3>2. IsContent(HitsOf(p) \o HitsOf(t), {p, t})
      BY <1>1, <2>1, <2>2, <2>4, <2>6, JoinedContent
    <3>3. Len(HitsOf(p) \o HitsOf(t)) = Len(shape[p]) + Len(shape[t])
      <4>1. IsConcat(HitsOf(p) \o HitsOf(t), HitsOf(p), HitsOf(t))
        BY <2>5, ConcatFacts
      <4> QED BY <2>5, <4>1 DEF IsConcat
    <3>4. Partners(t) = {p, t}
      BY <1>3 DEF Partners
    <3>5. Partners(t) \subseteq Tracks /\ IsContent(Content(t), Partners(t))
      BY <2>1, <3>1, <3>2, <3>4
    <3>6. Len(Content(t)) = Len(shape[t]) + Len(shape[p])
      <4>1. Len(Content(t)) = Len(shape[p]) + Len(shape[t])
        BY <3>1, <3>3
      <4>2. Len(shape[p]) \in Nat /\ Len(shape[t]) \in Nat
        BY <2>5
      <4>3. \A a, b \in Nat : a + b = b + a
        OBVIOUS
      <4>4. Len(shape[p]) + Len(shape[t]) = Len(shape[t]) + Len(shape[p])
        BY <4>2, <4>3, Zenon
      <4> QED BY <4>1, <4>4, Zenon
    <3> QED BY <1>3, <3>5, <3>6
  <2>7. CASE ~isDownstreamNeighbour[t]
    <3>1. Content(t) = HitsOf(t) \o HitsOf(p)
      BY <1>3, <2>7 DEF Content, Merged
    <3>2. lastStation(t) < firstStation(p)
      BY <2>2, <2>3, <2>4, <2>7
    <3>3. IsContent(HitsOf(t) \o HitsOf(p), {t, p})
      BY <1>1, <2>1, <2>2, <3>2, JoinedContent
    <3>4. Len(HitsOf(t) \o HitsOf(p)) = Len(shape[t]) + Len(shape[p])
      <4>1. IsConcat(HitsOf(t) \o HitsOf(p), HitsOf(t), HitsOf(p))
        BY <2>5, ConcatFacts
      <4> QED BY <2>5, <4>1 DEF IsConcat
    <3>5. Partners(t) = {t, p}
      BY <1>3 DEF Partners
    <3>6. Partners(t) \subseteq Tracks /\ IsContent(Content(t), Partners(t))
      BY <2>1, <3>1, <3>3, <3>5
    <3>7. Len(Content(t)) = Len(shape[t]) + Len(shape[p])
      BY <3>1, <3>4
    <3> QED BY <1>3, <3>6, <3>7
  <2> QED BY <2>6, <2>7
<1> QED BY <1>2, <1>3

-----------------------------------------------------------------------------
(* The lists.                                                              *)

NewTracks == [track : Tracks, nHits : Nat]
Written == {tracksNew[n].track : n \in DOMAIN tracksNew}
Covered == UNION {Partners(t) : t \in Written}
Lengths == [n \in DOMAIN tracksNew |-> tracksNew[n].nHits]

\* Who was written, and that its partner is then marked.
WrittenInv ==
  /\ step = "link" => tracksNew = <<>> /\ recoHits = <<>> /\ \A t \in Tracks : ~isStored[t]
  /\ step = "end" => iTr = NTracks + 1
  /\ step # "link" =>
       /\ \A t \in Written : t < iTr /\ ~isStored[t]
       /\ \A t \in Tracks : isStored[t] <=> IsLinked(t) /\ neighbour[t] \in Written
       /\ \A t \in Tracks : t < iTr => t \in Written \/ isStored[t]

\* The list of hits is made of the contents of the new tracks.
Contents == [n \in DOMAIN tracksNew |-> Content(tracksNew[n].track)]

ListsInv ==
  /\ tracksNew \in Seq(NewTracks) /\ recoHits \in Seq(Hits) /\ IsInjective(recoHits)
  /\ \A k \in DOMAIN recoHits : recoHits[k][1] \in Covered
  /\ WrittenInv
  /\ \E s : AreRuns(s, Lengths, recoHits, Contents, Len(tracksNew))

LEMMA LengthsType ==
  ASSUME tracksNew \in Seq(NewTracks)
  PROVE  /\ Len(tracksNew) \in Nat /\ DOMAIN tracksNew = 1 .. Len(tracksNew)
         /\ \A n \in 1 .. Len(tracksNew) : tracksNew[n] \in NewTracks
         /\ \A n \in 1 .. Len(tracksNew) : tracksNew[n].track \in Tracks /\ tracksNew[n].nHits \in Nat
         /\ Lengths \in Seq(Nat) /\ Len(Lengths) = Len(tracksNew)
         /\ \A n \in 1 .. Len(tracksNew) : Lengths[n] = tracksNew[n].nHits
<1>1. /\ Len(tracksNew) \in Nat /\ DOMAIN tracksNew = 1 .. Len(tracksNew)
      /\ \A n \in 1 .. Len(tracksNew) : tracksNew[n] \in NewTracks
  <2> HIDE DEF NewTracks
  <2> QED OBVIOUS
<1>2. \A n \in 1 .. Len(tracksNew) : tracksNew[n].track \in Tracks /\ tracksNew[n].nHits \in Nat
  BY <1>1 DEF NewTracks
<1>3. Lengths = [n \in 1 .. Len(tracksNew) |-> tracksNew[n].nHits]
  BY <1>1 DEF Lengths
<1>4. Lengths \in [1 .. Len(tracksNew) -> Nat]
  BY <1>2, <1>3
<1> QED BY <1>1, <1>2, <1>3, <1>4

LEMMA InitListsInv == Init => ListsInv
<1> SUFFICES ASSUME Init PROVE ListsInv
  OBVIOUS
<1>1. /\ tracksNew = <<>> /\ recoHits = <<>> /\ step = "link" /\ \A t \in Tracks : ~isStored[t]
  BY DEF Init
<1>2. tracksNew \in Seq(NewTracks) /\ recoHits \in Seq(Hits) /\ IsInjective(recoHits)
  BY <1>1 DEF IsInjective
<1>3. AreRuns([n \in 1 .. 1 |-> 0], Lengths, recoHits, Contents, Len(tracksNew))
  BY <1>1 DEF AreStarts, AreRuns
<1>4. WrittenInv /\ \A k \in DOMAIN recoHits : recoHits[k][1] \in Covered
  BY <1>1 DEF WrittenInv
<1> QED BY <1>2, <1>3, <1>4 DEF ListsInv

\* One more new track.
LEMMA AppendTrack ==
  ASSUME LinksInv, ListsInv, step = "store", iTr \in Tracks, ~isStored[iTr],
         recoHits' = recoHits \o Content(iTr),
         tracksNew' = Append(tracksNew, [track |-> iTr, nHits |-> Len(Content(iTr))]),
         UNCHANGED <<shape, links>>
  PROVE  /\ tracksNew' \in Seq(NewTracks) /\ recoHits' \in Seq(Hits) /\ IsInjective(recoHits')
         /\ \A k \in DOMAIN recoHits' : recoHits'[k][1] \in Covered'
         /\ Written' = Written \cup {iTr}
         /\ \E s : AreRuns(s, Lengths', recoHits', Contents', Len(tracksNew'))
<1> DEFINE N == Len(tracksNew)
           c == Content(iTr)
           x == [track |-> iTr, nHits |-> Len(c)]
<1>1. /\ IsContent(c, Partners(iTr)) /\ Partners(iTr) \subseteq Tracks
      /\ c \in Seq(Hits) /\ IsInjective(c) /\ \A k \in DOMAIN c : c[k][1] \in Partners(iTr)
  BY ContentFacts DEF IsContent
<1>2. /\ N \in Nat /\ DOMAIN tracksNew = 1 .. N /\ Lengths \in Seq(Nat) /\ Len(Lengths) = N
      /\ \A n \in 1 .. N : tracksNew[n].track \in Tracks /\ tracksNew[n].nHits \in Nat
      /\ \A n \in 1 .. N : Lengths[n] = tracksNew[n].nHits
  BY LengthsType DEF ListsInv
<1>3. Len(c) \in Nat
  <2> HIDE DEF c
  <2> QED BY <1>1
<1>4. x \in NewTracks /\ tracksNew \in Seq(NewTracks)
  BY <1>3 DEF NewTracks, ListsInv
<1>5. /\ tracksNew' \in Seq(NewTracks) /\ Len(tracksNew') = N + 1 /\ DOMAIN tracksNew' = 1 .. N + 1
      /\ \A n \in 1 .. N : tracksNew'[n] = tracksNew[n]
      /\ tracksNew'[N + 1] = x
  <2>1. tracksNew' = Append(tracksNew, x)
    OBVIOUS
  <2> HIDE DEF x, NewTracks
  <2> QED BY <1>2, <1>4, <2>1
<1>6. \A t : Content(t)' = Content(t) /\ Partners(t)' = Partners(t)
  BY DEF Content, Merged, HitsOf, Partners, IsLinked, links
<1>7. Written' = Written \cup {iTr}
  <2>1. tracksNew'[N + 1].track = iTr
    BY <1>5
  <2>2. ASSUME NEW n \in 1 .. N + 1 PROVE tracksNew'[n].track \in Written \cup {iTr}
    <3>1. CASE n = N + 1
      BY <2>1, <3>1
    <3>2. CASE n \in 1 .. N
      BY <1>2, <1>5, <3>2 DEF Written
    <3> QED BY <1>2, <3>1, <3>2
  <2>3. ASSUME NEW n \in 1 .. N PROVE \E m \in 1 .. N + 1 : tracksNew[n].track = tracksNew'[m].track
    <3>1. n \in 1 .. N + 1 /\ tracksNew'[n] = tracksNew[n]
      BY <1>2, <1>5
    <3> QED BY <3>1
  <2>4. N + 1 \in 1 .. N + 1
    BY <1>2
  <2> HIDE DEF x
  <2> QED BY <1>2, <1>5, <2>1, <2>2, <2>3, <2>4 DEF Written
<1>8. Covered' = Covered \cup Partners(iTr)
  BY <1>6, <1>7 DEF Covered
<1>9. \A k \in DOMAIN recoHits : recoHits[k][1] \notin Partners(iTr)
  <2>1. \A t \in Written : t \in Tracks /\ t < iTr /\ ~isStored[t]
    BY <1>2 DEF ListsInv, WrittenInv, Written
  <2>2. \A t \in Tracks : isStored[t] <=> IsLinked(t) /\ neighbour[t] \in Written
    BY DEF ListsInv, WrittenInv
  <2>3. ASSUME NEW t \in Written, NEW u \in Partners(t), u \in Partners(iTr) PROVE FALSE
    <3>1. t # iTr /\ t \in Tracks /\ ~isStored[t] /\ iTr \notin Written
      BY <2>1
    <3>2. IsLinked(iTr) => neighbour[iTr] \notin Written /\ neighbour[neighbour[iTr]] = iTr
      BY <2>2 DEF LinksInv, LinksAreMutual
    <3>3. IsLinked(t) => neighbour[t] \notin Written /\ neighbour[neighbour[t]] = t
      BY <2>2, <3>1 DEF LinksInv, LinksAreMutual
    <3>4. CASE u = t
      BY <2>3, <3>1, <3>2, <3>4 DEF Partners
    <3>5. CASE u # t
      <4>1. IsLinked(t) /\ u = neighbour[t] /\ neighbour[u] = t
        BY <3>3, <3>5 DEF Partners
      <4>2. CASE u = iTr
        <5>1. IsLinked(iTr)
          BY <3>1, <4>1, <4>2, CloneMergerAssumption DEF IsLinked
        <5> QED BY <3>2, <4>1, <4>2, <5>1
      <4>3. CASE u # iTr
        <5>1. IsLinked(iTr) /\ u = neighbour[iTr]
          BY <2>3, <4>3 DEF Partners
        <5> QED BY <3>1, <3>2, <4>1, <5>1
      <4> QED BY <4>2, <4>3
    <3> QED BY <3>4, <3>5
  <2> QED BY <2>3 DEF ListsInv, Covered
<1>10. recoHits \in Seq(Hits) /\ IsInjective(recoHits) /\ \A k \in DOMAIN recoHits : recoHits[k][1] \in Covered
  BY DEF ListsInv
<1> HIDE DEF c
<1>11. recoHits' \in Seq(Hits) /\ IsConcat(recoHits', recoHits, c)
  <2>1. recoHits' = recoHits \o c
    BY DEF c
  <2>2. recoHits \o c \in Seq(Hits) /\ IsConcat(recoHits \o c, recoHits, c)
    BY <1>1, <1>10, ConcatFacts
  <2> QED BY <2>1, <2>2
<1>12. IsInjective(recoHits')
  <2>1. recoHits' = recoHits \o c
    BY DEF c
  <2>2. /\ \A k \in DOMAIN recoHits : recoHits[k][1] \in Tracks \ Partners(iTr)
        /\ \A k \in DOMAIN c : c[k][1] \notin Tracks \ Partners(iTr)
    <3>1. \A k \in DOMAIN recoHits : recoHits[k] \in Hits
      BY <1>10, <1>11 DEF IsConcat
    <3>2. \A k \in DOMAIN recoHits : recoHits[k][1] \in Tracks
      BY <3>1 DEF Hits
    <3> QED BY <1>1, <1>9, <3>2
  <2> QED BY <1>1, <1>10, <2>1, <2>2, ConcatInjective
<1>13. \A k \in DOMAIN recoHits' : recoHits'[k][1] \in Covered'
  <2>1. \A k \in 1 .. Len(recoHits) : recoHits'[k][1] \in Covered'
    BY <1>8, <1>10, <1>11 DEF IsConcat
  <2>2. \A k \in 1 .. Len(c) : recoHits'[Len(recoHits) + k][1] \in Covered'
    BY <1>1, <1>8, <1>11 DEF IsConcat
  <2> QED BY <1>11, <2>1, <2>2 DEF IsConcat
<1>14. PICK s : AreRuns(s, Lengths, recoHits, Contents, N)
  BY DEF ListsInv
<1>15. /\ \A n \in 1 .. N : Lengths[n] \in Nat
       /\ Lengthens(Lengths', Lengths, N, Len(c)) /\ Lengthens(Contents', Contents, N, c)
  <2>1. \A n \in 1 .. N + 1 : /\ Lengths'[n] = tracksNew'[n].nHits
                            /\ Contents'[n] = Content(tracksNew'[n].track)
    BY <1>5, <1>6 DEF Lengths, Contents
  <2>2. \A n \in 1 .. N : Contents[n] = Content(tracksNew[n].track)
    BY <1>2 DEF Contents
  <2>3. tracksNew'[N + 1].nHits = Len(c) /\ Content(tracksNew'[N + 1].track) = c
    BY <1>5 DEF c
  <2>4. N + 1 \in 1 .. N + 1 /\ \A n \in 1 .. N : n \in 1 .. N + 1
    BY <1>2
  <2> HIDE DEF x, N
  <2>5. ASSUME NEW n \in 1 .. N
        PROVE  Lengths'[n] = Lengths[n] /\ Lengths[n] \in Nat /\ Contents'[n] = Contents[n]
    <3>1. n \in 1 .. N + 1 /\ tracksNew'[n] = tracksNew[n]
      BY <1>5, <2>4
    <3>2. Lengths[n] = tracksNew[n].nHits /\ tracksNew[n].nHits \in Nat
      BY <1>2
    <3> QED BY <2>1, <2>2, <3>1, <3>2
  <2> QED BY <2>1, <2>3, <2>4, <2>5 DEF Lengthens
<1>16. \E r : AreRuns(r, Lengths', recoHits', Contents', N + 1)
  <2>1. N \in Nat /\ IsConcat(recoHits', recoHits, c)
    BY <1>2, <1>11
  <2> HIDE DEF N
  <2> QED BY <1>14, <1>15, <2>1, AppendRuns
<1>17. \E r : AreRuns(r, Lengths', recoHits', Contents', Len(tracksNew'))
  BY <1>5, <1>16
<1> QED BY <1>5, <1>7, <1>11, <1>12, <1>13, <1>17

\* Who is marked after a track was written.
LEMMA WriteTrack ==
  ASSUME LinksInv, WrittenInv, StoreTrack, Written \subseteq Tracks, Written' = Written \cup {iTr}
  PROVE  WrittenInv'
<1>1. /\ step = "store" /\ step' = "store" /\ iTr \in Tracks /\ ~isStored[iTr]
      /\ iTr' = iTr + 1 /\ neighbour' = neighbour
  BY DEF StoreTrack, links
<1>2. /\ \A t \in Written : t < iTr /\ ~isStored[t]
      /\ \A t \in Tracks : isStored[t] <=> IsLinked(t) /\ neighbour[t] \in Written
      /\ \A t \in Tracks : t < iTr => t \in Written \/ isStored[t]
  BY <1>1 DEF WrittenInv
<1>3. isStored \in [Tracks -> BOOLEAN] /\ neighbour \in [Tracks -> Tracks \cup {NoNeighbour}]
  BY DEF LinksInv, TypeOK
<1>4. \A t \in Tracks : IsLinked(t) =>
        neighbour[t] \in Tracks /\ neighbour[t] # t /\ neighbour[neighbour[t]] = t
  BY <1>3 DEF LinksInv, LinksAreMutual, IsLinked
<1>5. \A t \in Tracks : IsLinked(t)' <=> IsLinked(t)
  BY <1>1 DEF IsLinked
<1>6. \A t \in Tracks : isStored'[t] <=> isStored[t] \/ (IsLinked(iTr) /\ t = neighbour[iTr])
  <2>1. CASE IsLinked(iTr)
    <3>1. isStored' = [isStored EXCEPT ![neighbour[iTr]] = TRUE]
      BY <2>1 DEF StoreTrack, MarkStored
    <3> QED BY <1>3, <2>1, <3>1
  <2>2. CASE ~IsLinked(iTr)
    <3>1. isStored' = isStored
      BY <2>2 DEF StoreTrack
    <3> QED BY <2>2, <3>1
  <2> QED BY <2>1, <2>2
<1>7. IsLinked(iTr) => neighbour[iTr] \notin Written
  BY <1>1, <1>2
<1>8. ASSUME NEW t \in Written' PROVE t < iTr' /\ ~isStored'[t]
  <2>1. t \in Tracks
    BY <1>1
  <2>2. t < iTr + 1
    <3>1. CASE t = iTr
      BY <1>1, <3>1
    <3>2. CASE t # iTr
      BY <1>1, <1>2, <2>1, <3>2
    <3> QED BY <3>1, <3>2
  <2>3. ~isStored[t] /\ ~(IsLinked(iTr) /\ t = neighbour[iTr])
    BY <1>1, <1>2, <1>4, <1>7
  <2> QED BY <1>1, <1>6, <2>1, <2>2, <2>3
<1>9. ASSUME NEW t \in Tracks
      PROVE  isStored'[t] <=> IsLinked(t)' /\ neighbour'[t] \in Written'
  <2>1. IsLinked(iTr) /\ t = neighbour[iTr] <=> IsLinked(t) /\ neighbour[t] = iTr
    <3>1. IsLinked(t) /\ neighbour[t] = iTr => neighbour[iTr] = t
      BY <1>4
    <3>2. neighbour[iTr] = t => IsLinked(iTr)
      BY CloneMergerAssumption DEF IsLinked
    <3>3. IsLinked(iTr) /\ t = neighbour[iTr] => neighbour[t] = iTr
      BY <1>1, <1>4
    <3>4. neighbour[t] = iTr => IsLinked(t)
      BY <1>1, CloneMergerAssumption DEF IsLinked
    <3> QED BY <3>1, <3>2, <3>3, <3>4
  <2>2. isStored[t] <=> IsLinked(t) /\ neighbour[t] \in Written
    BY <1>2
  <2>3. isStored'[t] <=> isStored[t] \/ (IsLinked(iTr) /\ t = neighbour[iTr])
    BY <1>6
  <2>4. (IsLinked(t)' /\ neighbour'[t] \in Written')
          <=> (IsLinked(t) /\ (neighbour[t] \in Written \/ neighbour[t] = iTr))
    BY <1>1, <1>5
  <2> QED BY <2>1, <2>2, <2>3, <2>4, Zenon
<1>10. ASSUME NEW t \in Tracks, t < iTr' PROVE t \in Written' \/ isStored'[t]
  <2>1. t < iTr \/ t = iTr
    BY <1>1, <1>10
  <2> QED BY <1>2, <1>6, <2>1
<1> QED BY <1>1, <1>8, <1>9, <1>10 DEF WrittenInv

\* The lists keep their form while the links, the tracks and the lists are as
\* before.
LEMMA SameLists ==
  ASSUME ListsInv, WrittenInv', UNCHANGED <<shape, links, tracksNew, recoHits>>
  PROVE  ListsInv'
<1>1. \A t : Content(t)' = Content(t) /\ Partners(t)' = Partners(t)
  BY DEF Content, Merged, HitsOf, Partners, IsLinked, links
<1>2. Lengths' = Lengths /\ Contents' = Contents /\ Covered' = Covered
  BY <1>1 DEF Lengths, Contents, Covered, Written
<1> QED BY <1>2 DEF ListsInv

LEMMA NextListsInv == LinksInv /\ ListsInv /\ [Next]_vars => ListsInv'
<1> SUFFICES ASSUME LinksInv, ListsInv, [Next]_vars PROVE ListsInv'
  OBVIOUS
<1>1. NTracks \in Nat /\ iTr \in 1 .. NTracks + 1
  BY CloneMergerAssumption DEF LinksInv, TypeOK
<1>2. WrittenInv /\ Written \subseteq Tracks
  BY LengthsType DEF ListsInv, Written
<1>3. ASSUME step = "link", UNCHANGED <<shape, tracksNew, recoHits, isStored>>,
             step' = "link" \/ (step' = "store" /\ iTr' = 1)
      PROVE  ListsInv'
  <2>1. tracksNew' = <<>> /\ recoHits' = <<>> /\ \A t \in Tracks : ~isStored'[t]
    BY <1>2, <1>3 DEF WrittenInv
  <2>2. tracksNew' \in Seq(NewTracks) /\ recoHits' \in Seq(Hits)' /\ IsInjective(recoHits')
    BY <2>1 DEF IsInjective, Hits
  <2>3. AreRuns([n \in 1 .. 1 |-> 0], Lengths', recoHits', Contents', Len(tracksNew'))
    BY <2>1 DEF AreRuns, AreStarts
  <2>4. Written' = {}
    BY <2>1 DEF Written
  <2>5. step' # "link" => \A t \in Tracks : ~(t < iTr')
    BY <1>1, <1>3
  <2>6. WrittenInv'
    BY <1>3, <2>1, <2>4, <2>5 DEF WrittenInv
  <2>7. \A k \in DOMAIN recoHits' : recoHits'[k][1] \in Covered'
    BY <2>1
  <2> QED BY <2>2, <2>3, <2>6, <2>7 DEF ListsInv
<1>4. CASE LinkPair
  BY <1>3, <1>4 DEF LinkPair, AtPair
<1>5. CASE SkipPair
  BY <1>3, <1>5 DEF SkipPair, AtPair
<1>6. CASE EndOfPairs
  BY <1>3, <1>6 DEF EndOfPairs
<1>7. CASE StoreTrack
  <2>1. /\ step = "store" /\ iTr \in Tracks /\ ~isStored[iTr]
        /\ UNCHANGED <<shape, links>>
    BY <1>7 DEF StoreTrack
  <2>2. /\ recoHits' = recoHits \o Content(iTr)
        /\ tracksNew' = Append(tracksNew, [track |-> iTr, nHits |-> Len(Content(iTr))])
    <3>1. CASE IsLinked(iTr)
      BY <1>7, <2>1, <3>1, ContentFacts DEF StoreTrack, Content
    <3>2. CASE ~IsLinked(iTr)
      <4>1. Len(Content(iTr)) = Len(shape[iTr])
        BY <2>1, <3>2, HitsOfFacts DEF Content, LinksInv
      <4> QED BY <1>7, <3>2, <4>1 DEF StoreTrack, Content
    <3> QED BY <3>1, <3>2
  <2>3. /\ tracksNew' \in Seq(NewTracks) /\ recoHits' \in Seq(Hits) /\ IsInjective(recoHits')
        /\ \A k \in DOMAIN recoHits' : recoHits'[k][1] \in Covered'
        /\ Written' = Written \cup {iTr}
        /\ \E s : AreRuns(s, Lengths', recoHits', Contents', Len(tracksNew'))
    BY <2>1, <2>2, AppendTrack
  <2>4. WrittenInv'
    BY <1>2, <1>7, <2>3, WriteTrack
  <2> QED BY <2>3, <2>4 DEF ListsInv
<1>8. CASE SkipStored
  <2>1. /\ step = "store" /\ step' = "store" /\ iTr \in Tracks /\ isStored[iTr] /\ iTr' = iTr + 1
        /\ UNCHANGED <<shape, links, isStored, tracksNew, recoHits>>
    BY <1>8 DEF SkipStored
  <2>2. Written' = Written /\ \A t : IsLinked(t)' <=> IsLinked(t)
    BY <2>1 DEF Written, IsLinked, links
  <2>3. \A t \in Tracks : (t < iTr' => t < iTr \/ t = iTr) /\ (t < iTr => t < iTr')
    BY <1>1, <2>1
  <2>4. WrittenInv'
    BY <1>2, <2>1, <2>2, <2>3 DEF WrittenInv, links
  <2> QED BY <2>1, <2>4, SameLists
<1>9. CASE EndOfTracks
  <2>1. /\ step = "store" /\ step' = "end" /\ iTr \notin Tracks /\ iTr' = iTr
        /\ UNCHANGED <<shape, links, isStored, tracksNew, recoHits>>
    BY <1>9 DEF EndOfTracks
  <2>2. Written' = Written /\ \A t : IsLinked(t)' <=> IsLinked(t)
    BY <2>1 DEF Written, IsLinked, links
  <2>3. iTr' = NTracks + 1
    BY <1>1, <2>1
  <2>4. WrittenInv'
    BY <1>2, <2>1, <2>2, <2>3 DEF WrittenInv, links
  <2> QED BY <2>1, <2>4, SameLists
<1>10. CASE UNCHANGED vars
  <2>1. WrittenInv'
    BY <1>2, <1>10 DEF WrittenInv, Written, IsLinked, vars, links
  <2> QED BY <1>10, <2>1, SameLists DEF vars
<1> QED BY <1>4, <1>5, <1>6, <1>7, <1>8, <1>9, <1>10 DEF Next

\* The starts that the property computes are the starts of the runs.
LEMMA StartsMatch ==
  ASSUME ListsInv
  PROVE  /\ AreRuns(Starts, Lengths, recoHits, Contents, Len(tracksNew))
         /\ Len(recoHits) = Starts[Len(tracksNew) + 1]
<1> DEFINE N == Len(tracksNew)
<1>1. N \in Nat /\ Lengths \in Seq(Nat) /\ Len(Lengths) = N
  BY LengthsType DEF ListsInv
<1>2. AreStarts(Starts, Lengths, N)
  BY <1>1, StartsOfAreStarts DEF Starts, Lengths
<1>3. PICK s : AreRuns(s, Lengths, recoHits, Contents, N)
  BY DEF ListsInv
<1> HIDE DEF N
<1>4. AreStarts(s, Lengths, N)
  BY <1>3 DEF AreRuns
<1>5. \A n \in 1 .. N + 1 : s[n] = Starts[n]
  BY <1>1, <1>2, <1>4, StartsAgree
<1>6. /\ \A n \in 1 .. N : n \in 1 .. N + 1 /\ n + 1 \in 1 .. N + 1
      /\ N + 1 \in 1 .. N + 1
  BY <1>1
<1>7. Len(recoHits) = Starts[N + 1]
  BY <1>3, <1>5, <1>6 DEF AreRuns
<1>8. \A n \in 1 .. N : s[n] = Starts[n] /\ s[n + 1] = Starts[n + 1]
  BY <1>5, <1>6
<1>9. AreRuns(Starts, Lengths, recoHits, Contents, N)
  BY <1>2, <1>3, <1>7, <1>8 DEF AreRuns
<1> QED BY <1>7, <1>9 DEF N

\* What the list holds from one start to the next.
LEMMA RunFacts ==
  ASSUME LinksInv, ListsInv, NEW n \in DOMAIN tracksNew
  PROVE  /\ DOMAIN Run(n) = DOMAIN Content(tracksNew[n].track)
         /\ \A k \in DOMAIN Run(n) : Run(n)[k] = Content(tracksNew[n].track)[k]
         /\ \A k \in DOMAIN Run(n) : Run(n)[k] \in Range(recoHits)
<1> DEFINE c == Content(tracksNew[n].track)
           N == Len(tracksNew)
<1>1. /\ N \in Nat /\ n \in 1 .. N /\ DOMAIN tracksNew = 1 .. N
      /\ tracksNew[n].track \in Tracks /\ Lengths[n] \in Nat
  BY LengthsType DEF ListsInv
<1>2. c \in Seq(Hits)
  BY <1>1, ContentFacts DEF IsContent
<1>3. Contents[n] = c
  BY DEF Contents
<1> HIDE DEF c, N
<1>4. /\ Lengths[n] = Len(c) /\ Starts[n] \in Nat /\ Starts[n + 1] = Starts[n] + Lengths[n]
      /\ Starts[n + 1] <= Len(recoHits)
      /\ \A k \in 1 .. Lengths[n] : recoHits[Starts[n] + k] = c[k]
  <2>1. n \in 1 .. N + 1
    BY <1>1
  <2> QED BY <1>1, <1>3, <2>1, StartsMatch DEF AreRuns, AreStarts, N
<1>5. recoHits \in Seq(Hits) /\ Len(recoHits) \in Nat
  BY DEF ListsInv
<1> DEFINE a == Starts[n] + 1
           b == Starts[n + 1]
<1>6. /\ a \in Int /\ b \in Int /\ 1 <= a /\ a <= b + 1 /\ b <= Len(recoHits)
      /\ b - a + 1 = Lengths[n] /\ \A k \in 1 .. Lengths[n] : a + k - 1 = Starts[n] + k
  <2>1. ASSUME NEW s \in Nat, NEW h \in Nat, NEW r, r = s + h
        PROVE  /\ s + 1 \in Int /\ r \in Int /\ 1 <= s + 1 /\ s + 1 <= r + 1
               /\ r - (s + 1) + 1 = h /\ \A k \in 1 .. h : (s + 1) + k - 1 = s + k
    BY <2>1
  <2>2. /\ a \in Int /\ b \in Int /\ 1 <= a /\ a <= b + 1
        /\ b - a + 1 = Lengths[n] /\ \A k \in 1 .. Lengths[n] : a + k - 1 = Starts[n] + k
    BY <1>1, <1>4, <2>1
  <2> QED BY <1>4, <2>2
<1>7. /\ Run(n) = SubSeq(recoHits, a, b)
      /\ SubSeq(recoHits, a, b) = [k \in 1 .. b - a + 1 |-> recoHits[a + k - 1]]
  <2>1. Run(n) = SubSeq(recoHits, a, b)
    BY DEF Run
  <2> HIDE DEF a, b
  <2>2. SubSeq(recoHits, a, b) = [k \in 1 .. b - a + 1 |-> recoHits[a + k - 1]]
    BY <1>5, <1>6
  <2> QED BY <2>1, <2>2
<1> HIDE DEF a, b
<1>8. /\ DOMAIN Run(n) = 1 .. Lengths[n]
      /\ \A k \in 1 .. Lengths[n] : Run(n)[k] = recoHits[Starts[n] + k]
  BY <1>6, <1>7
<1>9. DOMAIN c = 1 .. Lengths[n]
  BY <1>2, <1>4
<1>10. ASSUME NEW k \in 1 .. Lengths[n] PROVE Run(n)[k] = c[k] /\ Run(n)[k] \in Range(recoHits)
  <2>1. Starts[n] + k \in 1 .. Len(recoHits)
    BY <1>1, <1>4, <1>5
  <2>2. Starts[n] + k \in DOMAIN recoHits
    BY <1>5, <2>1
  <2> QED BY <1>4, <1>8, <2>2 DEF Range
<1> QED BY <1>8, <1>9, <1>10 DEF c

\* Every reachable list of hits is cut by the lengths of the new tracks into
\* runs with the hits of the track and of its partner in the order of their
\* stations, no hit is in it twice, and in the end none is missing.
THEOREM HitsInTheirRuns == Spec => []EveryHitInItsRun
<1>1. LinksInv /\ ListsInv => EveryHitInItsRun
  <2> SUFFICES ASSUME LinksInv, ListsInv PROVE EveryHitInItsRun
    OBVIOUS
  <2>1. /\ DOMAIN tracksNew = 1 .. Len(tracksNew) /\ Len(tracksNew) \in Nat
        /\ \A n \in DOMAIN tracksNew : tracksNew[n].track \in Tracks
    BY LengthsType DEF ListsInv
  <2>2. \A n \in DOMAIN tracksNew :
          IsContent(Content(tracksNew[n].track), Partners(tracksNew[n].track))
    BY <2>1, ContentFacts
  <2>3. Len(recoHits) = Starts[Len(tracksNew) + 1] /\ IsInjective(recoHits)
    BY StartsMatch DEF ListsInv
  <2>4. ASSUME NEW n \in DOMAIN tracksNew
        PROVE  /\ Range(HitsOf(tracksNew[n].track)) \subseteq Range(Run(n))
               /\ \A k, l \in DOMAIN Run(n) :
                    k < l => shape[Run(n)[k][1]][Run(n)[k][2]] < shape[Run(n)[l][1]][Run(n)[l][2]]
    <3> DEFINE c == Content(tracksNew[n].track)
               ts == Partners(tracksNew[n].track)
    <3>1. IsContent(c, ts) /\ tracksNew[n].track \in ts
      BY <2>2 DEF Partners
    <3>2. DOMAIN Run(n) = DOMAIN c /\ \A k \in DOMAIN Run(n) : Run(n)[k] = c[k]
      BY RunFacts
    <3> HIDE DEF c, ts
    <3>3. Range(Run(n)) = Range(c)
      BY <3>2 DEF Range
    <3>4. \A k, l \in DOMAIN c : k < l => Station(c[k]) < Station(c[l])
      BY <3>1 DEF IsContent, InOrder
    <3>5. \A k, l \in DOMAIN Run(n) : k < l => Station(Run(n)[k]) < Station(Run(n)[l])
      BY <3>2, <3>4
    <3> QED BY <3>1, <3>3, <3>5 DEF IsContent, Station
  <2>5. ASSUME step = "end", NEW t \in Tracks PROVE Range(HitsOf(t)) \subseteq Range(recoHits)
    <3>1. iTr = NTracks + 1 /\ NTracks \in Nat /\ WrittenInv
      BY <2>5, CloneMergerAssumption DEF ListsInv, WrittenInv
    <3>2. t \in Written \/ (IsLinked(t) /\ neighbour[t] \in Written)
      BY <2>5, <3>1 DEF WrittenInv
    <3>3. PICK u \in Written : t \in Partners(u)
      <4>1. IsLinked(t) => neighbour[t] \in Tracks /\ neighbour[neighbour[t]] = t
        BY DEF LinksInv, LinksAreMutual, IsLinked, TypeOK
      <4>2. IsLinked(t) => t \in Partners(neighbour[t])
        BY <4>1, CloneMergerAssumption DEF Partners, IsLinked
      <4> QED BY <3>2, <4>2 DEF Partners
    <3>4. PICK n \in DOMAIN tracksNew : u = tracksNew[n].track
      BY DEF Written
    <3>5. Range(HitsOf(t)) \subseteq Range(Content(u))
      BY <2>2, <3>3, <3>4 DEF IsContent
    <3>6. Range(Content(u)) \subseteq Range(recoHits)
      <4>1. /\ DOMAIN Run(n) = DOMAIN Content(u)
            /\ \A k \in DOMAIN Run(n) : Run(n)[k] = Content(u)[k] /\ Run(n)[k] \in Range(recoHits)
        BY <3>4, RunFacts
      <4>2. \A k \in DOMAIN Content(u) : Content(u)[k] \in Range(recoHits)
        BY <4>1
      <4> QED BY <4>2 DEF Range
    <3> QED BY <3>5, <3>6
  <2> QED BY <2>3, <2>4, <2>5 DEF EveryHitInItsRun
<1>2. Init => LinksInv /\ ListsInv
  BY InitLinksInv, InitListsInv
<1>3. LinksInv /\ ListsInv /\ [Next]_vars => (LinksInv /\ ListsInv)'
  BY NextLinksInv, NextListsInv
<1> QED BY <1>1, <1>2, <1>3, PTL DEF Spec
==============================================================================
