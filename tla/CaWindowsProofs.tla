--------------------------- MODULE CaWindowsProofs ---------------------------
(***************************************************************************)
(* The hits of the tracks that the threads of FindTracks keep, and those   *)
(* that come into none: for every number of hits, streams and threads, all *)
(* event times and whatever the finder misses.                             *)
(***************************************************************************)
EXTENDS CaWindows, FiniteSetTheorems, SequenceTheorems, WellFoundedInduction, TLAPS

Disjoint(S) == \A x, y \in S : x # y => x \cap y = {}

\* What a thread has stored, what it has found in this window and the hits it
\* looks at are apart, and the flags of the first are set.
ThreadInv(t) ==
  /\ tracks[t] \in Seq(SUBSET Hits)
  /\ \A i, j \in DOMAIN tracks[t] : i # j => tracks[t][i] \cap tracks[t][j] = {}
  /\ \A h \in Stored(t) : used[t][h]
  /\ window[t] \subseteq Hits
  /\ pc[t] = "search" => window[t] \cap Stored(t) = {}
  /\ found[t] \subseteq SUBSET Hits /\ Disjoint(found[t])
  /\ (UNION found[t]) \cap Stored(t) = {}
  /\ pc[t] = "copy" => tracks[t] = <<>>

Shape ==
  /\ NHits \in Nat /\ input.starts \in Seq(Hits)
  /\ DOMAIN pc = Threads /\ DOMAIN tracks = Threads /\ DOMAIN found = Threads
  /\ DOMAIN window = Threads /\ DOMAIN used = Threads
  /\ \A t \in Threads : DOMAIN used[t] = Hits

WindowsInv == Shape /\ \A t \in Threads : ThreadInv(t)

-----------------------------------------------------------------------------
\* A finite set can be listed without repetition.
LEMMA SetToSeqFacts ==
  ASSUME NEW S, IsFiniteSet(S)
  PROVE  /\ SetToSeq(S) \in Seq(S)
         /\ \A i, j \in DOMAIN SetToSeq(S) : i # j => SetToSeq(S)[i] # SetToSeq(S)[j]
         /\ \A x \in S : \E i \in DOMAIN SetToSeq(S) : SetToSeq(S)[i] = x
<1>1. Cardinality(S) \in Nat /\ ExistsBijection(1 .. Cardinality(S), S)
  BY FS_CardinalityType
<1>2. PICK f : f \in Bijection(1 .. Cardinality(S), S)
  BY <1>1 DEF ExistsBijection
<1>3. f \in [1 .. Cardinality(S) -> S] /\ IsInjective(f)
  BY <1>2 DEF Bijection, Injection, IsInjective
<1>4. /\ SetToSeq(S) \in [1 .. Cardinality(S) -> S]
      /\ IsInjective(SetToSeq(S))
  BY <1>3 DEF SetToSeq
<1>5. \A x \in S : \E i \in DOMAIN SetToSeq(S) : SetToSeq(S)[i] = x
  <2>1. SetToSeq(S) \in Injection(1 .. Cardinality(S), S)
    BY <1>4 DEF Injection, IsInjective
  <2>2. IsFiniteSet(1 .. Cardinality(S)) /\ Cardinality(1 .. Cardinality(S)) = Cardinality(S)
    BY <1>1, FS_Interval
  <2>3. SetToSeq(S) \in Surjection(1 .. Cardinality(S), S)
    BY <2>1, <2>2, FS_Injection
  <2> QED BY <2>3 DEF Surjection
<1> QED BY <1>1, <1>4, <1>5 DEF IsInjective

\* Tracks that are apart from each other and from those stored can be stored.
LEMMA AppendTracks ==
  ASSUME NEW old \in Seq(SUBSET Hits), NEW S \in SUBSET SUBSET Hits, NHits \in Nat,
         \A i, j \in DOMAIN old : i # j => old[i] \cap old[j] = {},
         Disjoint(S), (UNION S) \cap (UNION Range(old)) = {}
  PROVE  LET new == old \o SetToSeq(S)
         IN  /\ new \in Seq(SUBSET Hits)
             /\ \A i, j \in DOMAIN new : i # j => new[i] \cap new[j] = {}
             /\ UNION Range(new) \subseteq (UNION Range(old)) \cup (UNION S)
<1> DEFINE list == SetToSeq(S)
           new == old \o list
<1>1. IsFiniteSet(Hits)
  BY FS_Interval DEF Hits
<1>2. IsFiniteSet(SUBSET Hits)
  BY <1>1, FS_SUBSET
<1>3. IsFiniteSet(S)
  BY <1>2, FS_Subset
<1>4. list \in Seq(S) /\ \A i, j \in DOMAIN list : i # j => list[i] # list[j]
  BY <1>3, SetToSeqFacts
<1>5. list \in Seq(SUBSET Hits)
  BY <1>4
<1> HIDE DEF list
<1>6. new \in Seq(SUBSET Hits)
  BY <1>5
<1>7. \A i \in DOMAIN new :
        \/ i \in DOMAIN old /\ new[i] = old[i]
        \/ i - Len(old) \in DOMAIN list /\ new[i] = list[i - Len(old)] /\ i \in Int
  BY <1>5
<1>8. \A k \in DOMAIN list : list[k] \in S
  BY <1>4
<1>9. \A k \in DOMAIN old : old[k] \in Range(old)
  BY DEF Range
<1> HIDE DEF new
<1>10. ASSUME NEW i \in DOMAIN new, NEW j \in DOMAIN new, i # j
       PROVE  new[i] \cap new[j] = {}
  <2>1. CASE i \in DOMAIN old /\ new[i] = old[i] /\ j \in DOMAIN old /\ new[j] = old[j]
    BY <2>1, <1>10
  <2>2. CASE new[i] \in S /\ j \in DOMAIN old /\ new[j] = old[j]
    BY <2>2, <1>9
  <2>3. CASE new[j] \in S /\ i \in DOMAIN old /\ new[i] = old[i]
    BY <2>3, <1>9
  <2>4. CASE /\ i - Len(old) \in DOMAIN list /\ new[i] = list[i - Len(old)] /\ i \in Int
             /\ j - Len(old) \in DOMAIN list /\ new[j] = list[j - Len(old)] /\ j \in Int
    <3>1. Len(old) \in Nat
      OBVIOUS
    <3>2. i - Len(old) # j - Len(old)
      BY <2>4, <3>1, <1>10
    <3>3. new[i] # new[j] /\ new[i] \in S /\ new[j] \in S
      BY <2>4, <3>2, <1>4, <1>8
    <3> QED BY <3>3 DEF Disjoint
  <2> QED BY <1>7, <1>8, <2>1, <2>2, <2>3, <2>4
<1>11. UNION Range(new) \subseteq (UNION Range(old)) \cup (UNION S)
  <2>1. \A i \in DOMAIN new : new[i] \in Range(old) \/ new[i] \in S
    BY <1>7, <1>8, <1>9
  <2> SUFFICES ASSUME NEW i \in DOMAIN new, NEW h \in new[i]
               PROVE  h \in UNION Range(old) \/ h \in UNION S
    BY DEF Range
  <2> QED BY <2>1
<1> QED BY <1>6, <1>10, <1>11 DEF new, list

\* A thread that a step does not touch.
LEMMA OtherThread ==
  ASSUME NEW t, ThreadInv(t), Hits' = Hits,
         tracks'[t] = tracks[t], used'[t] = used[t], window'[t] = window[t],
         found'[t] = found[t], pc'[t] = pc[t]
  PROVE  ThreadInv(t)'
BY DEF ThreadInv, Stored

-----------------------------------------------------------------------------
\* Before anything is stored the flags may be copied as they come.
LEMMA CopyFlagKeeps ==
  ASSUME Shape, NEW t \in Threads, ThreadInv(t), CopyFlag(t), NHits' = NHits
  PROVE  ThreadInv(t)'
<1>1. /\ tracks' = tracks /\ window' = window /\ found' = found
      /\ tracks[t] = <<>> /\ Hits' = Hits
      /\ pc'[t] # "search"
  BY DEF CopyFlag, ThreadInv, Goto, Shape, Hits
<1>2. Stored(t) = {} /\ Stored(t)' = {}
  BY <1>1 DEF Stored, Range
<1> QED BY <1>1, <1>2 DEF ThreadInv

LEMMA SetStreamRangeKeeps ==
  ASSUME Shape, NEW t \in Threads, ThreadInv(t), SetStreamRange(t), NHits' = NHits
  PROVE  ThreadInv(t)'
<1>1. /\ tracks' = tracks /\ window' = window /\ found' = found /\ used' = used
      /\ pc'[t] = "select" /\ Hits' = Hits
  BY DEF SetStreamRange, Goto, Shape, Hits
<1> QED BY <1>1 DEF ThreadInv, Stored

\* Only hits that are not used come into the window.
LEMMA SelectHitsKeeps ==
  ASSUME Shape, NEW t \in Threads, ThreadInv(t), SelectHits(t), NHits' = NHits
  PROVE  ThreadInv(t)'
<1>1. /\ tracks' = tracks /\ found' = found /\ used' = used
      /\ pc'[t] = "search" /\ Hits' = Hits
  BY DEF SelectHits, Goto, Shape, Hits
<1>2. \A s \in 1 .. NStreams : \A h \in Scanned(t, s) : h \in Hits /\ ~used[t][h]
  <2> SUFFICES ASSUME NEW s \in 1 .. NStreams, NEW h \in Scanned(t, s)
               PROVE  h \in Hits /\ ~used[t][h]
    OBVIOUS
  <2>1. h \in Start(s) .. Stop(s) - 1 /\ ~used[t][h]
    BY DEF Scanned, Unused
  <2>2. Start(s) \in Hits /\ Stop(s) \in 1 .. NHits + 1
    BY DEF Start, Stop, NStreams, Shape, Hits
  <2> QED BY <2>1, <2>2 DEF Hits, Shape
<1>3. \A h \in window'[t] : \E s \in 1 .. NStreams : h \in Scanned(t, s)
  BY DEF SelectHits, Shape, Inside, ScannedHits
<1>4. window'[t] \subseteq Hits /\ \A h \in window'[t] : ~used[t][h]
  BY <1>2, <1>3
<1>5. window'[t] \cap Stored(t)' = {}
  BY <1>1, <1>4 DEF ThreadInv, Stored
<1> QED BY <1>1, <1>4, <1>5 DEF ThreadInv, Stored

\* The tracks of a window are of different particles.
LEMMA SliceKeeps ==
  ASSUME Shape, NEW t \in Threads, ThreadInv(t), CaTrackFinderSlice(t), NHits' = NHits
  PROVE  ThreadInv(t)'
<1> DEFINE Of(p) == {h \in window[t] : input.particle[h] = p}
<1>1. /\ tracks' = tracks /\ window' = window /\ pc'[t] = "store" /\ Hits' = Hits
      /\ pc[t] = "search"
  BY DEF CaTrackFinderSlice, Goto, Shape, Hits
<1>2. PICK ps \in SUBSET Particles : found'[t] = {Of(p) : p \in ps}
  BY DEF CaTrackFinderSlice, Shape
<1>3. found'[t] \subseteq SUBSET Hits /\ Disjoint(found'[t]) /\ UNION found'[t] \subseteq window[t]
  <2>1. \A x \in found'[t] : \E p \in ps : x = Of(p)
    BY <1>2
  <2>2. \A p \in ps : Of(p) \subseteq window[t]
    OBVIOUS
  <2>3. \A p, q \in ps : p # q => Of(p) \cap Of(q) = {}
    OBVIOUS
  <2> HIDE DEF Of
  <2>4. Disjoint(found'[t])
    BY <2>1, <2>3 DEF Disjoint
  <2>5. \A x \in found'[t] : x \subseteq window[t]
    BY <2>1, <2>2
  <2>6. window[t] \subseteq Hits
    BY DEF ThreadInv
  <2> QED BY <2>4, <2>5, <2>6
<1>4. \A h \in Hits : used[t][h] => used'[t][h]
  BY DEF CaTrackFinderSlice, Shape
<1>5. Stored(t)' = Stored(t) /\ Stored(t) \subseteq Hits
  <2>1. \A i \in DOMAIN tracks[t] : tracks[t][i] \in SUBSET Hits
    BY DEF ThreadInv
  <2> QED BY <1>1, <2>1 DEF Stored, Range
<1>6. \A h \in Stored(t)' : used'[t][h]
  BY <1>4, <1>5 DEF ThreadInv
<1>7. (UNION found'[t]) \cap Stored(t)' = {}
  BY <1>1, <1>3, <1>5 DEF ThreadInv
<1> QED BY <1>1, <1>3, <1>6, <1>7 DEF ThreadInv

\* What is kept is stored, and of the tracks found only their hits stay used.
LEMMA StoreTracksKeeps ==
  ASSUME Shape, NEW t \in Threads, ThreadInv(t), StoreTracks(t), NHits' = NHits
  PROVE  ThreadInv(t)'
<1> DEFINE kept == {track \in found[t] : Kept(t, track, NextWindow(t))}
<1>1. /\ tracks'[t] = tracks[t] \o SetToSeq(kept)
      /\ used'[t] = FlagsAfter(t, kept)
      /\ pc'[t] \in {"done", "select"}
      /\ found'[t] = {} /\ window'[t] = {} /\ Hits' = Hits
  BY DEF StoreTracks, Goto, Shape, Hits
<1>2. kept \subseteq found[t]
  OBVIOUS
<1> HIDE DEF kept
<1>3. /\ tracks[t] \in Seq(SUBSET Hits) /\ kept \in SUBSET SUBSET Hits /\ NHits \in Nat
      /\ \A i, j \in DOMAIN tracks[t] : i # j => tracks[t][i] \cap tracks[t][j] = {}
      /\ Disjoint(kept) /\ (UNION kept) \cap (UNION Range(tracks[t])) = {}
  BY <1>2 DEF ThreadInv, Shape, Disjoint, Stored
<1>4. /\ tracks'[t] \in Seq(SUBSET Hits)
      /\ \A i, j \in DOMAIN tracks'[t] : i # j => tracks'[t][i] \cap tracks'[t][j] = {}
      /\ UNION Range(tracks'[t]) \subseteq (UNION Range(tracks[t])) \cup (UNION kept)
  <2> DEFINE new == tracks[t] \o SetToSeq(kept)
  <2>1. /\ new \in Seq(SUBSET Hits)
        /\ \A i, j \in DOMAIN new : i # j => new[i] \cap new[j] = {}
        /\ UNION Range(new) \subseteq (UNION Range(tracks[t])) \cup (UNION kept)
    BY <1>3, AppendTracks
  <2>2. tracks'[t] = new
    BY <1>1
  <2> HIDE DEF new
  <2> QED BY <2>1, <2>2
<1>5. ASSUME NEW h \in Stored(t)' PROVE used'[t][h]
  <2>1. h \in Stored(t) \/ h \in UNION kept
    BY <1>4 DEF Stored
  <2>2. h \in Hits
    <3>1. \A i \in DOMAIN tracks'[t] : tracks'[t][i] \in SUBSET Hits
      BY <1>4
    <3> QED BY <3>1 DEF Stored, Range
  <2>3. CASE h \in UNION kept
    BY <1>1, <1>2, <2>2, <2>3 DEF FlagsAfter
  <2>4. CASE h \in Stored(t)
    <3>1. h \notin UNION found[t] /\ used[t][h]
      BY <2>4 DEF ThreadInv
    <3> QED BY <1>1, <2>2, <3>1 DEF FlagsAfter
  <2> QED BY <2>1, <2>3, <2>4
<1> QED BY <1>1, <1>4, <1>5 DEF ThreadInv, Disjoint

-----------------------------------------------------------------------------
LEMMA InitWindowsInv == Init => WindowsInv
<1> SUFFICES ASSUME Init PROVE WindowsInv
  OBVIOUS
<1>1. NHits \in Nat
  BY CaWindowsAssumption
<1>2. input.starts \in Seq(Hits)
  BY CaWindowsAssumption DEF Init
<1>3. Shape
  BY <1>1, <1>2 DEF Init, Shape
<1>4. ASSUME NEW t \in Threads PROVE ThreadInv(t)
  <2>1. tracks[t] = <<>> /\ window[t] = {} /\ found[t] = {} /\ pc[t] # "search"
    BY DEF Init
  <2>2. Stored(t) = {}
    BY <2>1 DEF Stored, Range
  <2> QED BY <2>1, <2>2 DEF ThreadInv, Disjoint
<1> QED BY <1>3, <1>4 DEF WindowsInv

LEMMA NextWindowsInv == WindowsInv /\ [Next]_vars => WindowsInv'
<1> SUFFICES ASSUME WindowsInv, [Next]_vars PROVE WindowsInv'
  OBVIOUS
<1>1. CASE UNCHANGED <<input, nThreads, pc, threadVars>>
  BY <1>1 DEF WindowsInv, Shape, ThreadInv, Stored, Threads, threadVars
<1>2. ASSUME NEW t \in Threads, FindTracksThread(t) PROVE WindowsInv'
  <2>1. Threads' = Threads /\ UNCHANGED input /\ NHits' = NHits
    BY <1>2 DEF FindTracksThread, CopyFlag, SetStreamRange, SelectHits, CaTrackFinderSlice,
                StoreTracks, constants, Threads
  <2>2. Shape'
    <3>1. /\ DOMAIN pc' = DOMAIN pc /\ DOMAIN tracks' = DOMAIN tracks
          /\ DOMAIN found' = DOMAIN found /\ DOMAIN window' = DOMAIN window
          /\ DOMAIN used' = DOMAIN used
      BY <1>2 DEF FindTracksThread, CopyFlag, SetStreamRange, SelectHits, CaTrackFinderSlice,
                  StoreTracks, Goto, FlagsAfter
    <3>2. \A u \in Threads : DOMAIN used'[u] = Hits
      BY <1>2 DEF FindTracksThread, CopyFlag, SetStreamRange, SelectHits, CaTrackFinderSlice,
                  StoreTracks, FlagsAfter, WindowsInv, Shape
    <3> QED BY <2>1, <3>1, <3>2 DEF WindowsInv, Shape
  <2>3. ThreadInv(t)'
    BY <1>2, <2>1, CopyFlagKeeps, SetStreamRangeKeeps, SelectHitsKeeps, SliceKeeps,
       StoreTracksKeeps DEF FindTracksThread, WindowsInv
  <2>4. ASSUME NEW u \in Threads \ {t} PROVE ThreadInv(u)'
    <3>1. /\ tracks'[u] = tracks[u] /\ used'[u] = used[u] /\ window'[u] = window[u]
          /\ found'[u] = found[u] /\ pc'[u] = pc[u]
      BY <1>2 DEF FindTracksThread, CopyFlag, SetStreamRange, SelectHits, CaTrackFinderSlice,
                  StoreTracks, Goto, FlagsAfter, WindowsInv, Shape
    <3> QED BY <2>1, <3>1, OtherThread DEF WindowsInv, Hits
  <2> QED BY <2>1, <2>2, <2>3, <2>4 DEF WindowsInv
<1> QED BY <1>1, <1>2 DEF Next, Join, FindTracksThread, vars, threadVars, constants

\* No thread keeps two tracks with a common hit, and the hits it keeps stay used,
\* for all timeslices, divisions into ranges and outcomes of the finder.
THEOREM HitsAreUsedOnce == Spec => []HitsUsedOnce
<1>1. WindowsInv => HitsUsedOnce
  BY DEF WindowsInv, ThreadInv, HitsUsedOnce
<1>2. Spec => Init /\ [][Next]_vars
  BY PTL DEF Spec
<1> QED BY <1>1, <1>2, InitWindowsInv, NextWindowsInv, PTL

-----------------------------------------------------------------------------
(* Least and greatest elements.                                            *)

\* A set of natural numbers has a least one.
LEMMA MinIsLeast ==
  ASSUME NEW S \in SUBSET Nat, S # {}
  PROVE  Min(S) \in S /\ \A x \in S : Min(S) <= x
<1> DEFINE R == OpToRel(<, Nat)
<1>1. IsWellFoundedOn(R, Nat)
  BY NatLessThanWellFounded
<1>2. PICK m \in S : \A y \in S : ~(<<y, m>> \in R)
  <2> HIDE DEF R
  <2> QED BY <1>1, WFMin
<1>3. \A y \in S : ~(y < m)
  BY <1>2 DEF OpToRel
<1>4. \A y \in S : m <= y
  BY <1>3
<1> QED BY <1>4 DEF Min

\* Induction over the natural numbers.
LEMMA AllNaturals ==
  ASSUME NEW A, 0 \in A, \A n \in Nat : n \in A => n + 1 \in A
  PROVE  \A n \in Nat : n \in A
<1> SUFFICES ASSUME Nat \ A # {} PROVE FALSE
  OBVIOUS
<1> DEFINE m == Min(Nat \ A)
<1>1. m \in Nat \ A /\ \A x \in Nat \ A : m <= x
  BY MinIsLeast
<1> HIDE DEF m
<1>2. m # 0 /\ m - 1 \in Nat /\ (m - 1) + 1 = m
  BY <1>1
<1>3. m - 1 \in A
  BY <1>1, <1>2
<1> QED BY <1>1, <1>2, <1>3

\* Integers that belong to the elements of 1 .. n have a greatest and a least one.
LEMMA IndexedBounds ==
  ASSUME NEW n \in Nat, NEW T \in SUBSET (1 .. n), T # {}, NEW f, \A x \in T : f[x] \in Int
  PROVE  /\ \E a \in T : \A x \in T : f[x] <= f[a]
         /\ \E b \in T : \A x \in T : f[b] <= f[x]
<1> DEFINE Bounded(S) == /\ \E a \in S : \A x \in S : f[x] <= f[a]
                         /\ \E b \in S : \A x \in S : f[b] <= f[x]
           A == {k \in Nat : \A S \in SUBSET (1 .. k) : S # {} /\ S \subseteq T => Bounded(S)}
<1>1. 0 \in A
  <2>1. 1 .. 0 = {}
    OBVIOUS
  <2> QED BY <2>1
<1>2. ASSUME NEW k \in Nat, k \in A PROVE k + 1 \in A
  <2> SUFFICES ASSUME NEW S \in SUBSET (1 .. k + 1), S # {}, S \subseteq T PROVE Bounded(S)
    <3> HIDE DEF Bounded
    <3> QED OBVIOUS
  <2> DEFINE Q == S \ {k + 1}
  <2>1. Q \in SUBSET (1 .. k) /\ Q \subseteq T
    OBVIOUS
  <2>2. Q = {} \/ Bounded(Q)
    <3> HIDE DEF Bounded, Q
    <3> QED BY <1>2, <2>1
  <2>3. \A x \in S : f[x] \in Int
    OBVIOUS
  <2>4. CASE k + 1 \notin S
    <3>1. Q = S
      BY <2>4
    <3> QED BY <2>2, <3>1
  <2>5. CASE k + 1 \in S /\ Q = {}
    <3>1. S = {k + 1}
      BY <2>5
    <3> QED BY <2>3, <3>1
  <2>6. CASE k + 1 \in S /\ Bounded(Q)
    <3>1. PICK a \in Q, b \in Q : \A x \in Q : f[x] <= f[a] /\ f[b] <= f[x]
      BY <2>6
    <3>2. \A x \in S : x \in Q \/ x = k + 1
      OBVIOUS
    <3>3. \E c \in S : \A x \in S : f[x] <= f[c]
      <4>1. CASE f[a] <= f[k + 1]
        BY <2>3, <2>6, <3>1, <3>2, <4>1
      <4>2. CASE ~(f[a] <= f[k + 1])
        BY <2>3, <2>6, <3>1, <3>2, <4>2
      <4> QED BY <4>1, <4>2
    <3>4. \E c \in S : \A x \in S : f[c] <= f[x]
      <4>1. CASE f[k + 1] <= f[b]
        BY <2>3, <2>6, <3>1, <3>2, <4>1
      <4>2. CASE ~(f[k + 1] <= f[b])
        BY <2>3, <2>6, <3>1, <3>2, <4>2
      <4> QED BY <4>1, <4>2
    <3> QED BY <3>3, <3>4
  <2> QED BY <2>2, <2>4, <2>5, <2>6
<1>3. \A k \in Nat : k \in A
  <2> HIDE DEF A
  <2> QED BY <1>1, <1>2, AllNaturals
<1>4. Bounded(T)
  <2> HIDE DEF Bounded
  <2> QED BY <1>3
<1> QED BY <1>4

\* So their maximum and minimum are what they should be.
LEMMA BoundsOfImage ==
  ASSUME NEW n \in Nat, NEW T \in SUBSET (1 .. n), T # {}, NEW f, \A x \in T : f[x] \in Int
  PROVE  /\ Max({f[x] : x \in T}) \in Int /\ Min({f[x] : x \in T}) \in Int
         /\ \A x \in T : f[x] <= Max({f[y] : y \in T}) /\ Min({f[y] : y \in T}) <= f[x]
         /\ \E a \in T : Max({f[y] : y \in T}) = f[a]
         /\ \E b \in T : Min({f[y] : y \in T}) = f[b]
<1> DEFINE V == {f[x] : x \in T}
<1>1. /\ \E a \in T : \A x \in T : f[x] <= f[a]
      /\ \E b \in T : \A x \in T : f[b] <= f[x]
  BY IndexedBounds
<1>2. \E v \in V : \A w \in V : v >= w
  <2>1. PICK a \in T : \A x \in T : f[x] <= f[a]
    BY <1>1
  <2>2. \A x \in T : f[a] >= f[x]
    BY <2>1
  <2> QED BY <2>2
<1>3. \E v \in V : \A w \in V : v <= w
  BY <1>1
<1>4. Max(V) \in V /\ \A w \in V : Max(V) >= w
  <2> HIDE DEF V
  <2> QED BY <1>2 DEF Max
<1>5. Min(V) \in V /\ \A w \in V : Min(V) <= w
  <2> HIDE DEF V
  <2> QED BY <1>3 DEF Min
<1>6. PICK a \in T : Max(V) = f[a]
  BY <1>4
<1>7. PICK b \in T : Min(V) = f[b]
  BY <1>5
<1>8. \A x \in T : f[x] \in V
  OBVIOUS
<1>9. \A x \in T : f[x] <= Max(V) /\ Min(V) <= f[x]
  <2>1. \A x \in T : Max(V) >= f[x] /\ Min(V) <= f[x]
    <3> HIDE DEF V
    <3> QED BY <1>4, <1>5, <1>8
  <2>2. Max(V) \in Int
    BY <1>6
  <2> HIDE DEF V
  <2> QED BY <2>1, <2>2
<1> QED BY <1>6, <1>7, <1>9

-----------------------------------------------------------------------------
(* What FindTracks computes: streams, times around a hit, ranges.          *)

InputOK ==
  /\ input.min \in [Hits -> Int] /\ input.max \in [Hits -> Int]
  /\ \A h \in Hits : input.min[h] <= input.max[h]
  /\ input.particle \in [Hits -> Particles]
  /\ input.starts \in Seq(Hits) /\ input.starts # <<>> /\ input.starts[1] = 1
  /\ \A s, u \in DOMAIN input.starts : s < u => input.starts[s] <= input.starts[u]
  /\ nThreads \in Nat \ {0}

InfoOK ==
  /\ \A h \in GoodHits : /\ info[h].maxBefore \in Int /\ info[h].minAfter \in Int
                         /\ input.max[h] <= info[h].maxBefore
                         /\ info[h].minAfter <= input.min[h]
  /\ \A g, h \in GoodHits : StreamOf(g) = StreamOf(h) /\ g <= h =>
       info[g].maxBefore <= info[h].maxBefore /\ info[g].minAfter <= info[h].minAfter

RangeOK ==
  /\ \A t \in Threads : range[t].first \in Int /\ range[t].second \in Int
  /\ \A h \in GoodHits : /\ range[0].first <= input.max[h]
                         /\ input.min[h] <= range[nThreads - 1].second
  /\ \A t \in Threads : t # nThreads - 1 => range[t].second = range[t + 1].first
  /\ \A t, u \in Threads : t <= u => range[t].first <= range[u].first

Computed == InputOK /\ InfoOK /\ RangeOK

\* Streams lie one after the other, and each hit is in one of them.
LEMMA StreamFacts ==
  ASSUME InputOK
  PROVE  /\ NStreams \in Nat \ {0}
         /\ \A s \in 1 .. NStreams : Start(s) \in Hits /\ Stop(s) \in 1 .. NHits + 1
         /\ \A s \in 1 .. NStreams : \A h \in Start(s) .. Stop(s) - 1 : h \in Hits /\ StreamOf(h) = s
         /\ \A h \in Hits : /\ StreamOf(h) \in 1 .. NStreams
                            /\ Start(StreamOf(h)) <= h /\ h < Stop(StreamOf(h))
<1>1. NHits \in Nat \ {0}
  BY CaWindowsAssumption
<1>2. /\ NStreams \in Nat \ {0} /\ DOMAIN input.starts = 1 .. NStreams
      /\ \A s \in 1 .. NStreams : input.starts[s] \in Hits
  BY EmptySeq, LenProperties DEF InputOK, NStreams
<1>3. \A s \in 1 .. NStreams : Start(s) \in Hits /\ Stop(s) \in 1 .. NHits + 1
  <2> SUFFICES ASSUME NEW s \in 1 .. NStreams PROVE Start(s) \in Hits /\ Stop(s) \in 1 .. NHits + 1
    OBVIOUS
  <2>1. CASE s = NStreams
    BY <1>1, <1>2, <2>1 DEF Start, Stop, Hits
  <2>2. CASE s # NStreams
    <3>1. s + 1 \in 1 .. NStreams
      BY <1>2, <2>2
    <3> QED BY <1>1, <1>2, <2>2, <3>1 DEF Start, Stop, Hits
  <2> QED BY <2>1, <2>2
<1>4. ASSUME NEW s \in 1 .. NStreams, NEW u \in 1 .. NStreams, s < u PROVE Stop(s) <= Start(u)
  <2>1. s # NStreams /\ s + 1 \in 1 .. NStreams /\ (s + 1 = u \/ s + 1 < u)
    BY <1>2, <1>4
  <2>2. input.starts[s + 1] <= input.starts[u]
    <3>1. CASE s + 1 = u
      BY <1>2, <3>1 DEF Hits
    <3>2. CASE s + 1 < u
      BY <1>2, <2>1, <3>2 DEF InputOK
    <3> QED BY <2>1, <3>1, <3>2
  <2> QED BY <2>1, <2>2 DEF Start, Stop
<1>5. ASSUME NEW s \in 1 .. NStreams, NEW h \in Start(s) .. Stop(s) - 1
      PROVE  h \in Hits /\ StreamOf(h) = s
  <2>1. h \in Hits /\ Start(s) <= h /\ h < Stop(s)
    BY <1>1, <1>3 DEF Hits
  <2>2. ASSUME NEW u \in 1 .. NStreams, Start(u) <= h, h < Stop(u) PROVE u = s
    <3>1. Start(s) \in Int /\ Start(u) \in Int /\ Stop(s) \in Int /\ Stop(u) \in Int /\ h \in Int
      BY <1>1, <1>3, <2>1 DEF Hits
    <3>2. ~(s < u) /\ ~(u < s)
      BY <1>4, <2>1, <2>2, <3>1
    <3> QED BY <1>2, <3>2
  <2>3. StreamOf(h) = s
    BY <2>1, <2>2 DEF StreamOf
  <2> QED BY <2>1, <2>3
<1>6. ASSUME NEW h \in Hits
      PROVE  \E s \in 1 .. NStreams : h \in Start(s) .. Stop(s) - 1
  <2> DEFINE T == {s \in 1 .. NStreams : Start(s) <= h}
             f == [s \in 1 .. NStreams |-> s]
  <2>1. 1 \in T
    BY <1>2 DEF InputOK, Start, Hits
  <2>2. \E a \in T : \A x \in T : f[x] <= f[a]
    <3>1. T \in SUBSET (1 .. NStreams) /\ T # {} /\ \A x \in T : f[x] \in Int
      BY <2>1
    <3> HIDE DEF T, f
    <3> QED BY <1>2, <3>1, IndexedBounds
  <2>3. PICK a \in T : \A x \in T : f[x] <= f[a]
    BY <2>2
  <2>4. \A x \in T : x <= a
    BY <2>3
  <2>5. h < Stop(a)
    <3>1. CASE a = NStreams
      BY <1>1, <3>1 DEF Stop, Hits
    <3>2. CASE a # NStreams
      <4>1. a + 1 \in 1 .. NStreams /\ ~(a + 1 <= a)
        BY <1>2, <3>2
      <4>2. a + 1 \notin T
        BY <2>4, <4>1
      <4>3. ~(Start(a + 1) <= h)
        BY <4>1, <4>2
      <4>4. Stop(a) = Start(a + 1) /\ Start(a + 1) \in Hits
        BY <1>3, <3>2, <4>1 DEF Stop, Start
      <4> QED BY <1>1, <4>3, <4>4 DEF Hits
    <3> QED BY <3>1, <3>2
  <2>6. Start(a) <= h /\ Start(a) \in Hits /\ Stop(a) \in 1 .. NHits + 1 /\ a \in 1 .. NStreams
    BY <1>3
  <2>7. h \in Start(a) .. Stop(a) - 1
    BY <1>1, <2>5, <2>6 DEF Hits
  <2> QED BY <2>6, <2>7
<1>7. ASSUME NEW h \in Hits
      PROVE  /\ StreamOf(h) \in 1 .. NStreams
             /\ Start(StreamOf(h)) <= h /\ h < Stop(StreamOf(h))
  <2>1. PICK s \in 1 .. NStreams : h \in Start(s) .. Stop(s) - 1
    BY <1>6
  <2>2. StreamOf(h) = s
    BY <1>5, <2>1
  <2>3. Start(s) \in Int /\ Stop(s) \in Int
    BY <1>1, <1>3 DEF Hits
  <2> QED BY <2>1, <2>2, <2>3
<1> QED BY <1>2, <1>3, <1>5, <1>7

\* The times before and after a hit of its stream bound its own and only grow
\* along the stream.
LEMMA InitInfoOK ==
  ASSUME InputOK,
         info = [h \in GoodHits |-> [maxBefore |-> MaxTimeBeforeHit(h), minAfter |-> MinTimeAfterHit(h)]]
  PROVE  InfoOK
<1> DEFINE B(h) == {g \in GoodHits : StreamOf(g) = StreamOf(h) /\ g <= h}
           F(h) == {g \in GoodHits : StreamOf(g) = StreamOf(h) /\ h <= g}
           max == input.max
           min == input.min
<1>1. /\ NHits \in Nat /\ GoodHits \subseteq 1 .. NHits
      /\ \A h \in GoodHits : max[h] \in Int /\ min[h] \in Int
  BY CaWindowsAssumption DEF InputOK, GoodHits, Hits
<1>2. ASSUME NEW h \in GoodHits
      PROVE  /\ info[h].maxBefore = Max({max[g] : g \in B(h)})
             /\ info[h].minAfter = Min({min[g] : g \in F(h)})
  BY DEF MaxTimeBeforeHit, MinTimeAfterHit
<1>3. \A h \in GoodHits : /\ B(h) \in SUBSET (1 .. NHits) /\ h \in B(h) /\ B(h) \subseteq GoodHits
                          /\ F(h) \in SUBSET (1 .. NHits) /\ h \in F(h) /\ F(h) \subseteq GoodHits
  <2>1. \A h \in GoodHits : h <= h
    BY <1>1
  <2> HIDE DEF GoodHits, StreamOf
  <2> QED BY <1>1, <2>1
<1>4. ASSUME NEW g \in GoodHits, NEW h \in GoodHits, StreamOf(g) = StreamOf(h), g <= h
      PROVE  B(g) \subseteq B(h) /\ F(h) \subseteq F(g)
  <2>1. \A k \in GoodHits : k \in Int
    BY <1>1
  <2> QED BY <1>4, <2>1
<1> HIDE DEF B, F, max, min
<1>5. ASSUME NEW h \in GoodHits
      PROVE  /\ info[h].maxBefore \in Int /\ info[h].minAfter \in Int
             /\ \A k \in B(h) : max[k] <= info[h].maxBefore
             /\ \A k \in F(h) : info[h].minAfter <= min[k]
             /\ \E k \in B(h) : info[h].maxBefore = max[k]
             /\ \E k \in F(h) : info[h].minAfter = min[k]
  <2>1. B(h) # {} /\ \A x \in B(h) : max[x] \in Int
    BY <1>1, <1>3
  <2>2. F(h) # {} /\ \A x \in F(h) : min[x] \in Int
    BY <1>1, <1>3
  <2>3. /\ Max({max[g] : g \in B(h)}) \in Int
        /\ \A k \in B(h) : max[k] <= Max({max[g] : g \in B(h)})
        /\ \E k \in B(h) : Max({max[g] : g \in B(h)}) = max[k]
    BY <1>1, <1>3, <2>1, BoundsOfImage
  <2>4. /\ Min({min[g] : g \in F(h)}) \in Int
        /\ \A k \in F(h) : Min({min[g] : g \in F(h)}) <= min[k]
        /\ \E k \in F(h) : Min({min[g] : g \in F(h)}) = min[k]
    BY <1>1, <1>3, <2>2, BoundsOfImage
  <2> QED BY <1>2, <2>3, <2>4
<1>6. ASSUME NEW g \in GoodHits, NEW h \in GoodHits, StreamOf(g) = StreamOf(h), g <= h
      PROVE  info[g].maxBefore <= info[h].maxBefore /\ info[g].minAfter <= info[h].minAfter
  <2>1. PICK k \in B(g) : info[g].maxBefore = max[k]
    BY <1>5
  <2>2. PICK m \in F(h) : info[h].minAfter = min[m]
    BY <1>5
  <2> QED BY <1>4, <1>5, <1>6, <2>1, <2>2
<1> QED BY <1>3, <1>5, <1>6 DEF InfoOK, max, min

\* What is divided into windows of a length is a whole number of them.
LEMMA QuotientNatural ==
  ASSUME NEW a \in Nat, NEW b \in Nat \ {0}
  PROVE  a \div b \in Nat
OBVIOUS

LEMMA ProductsGrow ==
  ASSUME NEW a \in Int, NEW b \in Int, NEW c \in Nat, a <= b
  PROVE  a * c \in Int /\ b * c \in Int /\ a * c <= b * c
OBVIOUS

LEMMA ProductNatural ==
  ASSUME NEW a \in Nat, NEW c \in Nat
  PROVE  a * c \in Nat
OBVIOUS

\* The number of hits up to a window is a number.
LEMMA CountedHits ==
  ASSUME NEW windowOf, NEW iw
  PROVE  HitsUpTo(windowOf, iw) \in Nat
<1>1. NHits \in Nat
  BY CaWindowsAssumption
<1>2. IsFiniteSet(Hits)
  BY <1>1, FS_Interval DEF Hits
<1>3. \A S \in SUBSET Hits : Cardinality(S) \in Nat
  BY <1>2, FS_Subset, FS_CardinalityType
<1> QED BY <1>3 DEF HitsUpTo

\* The timeslice reaches from the first end of a hit to the last begin.
LEMMA TimesliceBounds ==
  ASSUME InputOK
  PROVE  /\ TsStart \in Int /\ TsEnd \in Int /\ TsStart <= TsEnd
         /\ \A h \in GoodHits : TsStart <= input.max[h] /\ input.min[h] <= TsEnd
<1> DEFINE max == input.max
           min == input.min
           Ends == {max[h] : h \in GoodHits}
           Begins == {min[h] : h \in GoodHits}
<1>1. /\ NHits \in Nat /\ GoodHits \in SUBSET (1 .. NHits)
      /\ \A h \in GoodHits : max[h] \in Int /\ min[h] \in Int
      /\ Infinity \in Int
  BY CaWindowsAssumption DEF InputOK, GoodHits, Hits
<1> HIDE DEF max, min
<1>2. TsStart \in Int /\ \A h \in GoodHits : TsStart <= max[h]
  <2>1. TsStart = IF Ends = {} THEN Infinity ELSE Min(Ends)
    BY DEF TsStart, MinOr, max
  <2>2. CASE GoodHits = {}
    BY <1>1, <2>1, <2>2
  <2>3. CASE GoodHits # {}
    <3>1. Ends # {}
      BY <2>3
    <3>2. Min(Ends) \in Int /\ \A h \in GoodHits : Min(Ends) <= max[h]
      BY <1>1, <2>3, BoundsOfImage
    <3> QED BY <2>1, <3>1, <3>2
  <2> QED BY <2>2, <2>3
<1>3. ASSUME NEW e, e = MaxOr(Begins \cup {0}, 0)
      PROVE  e \in Int /\ \A h \in GoodHits : min[h] <= e
  <2>1. e = Max(Begins \cup {0})
    BY <1>3 DEF MaxOr
  <2> DEFINE f == [i \in 1 .. NHits + 1 |-> IF i = NHits + 1 THEN 0 ELSE min[i]]
             T == GoodHits \cup {NHits + 1}
             n == NHits + 1
  <2>2. /\ T \in SUBSET (1 .. n) /\ T # {} /\ n \in Nat
        /\ \A h \in GoodHits : f[h] = min[h] /\ h \in T
        /\ f[n] = 0 /\ n \in T
    BY <1>1
  <2>3. \A i \in T : f[i] \in Int /\ f[i] \in Begins \cup {0}
    BY <1>1, <2>2
  <2>4. Begins \cup {0} \subseteq {f[i] : i \in T}
    BY <2>2
  <2>5. {f[i] : i \in T} = Begins \cup {0}
    <3> HIDE DEF f, T
    <3> QED BY <2>3, <2>4
  <2> HIDE DEF f, T, Begins, n
  <2>6. Max({f[i] : i \in T}) \in Int /\ \A i \in T : f[i] <= Max({f[y] : y \in T})
    <3>1. T \in SUBSET (1 .. n) /\ T # {} /\ n \in Nat /\ \A x \in T : f[x] \in Int
      BY <2>2, <2>3
    <3> QED BY <3>1, BoundsOfImage
  <2> QED BY <2>1, <2>2, <2>5, <2>6
<1>4. TsEnd = LET end == MaxOr(Begins \cup {0}, 0) IN IF end < TsStart THEN TsStart ELSE end
  BY DEF TsEnd, min
<1> HIDE DEF Begins, Ends
<1>5. TsEnd \in Int /\ TsStart <= TsEnd /\ \A h \in GoodHits : min[h] <= TsEnd
  <2> DEFINE e == MaxOr(Begins \cup {0}, 0)
  <2>1. e \in Int /\ \A h \in GoodHits : min[h] <= e
    BY <1>3
  <2>2. TsEnd = IF e < TsStart THEN TsStart ELSE e
    BY <1>4
  <2> HIDE DEF e
  <2>3. TsEnd \in Int /\ TsStart <= TsEnd /\ e <= TsEnd
    BY <1>2, <2>1, <2>2
  <2> QED BY <1>1, <2>1, <2>3
<1> QED BY <1>2, <1>5 DEF max, min

\* The windows that begin the ranges follow each other.
LEMMA WindowItGrows ==
  ASSUME InputOK
  PROVE  /\ \A t \in Threads : WindowIt[t] \in Nat
         /\ \A t, u \in Threads : t <= u => WindowIt[t] <= WindowIt[u]
<1> DEFINE n == NWindows
           H(iw) == HitsUpTo(WindowOf, iw)
           perThread == H(n - 1) \div nThreads
           E(t) == {iw \in 0 .. n - 1 : H(iw) >= t * perThread}
<1>1. n \in Nat /\ nThreads \in Nat \ {0}
  <2> DEFINE a == TsEnd - TsStart
  <2>1. a \in Nat /\ WindowLength \in Nat \ {0}
    BY TimesliceBounds, CaWindowsAssumption
  <2> HIDE DEF a
  <2>2. a \div WindowLength \in Nat
    BY <2>1, QuotientNatural
  <2>3. n = a \div WindowLength + 1
    BY DEF NWindows, a
  <2> HIDE DEF n
  <2> QED BY <2>2, <2>3 DEF InputOK
<1>2. \A t \in Threads : WindowIt[t] = IF E(t) = {} THEN n ELSE Min(E(t))
  BY DEF WindowIt, MinOr
<1>3. \A iw \in 0 .. n - 1 : H(iw) \in Nat
  BY CountedHits
<1>4. perThread \in Nat
  <2>1. H(n - 1) \in Nat
    BY CountedHits
  <2> HIDE DEF H, n
  <2> QED BY <1>1, <2>1, QuotientNatural
<1> HIDE DEF n, H, perThread
<1>5. ASSUME NEW t \in Threads, NEW u \in Threads, t <= u PROVE E(u) \subseteq E(t)
  <2>1. t \in Int /\ u \in Int
    BY <1>1 DEF Threads
  <2>2. /\ t * perThread \in Int /\ u * perThread \in Int
        /\ t * perThread <= u * perThread
    BY <1>4, <1>5, <2>1, ProductsGrow
  <2> DEFINE a == t * perThread
             b == u * perThread
  <2>3. a \in Int /\ b \in Int /\ a <= b
    BY <2>2
  <2>4. \A iw \in 0 .. n - 1 : H(iw) >= b => H(iw) >= a
    <3> HIDE DEF a, b
    <3> QED BY <1>3, <2>3
  <2> QED BY <2>4
<1>6. \A t \in Threads : E(t) \subseteq 0 .. n - 1
  OBVIOUS
<1> HIDE DEF E
<1>7. ASSUME NEW t \in Threads
      PROVE  /\ WindowIt[t] \in Nat /\ WindowIt[t] <= n
             /\ E(t) = {} => WindowIt[t] = n
             /\ E(t) # {} => WindowIt[t] \in E(t) /\ \A x \in E(t) : WindowIt[t] <= x
  <2>1. CASE E(t) = {}
    BY <1>1, <1>2, <2>1
  <2>2. CASE E(t) # {}
    <3>1. WindowIt[t] = Min(E(t))
      BY <1>2, <2>2
    <3>2. E(t) \in SUBSET Nat
      BY <1>1, <1>6
    <3>3. WindowIt[t] \in E(t) /\ \A x \in E(t) : WindowIt[t] <= x
      BY <2>2, <3>1, <3>2, MinIsLeast
    <3>4. WindowIt[t] \in 0 .. n - 1
      BY <1>6, <3>3
    <3> QED BY <1>1, <2>2, <3>3, <3>4
  <2> QED BY <2>1, <2>2
<1>8. ASSUME NEW t \in Threads, NEW u \in Threads, t <= u PROVE WindowIt[t] <= WindowIt[u]
  <2>1. CASE E(u) = {}
    BY <1>7, <2>1
  <2>2. CASE E(u) # {}
    <3>1. WindowIt[u] \in E(t)
      BY <1>5, <1>7, <1>8, <2>2
    <3> QED BY <1>7, <3>1
  <2> QED BY <2>1, <2>2
<1> QED BY <1>7, <1>8

\* The ranges of the threads follow each other from the first end of a hit to the
\* last begin.
LEMMA InitRangeOK ==
  ASSUME InputOK,
         range = [t \in Threads |-> [first |-> RangeFirst(t), second |-> RangeSecond(t)]]
  PROVE  RangeOK
<1>1. nThreads \in Nat \ {0} /\ WindowLength \in Nat
  BY CaWindowsAssumption DEF InputOK
<1>2. \A t \in Threads : WindowIt[t] \in Nat
  BY WindowItGrows
<1>3. TsStart \in Int /\ TsEnd \in Int
  BY TimesliceBounds
<1> DEFINE R(t) == (WindowIt[t] + 1) * WindowLength
<1>4. \A t \in Threads : WindowIt[t] + 1 \in Nat
  BY <1>2
<1>5. \A t \in Threads : R(t) \in Nat
  BY <1>1, <1>4, ProductNatural
<1>6. ASSUME NEW t \in Threads, NEW u \in Threads, t <= u PROVE R(t) <= R(u)
  <2>1. WindowIt[t] <= WindowIt[u]
    BY <1>6, WindowItGrows
  <2>2. WindowIt[t] + 1 <= WindowIt[u] + 1
    BY <1>2, <2>1
  <2> QED BY <1>1, <1>4, <2>2, ProductsGrow
<1>7. \A t \in Threads : RangeFirst(t) = IF t = 0 THEN TsStart ELSE TsStart + R(t)
  BY DEF RangeFirst
<1> HIDE DEF R
<1>8. \A t \in Threads : RangeFirst(t) \in Int /\ TsStart <= RangeFirst(t)
  BY <1>3, <1>5, <1>7
<1>9. \A t \in Threads : t \in Nat /\ t <= nThreads - 1
  BY <1>1 DEF Threads
<1>10. \A t \in Threads : t # nThreads - 1 => t + 1 \in Threads
  BY <1>1 DEF Threads
<1>11. \A t \in Threads : range[t].first = RangeFirst(t) /\ range[t].second = RangeSecond(t)
  OBVIOUS
<1>12. \A t \in Threads : RangeSecond(t) = IF t = nThreads - 1 THEN TsEnd ELSE RangeFirst(t + 1)
  BY DEF RangeSecond
<1>13. \A t \in Threads : range[t].first \in Int /\ range[t].second \in Int
  BY <1>3, <1>8, <1>10, <1>11, <1>12
<1>14. 0 \in Threads /\ nThreads - 1 \in Threads
  BY <1>1 DEF Threads
<1>15. range[0].first = TsStart /\ range[nThreads - 1].second = TsEnd
  BY <1>7, <1>11, <1>12, <1>14
<1>16. \A t \in Threads : t # nThreads - 1 => range[t].second = range[t + 1].first
  BY <1>10, <1>11, <1>12
<1>17. ASSUME NEW t \in Threads, NEW u \in Threads, t <= u PROVE range[t].first <= range[u].first
  <2>1. CASE t = 0
    BY <1>7, <1>8, <1>11, <2>1
  <2>2. CASE t # 0
    <3>1. u # 0
      BY <1>9, <1>17, <2>2
    <3>2. RangeFirst(t) = TsStart + R(t) /\ RangeFirst(u) = TsStart + R(u)
      BY <1>7, <2>2, <3>1
    <3> QED BY <1>3, <1>5, <1>6, <1>11, <1>17, <3>2
  <2> QED BY <2>1, <2>2
<1>18. \A h \in GoodHits : TsStart <= input.max[h] /\ input.min[h] <= TsEnd
  BY TimesliceBounds
<1> QED BY <1>13, <1>15, <1>16, <1>17, <1>18 DEF RangeOK

-----------------------------------------------------------------------------
(* The invariant: what a thread sees, and what it has still to do.         *)

Active == {"select", "search", "store"}

TypeInv ==
  /\ toCopy \in [Threads -> SUBSET Hits] /\ first \in [Threads -> Int]
  /\ pc \in [Threads -> {"copy", "range", "done"} \cup Active]
  /\ DOMAIN streamRange = Threads /\ DOMAIN untouched = Threads
  /\ \A t \in Threads : streamRange[t] \in [1 .. NStreams -> [first : Int, stop : Int]]
  /\ \A t \in Threads : untouched[t] \in BOOLEAN

\* Bogus hits are flagged, so only good ones come into a window, and what is
\* found in it are all its hits of a particle.
FlagInv(t) ==
  /\ t = 0 => pc[t] # "copy"
  /\ pc[t] # "copy" => toCopy[t] = {}
  /\ \A h \in Hits \ toCopy[t] : Bogus(h) => used[t][h]
  /\ window[t] \subseteq GoodHits
  /\ pc[t] \notin {"search", "store"} => window[t] = {}
  /\ pc[t] = "search" => \A h \in window[t] : ~used[t][h]
  /\ UNION found[t] \subseteq window[t]
  /\ pc[t] # "store" => found[t] = {}
  /\ \A track \in found[t] : \E p \in Particles :
       track = {h \in window[t] : input.particle[h] = p}

\* A flag that is set stands for a track, or was only in use when it was copied.
CopyInv(t) ==
  \A h \in GoodHits \ toCopy[t] :
    used[t][h] => \/ h \in Stored(0) \cup Stored(t) \cup UNION found[t]
                  \/ t # 0 /\ h \in racy

\* From where on the hits are still to be seen.
Edge(t) == IF pc[t] = "select" THEN first[t] ELSE first[t] + WindowLength

InStreamRange(t, h) ==
  LET r == streamRange[t][StreamOf(h)] IN r.first <= h /\ h < r.stop

\* A window is in the range of its thread, and what lies from it on to the end of
\* that range is still in the ranges of the streams.
RangeInv(t) ==
  /\ pc[t] \in {"copy", "range"} => first[t] = range[t].first
  /\ pc[t] \in Active =>
       /\ range[t].first <= first[t]
       /\ t # nThreads - 1 => first[t] <= range[t].second
       /\ \A h \in GoodHits :
            input.min[h] <= range[t].second /\ Edge(t) <= input.max[h] => InStreamRange(t, h)

\* What is not touched is a hit after the window.
WindowInv(t) ==
  /\ \A h \in window[t] : input.min[h] <= first[t] + WindowLength /\ first[t] <= input.max[h]
  /\ pc[t] \in {"search", "store"} /\ untouched[t] =>
       \E g \in GoodHits : input.min[g] > first[t] + WindowLength

Together(p) == \A g, h \in HitsOfParticle(p) : input.min[g] <= input.max[h]

\* Hits D of a particle that the thread should find: they overlap each other, none
\* ends before its range and not all after it, none is stored, or was in use when
\* it was copied.
Home(t, D) ==
  /\ \A h \in D : range[t].first <= input.max[h]
  /\ t # nThreads - 1 => \E h \in D : input.max[h] < range[t].second
Due(t, p, D) ==
  /\ p \notin missed /\ Together(p) /\ Home(t, D) /\ Cardinality(D) >= MinHits
  /\ D \cap (Stored(0) \cup Stored(t)) = {}
  /\ t # 0 => D \cap racy = {}

\* It still can: they end after the windows it has done, they are in the window or
\* the window is not the last one, and then they are found.
Open(t, p, D) ==
  /\ pc[t] # "done"
  /\ pc[t] \in Active => \A h \in D : first[t] <= input.max[h]
  /\ pc[t] \in {"search", "store"} =>
       /\ \A h \in D : input.min[h] <= first[t] + WindowLength => h \in window[t]
       /\ (\E h \in D : input.min[h] > first[t] + WindowLength) => untouched[t]
  /\ pc[t] = "store" =>
       LET W == {h \in window[t] : input.particle[h] = p}
       IN  Cardinality(W) >= MinHits => W \in found[t]

TodoInv(t) ==
  \A p \in Particles : \A D \in SUBSET HitsOfParticle(p) : Due(t, p, D) => Open(t, p, D)

\* What lies inside a range no other thread stores or copies while it is in use, and
\* its own thread stores all of it or nothing.
ApartInv(t) ==
  \A p \in Particles : Interior(t, p) =>
    /\ \A u \in Threads \ {t} : Stored(u) \cap HitsOfParticle(p) = {}
    /\ t # 0 => racy \cap HitsOfParticle(p) = {}

OwnInv(t) ==
  \A p \in Particles :
    /\ Interior(t, p) /\ p \notin missed /\ Together(p)
    /\ Cardinality(HitsOfParticle(p)) >= MinHits
    => \/ Stored(t) \cap HitsOfParticle(p) = {}
       \/ HitsOfParticle(p) \in Range(tracks[t])

JoinInv ==
  joined => /\ \A t \in Threads : pc[t] = "done"
            /\ recoTracks = FlattenSeq([i \in 1 .. nThreads |-> tracks[i - 1]])

\* What a thread knows by itself.
SelfInv(t) ==
  /\ FlagInv(t) /\ CopyInv(t) /\ RangeInv(t) /\ WindowInv(t) /\ TodoInv(t) /\ OwnInv(t)

ThreadsInv == \A t \in Threads : SelfInv(t) /\ ApartInv(t)

SeenInv == WindowsInv /\ Computed /\ TypeInv /\ ThreadsInv /\ JoinInv

-----------------------------------------------------------------------------
LEMMA InitComputed == Init => Computed
<1> SUFFICES ASSUME Init PROVE Computed
  OBVIOUS
<1>1. InputOK
  BY CaWindowsAssumption DEF Init, InputOK
<1>2. InfoOK
  BY <1>1, InitInfoOK DEF Init
<1>3. RangeOK
  BY <1>1, InitRangeOK DEF Init
<1> QED BY <1>1, <1>2, <1>3 DEF Computed

LEMMA InitSeenInv == Init => SeenInv
<1> SUFFICES ASSUME Init PROVE SeenInv
  OBVIOUS
<1>1. WindowsInv /\ Computed
  BY InitWindowsInv, InitComputed
<1>2. nThreads \in Nat \ {0} /\ \A t \in Threads : range[t].first \in Int /\ range[t].second \in Int
  BY <1>1 DEF Computed, InputOK, RangeOK
<1>3. TypeInv
  <2>1. toCopy \in [Threads -> SUBSET Hits]
    BY DEF Init
  <2>2. first \in [Threads -> Int]
    BY <1>2 DEF Init
  <2>3. pc \in [Threads -> {"copy", "range", "done"} \cup Active]
    BY DEF Init
  <2>4. \A s \in 1 .. NStreams : Start(s) \in Int /\ Stop(s) \in Int
    <3>1. NHits \in Nat
      BY CaWindowsAssumption
    <3>2. \A s \in 1 .. NStreams : Start(s) \in Hits /\ Stop(s) \in 1 .. NHits + 1
      BY <1>1, StreamFacts DEF Computed
    <3> QED BY <3>1, <3>2 DEF Hits
  <2>5. /\ DOMAIN streamRange = Threads
        /\ \A t \in Threads : streamRange[t] \in [1 .. NStreams -> [first : Int, stop : Int]]
    BY <2>4 DEF Init
  <2>6. DOMAIN untouched = Threads /\ \A t \in Threads : untouched[t] \in BOOLEAN
    BY DEF Init
  <2> QED BY <2>1, <2>2, <2>3, <2>5, <2>6 DEF TypeInv
<1>4. ASSUME NEW t \in Threads
      PROVE  /\ pc[t] = (IF t = 0 THEN "range" ELSE "copy")
             /\ toCopy[t] = (IF t = 0 THEN {} ELSE Hits)
             /\ window[t] = {} /\ found[t] = {} /\ tracks[t] = <<>> /\ Stored(t) = {}
             /\ first[t] = range[t].first
             /\ t = 0 => \A h \in Hits : used[t][h] = Bogus(h)
  <2>1. /\ pc[t] = (IF t = 0 THEN "range" ELSE "copy")
        /\ toCopy[t] = (IF t = 0 THEN {} ELSE Hits)
        /\ window[t] = {} /\ found[t] = {} /\ tracks[t] = <<>>
        /\ first[t] = range[t].first
    BY DEF Init
  <2>2. t = 0 => \A h \in Hits : used[t][h] = Bogus(h)
    BY DEF Init, Bogus
  <2> QED BY <2>1, <2>2 DEF Stored, Range
<1>5. racy = {} /\ joined = FALSE
  BY DEF Init
<1>6. ASSUME NEW t \in Threads PROVE FlagInv(t)
  BY <1>4 DEF FlagInv
<1>7. ASSUME NEW t \in Threads PROVE CopyInv(t)
  <2>1. \A h \in GoodHits : h \in Hits /\ ~Bogus(h)
    BY DEF GoodHits
  <2> QED BY <1>4, <2>1 DEF CopyInv
<1>8. ASSUME NEW t \in Threads PROVE RangeInv(t)
  BY <1>4 DEF RangeInv, Active
<1>9. ASSUME NEW t \in Threads PROVE WindowInv(t)
  BY <1>4 DEF WindowInv
<1>10. ASSUME NEW t \in Threads PROVE TodoInv(t)
  BY <1>4 DEF TodoInv, Open, Active
<1>11. ASSUME NEW t \in Threads PROVE ApartInv(t)
  BY <1>4, <1>5 DEF ApartInv
<1>12. ASSUME NEW t \in Threads PROVE OwnInv(t)
  BY <1>4 DEF OwnInv
<1>13. JoinInv
  BY <1>5 DEF JoinInv
<1>14. ThreadsInv
  BY <1>6, <1>7, <1>8, <1>9, <1>10, <1>11, <1>12 DEF ThreadsInv, SelfInv
<1> QED BY <1>1, <1>3, <1>13, <1>14 DEF SeenInv

-----------------------------------------------------------------------------
\* Where a stream is cut: a hit that comes before the hits S is before the first of
\* them, and one that comes after them is not cut off with the last.
LEMMA MinIndex ==
  ASSUME NEW S \in SUBSET (1 .. NHits), NEW d \in Int
  PROVE  /\ MinOr(S, d) \in Int
         /\ \A h \in Int : h < d /\ (\A x \in S : h < x) => h < MinOr(S, d)
<1>1. S \in SUBSET Nat /\ \A x \in S : x \in Int
  BY CaWindowsAssumption
<1>2. CASE S = {}
  BY <1>2 DEF MinOr
<1>3. CASE S # {}
  <2>1. Min(S) \in S
    BY <1>1, <1>3, MinIsLeast
  <2> QED BY <1>1, <1>3, <2>1 DEF MinOr
<1> QED BY <1>2, <1>3

LEMMA MaxIndex ==
  ASSUME NEW S \in SUBSET (1 .. NHits), NEW d \in Int
  PROVE  /\ MaxOr({x + 1 : x \in S}, d) \in Int
         /\ \A h \in Int : d <= h /\ (\A x \in S : x < h) => MaxOr({x + 1 : x \in S}, d) <= h
<1> DEFINE V == {x + 1 : x \in S}
<1>1. NHits \in Nat /\ \A x \in S : x \in Int
  BY CaWindowsAssumption
<1>2. CASE S = {}
  <2>1. V = {}
    BY <1>2
  <2> QED BY <2>1 DEF MaxOr
<1>3. CASE S # {}
  <2> DEFINE f == [x \in S |-> x + 1]
  <2>1. \A x \in S : f[x] \in Int
    BY <1>1
  <2>2. {f[x] : x \in S} = V
    OBVIOUS
  <2>3. V # {}
    BY <1>3
  <2>4. \E a \in S : Max({f[x] : x \in S}) = f[a]
    <3> HIDE DEF f, V
    <3> QED BY <1>1, <1>3, <2>1, BoundsOfImage
  <2>5. PICK a \in S : Max(V) = a + 1
    BY <2>2, <2>4
  <2>6. MaxOr(V, d) = a + 1
    BY <2>3, <2>5 DEF MaxOr
  <2> HIDE DEF V
  <2>7. /\ MaxOr(V, d) \in Int
        /\ \A h \in Int : d <= h /\ (\A x \in S : x < h) => MaxOr(V, d) <= h
    BY <1>1, <2>6
  <2> QED BY <2>7 DEF V
<1> QED BY <1>2, <1>3

-----------------------------------------------------------------------------
(* What a step leaves alone.                                               *)

Still ==
  /\ UNCHANGED constants
  /\ Hits' = Hits /\ GoodHits' = GoodHits /\ Threads' = Threads /\ NStreams' = NStreams
  /\ \A h : StreamOf(h)' = StreamOf(h) /\ Bogus(h)' = Bogus(h)
  /\ \A p : /\ HitsOfParticle(p)' = HitsOfParticle(p) /\ Together(p)' = Together(p)
            /\ \A t : Interior(t, p)' = Interior(t, p)
  /\ \A t, D : Home(t, D)' = Home(t, D)

LEMMA ConstantsStill ==
  ASSUME UNCHANGED constants
  PROVE  Still
<1>1. UNCHANGED <<input, info, range, nThreads, cut>>
  BY DEF constants
<1>2. Hits' = Hits /\ Threads' = Threads /\ NStreams' = NStreams /\ GoodHits' = GoodHits
  BY <1>1 DEF Hits, Threads, NStreams, GoodHits, Bogus
<1>3. \A h : StreamOf(h)' = StreamOf(h) /\ Bogus(h)' = Bogus(h)
  BY <1>1 DEF StreamOf, Bogus, NStreams, Start, Stop
<1>4. \A p : HitsOfParticle(p)' = HitsOfParticle(p)
  BY <1>1, <1>2 DEF HitsOfParticle
<1>5. \A p : Together(p)' = Together(p)
  BY <1>1, <1>4 DEF Together
<1>6. \A p, t : Interior(t, p)' = Interior(t, p)
  BY <1>1, <1>4 DEF Interior
<1>7. \A t, D : Home(t, D)' = Home(t, D)
  BY <1>1 DEF Home
<1> QED BY <1>2, <1>3, <1>4, <1>5, <1>6, <1>7 DEF Still

\* Exactly the tracks that are kept are stored.
LEMMA KeptAreStored ==
  ASSUME Shape, NEW t \in Threads, ThreadInv(t), StoreTracks(t)
  PROVE  LET kept == {track \in found[t] : Kept(t, track, NextWindow(t))}
         IN  /\ Range(tracks'[t]) = Range(tracks[t]) \cup kept
             /\ Stored(t)' = Stored(t) \cup UNION kept
<1> DEFINE kept == {track \in found[t] : Kept(t, track, NextWindow(t))}
           old == tracks[t]
           list == SetToSeq(kept)
<1>1. tracks'[t] = old \o list
  BY DEF StoreTracks, Shape
<1>2. IsFiniteSet(kept)
  <2>1. IsFiniteSet(Hits)
    BY FS_Interval DEF Hits, Shape
  <2>2. IsFiniteSet(SUBSET Hits)
    BY <2>1, FS_SUBSET
  <2>3. kept \subseteq SUBSET Hits
    BY DEF ThreadInv
  <2> QED BY <2>2, <2>3, FS_Subset
<1> HIDE DEF kept
<1>3. /\ list \in Seq(kept)
      /\ \A x \in kept : \E i \in DOMAIN list : list[i] = x
  BY <1>2, SetToSeqFacts
<1>4. old \in Seq(SUBSET Hits)
  BY DEF ThreadInv
<1> HIDE DEF list, old
<1> DEFINE new == old \o list
<1>5. /\ DOMAIN new = 1 .. Len(old) + Len(list) /\ DOMAIN old = 1 .. Len(old)
      /\ DOMAIN list = 1 .. Len(list) /\ Len(old) \in Nat /\ Len(list) \in Nat
      /\ \A i \in 1 .. Len(old) + Len(list) :
           new[i] = IF i <= Len(old) THEN old[i] ELSE list[i - Len(old)]
  BY <1>3, <1>4
<1>6. \A k \in DOMAIN list : list[k] \in kept
  BY <1>3
<1> HIDE DEF new
<1>7. ASSUME NEW i \in DOMAIN new PROVE new[i] \in Range(old) \/ new[i] \in kept
  <2>1. CASE i <= Len(old)
    <3>1. i \in DOMAIN old /\ new[i] = old[i]
      BY <1>5, <2>1
    <3> QED BY <3>1 DEF Range
  <2>2. CASE ~(i <= Len(old))
    <3>1. i - Len(old) \in DOMAIN list /\ new[i] = list[i - Len(old)]
      BY <1>5, <2>2
    <3> QED BY <1>6, <3>1
  <2> QED BY <2>1, <2>2
<1>8. ASSUME NEW i \in DOMAIN old PROVE old[i] \in Range(new)
  <2>1. i \in DOMAIN new /\ new[i] = old[i]
    BY <1>5
  <2> QED BY <2>1 DEF Range
<1>9. ASSUME NEW x \in kept PROVE x \in Range(new)
  <2>1. PICK i \in DOMAIN list : list[i] = x
    BY <1>3
  <2>2. /\ Len(old) + i \in DOMAIN new /\ ~(Len(old) + i <= Len(old))
        /\ (Len(old) + i) - Len(old) = i
    BY <1>5
  <2>3. new[Len(old) + i] = list[i]
    BY <1>5, <2>2
  <2> QED BY <2>1, <2>2, <2>3 DEF Range
<1>10. Range(new) = Range(old) \cup kept
  BY <1>7, <1>8, <1>9 DEF Range
<1>11. tracks'[t] = new
  BY <1>1 DEF new
<1>12. Stored(t)' = UNION Range(new) /\ Stored(t) = UNION Range(old)
  BY <1>11 DEF Stored, old
<1>13. Range(tracks'[t]) = Range(tracks[t]) \cup kept
  BY <1>10, <1>11 DEF old
<1>14. Stored(t)' = Stored(t) \cup UNION kept
  BY <1>10, <1>12
<1> QED BY <1>13, <1>14 DEF kept

\* A step of one thread.
Frame(t) ==
  /\ Still /\ UNCHANGED <<joined, recoTracks>>
  /\ \A u \in Threads \ {t} :
       /\ pc'[u] = pc[u] /\ toCopy'[u] = toCopy[u] /\ used'[u] = used[u]
       /\ streamRange'[u] = streamRange[u] /\ first'[u] = first[u] /\ window'[u] = window[u]
       /\ untouched'[u] = untouched[u] /\ found'[u] = found[u] /\ tracks'[u] = tracks[u]
       /\ Stored(u)' = Stored(u)
  /\ missed \subseteq missed' /\ racy \subseteq racy' /\ Stored(t) \subseteq Stored(t)'

LEMMA StepFrame ==
  ASSUME WindowsInv, TypeInv, NEW t \in Threads, FindTracksThread(t)
  PROVE  Frame(t)
<1>1. UNCHANGED constants
  BY DEF FindTracksThread, CopyFlag, SetStreamRange, SelectHits, CaTrackFinderSlice, StoreTracks,
         constants
<1>2. UNCHANGED <<joined, recoTracks>>
  BY DEF FindTracksThread, CopyFlag, SetStreamRange, SelectHits, CaTrackFinderSlice, StoreTracks
<1>3. ASSUME NEW u \in Threads \ {t}
      PROVE  /\ pc'[u] = pc[u] /\ toCopy'[u] = toCopy[u] /\ used'[u] = used[u]
             /\ streamRange'[u] = streamRange[u] /\ first'[u] = first[u] /\ window'[u] = window[u]
             /\ untouched'[u] = untouched[u] /\ found'[u] = found[u] /\ tracks'[u] = tracks[u]
  <2>1. CASE CopyFlag(t)
    BY <2>1 DEF CopyFlag, Goto, WindowsInv, Shape, TypeInv
  <2>2. CASE SetStreamRange(t)
    BY <2>2 DEF SetStreamRange, Goto, WindowsInv, Shape, TypeInv
  <2>3. CASE SelectHits(t)
    BY <2>3 DEF SelectHits, Goto, WindowsInv, Shape, TypeInv
  <2>4. CASE CaTrackFinderSlice(t)
    BY <2>4 DEF CaTrackFinderSlice, Goto, WindowsInv, Shape, TypeInv
  <2>5. CASE StoreTracks(t)
    BY <2>5 DEF StoreTracks, Goto, WindowsInv, Shape, TypeInv
  <2> QED BY <2>1, <2>2, <2>3, <2>4, <2>5 DEF FindTracksThread
<1>4. \A u \in Threads \ {t} : Stored(u)' = Stored(u)
  BY <1>3 DEF Stored
<1>5. missed \subseteq missed'
  BY DEF FindTracksThread, CopyFlag, SetStreamRange, SelectHits, CaTrackFinderSlice, StoreTracks
<1>6. racy \subseteq racy'
  BY DEF FindTracksThread, CopyFlag, SetStreamRange, SelectHits, CaTrackFinderSlice, StoreTracks
<1>7. Stored(t) \subseteq Stored(t)'
  <2>1. CASE StoreTracks(t)
    <3>1. Shape /\ ThreadInv(t)
      BY DEF WindowsInv
    <3>2. Stored(t)' = Stored(t) \cup UNION {track \in found[t] : Kept(t, track, NextWindow(t))}
      BY <2>1, <3>1, KeptAreStored
    <3> QED BY <3>2
  <2>2. CASE tracks' = tracks
    BY <2>2 DEF Stored
  <2> QED BY <2>1, <2>2 DEF FindTracksThread, CopyFlag, SetStreamRange, SelectHits,
                            CaTrackFinderSlice
<1> QED BY <1>1, <1>2, <1>3, <1>4, <1>5, <1>6, <1>7, ConstantsStill DEF Frame

-----------------------------------------------------------------------------
LEMMA ThreadsType ==
  ASSUME WindowsInv, Computed, TypeInv, NEW t \in Threads, FindTracksThread(t), Still
  PROVE  TypeInv'
<1>1. Threads' = Threads /\ Hits' = Hits /\ NStreams' = NStreams
  BY DEF Still
<1>2. toCopy' \in [Threads -> SUBSET Hits]
  <2>1. CASE CopyFlag(t)
    BY <2>1 DEF CopyFlag, TypeInv
  <2>2. CASE toCopy' = toCopy
    BY <2>2 DEF TypeInv
  <2> QED BY <2>1, <2>2 DEF FindTracksThread, SetStreamRange, SelectHits, CaTrackFinderSlice,
                            StoreTracks
<1>3. first' \in [Threads -> Int]
  <2>1. CASE StoreTracks(t)
    <3>1. first[t] + WindowLength \in Int
      BY CaWindowsAssumption DEF TypeInv
    <3> QED BY <2>1, <3>1 DEF StoreTracks, NextWindow, TypeInv
  <2>2. CASE first' = first
    BY <2>2 DEF TypeInv
  <2> QED BY <2>1, <2>2 DEF FindTracksThread, SetStreamRange, SelectHits, CaTrackFinderSlice,
                            CopyFlag
<1>4. pc' \in [Threads -> {"copy", "range", "done"} \cup Active]
  BY DEF FindTracksThread, CopyFlag, SetStreamRange, SelectHits, CaTrackFinderSlice, StoreTracks,
         Goto, TypeInv, Active
<1>5. DOMAIN streamRange' = Threads /\ DOMAIN untouched' = Threads
  BY DEF FindTracksThread, CopyFlag, SetStreamRange, SelectHits, CaTrackFinderSlice, StoreTracks,
         TypeInv
<1>6. \A u \in Threads : untouched'[u] \in BOOLEAN
  BY DEF FindTracksThread, CopyFlag, SetStreamRange, SelectHits, CaTrackFinderSlice, StoreTracks,
         TypeInv
<1>7. \A u \in Threads : streamRange'[u] \in [1 .. NStreams -> [first : Int, stop : Int]]
  <2>1. ASSUME SetStreamRange(t) \/ SelectHits(t)
        PROVE  streamRange'[t] \in [1 .. NStreams -> [first : Int, stop : Int]]
    <3>1. NStreams \in Nat /\ \A s \in 1 .. NStreams : Start(s) \in Int /\ Stop(s) \in Int
      <4>1. NHits \in Nat
        BY CaWindowsAssumption
      <4> QED BY <4>1, StreamFacts DEF Computed, Hits
    <3>2. CASE SetStreamRange(t)
      <4> DEFINE stop(s) == MinOr({h \in Unused(t, s) : info[h].minAfter > range[t].second}, Stop(s))
                 before(s) == {h \in Unused(t, s) : h <= stop(s) /\ info[h].maxBefore < range[t].first}
      <4>1. streamRange'[t] = [s \in 1 .. NStreams |->
              [first |-> MaxOr({h + 1 : h \in before(s)}, Start(s)), stop |-> stop(s)]]
        BY <3>2 DEF SetStreamRange, TypeInv
      <4>2. ASSUME NEW s \in 1 .. NStreams
            PROVE  stop(s) \in Int /\ MaxOr({h + 1 : h \in before(s)}, Start(s)) \in Int
        <5>1. \A S \in SUBSET Unused(t, s) : S \in SUBSET (1 .. NHits)
          BY StreamFacts DEF Computed, Unused, Hits
        <5>2. stop(s) \in Int
          BY <3>1, <5>1, MinIndex
        <5>3. before(s) \in SUBSET (1 .. NHits)
          BY <5>1
        <5> HIDE DEF before
        <5>4. MaxOr({h + 1 : h \in before(s)}, Start(s)) \in Int
          BY <3>1, <5>3, MaxIndex
        <5> QED BY <5>2, <5>4
      <4> HIDE DEF stop, before
      <4> QED BY <4>1, <4>2
    <3>3. CASE SelectHits(t)
      <4> DEFINE start(s) == MaxOr({h + 1 : h \in LeftBehind(t, s)}, streamRange[t][s].first)
                 stop(s) == streamRange[t][s].stop
      <4>1. streamRange'[t] = [s \in 1 .. NStreams |-> [first |-> start(s), stop |-> stop(s)]]
        BY <3>3 DEF SelectHits, TypeInv
      <4>2. ASSUME NEW s \in 1 .. NStreams
            PROVE  start(s) \in Int /\ stop(s) \in Int
        <5>1. LeftBehind(t, s) \in SUBSET (1 .. NHits)
          BY StreamFacts DEF Computed, LeftBehind, Inside, ScannedHits, Scanned, Unused, Hits
        <5>2. streamRange[t][s].first \in Int /\ streamRange[t][s].stop \in Int
          BY DEF TypeInv
        <5> QED BY <5>1, <5>2, MaxIndex
      <4> HIDE DEF start, stop
      <4> QED BY <4>1, <4>2
    <3> QED BY <2>1, <3>2, <3>3
  <2>2. ASSUME NEW u \in Threads, streamRange'[u] = streamRange[u]
        PROVE  streamRange'[u] \in [1 .. NStreams -> [first : Int, stop : Int]]
    BY <2>2 DEF TypeInv
  <2>3. CASE SetStreamRange(t) \/ SelectHits(t)
    <3>1. \A u \in Threads \ {t} : streamRange'[u] = streamRange[u]
      BY <2>3 DEF SetStreamRange, SelectHits, TypeInv
    <3> QED BY <2>1, <2>2, <2>3, <3>1
  <2>4. CASE streamRange' = streamRange
    BY <2>2, <2>4
  <2> QED BY <2>3, <2>4 DEF FindTracksThread, CaTrackFinderSlice, CopyFlag, StoreTracks
<1> QED BY <1>1, <1>2, <1>3, <1>4, <1>5, <1>6, <1>7 DEF TypeInv

-----------------------------------------------------------------------------
(* The other threads.                                                      *)

LEMMA FirstThread ==
  ASSUME Computed
  PROVE  /\ nThreads \in Nat \ {0} /\ 0 \in Threads /\ nThreads - 1 \in Threads
         /\ \A t \in Threads : t \in Nat /\ t <= nThreads - 1
BY DEF Computed, InputOK, Threads

LEMMA StoredGrows ==
  ASSUME NEW t \in Threads, Frame(t)
  PROVE  \A u \in Threads : Stored(u) \subseteq Stored(u)'
BY DEF Frame

\* What is due after a step was so before.
LEMMA DueBefore ==
  ASSUME Computed, NEW t \in Threads, Frame(t), NEW u \in Threads, NEW p, NEW D, Due(u, p, D)'
  PROVE  Due(u, p, D)
<1>1. /\ p \notin missed' /\ Together(p)' /\ Home(u, D)' /\ Cardinality(D) >= MinHits
      /\ D \cap (Stored(0)' \cup Stored(u)') = {}
      /\ u # 0 => D \cap racy' = {}
  BY DEF Due
<1>2. Stored(0) \subseteq Stored(0)' /\ Stored(u) \subseteq Stored(u)'
  BY FirstThread, StoredGrows
<1>3. Together(p) /\ Home(u, D) /\ missed \subseteq missed' /\ racy \subseteq racy'
  BY <1>1 DEF Frame, Still
<1> QED BY <1>1, <1>2, <1>3 DEF Due

LEMMA OtherKeeps ==
  ASSUME Computed, NEW t \in Threads, Frame(t), NEW u \in Threads \ {t}, SelfInv(u)
  PROVE  SelfInv(u)'
<1>1. /\ pc'[u] = pc[u] /\ toCopy'[u] = toCopy[u] /\ used'[u] = used[u]
      /\ streamRange'[u] = streamRange[u] /\ first'[u] = first[u] /\ window'[u] = window[u]
      /\ untouched'[u] = untouched[u] /\ found'[u] = found[u] /\ tracks'[u] = tracks[u]
      /\ Stored(u)' = Stored(u)
  BY DEF Frame
<1>2. /\ Hits' = Hits /\ GoodHits' = GoodHits /\ UNCHANGED <<input, info, range, nThreads>>
      /\ \A h : StreamOf(h)' = StreamOf(h) /\ Bogus(h)' = Bogus(h)
      /\ \A p : HitsOfParticle(p)' = HitsOfParticle(p) /\ Together(p)' = Together(p)
                /\ Interior(u, p)' = Interior(u, p)
  BY DEF Frame, Still, constants
<1>3. FlagInv(u)'
  BY <1>1, <1>2 DEF FlagInv, SelfInv
<1>4. CopyInv(u)'
  <2>1. Stored(0) \subseteq Stored(0)' /\ racy \subseteq racy'
    BY FirstThread, StoredGrows DEF Frame
  <2> QED BY <1>1, <1>2, <2>1 DEF CopyInv, SelfInv
<1>5. RangeInv(u)'
  <2>1. Edge(u)' = Edge(u) /\ \A h : InStreamRange(u, h)' = InStreamRange(u, h)
    BY <1>1, <1>2 DEF Edge, InStreamRange
  <2> QED BY <1>1, <1>2, <2>1 DEF RangeInv, SelfInv
<1>6. WindowInv(u)'
  BY <1>1, <1>2 DEF WindowInv, SelfInv
<1>7. TodoInv(u)'
  <2> SUFFICES ASSUME NEW p \in Particles, NEW D \in SUBSET HitsOfParticle(p), Due(u, p, D)'
               PROVE  Open(u, p, D)'
    BY <1>2 DEF TodoInv
  <2>1. Due(u, p, D)
    BY DueBefore
  <2>2. Open(u, p, D)
    BY <2>1 DEF SelfInv, TodoInv
  <2> QED BY <1>1, <1>2, <2>2 DEF Open
<1>8. OwnInv(u)'
  <2>1. missed \subseteq missed'
    BY DEF Frame
  <2> QED BY <1>1, <1>2, <2>1 DEF OwnInv, SelfInv
<1> QED BY <1>3, <1>4, <1>5, <1>6, <1>7, <1>8 DEF SelfInv

\* No thread looks at hits that lie inside the range of another.
SightApart ==
  \A u, v \in Threads : u # v =>
    \A p \in Particles : Interior(v, p) => window[u] \cap HitsOfParticle(p) = {}

LEMMA WindowsApart ==
  ASSUME Computed, TypeInv,
         \A u \in Threads : FlagInv(u) /\ RangeInv(u) /\ WindowInv(u)
  PROVE  SightApart
<1> SUFFICES ASSUME NEW u \in Threads, NEW v \in Threads, u # v, NEW p \in Particles,
                    Interior(v, p), NEW h \in window[u], h \in HitsOfParticle(p)
             PROVE  FALSE
  BY DEF SightApart
<1>1. pc[u] \in Active
  BY DEF FlagInv, Active
<1>2. /\ range[u].first <= first[u]
      /\ u # nThreads - 1 => first[u] <= range[u].second
      /\ input.min[h] <= first[u] + WindowLength /\ first[u] <= input.max[h]
  BY <1>1 DEF RangeInv, WindowInv
<1>3. h \in GoodHits /\ h \in Hits
  BY DEF HitsOfParticle, GoodHits
<1>4. /\ input.min[h] \in Int /\ input.max[h] \in Int /\ first[u] \in Int /\ WindowLength \in Nat
      /\ range[u].first \in Int /\ range[u].second \in Int
      /\ range[v].first \in Int /\ range[v].second \in Int
  BY <1>3, CaWindowsAssumption DEF Computed, InputOK, RangeOK, TypeInv
<1>5. /\ v # nThreads - 1 => input.max[h] < range[v].second
      /\ v # 0 => input.min[h] > range[v].first + WindowLength
  BY DEF Interior
<1>6. u \in Int /\ v \in Int /\ nThreads \in Int /\ 0 <= u /\ 0 <= v /\ u <= nThreads - 1 /\ v <= nThreads - 1
  BY FirstThread
<1>7. CASE u < v
  <2>1. u # nThreads - 1 /\ u + 1 \in Threads /\ u + 1 <= v /\ v # 0
    BY <1>6, <1>7 DEF Threads
  <2>2. range[u].second = range[u + 1].first /\ range[u + 1].first <= range[v].first
    BY <2>1 DEF Computed, RangeOK
  <2> QED BY <1>2, <1>4, <1>5, <2>1, <2>2
<1>8. CASE v < u
  <2>1. v # nThreads - 1 /\ v + 1 \in Threads /\ v + 1 <= u
    BY <1>6, <1>8 DEF Threads
  <2>2. range[v].second = range[v + 1].first /\ range[v + 1].first <= range[u].first
    BY <2>1 DEF Computed, RangeOK
  <2> QED BY <1>2, <1>4, <1>5, <2>1, <2>2
<1> QED BY <1>6, <1>7, <1>8

-----------------------------------------------------------------------------
(* Copying the flags, and the ranges of the streams.                       *)

\* A copied flag stands for a track, or is one that is taken back perhaps.
LEMMA CopyFlagSelf ==
  ASSUME WindowsInv, Computed, TypeInv, NEW t \in Threads, Frame(t), SelfInv(t), SelfInv(0),
         CopyFlag(t)
  PROVE  SelfInv(t)'
<1>1. PICK h \in toCopy[t] :
        /\ used' = [used EXCEPT ![t][h] = used[0][h]]
        /\ toCopy' = [toCopy EXCEPT ![t] = @ \ {h}]
        /\ racy' = IF used[0][h] /\ h \in GoodHits \ Stored(0) THEN racy \cup {h} ELSE racy
        /\ IF toCopy[t] = {h} THEN Goto(t, "range") ELSE UNCHANGED pc
  BY DEF CopyFlag
<1>2. /\ pc[t] = "copy" /\ t # 0
      /\ UNCHANGED <<constants, streamRange, first, window, untouched, found, tracks, missed>>
  BY DEF CopyFlag, SelfInv, FlagInv
<1>3. /\ h \in Hits /\ t \in Threads /\ 0 \in Threads
      /\ toCopy'[t] = toCopy[t] \ {h}
      /\ used'[t][h] = used[0][h] /\ \A g \in Hits \ {h} : used'[t][g] = used[t][g]
      /\ pc'[t] = IF toCopy[t] = {h} THEN "range" ELSE "copy"
  BY <1>1, <1>2, FirstThread DEF TypeInv, WindowsInv, Shape, Goto
<1>4. /\ Hits' = Hits /\ GoodHits' = GoodHits /\ UNCHANGED <<input, info, range, nThreads>>
      /\ \A g : Bogus(g)' = Bogus(g)
      /\ \A p : HitsOfParticle(p)' = HitsOfParticle(p) /\ Together(p)' = Together(p)
                /\ Interior(t, p)' = Interior(t, p)
  BY DEF Frame, Still, constants
<1>5. Stored(0)' = Stored(0) /\ Stored(t)' = Stored(t)
  BY <1>2 DEF Stored
<1>6. pc[0] # "copy" /\ toCopy[0] = {}
  BY DEF SelfInv, FlagInv
<1>7. window[t] = {} /\ found[t] = {}
  BY <1>2 DEF SelfInv, FlagInv
<1>8. FlagInv(t)'
  <2>1. \A g \in Hits \ toCopy'[t] : Bogus(g) => used'[t][g]
    <3>1. Bogus(h) => used[0][h]
      BY <1>3, <1>6 DEF SelfInv, FlagInv
    <3>2. \A g \in Hits \ toCopy[t] : Bogus(g) => used[t][g]
      BY DEF SelfInv, FlagInv
    <3> QED BY <1>3, <3>1, <3>2
  <2> QED BY <1>2, <1>3, <1>4, <1>7, <2>1 DEF FlagInv
<1>9. CopyInv(t)'
  <2> SUFFICES ASSUME NEW g \in GoodHits \ toCopy'[t], used'[t][g]
               PROVE  g \in Stored(0) \/ g \in Stored(t) \/ g \in racy'
    BY <1>2, <1>4, <1>5 DEF CopyInv
  <2>1. CASE g = h
    BY <1>1, <1>3, <2>1
  <2>2. CASE g # h
    <3>1. g \in Hits \ {h} /\ g \notin toCopy[t] /\ used[t][g] /\ racy \subseteq racy'
      BY <1>3, <2>2 DEF GoodHits, Frame
    <3> QED BY <1>7, <3>1 DEF SelfInv, CopyInv
  <2> QED BY <2>1, <2>2
<1>10. RangeInv(t)'
  BY <1>2, <1>3, <1>4 DEF RangeInv, SelfInv, Active
<1>11. WindowInv(t)'
  BY <1>2, <1>3, <1>7 DEF WindowInv
<1>12. TodoInv(t)'
  BY <1>3 DEF TodoInv, Open, Active
<1>13. OwnInv(t)'
  BY <1>2, <1>4, <1>5 DEF OwnInv, SelfInv
<1> QED BY <1>8, <1>9, <1>10, <1>11, <1>12, <1>13 DEF SelfInv

\* Thread 0 has no flags to copy.
LEMMA FirstFlags ==
  ASSUME NEW t, SelfInv(t), pc[t] # "copy"
  PROVE  /\ \A h \in Hits : ~used[t][h] => h \in GoodHits
         /\ \A h \in GoodHits :
              used[t][h] => \/ h \in Stored(0) \cup Stored(t) \cup UNION found[t]
                            \/ t # 0 /\ h \in racy
BY DEF SelfInv, FlagInv, CopyInv, GoodHits

\* Only hits before or after the range of the thread are cut off.
LEMMA SetStreamRangeSelf ==
  ASSUME WindowsInv, Computed, TypeInv, NEW t \in Threads, Frame(t), SelfInv(t),
         SetStreamRange(t)
  PROVE  SelfInv(t)'
<1>1. /\ pc[t] = "range" /\ pc'[t] = "select"
      /\ UNCHANGED <<constants, toCopy, used, first, window, untouched, found, tracks, missed, racy>>
  BY DEF SetStreamRange, Goto, TypeInv
<1>2. /\ Hits' = Hits /\ GoodHits' = GoodHits /\ UNCHANGED <<input, info, range, nThreads>>
      /\ \A g : Bogus(g)' = Bogus(g) /\ StreamOf(g)' = StreamOf(g)
      /\ \A p : HitsOfParticle(p)' = HitsOfParticle(p) /\ Together(p)' = Together(p)
                /\ Interior(t, p)' = Interior(t, p)
  BY DEF Frame, Still, constants
<1>3. \A u : Stored(u)' = Stored(u)
  BY <1>1 DEF Stored
<1>4. window[t] = {} /\ found[t] = {} /\ first[t] = range[t].first
  BY <1>1 DEF SelfInv, FlagInv, RangeInv
<1>5. FlagInv(t)'
  BY <1>1, <1>2 DEF FlagInv, SelfInv
<1>6. CopyInv(t)'
  BY <1>1, <1>2, <1>3 DEF CopyInv, SelfInv
<1>7. RangeInv(t)'
  <2> DEFINE late(s) == {h \in Unused(t, s) : info[h].minAfter > range[t].second}
             stop(s) == MinOr(late(s), Stop(s))
             before(s) == {h \in Unused(t, s) : h <= stop(s) /\ info[h].maxBefore < range[t].first}
             start(s) == MaxOr({h + 1 : h \in before(s)}, Start(s))
  <2>1. \A s \in 1 .. NStreams : streamRange'[t][s] = [first |-> start(s), stop |-> stop(s)]
    BY DEF SetStreamRange, TypeInv
  <2>2. ASSUME NEW h \in GoodHits, input.min[h] <= range[t].second, range[t].first <= input.max[h]
        PROVE  InStreamRange(t, h)'
    <3> DEFINE s == StreamOf(h)
    <3>1. NHits \in Nat /\ h \in Hits /\ h \in Int
      BY CaWindowsAssumption DEF GoodHits, Hits
    <3>2. /\ s \in 1 .. NStreams /\ Start(s) <= h /\ h < Stop(s)
          /\ Start(s) \in Int /\ Stop(s) \in Int
      BY <3>1, StreamFacts DEF Computed, Hits
    <3>3. \A g \in Unused(t, s) : g \in GoodHits /\ StreamOf(g) = s /\ g \in Int /\ g \in 1 .. NHits
      <4>1. \A g \in Unused(t, s) : g \in Hits /\ ~used[t][g] /\ StreamOf(g) = s
        BY <3>2, StreamFacts DEF Computed, Unused
      <4> HIDE DEF s
      <4> QED BY <1>1, <3>1, <4>1, FirstFlags DEF Hits
    <3> HIDE DEF s
    <3>4. /\ \A g \in GoodHits : /\ info[g].maxBefore \in Int /\ info[g].minAfter \in Int
                                 /\ input.min[g] \in Int /\ input.max[g] \in Int
          /\ range[t].first \in Int /\ range[t].second \in Int
          /\ input.max[h] <= info[h].maxBefore /\ info[h].minAfter <= input.min[h]
      BY DEF Computed, InputOK, InfoOK, RangeOK, GoodHits
    <3>5. \A g \in Unused(t, s) :
            /\ g <= h => info[g].minAfter <= info[h].minAfter
            /\ h <= g => info[h].maxBefore <= info[g].maxBefore
      BY <3>3 DEF Computed, InfoOK, s
    <3>6. \A g \in late(s) : h < g
      BY <2>2, <3>1, <3>3, <3>4, <3>5
    <3>7. \A g \in before(s) : g < h
      BY <2>2, <3>1, <3>3, <3>4, <3>5
    <3>8. late(s) \in SUBSET (1 .. NHits) /\ before(s) \in SUBSET (1 .. NHits)
      BY <3>3
    <3> HIDE DEF late, before
    <3>9. h < stop(s)
      BY <3>1, <3>2, <3>6, <3>8, MinIndex
    <3>10. start(s) <= h
      BY <3>1, <3>2, <3>7, <3>8, MaxIndex
    <3> HIDE DEF stop, start
    <3>11. streamRange'[t][s].first <= h /\ h < streamRange'[t][s].stop
      <4>1. streamRange'[t][s] = [first |-> start(s), stop |-> stop(s)]
        BY <2>1, <3>2
      <4> QED BY <3>9, <3>10, <4>1
    <3> QED BY <1>2, <3>11 DEF InStreamRange, s
  <2>3. Edge(t)' = range[t].first
    BY <1>1, <1>4 DEF Edge
  <2>4. range[t].first <= first[t]
    BY <1>4 DEF Computed, RangeOK
  <2>5. t # nThreads - 1 => first[t] <= range[t].second
    <3> SUFFICES ASSUME t # nThreads - 1 PROVE range[t].first <= range[t].second
      BY <1>4
    <3>1. t + 1 \in Threads /\ t <= t + 1
      BY FirstThread DEF Threads
    <3> QED BY <3>1 DEF Computed, RangeOK
  <2> QED BY <1>1, <1>2, <2>2, <2>3, <2>4, <2>5 DEF RangeInv, Active
<1>8. WindowInv(t)'
  BY <1>1, <1>4 DEF WindowInv
<1>9. TodoInv(t)'
  <2> SUFFICES ASSUME NEW p \in Particles, NEW D \in SUBSET HitsOfParticle(p), Due(t, p, D)'
               PROVE  Open(t, p, D)'
    BY <1>2 DEF TodoInv
  <2>1. Home(t, D)
    BY DEF Due, Frame, Still
  <2> QED BY <1>1, <1>2, <1>4, <2>1 DEF Open, Home
<1>10. OwnInv(t)'
  BY <1>1, <1>2, <1>3 DEF OwnInv, SelfInv
<1> QED BY <1>5, <1>6, <1>7, <1>8, <1>9, <1>10 DEF SelfInv

-----------------------------------------------------------------------------
(* The selection of the hits of a window.                                  *)

\* A hit that is looked at is good, not used and does not end before the window.
LEMMA ScannedFacts ==
  ASSUME WindowsInv, Computed, TypeInv, NEW t \in Threads, SelfInv(t), pc[t] = "select",
         NEW h \in ScannedHits(t)
  PROVE  h \in GoodHits /\ ~used[t][h] /\ first[t] <= input.max[h]
<1>1. PICK s \in 1 .. NStreams : h \in Scanned(t, s)
  BY DEF ScannedHits
<1>2. h \in Unused(t, s) /\ input.max[h] >= first[t]
  BY <1>1 DEF Scanned
<1>3. h \in Hits /\ ~used[t][h]
  BY <1>2, StreamFacts DEF Computed, Unused
<1>4. h \in GoodHits
  BY <1>3, FirstFlags
<1>5. input.max[h] \in Int /\ first[t] \in Int
  BY <1>3 DEF Computed, InputOK, TypeInv
<1> QED BY <1>2, <1>3, <1>4, <1>5

\* A hit that is not used and still in the range of its stream is looked at, unless
\* the loop over the stream ends before it, at a hit after the window.
LEMMA ScannedOr ==
  ASSUME WindowsInv, Computed, TypeInv, NEW t \in Threads, SelfInv(t), pc[t] = "select",
         NEW h \in GoodHits, ~used[t][h], first[t] <= input.max[h], InStreamRange(t, h)
  PROVE  \/ h \in ScannedHits(t)
         \/ /\ input.min[h] > first[t] + WindowLength
            /\ \E g \in ScannedHits(t) : input.min[g] > first[t] + WindowLength
<1> DEFINE s == StreamOf(h)
           end == first[t] + WindowLength
           r == streamRange[t][s]
           seen == {g \in Unused(t, s) : r.first <= g /\ g < r.stop /\ input.max[g] >= first[t]}
           later == {g \in seen : info[g].minAfter > end}
<1>1. NHits \in Nat /\ h \in Hits /\ h \in Int
  BY CaWindowsAssumption DEF GoodHits, Hits
<1>2. /\ s \in 1 .. NStreams /\ Start(s) <= h /\ h < Stop(s)
      /\ Start(s) \in Int /\ Stop(s) \in Int
  BY <1>1, StreamFacts DEF Computed, Hits
<1>3. Scanned(t, s) = {g \in seen : \A k \in later : g <= k}
  BY DEF Scanned
<1>4. \A g \in Unused(t, s) : g \in GoodHits /\ StreamOf(g) = s /\ g \in Nat
  <2>1. \A g \in Unused(t, s) : g \in Hits /\ ~used[t][g] /\ StreamOf(g) = s
    BY <1>2, StreamFacts DEF Computed, Unused
  <2> HIDE DEF s
  <2> QED BY <1>1, <2>1, FirstFlags DEF Hits
<1>5. /\ end \in Int /\ first[t] \in Int
      /\ \A g \in GoodHits : /\ info[g].minAfter \in Int /\ info[g].minAfter <= input.min[g]
                             /\ input.min[g] \in Int /\ input.max[g] \in Int
  BY CaWindowsAssumption DEF Computed, InputOK, InfoOK, TypeInv, GoodHits
<1>6. h \in Unused(t, s)
  BY <1>1, <1>2 DEF Unused
<1>7. h \in seen
  BY <1>5, <1>6 DEF InStreamRange
<1>8. later \subseteq Unused(t, s) /\ later \subseteq seen
  OBVIOUS
<1>9. \A g \in Unused(t, s) : g <= h => info[g].minAfter <= info[h].minAfter
  BY <1>4 DEF Computed, InfoOK
<1>10. \A g \in later : info[g].minAfter > end
  OBVIOUS
<1>11. Scanned(t, s) \subseteq ScannedHits(t)
  BY <1>2 DEF ScannedHits
<1> HIDE DEF s, r, seen, later, end
<1>12. CASE \A k \in later : h <= k
  BY <1>3, <1>7, <1>11, <1>12
<1>13. CASE \E k \in later : ~(h <= k)
  <2>1. PICK k \in later : ~(h <= k)
    BY <1>13
  <2>2. k \in Nat /\ k \in GoodHits /\ k <= h
    BY <1>1, <1>4, <1>8, <2>1
  <2>3. input.min[h] > end
    BY <1>5, <1>8, <1>9, <1>10, <2>2
  <2> DEFINE g == Min(later)
  <2>4. g \in later /\ \A x \in later : g <= x
    <3>1. later \in SUBSET Nat /\ later # {}
      BY <1>4, <1>8, <2>1
    <3> HIDE DEF g
    <3> QED BY <3>1, MinIsLeast DEF g
  <2> HIDE DEF g
  <2>5. g \in Scanned(t, s)
    BY <1>3, <1>8, <2>4
  <2>6. input.min[g] > end
    BY <1>4, <1>5, <1>8, <1>10, <2>4
  <2> QED BY <1>11, <2>3, <2>5, <2>6 DEF end
<1> QED BY <1>12, <1>13

\* A hit that belongs into the window and can be seen comes into it.
LEMMA SelectHitsSelf ==
  ASSUME WindowsInv, Computed, TypeInv, NEW t \in Threads, Frame(t), SelfInv(t),
         SelectHits(t)
  PROVE  SelfInv(t)'
<1>1. /\ pc[t] = "select" /\ pc'[t] = "search"
      /\ untouched'[t] = (ScannedHits(t) # Inside(t))
      /\ window'[t] = Inside(t) \ Monster(t)
      /\ missed' = missed \cup {input.particle[h] : h \in Monster(t)}
      /\ UNCHANGED <<constants, toCopy, used, first, found, tracks, racy>>
  BY DEF SelectHits, Goto, TypeInv, WindowsInv, Shape
<1>2. /\ Hits' = Hits /\ GoodHits' = GoodHits /\ UNCHANGED <<input, info, range, nThreads>>
      /\ \A g : Bogus(g)' = Bogus(g) /\ StreamOf(g)' = StreamOf(g)
      /\ \A p : HitsOfParticle(p)' = HitsOfParticle(p) /\ Together(p)' = Together(p)
                /\ Interior(t, p)' = Interior(t, p)
  BY DEF Frame, Still, constants
<1>3. \A u : Stored(u)' = Stored(u)
  BY <1>1 DEF Stored
<1>4. found[t] = {}
  BY <1>1 DEF SelfInv, FlagInv
<1> DEFINE end == first[t] + WindowLength
<1>5. /\ end \in Int /\ first[t] \in Int
      /\ \A g \in GoodHits : input.min[g] \in Int /\ input.max[g] \in Int
  BY CaWindowsAssumption DEF Computed, InputOK, TypeInv, GoodHits
<1>6. Inside(t) = {h \in ScannedHits(t) : input.min[h] <= end}
  BY DEF Inside
<1> HIDE DEF end
<1>7. \A h \in ScannedHits(t) : h \in GoodHits /\ ~used[t][h] /\ first[t] <= input.max[h]
  BY <1>1, ScannedFacts
<1>8. \A h \in window'[t] : /\ h \in GoodHits /\ ~used[t][h]
                            /\ first[t] <= input.max[h] /\ input.min[h] <= end
  BY <1>1, <1>6, <1>7
<1>9. FlagInv(t)'
  BY <1>1, <1>2, <1>4, <1>8 DEF FlagInv, SelfInv
<1>10. CopyInv(t)'
  BY <1>1, <1>2, <1>3 DEF CopyInv, SelfInv
<1>11. RangeInv(t)'
  <2>1. ASSUME NEW h \in GoodHits, input.min[h] <= range[t].second, end <= input.max[h]
        PROVE  InStreamRange(t, h)'
    <3> DEFINE s == StreamOf(h)
    <3>1. NHits \in Nat /\ h \in Hits /\ h \in Int
      BY CaWindowsAssumption DEF GoodHits, Hits
    <3>2. s \in 1 .. NStreams
      BY <3>1, StreamFacts DEF Computed
    <3>3. streamRange[t][s].first \in Int /\ streamRange[t][s].stop \in Int
      BY <3>2 DEF TypeInv
    <3>4. streamRange[t][s].first <= h /\ h < streamRange[t][s].stop
      <4>1. WindowLength \in Nat
        BY CaWindowsAssumption
      <4>2. Edge(t) <= input.max[h]
        BY <1>1, <1>5, <2>1, <4>1 DEF Edge, end
      <4>3. InStreamRange(t, h)
        BY <1>1, <2>1, <4>2 DEF SelfInv, RangeInv, Active
      <4> QED BY <4>3 DEF InStreamRange
    <3>5. LeftBehind(t, s) \in SUBSET (1 .. NHits)
      BY <1>6, <1>7 DEF LeftBehind, GoodHits, Hits
    <3>6. \A g \in LeftBehind(t, s) : g < h
      <4> SUFFICES ASSUME NEW g \in LeftBehind(t, s) PROVE g < h
        OBVIOUS
      <4>1. g \in GoodHits /\ StreamOf(g) = StreamOf(h) /\ info[g].maxBefore < end
        BY <1>6, <1>7 DEF LeftBehind, LeaveBehind, end
      <4>2. /\ info[g].maxBefore \in Int /\ info[h].maxBefore \in Int
            /\ input.max[h] <= info[h].maxBefore
            /\ h <= g => info[h].maxBefore <= info[g].maxBefore
        BY <4>1 DEF Computed, InfoOK
      <4>3. g \in Int
        BY <3>5
      <4> QED BY <1>5, <2>1, <3>1, <4>1, <4>2, <4>3
    <3>7. MaxOr({g + 1 : g \in LeftBehind(t, s)}, streamRange[t][s].first) <= h
      BY <3>1, <3>3, <3>4, <3>5, <3>6, MaxIndex
    <3>8. streamRange'[t][s] =
            [first |-> MaxOr({g + 1 : g \in LeftBehind(t, s)}, streamRange[t][s].first),
             stop |-> streamRange[t][s].stop]
      BY <3>2 DEF SelectHits, TypeInv
    <3>9. streamRange'[t][s].first <= h /\ h < streamRange'[t][s].stop
      BY <3>4, <3>7, <3>8
    <3> QED BY <1>2, <3>9 DEF InStreamRange
  <2>2. Edge(t)' = end
    BY <1>1 DEF Edge, end
  <2> QED BY <1>1, <1>2, <2>1, <2>2 DEF RangeInv, SelfInv, Active
<1>12. WindowInv(t)'
  <2>1. ASSUME untouched'[t] PROVE \E g \in GoodHits : input.min[g] > end
    <3>1. PICK g \in ScannedHits(t) : g \notin Inside(t)
      BY <1>1, <1>6, <2>1
    <3> QED BY <1>5, <1>6, <1>7, <3>1
  <2> QED BY <1>1, <1>2, <1>8, <2>1 DEF WindowInv, end
<1>13. TodoInv(t)'
  <2> SUFFICES ASSUME NEW p \in Particles, NEW D \in SUBSET HitsOfParticle(p), Due(t, p, D)'
               PROVE  Open(t, p, D)'
    BY <1>2 DEF TodoInv
  <2>1. Due(t, p, D)
    BY DueBefore
  <2>2. p \notin missed' /\ Together(p) /\ Home(t, D)
    BY <2>1 DEF Due
  <2>3. \A h \in D : first[t] <= input.max[h]
    BY <1>1, <2>1 DEF SelfInv, TodoInv, Open, Active
  <2>4. ASSUME NEW h \in D
        PROVE  \/ h \in ScannedHits(t)
               \/ input.min[h] > end /\ \E g \in ScannedHits(t) : input.min[g] > end
    <3>1. h \in GoodHits
      BY DEF HitsOfParticle
    <3>2. ~used[t][h]
      <4>1. h \notin Stored(0) \cup Stored(t) /\ (t # 0 => h \notin racy)
        BY <2>1 DEF Due
      <4> QED BY <1>1, <1>4, <3>1, <4>1, FirstFlags
    <3>3. input.min[h] <= range[t].second
      <4>1. CASE t = nThreads - 1
        BY <3>1, <4>1 DEF Computed, RangeOK
      <4>2. CASE t # nThreads - 1
        <5>1. PICK g \in D : input.max[g] < range[t].second
          BY <2>2, <4>2 DEF Home
        <5>2. input.min[h] <= input.max[g] /\ g \in GoodHits
          BY <2>2 DEF Together, HitsOfParticle
        <5>3. range[t].second \in Int
          BY DEF Computed, RangeOK
        <5> QED BY <1>5, <3>1, <5>1, <5>2, <5>3
      <4> QED BY <4>1, <4>2
    <3>4. InStreamRange(t, h)
      BY <1>1, <2>3, <3>1, <3>3 DEF SelfInv, RangeInv, Edge, Active
    <3> QED BY <1>1, <2>3, <3>1, <3>2, <3>4, ScannedOr DEF end
  <2>5. \A h \in D : h \in GoodHits /\ input.particle[h] = p
    BY DEF HitsOfParticle
  <2>6. ASSUME NEW h \in D, input.min[h] <= end PROVE h \in window'[t]
    <3>1. h \in Inside(t)
      BY <1>5, <1>6, <2>4, <2>5, <2>6
    <3>2. h \notin Monster(t)
      BY <1>1, <2>2, <2>5
    <3> QED BY <1>1, <3>1, <3>2
  <2>7. ASSUME NEW h \in D, input.min[h] > end PROVE untouched'[t]
    <3>1. PICK g \in ScannedHits(t) : input.min[g] > end
      BY <2>4, <2>7
    <3>2. g \notin Inside(t)
      BY <1>5, <1>6, <1>7, <3>1
    <3> QED BY <1>1, <3>1, <3>2
  <2> QED BY <1>1, <1>2, <2>3, <2>6, <2>7 DEF Open, end
<1>14. OwnInv(t)'
  <2>1. missed \subseteq missed'
    BY <1>1
  <2> QED BY <1>1, <1>2, <1>3, <2>1 DEF OwnInv, SelfInv
<1> QED BY <1>9, <1>10, <1>11, <1>12, <1>13, <1>14 DEF SelfInv

-----------------------------------------------------------------------------
(* The search in a window, and the tracks kept of it.                      *)

WindowHits(t, p) == {h \in window[t] : input.particle[h] = p}

\* What is found is all hits of a particle in the window, and a particle with
\* enough hits there is found unless it is missed.
LEMMA SliceSelf ==
  ASSUME WindowsInv, Computed, TypeInv, NEW t \in Threads, Frame(t), SelfInv(t),
         CaTrackFinderSlice(t)
  PROVE  SelfInv(t)'
<1> DEFINE seen == {p \in Particles : Cardinality(WindowHits(t, p)) >= MinHits}
<1>1. PICK ps \in SUBSET seen :
        /\ found' = [found EXCEPT ![t] = {WindowHits(t, p) : p \in ps}]
        /\ missed' = missed \cup (seen \ ps)
  BY DEF CaTrackFinderSlice, WindowHits
<1>2. /\ pc[t] = "search" /\ pc'[t] = "store"
      /\ found'[t] = {WindowHits(t, p) : p \in ps}
      /\ \A h \in Hits : used'[t][h] = (used[t][h] \/ h \in UNION found'[t])
      /\ UNCHANGED <<constants, toCopy, streamRange, first, window, untouched, tracks, racy>>
  BY <1>1 DEF CaTrackFinderSlice, Goto, TypeInv, WindowsInv, Shape
<1>3. /\ Hits' = Hits /\ GoodHits' = GoodHits /\ UNCHANGED <<input, info, range, nThreads>>
      /\ \A g : Bogus(g)' = Bogus(g) /\ StreamOf(g)' = StreamOf(g)
      /\ \A p : HitsOfParticle(p)' = HitsOfParticle(p) /\ Together(p)' = Together(p)
                /\ Interior(t, p)' = Interior(t, p)
  BY DEF Frame, Still, constants
<1>4. \A u : Stored(u)' = Stored(u)
  BY <1>2 DEF Stored
<1>5. found[t] = {} /\ window[t] \subseteq GoodHits /\ \A h \in window[t] : ~used[t][h]
  BY <1>2 DEF SelfInv, FlagInv
<1>6. FlagInv(t)'
  <2>1. UNION found'[t] \subseteq window[t]
    BY <1>2 DEF WindowHits
  <2>2. \A track \in found'[t] : \E p \in Particles : track = {h \in window[t] : input.particle[h] = p}
    <3>1. \A track \in found'[t] : \E p \in Particles : track = WindowHits(t, p)
      BY <1>2
    <3> QED BY <3>1 DEF WindowHits
  <2>3. \A h \in Hits \ toCopy[t] : Bogus(h) => used'[t][h]
    BY <1>2 DEF SelfInv, FlagInv
  <2>4. t = 0 => pc[t] # "copy"
    BY DEF SelfInv, FlagInv
  <2>5. toCopy[t] = {}
    BY <1>2 DEF SelfInv, FlagInv
  <2> QED BY <1>2, <1>3, <1>5, <2>1, <2>2, <2>3, <2>4, <2>5 DEF FlagInv
<1>7. CopyInv(t)'
  <2> SUFFICES ASSUME NEW h \in GoodHits \ toCopy[t], used'[t][h]
               PROVE  \/ h \in Stored(0) \cup Stored(t) \cup UNION found'[t]
                      \/ t # 0 /\ h \in racy
    BY <1>2, <1>3, <1>4 DEF CopyInv
  <2>1. h \in Hits /\ (used[t][h] \/ h \in UNION found'[t])
    BY <1>2 DEF GoodHits
  <2> QED BY <1>5, <2>1 DEF CopyInv, SelfInv
<1>8. RangeInv(t)'
  <2>1. Edge(t)' = Edge(t) /\ \A h : InStreamRange(t, h)' = InStreamRange(t, h)
    BY <1>2, <1>3 DEF Edge, InStreamRange
  <2> QED BY <1>2, <1>3, <2>1 DEF RangeInv, SelfInv, Active
<1>9. WindowInv(t)'
  BY <1>2, <1>3 DEF WindowInv, SelfInv
<1>10. TodoInv(t)'
  <2> SUFFICES ASSUME NEW p \in Particles, NEW D \in SUBSET HitsOfParticle(p), Due(t, p, D)'
               PROVE  Open(t, p, D)'
    BY <1>3 DEF TodoInv
  <2>1. Due(t, p, D) /\ p \notin missed'
    BY DueBefore DEF Due
  <2>2. /\ \A h \in D : first[t] <= input.max[h]
        /\ \A h \in D : input.min[h] <= first[t] + WindowLength => h \in window[t]
        /\ (\E h \in D : input.min[h] > first[t] + WindowLength) => untouched[t]
    BY <1>2, <2>1 DEF SelfInv, TodoInv, Open, Active
  <2>3. Cardinality(WindowHits(t, p)) >= MinHits => WindowHits(t, p) \in found'[t]
    BY <1>1, <1>2, <2>1
  <2> QED BY <1>2, <1>3, <2>2, <2>3 DEF Open, WindowHits
<1>11. OwnInv(t)'
  <2>1. missed \subseteq missed'
    BY DEF Frame
  <2> QED BY <1>2, <1>3, <1>4, <2>1 DEF OwnInv, SelfInv
<1> QED BY <1>6, <1>7, <1>8, <1>9, <1>10, <1>11 DEF SelfInv

\* Hits that are due and one of which ends before the next window are found in
\* this one.
LEMMA DueIsFound ==
  ASSUME WindowsInv, Computed, TypeInv, NEW t \in Threads, SelfInv(t), pc[t] = "store",
         NEW p \in Particles, NEW D \in SUBSET HitsOfParticle(p), Due(t, p, D),
         \A h \in D : input.min[h] <= NextWindow(t)
  PROVE  D \subseteq WindowHits(t, p) /\ WindowHits(t, p) \in found[t]
<1>1. Open(t, p, D) /\ Cardinality(D) >= MinHits
  BY DEF SelfInv, TodoInv, Due
<1>2. D \subseteq WindowHits(t, p)
  BY <1>1 DEF Open, NextWindow, WindowHits, HitsOfParticle
<1>3. NHits \in Nat /\ MinHits \in Nat
  BY CaWindowsAssumption
<1>4. IsFiniteSet(Hits) /\ WindowHits(t, p) \in SUBSET Hits
  BY <1>3, FS_Interval DEF Hits, WindowHits, WindowsInv, ThreadInv
<1>5. IsFiniteSet(WindowHits(t, p))
  BY <1>4, FS_Subset
<1>6. Cardinality(D) <= Cardinality(WindowHits(t, p))
  BY <1>2, <1>5, FS_Subset
<1>7. Cardinality(WindowHits(t, p)) >= MinHits
  <2>1. Cardinality(D) \in Nat /\ Cardinality(WindowHits(t, p)) \in Nat
    BY <1>2, <1>5, FS_Subset, FS_CardinalityType
  <2> QED BY <1>1, <1>3, <1>6, <2>1
<1>8. WindowHits(t, p) \in found[t]
  BY <1>1, <1>7 DEF Open, WindowHits
<1> QED BY <1>2, <1>8

\* Hits inside a range are those of its thread to find.
LEMMA InteriorDue ==
  ASSUME Computed, NEW t \in Threads, ApartInv(t), NEW p \in Particles, Interior(t, p),
         p \notin missed, Together(p), Cardinality(HitsOfParticle(p)) >= MinHits,
         Stored(t) \cap HitsOfParticle(p) = {}
  PROVE  Due(t, p, HitsOfParticle(p))
<1> DEFINE P == HitsOfParticle(p)
<1>1. P # {} /\ P \subseteq GoodHits
  <2>1. Cardinality({}) = 0 /\ MinHits \in Nat \ {0}
    BY FS_EmptySet, CaWindowsAssumption
  <2> QED BY <2>1 DEF HitsOfParticle
<1>2. /\ range[t].first \in Int /\ WindowLength \in Nat
      /\ \A h \in GoodHits : /\ input.min[h] \in Int /\ input.max[h] \in Int
                             /\ input.min[h] <= input.max[h]
  BY CaWindowsAssumption DEF Computed, InputOK, RangeOK, GoodHits
<1>3. Home(t, P)
  <2>1. ASSUME NEW h \in P PROVE range[t].first <= input.max[h]
    <3>1. h \in GoodHits
      BY <1>1
    <3>2. CASE t = 0
      BY <3>1, <3>2 DEF Computed, RangeOK
    <3>3. CASE t # 0
      <4>1. input.min[h] > range[t].first + WindowLength
        BY <3>3 DEF Interior
      <4> QED BY <1>2, <3>1, <4>1
    <3> QED BY <3>2, <3>3
  <2>2. ASSUME t # nThreads - 1 PROVE \E h \in P : input.max[h] < range[t].second
    BY <1>1, <2>2 DEF Interior
  <2> QED BY <2>1, <2>2 DEF Home
<1>4. P \cap (Stored(0) \cup Stored(t)) = {} /\ (t # 0 => P \cap racy = {})
  <2>1. CASE t = 0
    BY <2>1
  <2>2. CASE t # 0
    BY <2>2, FirstThread DEF ApartInv
  <2> QED BY <2>1, <2>2
<1> QED BY <1>3, <1>4 DEF Due

\* The tracks that are kept stay used, the others are seen again by the next window,
\* or all their hits have been left to it.
LEMMA StoreSelf ==
  ASSUME WindowsInv, Computed, TypeInv, NEW t \in Threads, Frame(t), SelfInv(t),
         ApartInv(t), StoreTracks(t)
  PROVE  SelfInv(t)'
<1> DEFINE next == NextWindow(t)
           kept == {track \in found[t] : Kept(t, track, next)}
<1>1. /\ pc[t] = "store"
      /\ pc'[t] = IF next > range[t].second \/ ~untouched[t] THEN "done" ELSE "select"
      /\ first'[t] = next /\ found'[t] = {} /\ window'[t] = {}
      /\ used'[t] = FlagsAfter(t, kept)
      /\ UNCHANGED <<constants, toCopy, streamRange, untouched, missed, racy>>
  BY DEF StoreTracks, Goto, TypeInv, WindowsInv, Shape
<1>2. Range(tracks'[t]) = Range(tracks[t]) \cup kept /\ Stored(t)' = Stored(t) \cup UNION kept
  BY KeptAreStored DEF WindowsInv
<1>3. /\ Hits' = Hits /\ GoodHits' = GoodHits /\ UNCHANGED <<input, info, range, nThreads>>
      /\ \A g : Bogus(g)' = Bogus(g) /\ StreamOf(g)' = StreamOf(g)
      /\ \A p : HitsOfParticle(p)' = HitsOfParticle(p) /\ Together(p)' = Together(p)
                /\ Interior(t, p)' = Interior(t, p)
  BY DEF Frame, Still, constants
<1>4. /\ next \in Int /\ first[t] \in Int /\ next = first[t] + WindowLength
      /\ WindowLength \in Nat /\ range[t].first \in Int /\ range[t].second \in Int
      /\ \A g \in GoodHits : input.min[g] \in Int /\ input.max[g] \in Int
  BY CaWindowsAssumption DEF Computed, InputOK, RangeOK, TypeInv, GoodHits, NextWindow
<1>5. Stored(0) \subseteq Stored(0)'
  BY FirstThread, StoredGrows
<1>6. /\ UNION found[t] \subseteq window[t] /\ window[t] \subseteq GoodHits
      /\ toCopy[t] = {} /\ GoodHits \subseteq Hits
      /\ \A track \in found[t] : \E p \in Particles : track = WindowHits(t, p)
  BY <1>1 DEF SelfInv, FlagInv, GoodHits, WindowHits
<1>7. \A track \in found[t] :
        track \in kept <=> ~untouched[t] \/ \E h \in track : input.max[h] < next
  BY DEF Kept
<1>8. kept \subseteq found[t]
  OBVIOUS
<1> HIDE DEF next, kept
<1>9. \A h \in Hits : used'[t][h] = IF h \in UNION found[t] THEN h \in UNION kept ELSE used[t][h]
  BY <1>1 DEF FlagsAfter
<1>10. FlagInv(t)'
  <2>1. \A h \in Hits \ toCopy[t] : Bogus(h) => used'[t][h]
    <3>1. \A h \in Hits : Bogus(h) => h \notin UNION found[t]
      BY <1>6 DEF GoodHits
    <3>2. \A h \in Hits \ toCopy[t] : Bogus(h) => used[t][h]
      BY DEF SelfInv, FlagInv
    <3> QED BY <1>9, <3>1, <3>2
  <2> QED BY <1>1, <1>3, <1>6, <2>1 DEF FlagInv
<1>11. CopyInv(t)'
  <2> SUFFICES ASSUME NEW h \in GoodHits, used'[t][h]
               PROVE  h \in Stored(0)' \/ h \in Stored(t)' \/ (t # 0 /\ h \in racy)
    BY <1>1, <1>3 DEF CopyInv
  <2>1. CASE h \in UNION found[t]
    BY <1>2, <1>6, <1>9, <2>1
  <2>2. CASE h \notin UNION found[t]
    <3>1. used[t][h]
      BY <1>6, <1>9, <2>2
    <3> QED BY <1>2, <1>5, <1>6, <2>2, <3>1 DEF SelfInv, CopyInv
  <2> QED BY <2>1, <2>2
<1>12. RangeInv(t)'
  <2>1. CASE pc'[t] = "done"
    BY <2>1 DEF RangeInv, Active
  <2>2. CASE pc'[t] = "select"
    <3>1. ~(next > range[t].second)
      BY <1>1, <2>2
    <3>2. range[t].first <= next /\ next <= range[t].second
      BY <1>1, <1>4, <3>1 DEF SelfInv, RangeInv, Active
    <3>3. Edge(t)' = next /\ Edge(t) = next
      BY <1>1, <1>4, <2>2 DEF Edge
    <3>4. \A h : InStreamRange(t, h)' = InStreamRange(t, h)
      BY <1>1, <1>3 DEF InStreamRange
    <3>5. \A h \in GoodHits :
            input.min[h] <= range[t].second /\ next <= input.max[h] => InStreamRange(t, h)
      BY <1>1, <3>3 DEF SelfInv, RangeInv, Active
    <3> QED BY <1>1, <1>3, <2>2, <3>2, <3>3, <3>4, <3>5 DEF RangeInv, Active
  <2> QED BY <1>1, <2>1, <2>2
<1>13. WindowInv(t)'
  BY <1>1 DEF WindowInv
<1>14. TodoInv(t)'
  <2> SUFFICES ASSUME NEW p \in Particles, NEW D \in SUBSET HitsOfParticle(p), Due(t, p, D)'
               PROVE  Open(t, p, D)'
    BY <1>3 DEF TodoInv
  <2>1. Due(t, p, D)
    BY DueBefore
  <2>2. Together(p) /\ Home(t, D) /\ Cardinality(D) >= MinHits
    BY <2>1 DEF Due
  <2>3. D \cap Stored(t)' = {}
    BY DEF Due
  <2>4. D # {}
    <3>1. Cardinality({}) = 0 /\ MinHits \in Nat \ {0}
      BY FS_EmptySet, CaWindowsAssumption
    <3> QED BY <2>2, <3>1
  <2>5. Open(t, p, D)
    BY <2>1 DEF SelfInv, TodoInv
  <2>6. D \subseteq HitsOfParticle(p) /\ HitsOfParticle(p) \subseteq GoodHits
    BY DEF HitsOfParticle
  <2>7. ASSUME \A h \in D : input.min[h] <= next
        PROVE  untouched[t] /\ \A h \in D : next <= input.max[h]
    <3>1. D \subseteq WindowHits(t, p) /\ WindowHits(t, p) \in found[t]
      BY <1>1, <2>1, <2>7, DueIsFound DEF next
    <3>2. WindowHits(t, p) \notin kept
      BY <1>2, <2>3, <2>4, <3>1
    <3>3. untouched[t] /\ \A h \in WindowHits(t, p) : ~(input.max[h] < next)
      BY <1>7, <3>1, <3>2 DEF TypeInv
    <3> QED BY <1>4, <2>6, <3>1, <3>3
  <2>8. \A h \in D : next <= input.max[h]
    <3> SUFFICES ASSUME NEW h \in D, ~(next <= input.max[h]) PROVE FALSE
      OBVIOUS
    <3>1. \A g \in D : input.min[g] <= input.max[h]
      BY <2>2, <2>6 DEF Together
    <3>2. \A g \in D : input.min[g] <= next
      BY <1>4, <2>6, <3>1
    <3> QED BY <2>7, <3>2
  <2>9. untouched[t] /\ (t = nThreads - 1 => \E g \in GoodHits : input.min[g] > next)
    <3>1. CASE \A h \in D : input.min[h] <= next
      <4>1. untouched[t]
        BY <2>7, <3>1
      <4>2. \E g \in GoodHits : input.min[g] > next
        BY <1>1, <1>4, <4>1 DEF SelfInv, WindowInv
      <4> QED BY <4>1, <4>2
    <3>2. CASE \E h \in D : ~(input.min[h] <= next)
      <4>1. PICK h \in D : ~(input.min[h] <= next)
        BY <3>2
      <4>2. input.min[h] > next /\ h \in GoodHits
        BY <1>4, <2>6, <4>1
      <4>3. untouched[t]
        BY <1>1, <1>4, <2>5, <4>2 DEF Open
      <4> QED BY <4>2, <4>3
    <3> QED BY <3>1, <3>2
  <2>10. ~(next > range[t].second)
    <3>1. CASE t = nThreads - 1
      <4>1. PICK g \in GoodHits : input.min[g] > next
        BY <2>9, <3>1
      <4>2. input.min[g] <= range[t].second
        BY <3>1 DEF Computed, RangeOK
      <4> QED BY <1>4, <4>1, <4>2
    <3>2. CASE t # nThreads - 1
      <4>1. PICK g \in D : input.max[g] < range[t].second
        BY <2>2, <3>2 DEF Home
      <4> QED BY <1>4, <2>6, <2>8, <4>1
    <3> QED BY <3>1, <3>2
  <2>11. pc'[t] = "select"
    BY <1>1, <2>9, <2>10
  <2> QED BY <1>1, <1>3, <2>8, <2>11 DEF Open, Active
<1>15. OwnInv(t)'
  <2> SUFFICES ASSUME NEW p \in Particles, Interior(t, p), p \notin missed, Together(p),
                      Cardinality(HitsOfParticle(p)) >= MinHits,
                      Stored(t)' \cap HitsOfParticle(p) # {}
               PROVE  HitsOfParticle(p) \in Range(tracks'[t])
    BY <1>1, <1>3 DEF OwnInv
  <2> DEFINE P == HitsOfParticle(p)
  <2>1. CASE Stored(t) \cap P # {}
    BY <1>2, <2>1 DEF SelfInv, OwnInv
  <2>2. CASE Stored(t) \cap P = {}
    <3>1. PICK track \in kept : track \cap P # {}
      BY <1>2, <2>2
    <3>2. PICK q \in Particles : track = WindowHits(t, q)
      BY <1>6, <1>8, <3>1
    <3>3. q = p
      BY <3>1, <3>2 DEF WindowHits, HitsOfParticle
    <3>4. WindowHits(t, p) \subseteq P
      BY <1>6 DEF WindowHits, HitsOfParticle
    <3>5. ~untouched[t] \/ \E h \in track : input.max[h] < next
      BY <1>7, <1>8, <3>1
    <3>6. Due(t, p, P)
      BY <2>2, InteriorDue
    <3>7. \A h \in P : input.min[h] <= next
      <4>1. CASE ~untouched[t]
        <5>1. Open(t, p, P)
          BY <3>6 DEF SelfInv, TodoInv
        <5>2. \A h \in P : ~(input.min[h] > next)
          BY <1>1, <1>4, <4>1, <5>1 DEF Open
        <5>3. P \subseteq GoodHits
          BY DEF HitsOfParticle
        <5> HIDE DEF P
        <5> QED BY <1>4, <5>2, <5>3
      <4>2. CASE \E h \in track : input.max[h] < next
        <5>1. PICK h \in track : input.max[h] < next
          BY <4>2
        <5>2. h \in P /\ P \subseteq GoodHits /\ \A g \in P : input.min[g] <= input.max[h]
          BY <3>2, <3>3, <3>4, <5>1 DEF Together, HitsOfParticle
        <5> HIDE DEF P
        <5> QED BY <1>4, <5>1, <5>2
      <4> QED BY <3>5, <4>1, <4>2
    <3>8. P \subseteq WindowHits(t, p)
      BY <1>1, <3>6, <3>7, DueIsFound DEF next
    <3>9. P = track
      BY <3>2, <3>3, <3>4, <3>8
    <3> QED BY <1>2, <3>1, <3>9
  <2> QED BY <2>1, <2>2
<1> QED BY <1>10, <1>11, <1>12, <1>13, <1>14, <1>15 DEF SelfInv

-----------------------------------------------------------------------------
(* The threads together.                                                   *)

\* What a thread stores or copies it has seen, or another thread has.
LEMMA ApartKeeps ==
  ASSUME WindowsInv, Computed, TypeInv, ThreadsInv, NEW t \in Threads, FindTracksThread(t),
         Frame(t), NEW v \in Threads
  PROVE  ApartInv(v)'
<1>1. SightApart
  BY WindowsApart DEF ThreadsInv, SelfInv
<1>2. /\ Threads' = Threads /\ Particles' = Particles
      /\ \A p : HitsOfParticle(p)' = HitsOfParticle(p) /\ Interior(v, p)' = Interior(v, p)
  BY DEF Frame, Still
<1> SUFFICES ASSUME NEW p \in Particles, Interior(v, p)
             PROVE  /\ \A u \in Threads \ {v} : Stored(u)' \cap HitsOfParticle(p) = {}
                    /\ v # 0 => racy' \cap HitsOfParticle(p) = {}
  BY <1>2 DEF ApartInv
<1>3. /\ \A u \in Threads \ {v} : /\ Stored(u) \cap HitsOfParticle(p) = {}
                                  /\ window[u] \cap HitsOfParticle(p) = {}
      /\ v # 0 => racy \cap HitsOfParticle(p) = {}
  BY <1>1 DEF ThreadsInv, ApartInv, SightApart
<1>4. Stored(t)' \subseteq Stored(t) \cup window[t]
  <2>1. CASE StoreTracks(t)
    <3>1. UNION found[t] \subseteq window[t]
      BY DEF ThreadsInv, SelfInv, FlagInv
    <3>2. Stored(t)' = Stored(t) \cup UNION {track \in found[t] : Kept(t, track, NextWindow(t))}
      BY <2>1, KeptAreStored DEF WindowsInv
    <3> QED BY <3>1, <3>2
  <2>2. CASE tracks' = tracks
    BY <2>2 DEF Stored
  <2> QED BY <2>1, <2>2 DEF FindTracksThread, CopyFlag, SetStreamRange, SelectHits,
                            CaTrackFinderSlice
<1>5. ASSUME NEW u \in Threads \ {v} PROVE Stored(u)' \cap HitsOfParticle(p) = {}
  <2>1. CASE u = t
    BY <1>3, <1>4, <2>1
  <2>2. CASE u # t
    BY <1>3, <2>2 DEF Frame
  <2> QED BY <2>1, <2>2
<1>6. racy' \subseteq racy \cup window[0]
  <2>1. CASE CopyFlag(t)
    <3>1. PICK h \in toCopy[t] :
            racy' = IF used[0][h] /\ h \in GoodHits \ Stored(0) THEN racy \cup {h} ELSE racy
      BY <2>1 DEF CopyFlag
    <3>2. SelfInv(0)
      BY FirstThread DEF ThreadsInv
    <3>3. pc[0] # "copy" /\ UNION found[0] \subseteq window[0]
      BY <3>2 DEF SelfInv, FlagInv
    <3>4. ASSUME used[0][h], h \in GoodHits \ Stored(0) PROVE h \in window[0]
      BY <3>2, <3>3, <3>4, FirstFlags
    <3> QED BY <3>1, <3>4
  <2>2. CASE racy' = racy
    BY <2>2
  <2> QED BY <2>1, <2>2 DEF FindTracksThread, SetStreamRange, SelectHits, CaTrackFinderSlice,
                            StoreTracks
<1>7. ASSUME v # 0 PROVE racy' \cap HitsOfParticle(p) = {}
  <2>1. 0 \in Threads \ {v}
    BY <1>7, FirstThread
  <2> QED BY <1>3, <1>6, <1>7, <2>1
<1> QED BY <1>5, <1>7

LEMMA ThreadsKeep ==
  ASSUME WindowsInv, Computed, TypeInv, ThreadsInv, NEW t \in Threads, FindTracksThread(t),
         Frame(t)
  PROVE  ThreadsInv'
<1>1. Threads' = Threads
  BY DEF Frame, Still
<1>2. SelfInv(t) /\ ApartInv(t) /\ SelfInv(0)
  BY FirstThread DEF ThreadsInv
<1>3. SelfInv(t)'
  BY <1>2, CopyFlagSelf, SetStreamRangeSelf, SelectHitsSelf, SliceSelf, StoreSelf
     DEF FindTracksThread
<1>4. \A u \in Threads \ {t} : SelfInv(u)'
  BY OtherKeeps DEF ThreadsInv
<1>5. \A v \in Threads : ApartInv(v)'
  BY ApartKeeps
<1> QED BY <1>1, <1>3, <1>4, <1>5 DEF ThreadsInv

LEMMA NextSeenInv == SeenInv /\ [Next]_vars => SeenInv'
<1> SUFFICES ASSUME SeenInv, [Next]_vars PROVE SeenInv'
  OBVIOUS
<1>1. WindowsInv /\ Computed /\ TypeInv /\ ThreadsInv /\ JoinInv
  BY DEF SeenInv
<1>2. WindowsInv'
  BY <1>1, NextWindowsInv
<1>3. ASSUME Still PROVE Computed'
  <2>1. /\ UNCHANGED <<input, info, range, nThreads>> /\ Hits' = Hits /\ GoodHits' = GoodHits
        /\ Threads' = Threads /\ \A h : StreamOf(h)' = StreamOf(h)
    BY <1>3 DEF Still, constants
  <2>2. InputOK' /\ RangeOK'
    BY <1>1, <2>1 DEF Computed, InputOK, RangeOK
  <2>3. InfoOK'
    BY <1>1, <2>1 DEF Computed, InfoOK
  <2> QED BY <2>2, <2>3 DEF Computed
<1>4. ASSUME NEW t \in Threads, FindTracksThread(t) PROVE SeenInv'
  <2>1. Frame(t)
    BY <1>1, <1>4, StepFrame
  <2>2. Still /\ UNCHANGED <<joined, recoTracks>>
    BY <2>1 DEF Frame
  <2>3. Computed' /\ TypeInv' /\ ThreadsInv'
    BY <1>1, <1>3, <1>4, <2>1, <2>2, ThreadsType, ThreadsKeep
  <2>4. pc[t] # "done"
    BY <1>4 DEF FindTracksThread, CopyFlag, SetStreamRange, SelectHits, CaTrackFinderSlice,
                StoreTracks
  <2>5. ~joined'
    BY <1>1, <2>2, <2>4 DEF JoinInv
  <2>6. JoinInv'
    BY <2>5 DEF JoinInv
  <2> QED BY <1>2, <2>3, <2>6 DEF SeenInv
<1>5. ASSUME UNCHANGED <<constants, pc, threadVars, missed, racy>>
      PROVE  Computed' /\ TypeInv' /\ ThreadsInv'
  <2>1. Still
    BY <1>5, ConstantsStill
  <2>2. TypeInv'
    BY <1>1, <1>5, <2>1 DEF TypeInv, Still, threadVars
  <2>3. \A u : Stored(u)' = Stored(u)
    BY <1>5 DEF Stored, threadVars
  <2>4. /\ Threads' = Threads /\ Hits' = Hits /\ GoodHits' = GoodHits
        /\ UNCHANGED <<input, info, range, nThreads>>
        /\ \A h : StreamOf(h)' = StreamOf(h) /\ Bogus(h)' = Bogus(h)
        /\ \A p : HitsOfParticle(p)' = HitsOfParticle(p) /\ Together(p)' = Together(p)
                  /\ \A u : Interior(u, p)' = Interior(u, p)
        /\ \A u, D : Home(u, D)' = Home(u, D)
    BY <2>1 DEF Still, constants
  <2>5. UNCHANGED <<pc, toCopy, used, streamRange, first, window, untouched, found, tracks,
                    missed, racy>>
    BY <1>5 DEF threadVars
  <2>6. ASSUME NEW u \in Threads PROVE SelfInv(u)' /\ ApartInv(u)'
    <3>1. SelfInv(u) /\ ApartInv(u)
      BY <1>1 DEF ThreadsInv
    <3>2. FlagInv(u)' /\ CopyInv(u)'
      BY <2>3, <2>4, <2>5, <3>1 DEF SelfInv, FlagInv, CopyInv
    <3>3. RangeInv(u)' /\ WindowInv(u)'
      <4>1. Edge(u)' = Edge(u) /\ \A h : InStreamRange(u, h)' = InStreamRange(u, h)
        BY <2>4, <2>5 DEF Edge, InStreamRange
      <4> QED BY <2>4, <2>5, <3>1, <4>1 DEF SelfInv, RangeInv, WindowInv
    <3>4. TodoInv(u)'
      <4>1. \A p, D : Due(u, p, D)' = Due(u, p, D)
        BY <2>3, <2>4, <2>5 DEF Due
      <4>2. \A p, D : Open(u, p, D)' = Open(u, p, D)
        BY <2>4, <2>5 DEF Open
      <4> QED BY <2>4, <3>1, <4>1, <4>2 DEF SelfInv, TodoInv
    <3>5. OwnInv(u)' /\ ApartInv(u)'
      BY <2>3, <2>4, <2>5, <3>1 DEF SelfInv, OwnInv, ApartInv
    <3> QED BY <3>2, <3>3, <3>4, <3>5 DEF SelfInv
  <2> QED BY <1>3, <2>1, <2>2, <2>4, <2>6 DEF ThreadsInv
<1>6. CASE Join
  <2>1. /\ \A t \in Threads : pc[t] = "done"
        /\ recoTracks' = FlattenSeq([i \in 1 .. nThreads |-> tracks[i - 1]])
        /\ UNCHANGED <<constants, pc, threadVars, missed, racy>>
    BY <1>6 DEF Join
  <2>2. UNCHANGED <<nThreads, pc, tracks>>
    BY <2>1 DEF constants, threadVars
  <2>3. JoinInv'
    BY <2>1, <2>2 DEF JoinInv, Threads
  <2> QED BY <1>2, <1>5, <2>1, <2>3 DEF SeenInv
<1>7. CASE UNCHANGED vars
  <2>1. UNCHANGED <<constants, pc, threadVars, missed, racy, joined, recoTracks>>
    BY <1>7 DEF vars, constants
  <2>2. UNCHANGED <<nThreads, pc, tracks>>
    BY <2>1 DEF constants, threadVars
  <2>3. JoinInv'
    BY <1>1, <2>1, <2>2 DEF JoinInv, Threads
  <2> QED BY <1>2, <1>5, <2>1, <2>3 DEF SeenInv
<1> QED BY <1>4, <1>6, <1>7 DEF Next, FindTracksThread

-----------------------------------------------------------------------------
(* The tracks of the threads put together.                                 *)

\* F has the elements of the first k sequences, each at a place of its own: place j
\* is for element ix[j] of sequence sx[j].
Listed(F, seqs, k, sx, ix) ==
  /\ F \in Seq(UNION {Range(seqs[i]) : i \in 1 .. k})
  /\ \A j \in DOMAIN F : /\ sx[j] \in 1 .. k /\ ix[j] \in DOMAIN seqs[sx[j]]
                         /\ F[j] = seqs[sx[j]][ix[j]]
  /\ \A i, j \in DOMAIN F : i # j => sx[i] # sx[j] \/ ix[i] # ix[j]
  /\ \A i \in 1 .. k : \A m \in DOMAIN seqs[i] : \E j \in DOMAIN F : sx[j] = i /\ ix[j] = m

IsFlatten(f, seqs, k) ==
  f = [i \in 1 .. k |-> IF i = 1 THEN seqs[i] ELSE f[i - 1] \o seqs[i]]

LEMMA FlattenExists ==
  ASSUME NEW n \in Nat, NEW seqs
  PROVE  \E f : IsFlatten(f, seqs, n)
<1> DEFINE A == {k \in Nat : \E f : IsFlatten(f, seqs, k)}
<1>1. 0 \in A
  <2>1. 1 .. 0 = {}
    OBVIOUS
  <2>2. IsFlatten([i \in 1 .. 0 |-> 0], seqs, 0)
    BY <2>1 DEF IsFlatten
  <2> QED BY <2>2
<1>2. ASSUME NEW k \in Nat, k \in A PROVE k + 1 \in A
  <2>1. PICK f : IsFlatten(f, seqs, k)
    BY <1>2
  <2> DEFINE last == IF k = 0 THEN seqs[1] ELSE f[k] \o seqs[k + 1]
             g == [i \in 1 .. k + 1 |-> IF i = k + 1 THEN last ELSE f[i]]
  <2>2. ASSUME NEW i \in 1 .. k + 1
        PROVE  g[i] = IF i = 1 THEN seqs[i] ELSE g[i - 1] \o seqs[i]
    <3>1. CASE i = k + 1 /\ k = 0
      <4>1. g[i] = last /\ i = 1
        BY <3>1
      <4> QED BY <3>1, <4>1
    <3>2. CASE i = k + 1 /\ k # 0
      <4>1. last = f[k] \o seqs[i]
        BY <3>2
      <4> HIDE DEF last
      <4>2. i # 1 /\ i - 1 = k /\ k \in 1 .. k + 1 /\ k # k + 1
        BY <3>2
      <4>3. g[i] = last /\ g[k] = f[k]
        BY <3>2, <4>2
      <4> HIDE DEF g
      <4> QED BY <4>1, <4>2, <4>3
    <3>3. CASE i # k + 1
      <4>1. i \in 1 .. k /\ g[i] = f[i] /\ (i # 1 => i - 1 \in 1 .. k /\ g[i - 1] = f[i - 1])
        BY <3>3
      <4> HIDE DEF g, last
      <4> QED BY <2>1, <4>1 DEF IsFlatten
    <3> QED BY <3>1, <3>2, <3>3
  <2>3. IsFlatten(g, seqs, k + 1)
    <3>1. g = [i \in 1 .. k + 1 |-> g[i]]
      OBVIOUS
    <3> HIDE DEF g
    <3>2. g = [i \in 1 .. k + 1 |-> IF i = 1 THEN seqs[i] ELSE g[i - 1] \o seqs[i]]
      BY <2>2, <3>1
    <3> QED BY <3>2 DEF IsFlatten
  <2> QED BY <2>3
<1>3. \A k \in Nat : k \in A
  <2> HIDE DEF A
  <2> QED BY <1>1, <1>2, AllNaturals
<1> QED BY <1>3

\* One more sequence is listed after the others.
LEMMA ListedStep ==
  ASSUME NEW k \in Nat, NEW seqs, NEW T, seqs[k + 1] \in Seq(T),
         NEW F, NEW sx, NEW ix, Listed(F, seqs, k, sx, ix)
  PROVE  \E sy, iy : Listed(F \o seqs[k + 1], seqs, k + 1, sy, iy)
<1> DEFINE s == seqs[k + 1]
           G == F \o s
           n == Len(F)
           sy == [j \in 1 .. n + Len(s) |-> IF j <= n THEN sx[j] ELSE k + 1]
           iy == [j \in 1 .. n + Len(s) |-> IF j <= n THEN ix[j] ELSE j - n]
           old == UNION {Range(seqs[i]) : i \in 1 .. k}
           all == UNION {Range(seqs[i]) : i \in 1 .. k + 1}
<1>1. F \in Seq(old)
  BY DEF Listed
<1>2. /\ F \in Seq(all) /\ s \in Seq(all)
  <2>1. old \subseteq all
    <3>1. 1 .. k \subseteq 1 .. k + 1
      OBVIOUS
    <3> QED BY <3>1
  <2>2. Range(s) \subseteq all
    <3>1. k + 1 \in 1 .. k + 1
      OBVIOUS
    <3> QED BY <3>1
  <2>3. s \in Seq(Range(s))
    <3>1. \A i \in 1 .. Len(s) : s[i] \in Range(s)
      BY DEF Range
    <3>2. s \in Seq(T)
      OBVIOUS
    <3> HIDE DEF s
    <3> QED BY <3>1, <3>2
  <2> HIDE DEF old, all, s
  <2> QED BY <1>1, <2>1, <2>2, <2>3
<1>3. /\ DOMAIN F = 1 .. n /\ DOMAIN s = 1 .. Len(s) /\ n \in Nat /\ Len(s) \in Nat
      /\ G \in Seq(all) /\ DOMAIN G = 1 .. n + Len(s)
      /\ \A j \in 1 .. n + Len(s) : G[j] = IF j <= n THEN F[j] ELSE s[j - n]
  <2> HIDE DEF all, s
  <2> QED BY <1>2
<1>4. \A j \in 1 .. n + Len(s) : /\ sy[j] = (IF j <= n THEN sx[j] ELSE k + 1)
                                 /\ iy[j] = (IF j <= n THEN ix[j] ELSE j - n)
  OBVIOUS
<1> HIDE DEF G, n, sy, iy, old, all
<1>5. DOMAIN F = 1 .. n
  BY <1>3
<1>6. /\ \A j \in 1 .. n : /\ sx[j] \in 1 .. k /\ ix[j] \in DOMAIN seqs[sx[j]]
                           /\ F[j] = seqs[sx[j]][ix[j]]
      /\ \A i, j \in 1 .. n : i # j => sx[i] # sx[j] \/ ix[i] # ix[j]
      /\ \A i \in 1 .. k : \A m \in DOMAIN seqs[i] : \E j \in 1 .. n : sx[j] = i /\ ix[j] = m
  <2>1. \A j \in 1 .. n : /\ sx[j] \in 1 .. k /\ ix[j] \in DOMAIN seqs[sx[j]]
                          /\ F[j] = seqs[sx[j]][ix[j]]
    BY <1>5 DEF Listed
  <2>2. \A i, j \in 1 .. n : i # j => sx[i] # sx[j] \/ ix[i] # ix[j]
    BY <1>5 DEF Listed
  <2>3. \A i \in 1 .. k : \A m \in DOMAIN seqs[i] : \E j \in 1 .. n : sx[j] = i /\ ix[j] = m
    BY <1>5 DEF Listed
  <2> QED BY <2>1, <2>2, <2>3
<1>7. ASSUME NEW j \in DOMAIN G
      PROVE  /\ sy[j] \in 1 .. k + 1 /\ iy[j] \in DOMAIN seqs[sy[j]]
             /\ G[j] = seqs[sy[j]][iy[j]]
  <2>1. CASE j <= n
    <3>1. j \in 1 .. n /\ sy[j] = sx[j] /\ iy[j] = ix[j] /\ G[j] = F[j]
      BY <1>3, <1>4, <2>1
    <3> QED BY <1>6, <3>1
  <2>2. CASE ~(j <= n)
    <3>1. sy[j] = k + 1 /\ iy[j] = j - n /\ G[j] = s[j - n] /\ j - n \in DOMAIN s
      BY <1>3, <1>4, <2>2
    <3> QED BY <3>1
  <2> QED BY <2>1, <2>2
<1>8. ASSUME NEW i \in DOMAIN G, NEW j \in DOMAIN G, i # j
      PROVE  sy[i] # sy[j] \/ iy[i] # iy[j]
  <2>1. \A l \in DOMAIN G : /\ l <= n => l \in 1 .. n /\ sy[l] = sx[l] /\ iy[l] = ix[l] /\ sx[l] \in 1 .. k
                            /\ ~(l <= n) => sy[l] = k + 1 /\ iy[l] = l - n
                            /\ l \in Int
    BY <1>3, <1>4, <1>6
  <2>2. CASE i <= n /\ j <= n
    BY <1>6, <1>8, <2>1, <2>2
  <2>3. CASE ~(i <= n) /\ ~(j <= n)
    BY <1>3, <1>8, <2>1, <2>3
  <2>4. CASE i <= n /\ ~(j <= n)
    BY <2>1, <2>4
  <2>5. CASE ~(i <= n) /\ j <= n
    BY <2>1, <2>5
  <2> QED BY <2>2, <2>3, <2>4, <2>5
<1>9. ASSUME NEW i \in 1 .. k + 1, NEW m \in DOMAIN seqs[i]
      PROVE  \E j \in DOMAIN G : sy[j] = i /\ iy[j] = m
  <2>1. CASE i \in 1 .. k
    <3>1. PICK j \in 1 .. n : sx[j] = i /\ ix[j] = m
      BY <1>6, <2>1
    <3>2. j \in DOMAIN G /\ sy[j] = sx[j] /\ iy[j] = ix[j]
      BY <1>3, <1>4
    <3> QED BY <3>1, <3>2
  <2>2. CASE i = k + 1
    <3>1. m \in 1 .. Len(s)
      BY <1>3, <2>2
    <3>2. n + m \in DOMAIN G /\ ~(n + m <= n) /\ (n + m) - n = m
      BY <1>3, <3>1
    <3>3. sy[n + m] = k + 1 /\ iy[n + m] = m
      BY <1>3, <1>4, <3>2
    <3> QED BY <2>2, <3>2, <3>3
  <2> QED BY <2>1, <2>2
<1>10. Listed(G, seqs, k + 1, sy, iy)
  BY <1>3, <1>7, <1>8, <1>9 DEF Listed, all
<1> QED BY <1>10 DEF G

LEMMA FlattenListed ==
  ASSUME NEW n \in Nat \ {0}, NEW T, NEW seqs \in [1 .. n -> Seq(T)]
  PROVE  \E sx, ix : Listed(FlattenSeq(seqs), seqs, n, sx, ix)
<1>1. Len(seqs) = n /\ n # 0
  <2>1. seqs \in Seq(Seq(T))
    OBVIOUS
  <2> QED BY <2>1
<1> DEFINE Body(f) == [i \in 1 .. n |-> IF i = 1 THEN seqs[i] ELSE f[i - 1] \o seqs[i]]
           f == CHOOSE g : g = Body(g)
<1>2. FlattenSeq(seqs) = f[n]
  BY <1>1 DEF FlattenSeq
<1>3. \E g : g = Body(g)
  <2>1. PICK g : IsFlatten(g, seqs, n)
    BY FlattenExists
  <2> QED BY <2>1 DEF IsFlatten
<1>4. f = Body(f)
  <2> HIDE DEF Body
  <2> QED BY <1>3
<1> HIDE DEF f
<1>5. \A i \in 1 .. n : f[i] = IF i = 1 THEN seqs[i] ELSE f[i - 1] \o seqs[i]
  BY <1>4
<1> DEFINE A == {k \in Nat : k + 1 <= n => \E sx, ix : Listed(f[k + 1], seqs, k + 1, sx, ix)}
<1>6. 0 \in A
  <2>1. f[1] = seqs[1] /\ seqs[1] \in Seq(T)
    BY <1>1, <1>5
  <2>2. DOMAIN seqs[1] = 1 .. Len(seqs[1]) /\ Len(seqs[1]) \in Nat
    BY <2>1
  <2> DEFINE sx == [j \in DOMAIN seqs[1] |-> 1]
             ix == [j \in DOMAIN seqs[1] |-> j]
  <2>3. \A j \in DOMAIN seqs[1] : sx[j] = 1 /\ ix[j] = j
    OBVIOUS
  <2>4. seqs[1] \in Seq(UNION {Range(seqs[i]) : i \in 1 .. 1})
    <3>1. \A j \in 1 .. Len(seqs[1]) : seqs[1][j] \in UNION {Range(seqs[i]) : i \in 1 .. 1}
      BY <2>2 DEF Range
    <3> DEFINE U == UNION {Range(seqs[i]) : i \in 1 .. 1}
               s == seqs[1]
    <3>2. s \in Seq(T) /\ \A j \in 1 .. Len(s) : s[j] \in U
      BY <2>1, <3>1
    <3> HIDE DEF U, s
    <3>3. Len(s) \in Nat /\ s \in [1 .. Len(s) -> T]
      BY <3>2
    <3>4. s \in [1 .. Len(s) -> U]
      BY <3>2, <3>3
    <3>5. s \in Seq(U)
      BY <3>3, <3>4
    <3> QED BY <3>5 DEF U, s
  <2>5. \A i \in 1 .. 1 : i = 1
    OBVIOUS
  <2> HIDE DEF sx, ix
  <2>6. Listed(seqs[1], seqs, 1, sx, ix)
    BY <2>3, <2>4, <2>5 DEF Listed
  <2>7. 0 + 1 = 1
    OBVIOUS
  <2> QED BY <2>1, <2>6, <2>7
<1>7. ASSUME NEW k \in Nat, k \in A PROVE k + 1 \in A
  <2> SUFFICES ASSUME (k + 1) + 1 <= n
               PROVE  \E sx, ix : Listed(f[(k + 1) + 1], seqs, (k + 1) + 1, sx, ix)
    OBVIOUS
  <2>1. k + 1 <= n /\ k + 1 \in Nat /\ (k + 1) + 1 \in 1 .. n /\ (k + 1) + 1 # 1
        /\ ((k + 1) + 1) - 1 = k + 1
    OBVIOUS
  <2>2. PICK sx, ix : Listed(f[k + 1], seqs, k + 1, sx, ix)
    BY <1>7, <2>1
  <2>3. f[(k + 1) + 1] = f[k + 1] \o seqs[(k + 1) + 1]
    BY <1>5, <2>1
  <2>4. seqs[(k + 1) + 1] \in Seq(T)
    BY <2>1
  <2> HIDE DEF Body
  <2>5. \E sy, iy : Listed(f[k + 1] \o seqs[(k + 1) + 1], seqs, (k + 1) + 1, sy, iy)
    <3> DEFINE m == k + 1
    <3>1. m \in Nat /\ seqs[m + 1] \in Seq(T) /\ Listed(f[m], seqs, m, sx, ix)
      BY <2>1, <2>2, <2>4
    <3> HIDE DEF m
    <3>2. \E sy, iy : Listed(f[m] \o seqs[m + 1], seqs, m + 1, sy, iy)
      BY <3>1, ListedStep
    <3> QED BY <3>2 DEF m
  <2> QED BY <2>3, <2>5
<1>8. \A k \in Nat : k \in A
  <2> HIDE DEF A
  <2> QED BY <1>6, <1>7, AllNaturals
<1>9. \E sx, ix : Listed(f[n], seqs, n, sx, ix)
  <2>1. n - 1 \in Nat /\ (n - 1) + 1 = n
    OBVIOUS
  <2>2. (n - 1) + 1 <= n => \E sx, ix : Listed(f[(n - 1) + 1], seqs, (n - 1) + 1, sx, ix)
    BY <1>8, <2>1
  <2> QED BY <2>1, <2>2
<1> QED BY <1>2, <1>9

\* The output has the tracks of all threads, each at a place of its own.
LEMMA OutputListed ==
  ASSUME SeenInv, joined
  PROVE  \E sx, ix : Listed(recoTracks, [i \in 1 .. nThreads |-> tracks[i - 1]], nThreads, sx, ix)
<1> DEFINE seqs == [i \in 1 .. nThreads |-> tracks[i - 1]]
<1>1. recoTracks = FlattenSeq(seqs)
  BY DEF SeenInv, JoinInv
<1>2. nThreads \in Nat \ {0}
  BY FirstThread DEF SeenInv
<1>3. \A i \in 1 .. nThreads : tracks[i - 1] \in Seq(SUBSET Hits)
  BY <1>2 DEF SeenInv, WindowsInv, ThreadInv, Threads
<1>4. seqs \in [1 .. nThreads -> Seq(SUBSET Hits)]
  BY <1>3
<1> HIDE DEF seqs
<1>5. \E sx, ix : Listed(FlattenSeq(seqs), seqs, nThreads, sx, ix)
  BY <1>2, <1>4, FlattenListed
<1> QED BY <1>1, <1>5 DEF seqs

\* What a thread stores comes into the output.
LEMMA StoredIsOutput ==
  ASSUME SeenInv, joined, NEW t \in Threads
  PROVE  Stored(t) \subseteq UNION Range(recoTracks)
<1> DEFINE seqs == [i \in 1 .. nThreads |-> tracks[i - 1]]
<1>1. PICK sx, ix : Listed(recoTracks, seqs, nThreads, sx, ix)
  BY OutputListed
<1>2. t + 1 \in 1 .. nThreads /\ seqs[t + 1] = tracks[t]
  <2>1. nThreads \in Nat /\ t + 1 \in 1 .. nThreads /\ (t + 1) - 1 = t
    BY FirstThread DEF SeenInv, Threads
  <2> QED BY <2>1
<1> HIDE DEF seqs
<1>3. ASSUME NEW m \in DOMAIN tracks[t] PROVE tracks[t][m] \in Range(recoTracks)
  <2>1. PICK j \in DOMAIN recoTracks : sx[j] = t + 1 /\ ix[j] = m
    BY <1>1, <1>2, <1>3 DEF Listed
  <2>2. recoTracks[j] = seqs[sx[j]][ix[j]]
    BY <1>1 DEF Listed
  <2>3. recoTracks[j] = tracks[t][m]
    BY <1>2, <2>1, <2>2
  <2> QED BY <2>1, <2>3 DEF Range
<1> QED BY <1>3 DEF Stored, Range

\* Hits that end in the range of the timeslice have a thread to find them: the last
\* one whose range begins before the end of each.
LEMMA HomeExists ==
  ASSUME Computed, NEW D \in SUBSET GoodHits
  PROVE  \E t \in Threads : Home(t, D)
<1> DEFINE S == {k \in 1 .. nThreads : \A h \in D : range[k - 1].first <= input.max[h]}
           f == [k \in 1 .. nThreads |-> k]
<1>1. nThreads \in Nat /\ 1 \in 1 .. nThreads /\ \A k \in 1 .. nThreads : k - 1 \in Threads
  BY FirstThread DEF Threads
<1>2. 1 \in S
  BY <1>1 DEF Computed, RangeOK
<1>3. \E a \in S : \A x \in S : f[x] <= f[a]
  <2>1. S \in SUBSET (1 .. nThreads) /\ S # {} /\ \A x \in S : f[x] \in Int
    BY <1>2
  <2> HIDE DEF S, f
  <2> QED BY <1>1, <2>1, IndexedBounds
<1>4. PICK a \in S : \A x \in S : f[x] <= f[a]
  BY <1>3
<1>5. \A x \in S : x <= a
  BY <1>4
<1> DEFINE t == a - 1
<1>6. t \in Threads /\ \A h \in D : range[t].first <= input.max[h]
  BY <1>1
<1>7. ASSUME t # nThreads - 1 PROVE \E h \in D : input.max[h] < range[t].second
  <2>1. a + 1 \in 1 .. nThreads /\ (a + 1) - 1 = t + 1 /\ ~(a + 1 <= a) /\ t + 1 \in Threads
    BY <1>1, <1>7
  <2>2. a + 1 \notin S
    BY <1>5, <2>1
  <2>3. PICK h \in D : ~(range[t + 1].first <= input.max[h])
    BY <2>1, <2>2
  <2>4. range[t].second = range[t + 1].first /\ range[t + 1].first \in Int /\ input.max[h] \in Int
    BY <1>6, <1>7, <2>1 DEF Computed, RangeOK, InputOK, GoodHits
  <2> HIDE DEF t
  <2> QED BY <2>3, <2>4
<1> QED BY <1>6, <1>7 DEF Home

\* Hits that overlap each other have done so with the last begin and the first end.
LEMMA FindableTogether ==
  ASSUME Computed, NEW p, Findable(p)
  PROVE  Together(p)
<1>1. PICK a \in HitsOfParticle(p), b \in HitsOfParticle(p) :
        /\ \A h \in HitsOfParticle(p) : input.min[h] <= input.min[a] /\ input.max[b] <= input.max[h]
        /\ input.min[a] <= input.max[b]
  BY DEF Findable, OneEvent
<1>2. \A h \in HitsOfParticle(p) : input.min[h] \in Int /\ input.max[h] \in Int
  BY DEF Computed, InputOK, HitsOfParticle, GoodHits
<1> QED BY <1>1, <1>2 DEF Together

LEMMA SeenNoHitLost == SeenInv => NoHitLost
<1> SUFFICES ASSUME SeenInv, joined, NEW p \in Particles, Findable(p),
                    ~(Cardinality(HitsOfParticle(p) \ ((UNION Range(recoTracks)) \cup racy)) < MinHits)
             PROVE  FALSE
  BY DEF NoHitLost
<1> DEFINE D == HitsOfParticle(p) \ ((UNION Range(recoTracks)) \cup racy)
<1>1. D \in SUBSET HitsOfParticle(p) /\ HitsOfParticle(p) \subseteq GoodHits
  BY DEF HitsOfParticle
<1>2. Cardinality(D) >= MinHits
  <2>1. NHits \in Nat /\ MinHits \in Nat
    BY CaWindowsAssumption
  <2>2. IsFiniteSet(Hits) /\ D \in SUBSET Hits
    BY <1>1, <2>1, FS_Interval DEF Hits, GoodHits
  <2>3. Cardinality(D) \in Nat
    BY <2>2, FS_Subset, FS_CardinalityType
  <2> HIDE DEF D
  <2> QED BY <2>1, <2>3 DEF D
<1>3. \A t \in Threads : D \cap Stored(t) = {}
  BY StoredIsOutput
<1>4. D \cap racy = {}
  OBVIOUS
<1> HIDE DEF D
<1>5. Computed /\ ThreadsInv /\ JoinInv
  BY DEF SeenInv
<1>6. PICK t \in Threads : Home(t, D)
  BY <1>1, <1>5, HomeExists
<1>7. Due(t, p, D)
  <2>1. p \notin missed /\ Together(p)
    BY <1>5, FindableTogether DEF Findable
  <2> QED BY <1>2, <1>3, <1>4, <1>5, <1>6, <2>1, FirstThread DEF Due
<1>8. Open(t, p, D)
  BY <1>1, <1>5, <1>7 DEF ThreadsInv, SelfInv, TodoInv
<1> QED BY <1>5, <1>8 DEF Open, JoinInv

LEMMA SeenInteriorSaved == SeenInv => InteriorSavedWhole
<1> SUFFICES ASSUME SeenInv, joined, NEW t \in Threads, NEW p \in Particles,
                    Findable(p), Interior(t, p)
             PROVE  SavedWholeOnce(p)
  BY DEF InteriorSavedWhole
<1> DEFINE P == HitsOfParticle(p)
           seqs == [i \in 1 .. nThreads |-> tracks[i - 1]]
<1>1. Computed /\ ThreadsInv /\ JoinInv /\ WindowsInv
  BY DEF SeenInv
<1>2. SelfInv(t) /\ ApartInv(t) /\ pc[t] = "done"
  BY <1>1 DEF ThreadsInv, JoinInv
<1>3. p \notin missed /\ Together(p) /\ Cardinality(P) >= MinHits
  BY <1>1, FindableTogether DEF Findable
<1>4. Stored(t) \cap P # {}
  <2> SUFFICES ASSUME Stored(t) \cap P = {} PROVE FALSE
    OBVIOUS
  <2>1. Due(t, p, P)
    BY <1>1, <1>2, <1>3, InteriorDue
  <2>2. Open(t, p, P)
    BY <1>2, <2>1 DEF SelfInv, TodoInv
  <2> QED BY <1>2, <2>2 DEF Open
<1>5. P \in Range(tracks[t])
  BY <1>2, <1>3, <1>4 DEF SelfInv, OwnInv
<1>6. PICK m \in DOMAIN tracks[t] : tracks[t][m] = P
  BY <1>5 DEF Range
<1>7. PICK sx, ix : Listed(recoTracks, seqs, nThreads, sx, ix)
  BY OutputListed
<1>8. nThreads \in Nat /\ t \in Int /\ t + 1 \in 1 .. nThreads /\ (t + 1) - 1 = t
  BY <1>1, FirstThread DEF Threads
<1>9. \A i \in 1 .. nThreads : seqs[i] = tracks[i - 1] /\ i - 1 \in Threads /\ i \in Int
  BY <1>8 DEF Threads
<1> HIDE DEF seqs, P
<1>10. PICK i \in DOMAIN recoTracks : sx[i] = t + 1 /\ ix[i] = m
  <2>1. \A n \in 1 .. nThreads : \A k \in DOMAIN seqs[n] :
          \E j \in DOMAIN recoTracks : sx[j] = n /\ ix[j] = k
    BY <1>7 DEF Listed
  <2>2. t + 1 \in 1 .. nThreads /\ m \in DOMAIN seqs[t + 1]
    BY <1>6, <1>8, <1>9
  <2> QED BY <2>1, <2>2
<1>11. \A j \in DOMAIN recoTracks : /\ sx[j] \in 1 .. nThreads /\ ix[j] \in DOMAIN seqs[sx[j]]
                                    /\ recoTracks[j] = seqs[sx[j]][ix[j]]
  BY <1>7 DEF Listed
<1>12. recoTracks[i] = P
  BY <1>6, <1>8, <1>9, <1>10, <1>11
<1>13. ASSUME NEW j \in DOMAIN recoTracks \ {i} PROVE recoTracks[j] \cap P = {}
  <2> DEFINE u == sx[j] - 1
  <2>1. u \in Threads /\ ix[j] \in DOMAIN tracks[u] /\ recoTracks[j] = tracks[u][ix[j]]
    BY <1>9, <1>11
  <2>2. CASE u = t
    <3>1. sx[j] = t + 1
      BY <1>8, <1>9, <1>11, <2>2
    <3>2. ix[j] # m
      <4>1. sx[i] # sx[j] \/ ix[i] # ix[j]
        BY <1>7 DEF Listed
      <4> QED BY <1>10, <3>1, <4>1
    <3>3. tracks[t][ix[j]] \cap tracks[t][m] = {}
      BY <1>1, <2>1, <2>2, <3>2 DEF WindowsInv, ThreadInv
    <3> QED BY <1>6, <2>1, <2>2, <3>3
  <2>3. CASE u # t
    <3>1. Stored(u) \cap P = {}
      BY <1>2, <2>1, <2>3 DEF ApartInv, P
    <3>2. tracks[u][ix[j]] \subseteq Stored(u)
      BY <2>1 DEF Stored, Range
    <3> QED BY <2>1, <3>1, <3>2
  <2> QED BY <2>2, <2>3
<1> QED BY <1>12, <1>13 DEF SavedWholeOnce, P

\* Of the hits of a particle that overlap each other and that the finder never
\* missed, fewer than the shortest track needs are lost, but for those whose flags
\* were in use by thread 0 when they were copied: for all timeslices, divisions into
\* ranges, windows and orders of the threads.
THEOREM LostHitsAreFew == Spec => []NoHitLost
<1>1. Spec => Init /\ [][Next]_vars
  BY PTL DEF Spec
<1> QED BY <1>1, InitSeenInv, NextSeenInv, SeenNoHitLost, PTL

\* A particle inside the range of a thread is saved whole and once, though each
\* window sees what the one before has left over and other threads work beside it.
THEOREM InteriorIsSavedWhole == Spec => []InteriorSavedWhole
<1>1. Spec => Init /\ [][Next]_vars
  BY PTL DEF Spec
<1> QED BY <1>1, InitSeenInv, NextSeenInv, SeenInteriorSaved, PTL

==============================================================================
