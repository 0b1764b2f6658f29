------------------------------ MODULE CaWindows ------------------------------
(***************************************************************************)
(* TrackFinder of the cellular automaton tracking: FindTracks splits a     *)
(* timeslice into one time range per thread, and each thread moves a       *)
(* window of fixed length over its range, lets the track finder look at    *)
(* the hits of the window and keeps the tracks it finds, except those that *)
(* lie wholly in what the next window sees again.                          *)
(*                                                                         *)
(* A hit is an index, known by the interval of the event times it allows   *)
(* and by its station; its two strips are one key, the hit itself.  The    *)
(* finder in a window is ideal, except that it may miss a particle: a track*)
(* is all hits of one particle in the window, if they are enough.          *)
(***************************************************************************)
EXTENDS Integers, Sequences, FiniteSets, SequencesExt, FiniteSetsExt

CONSTANTS NHits,           \* the hits are 1..NHits
          Particles,
          Inputs,          \* what the hits may be, see input
          Station,         \* of each hit
          ThreadCounts,    \* values of fNofThreads
          Cuts,            \* hits per station and window that mCBM allows
          WindowLength,    \* fWindowLength
          MinHits,         \* shortest track of the finder
          BogusAfter, BogusBefore,   \* times no hit of a timeslice can have
          Infinity

Hits == 1 .. NHits

ASSUME CaWindowsAssumption ==
  /\ NHits \in Nat \ {0} /\ WindowLength \in Nat \ {0} /\ MinHits \in Nat \ {0}
  /\ ThreadCounts \subseteq Nat \ {0} /\ Cuts \subseteq Nat
  /\ {BogusAfter, BogusBefore, Infinity} \subseteq Int
  /\ \A i \in Inputs :
       /\ i.min \in [Hits -> Int] /\ i.max \in [Hits -> Int]
       /\ \A h \in Hits : i.min[h] <= i.max[h]
       /\ i.particle \in [Hits -> Particles]
       /\ i.starts \in Seq(Hits) /\ i.starts # <<>> /\ i.starts[1] = 1
       /\ \A s, u \in DOMAIN i.starts : s < u => i.starts[s] <= i.starts[u]

VARIABLES
  input,        \* [min, max: the interval of event times each hit allows; particle: of
                \* each hit; starts: first hit of each stream, one after the other]
  info,         \* fHitTimeInfo: per hit maxBefore, minAfter
  range,        \* vWindowRangeThread: per thread first, second
  nThreads, cut,
  pc,           \* per thread: "copy", "range", "select", "search", "store", "done"
  toCopy,       \* keys whose flags the thread has still to copy from thread 0
  used,         \* HitKeyFlags of the thread
  streamRange,  \* streamHitRanges: per stream the hits [first, stop)
  first,        \* windowRange.first
  window,       \* TsHitIndices
  untouched,    \* areUntouchedDataLeft
  found,        \* tracks of the window
  tracks,       \* fvRecoTracks of the thread
  recoTracks,   \* the output, once the threads are joined
  joined,
  missed,       \* history: particles the finder missed or the cut removed
  racy          \* history: a flag was copied that thread 0 took back later

threadVars == <<toCopy, used, streamRange, first, window, untouched, found, tracks>>
vars == <<input, info, range, nThreads, cut, pc, threadVars, recoTracks, joined, missed, racy>>

Threads == 0 .. nThreads - 1

-----------------------------------------------------------------------------
(* What FindTracks computes before it starts the threads.                  *)

MinOr(S, d) == IF S = {} THEN d ELSE Min(S)
MaxOr(S, d) == IF S = {} THEN d ELSE Max(S)

Bogus(h) == input.min[h] > BogusAfter \/ input.max[h] < BogusBefore
GoodHits == {h \in Hits : ~Bogus(h)}

NStreams == Len(input.starts)
Start(s) == input.starts[s]
Stop(s)  == IF s = NStreams THEN NHits + 1 ELSE input.starts[s + 1]
StreamOf(h) == CHOOSE s \in 1 .. NStreams : Start(s) <= h /\ h < Stop(s)

MaxTimeBeforeHit(h) ==
  Max({input.max[g] : g \in {g \in GoodHits : StreamOf(g) = StreamOf(h) /\ g <= h}})

MinTimeAfterHit(h) ==
  Min({input.min[g] : g \in {g \in GoodHits : StreamOf(g) = StreamOf(h) /\ h <= g}})

TsStart == MinOr({input.max[h] : h \in GoodHits}, Infinity)
TsEnd == LET end == MaxOr({input.min[h] : h \in GoodHits} \cup {0}, 0)
         IN  IF end < TsStart THEN TsStart ELSE end

NWindows == (TsEnd - TsStart) \div WindowLength + 1

\* The window each hit is counted in, -1 if it is out of range.
WindowOf ==
  LET start == TsStart
      n == NWindows
  IN  [h \in Hits |-> LET i == (input.min[h] - start) \div WindowLength
                      IN  IF input.min[h] < start THEN 0 ELSE IF i < n THEN i ELSE -1]

\* nHitsWindow: hits up to and with window iw, without those of monster events.
HitsUpTo(windowOf, iw) ==
  Cardinality({h \in Hits :
    /\ windowOf[h] \in 0 .. iw
    /\ Cardinality({g \in Hits : windowOf[g] = windowOf[h] /\ Station[g] = Station[h]}) <= cut})

\* windowIt per thread: std::lower_bound.  That it is searched from the one of the
\* thread before on makes no difference, since the number to reach grows.
WindowIt ==
  LET windowOf == WindowOf
      n == NWindows
      perThread == HitsUpTo(windowOf, n - 1) \div nThreads
  IN  [t \in Threads |-> MinOr({iw \in 0 .. n - 1 : HitsUpTo(windowOf, iw) >= t * perThread}, n)]

RangeFirst(t) == IF t = 0 THEN TsStart ELSE TsStart + (WindowIt[t] + 1) * WindowLength
RangeSecond(t) == IF t = nThreads - 1 THEN TsEnd ELSE RangeFirst(t + 1)

-----------------------------------------------------------------------------
Init ==
  /\ input \in Inputs
  /\ nThreads \in ThreadCounts /\ cut \in Cuts
  /\ info = [h \in GoodHits |-> [maxBefore |-> MaxTimeBeforeHit(h), minAfter |-> MinTimeAfterHit(h)]]
  /\ range = [t \in Threads |-> [first |-> RangeFirst(t), second |-> RangeSecond(t)]]
  /\ pc = [t \in Threads |-> IF t = 0 THEN "range" ELSE "copy"]
  /\ toCopy = [t \in Threads |-> IF t = 0 THEN {} ELSE Hits]
  /\ used = [t \in Threads |-> [h \in Hits |-> t = 0 /\ Bogus(h)]]
  /\ streamRange = [t \in Threads |-> [s \in 1 .. NStreams |-> [first |-> Start(s), stop |-> Stop(s)]]]
  /\ first = [t \in Threads |-> range[t].first]
  /\ window = [t \in Threads |-> {}] /\ untouched = [t \in Threads |-> FALSE]
  /\ found = [t \in Threads |-> {}] /\ tracks = [t \in Threads |-> <<>>]
  /\ recoTracks = <<>> /\ joined = FALSE
  /\ missed = {} /\ racy = {}

constants == <<input, info, range, nThreads, cut>>

\* Mutant: an empty window is skipped before the range has moved on.
GotoUnlessEmpty(t, label) ==
  pc' = [pc EXCEPT ![t] = IF label = "search" /\ window'[t] = {} THEN "select" ELSE label]

Goto(t, label) == pc' = [pc EXCEPT ![t] = label]
Stored(t) == UNION Range(tracks[t])

\* The vector of flags is copied while thread 0 is at work: one flag at a time,
\* in any order, each with the value it has then.
CopyFlag(t) ==
  /\ pc[t] = "copy"
  /\ \E h \in toCopy[t] :
       /\ used' = [used EXCEPT ![t][h] = used[0][h]]
       /\ toCopy' = [toCopy EXCEPT ![t] = @ \ {h}]
       /\ racy' = IF used[0][h] /\ h \in GoodHits \ Stored(0) THEN racy \cup {h} ELSE racy
       /\ IF toCopy[t] = {h} THEN Goto(t, "range") ELSE UNCHANGED pc
  /\ UNCHANGED <<constants, streamRange, first, window, untouched, found, tracks, recoTracks,
                 joined, missed>>

Unused(t, s) == {h \in Start(s) .. Stop(s) - 1 : ~used[t][h]}

\* The hits of each stream before the thread's range, and those after it, are left out.
SetStreamRange(t) ==
  /\ pc[t] = "range"
  /\ streamRange' = [streamRange EXCEPT ![t] = [s \in 1 .. NStreams |->
       LET stop == MinOr({h \in Unused(t, s) : info[h].minAfter > range[t].second}, Stop(s))
           before == {h \in Unused(t, s) : h <= stop /\ info[h].maxBefore < range[t].first}
       IN  [first |-> MaxOr({h + 1 : h \in before}, Start(s)), stop |-> stop]]]
  /\ Goto(t, "select")
  /\ UNCHANGED <<constants, toCopy, used, first, window, untouched, found, tracks, recoTracks,
                 joined, missed, racy>>

\* What the loop over the hits of a stream looks at: up to the first hit after
\* which, itself included, everything is later than the window.
Scanned(t, s) ==
  LET r == streamRange[t][s]
      seen == {h \in Unused(t, s) : r.first <= h /\ h < r.stop /\ input.max[h] >= first[t]}
      later == {h \in seen : info[h].minAfter > first[t] + WindowLength}
  IN  {h \in seen : \A g \in later : h <= g}

\* This hit and all before it end before the next window.
LeaveBehind(t, h) == info[h].maxBefore < first[t] + WindowLength

ScannedHits(t) == UNION {Scanned(t, s) : s \in 1 .. NStreams}
Inside(t) == {h \in ScannedHits(t) : input.min[h] <= first[t] + WindowLength}
Monster(t) == {h \in Inside(t) :
                 Cardinality({g \in Inside(t) : Station[g] = Station[h]}) > cut}
LeftBehind(t, s) == {h \in Inside(t) : StreamOf(h) = s /\ LeaveBehind(t, h)}

\* Selection of the window's hits, and the cut on hits per station of mCBM.
SelectHits(t) ==
  /\ pc[t] = "select"
  /\ untouched' = [untouched EXCEPT ![t] = ScannedHits(t) # Inside(t)]
  /\ window' = [window EXCEPT ![t] = Inside(t) \ Monster(t)]
  /\ streamRange' = [streamRange EXCEPT ![t] = [s \in 1 .. NStreams |->
       [first |-> MaxOr({h + 1 : h \in LeftBehind(t, s)}, streamRange[t][s].first),
        stop |-> streamRange[t][s].stop]]]
  /\ missed' = missed \cup {input.particle[h] : h \in Monster(t)}
  /\ Goto(t, "search")
  /\ UNCHANGED <<constants, toCopy, used, first, found, tracks, recoTracks, joined, racy>>

\* CaTrackFinderSlice; SelectTracks marks the hits of its tracks.
CaTrackFinderSlice(t) ==
  /\ pc[t] = "search"
  /\ LET Of(p) == {h \in window[t] : input.particle[h] = p}
         seen == {p \in Particles : Cardinality(Of(p)) >= MinHits}
     IN  \E ps \in SUBSET seen :
           /\ found' = [found EXCEPT ![t] = {Of(p) : p \in ps}]
           /\ missed' = missed \cup (seen \ ps)
  /\ used' = [used EXCEPT ![t] = [h \in Hits |-> @[h] \/ h \in UNION found'[t]]]
  /\ Goto(t, "store")
  /\ UNCHANGED <<constants, toCopy, streamRange, first, window, untouched, tracks, recoTracks,
                 joined, racy>>

\* Mutant: a track with a hit in the overlap is already left to the next window.
KeptTouching(t, track, next) == ~untouched[t] \/ \A h \in track : input.max[h] < next

\* useFlag: the next window sees a track again that is all in the overlap, if
\* there is one.
Kept(t, track, next) == ~untouched[t] \/ \E h \in track : input.max[h] < next

\* Mutants: the flags stay set; they are taken back for all.
FlagsAfterAll(t, kept) == used[t]
FlagsAfterNone(t, kept) == [h \in Hits |-> h \notin UNION found[t] /\ used[t][h]]

FlagsAfter(t, kept) ==
  [h \in Hits |-> IF h \in UNION found[t] THEN h \in UNION kept ELSE used[t][h]]

NextWindow(t) == first[t] + WindowLength

StoreTracks(t) ==
  /\ pc[t] = "store"
  /\ LET next == NextWindow(t)
         kept == {track \in found[t] : Kept(t, track, next)}
     IN  /\ first' = [first EXCEPT ![t] = next]
         /\ tracks' = [tracks EXCEPT ![t] = @ \o SetToSeq(kept)]
         /\ used' = [used EXCEPT ![t] = FlagsAfter(t, kept)]
         /\ Goto(t, IF next > range[t].second \/ ~untouched[t] THEN "done" ELSE "select")
  /\ found' = [found EXCEPT ![t] = {}] /\ window' = [window EXCEPT ![t] = {}]
  /\ UNCHANGED <<constants, toCopy, streamRange, untouched, recoTracks, joined, missed, racy>>

\* FindTracks waits for its threads and puts their tracks together.
Join ==
  /\ ~joined /\ \A t \in Threads : pc[t] = "done"
  /\ recoTracks' = FlattenSeq([i \in 1 .. nThreads |-> tracks[i - 1]])
  /\ joined' = TRUE
  /\ UNCHANGED <<constants, pc, threadVars, missed, racy>>

FindTracksThread(t) ==
  t \in Threads /\ (\/ CopyFlag(t) \/ SetStreamRange(t) \/ SelectHits(t)
                    \/ CaTrackFinderSlice(t) \/ StoreTracks(t))

AllThreads == UNION {0 .. n - 1 : n \in ThreadCounts}

Next == Join \/ \E t \in AllThreads : FindTracksThread(t)

\* Each thread goes on, and so does the one that waits for them.
Spec == Init /\ [][Next]_vars /\ WF_vars(Join)
             /\ \A t \in AllThreads : WF_vars(FindTracksThread(t))

-----------------------------------------------------------------------------
\* A thread never uses a hit for two of the tracks it keeps, though the flags of
\* tracks that are left to the next window are taken back (FindTracksThread).
HitsUsedOnce ==
  \A t \in Threads :
    /\ \A i, j \in DOMAIN tracks[t] : i # j => tracks[t][i] \cap tracks[t][j] = {}
    /\ \A h \in Stored(t) : used[t][h]

\* The hits of a particle that the finder can see and never missed.
HitsOfParticle(p) == {h \in GoodHits : input.particle[h] = p}
OneEvent(p) == \E a \in HitsOfParticle(p), b \in HitsOfParticle(p) :
                 /\ \A h \in HitsOfParticle(p) : input.min[h] <= input.min[a]
                                                /\ input.max[b] <= input.max[h]
                 /\ input.min[a] <= input.max[b]
Findable(p) == p \notin missed /\ OneEvent(p) /\ Cardinality(HitsOfParticle(p)) >= MinHits
SavedWholeOnce(p) ==
  \E i \in DOMAIN recoTracks :
    /\ recoTracks[i] = HitsOfParticle(p)
    /\ \A j \in DOMAIN recoTracks \ {i} : recoTracks[j] \cap HitsOfParticle(p) = {}

\* With several threads this holds for the particles away from the borders: over
\* before the upper border, and, since the thread before may still do one window
\* from there on, not begun within a window of the lower one.
Interior(t, p) ==
  \A h \in HitsOfParticle(p) :
    /\ t # nThreads - 1 => input.max[h] < range[t].second
    /\ t # 0 => input.min[h] > range[t].first + WindowLength
InteriorSavedWhole ==
  joined => \A t \in Threads, p \in Particles :
              Findable(p) /\ Interior(t, p) => SavedWholeOnce(p)

\* At the borders tracks may be split or doubled.  If thread 0 has a part of a
\* track already when another thread copies the flags, the rest may be too short;
\* other hits of a track are not lost, unless a thread copied a flag that thread 0
\* had set only for the moment.
NoHitLost ==
  joined => \A p \in Particles :
              Findable(p) =>
                Cardinality(HitsOfParticle(p) \ ((UNION Range(recoTracks)) \cup racy)) < MinHits

\* Every thread comes to the end of its range, and the timeslice to its end.
TimesliceEnds == <>joined
=============================================================================
