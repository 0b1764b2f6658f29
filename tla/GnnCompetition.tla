---------------------------- MODULE GnnCompetition ----------------------------
(***************************************************************************)
(* The track finder that is used when GnnTracking is set: the iterations   *)
(* over fast primary, slow primary and all other tracks, in each of which  *)
(* candidates compete for strips the "altruistic" way (GraphConstructor).  *)
(* A candidate gives up its used hits if four are left; with three left it *)
(* begs longer accepted tracks for the strip of its first used hit.        *)
(*                                                                         *)
(* A candidate is a sequence of hits with a score (lower is better); which *)
(* candidates the triplets, fits, cuts and the classifier leave is open.   *)
(***************************************************************************)
EXTENDS Integers, Sequences, FiniteSets, SequencesExt, FiniteSetsExt

CONSTANTS Hits, FrontKey, BackKey,   \* of each hit
          Pool,                      \* candidates: [hits, score]
          MaxCandidates              \* bound on the candidates of an iteration

Keys == {FrontKey[h] : h \in Hits} \cup {BackKey[h] : h \in Hits}

MinLength == 4           \* min_length
MaxClassified == 6       \* longer candidates need not pass the classifier
Iterations == <<0, 1, 3>>    \* iteration 2 is skipped

ASSUME GnnCompetitionAssumption ==
  /\ Pool \subseteq [hits : Seq(Hits), score : Nat] /\ IsFiniteSet(Pool)
  /\ \A c \in Pool : IsInjective(c.hits)
  /\ MaxCandidates \in Nat

VARIABLES
  iter,         \* position in Iterations
  step,         \* "create", "compete", "save"
  tracks,       \* trackAndScores: [hits, score]
  iTrack,       \* the candidate that competes next
  used,         \* HitKeyFlags that are set
  found,        \* history: the candidates of this iteration
  beggars,      \* history: how many begged in this iteration
  recoTracks    \* [hits, iter, beggars]

vars == <<iter, step, tracks, iTrack, used, found, beggars, recoTracks>>

StripsOf(h) == {FrontKey[h], BackKey[h]}
Strips(hits) == UNION {StripsOf(hits[n]) : n \in DOMAIN hits}
IsUsed(h) == StripsOf(h) \cap used # {}
MeetAt(g, h) == FrontKey[g] = FrontKey[h] \/ BackKey[g] = BackKey[h]

Init ==
  /\ iter = 1 /\ step = "create"
  /\ tracks = <<>> /\ iTrack = 1
  /\ used = {} /\ found = {} /\ beggars = 0 /\ recoTracks = <<>>

-----------------------------------------------------------------------------
\* Longest first, then the lowest score; equal ones in any order.
Before(c, d) == Len(c.hits) > Len(d.hits) \/ (Len(c.hits) = Len(d.hits) /\ c.score <= d.score)
Sorted(S) == {s \in SetToSeqs(S) : \A m, n \in DOMAIN s : m < n => Before(s[m], s[n])}

\* RemoveUsedHits has cleared the grids of hits with a used strip.
Found == {c \in Pool : Len(c.hits) >= MinLength /\ Strips(c.hits) \cap used = {}}
Short(S) == {c \in S : Len(c.hits) <= MaxClassified}

CreateCandidates ==
  /\ step = "create" /\ iter \in DOMAIN Iterations
  /\ \E S \in {T \in SUBSET Found : Cardinality(T) <= MaxCandidates} :
       /\ found' = S
       /\ IF Iterations[iter] = 3 /\ Short(S) = {}
          THEN tracks' = <<>> /\ step' = "save"     \* the early return drops the long ones
          ELSE \E rejected \in IF Iterations[iter] = 3 THEN SUBSET Short(S) ELSE {{}} :
                 /\ tracks' \in Sorted(S \ rejected)
                 /\ step' = "compete"
  /\ iTrack' = 1 /\ beggars' = 0
  /\ UNCHANGED <<iter, used, recoTracks>>

-----------------------------------------------------------------------------
Track == tracks[iTrack]
UsedAt == {n \in DOMAIN Track.hits : IsUsed(Track.hits[n])}
NLeft == Len(Track.hits) - Cardinality(UsedAt)
Competes == step = "compete" /\ iTrack <= Len(tracks)

Keep(ts, flags) ==
  /\ tracks' = ts
  /\ used' = flags \cup Strips(ts[iTrack].hits)
  /\ iTrack' = iTrack + 1

CleanTrack ==
  /\ Competes /\ UsedAt = {}
  /\ Keep(tracks, used)
  /\ UNCHANGED <<iter, step, found, beggars, recoTracks>>

\* The elements of a list at some positions, in their order.
AtPositions(s, S) ==
  [k \in 1 .. Cardinality(S) |-> s[CHOOSE i \in S : Cardinality({j \in S : j < i}) = k - 1]]

FreeHits == AtPositions(Track.hits, DOMAIN Track.hits \ UsedAt)
Enough == NLeft >= MinLength

\* Some hits are used, but four are left without them.
TrimTrack ==
  /\ Competes /\ UsedAt # {} /\ Enough
  /\ Keep([tracks EXCEPT ![iTrack].hits = FreeHits], used)
  /\ UNCHANGED <<iter, step, found, beggars, recoTracks>>

FirstUsed == Track.hits[Min(UsedAt)]

\* Where an accepted track has another hit on a strip of the first used hit.
Given(b) == {n \in DOMAIN tracks[b].hits :
               tracks[b].hits[n] # FirstUsed /\ MeetAt(tracks[b].hits[n], FirstUsed)}

\* Mutant: a track that is as long gives, too.
AnyDonors == {b \in 1 .. iTrack - 1 : /\ tracks[b].score >= Track.score
                                      /\ Given(b) # {}}

\* Longer tracks with no better score give; they have five hits at least.
Donors == {b \in 1 .. iTrack - 1 : /\ Len(tracks[b].hits) > Len(Track.hits)
                                   /\ tracks[b].score >= Track.score
                                   /\ Given(b) # {}}

\* Mutant: the flags of a hit that is given away stay.
KeepFlags(b) == {}
Cleared(b) == StripsOf(tracks[b].hits[Min(Given(b))])

Begs == Competes /\ UsedAt # {} /\ ~Enough /\ NLeft = 3 /\ Donors # {}

\* All donors give their first such hit (only the search in one track is left
\* early); the beggar keeps all its hits, whoever uses the others.
BegTrack ==
  /\ Begs
  /\ Keep([b \in DOMAIN tracks |->
             IF b \in Donors
             THEN [tracks[b] EXCEPT !.hits = RemoveAt(@, Min(Given(b)))]
             ELSE tracks[b]],
          used \ UNION {Cleared(b) : b \in Donors})
  /\ beggars' = beggars + 1
  /\ UNCHANGED <<iter, step, found, recoTracks>>

RemoveTrack ==
  /\ Competes /\ UsedAt # {} /\ ~Enough /\ ~Begs
  /\ tracks' = RemoveAt(tracks, iTrack)
  /\ UNCHANGED <<iter, step, iTrack, used, found, beggars, recoTracks>>

EndCompetition ==
  /\ step = "compete" /\ iTrack > Len(tracks)
  /\ step' = "save"
  /\ UNCHANGED <<iter, tracks, iTrack, used, found, beggars, recoTracks>>

-----------------------------------------------------------------------------
\* Mutant: the strips of the final tracks are not marked once more.
MarkNothing == used
MarkFinal == used \cup UNION {Strips(tracks[n].hits) : n \in DOMAIN tracks}

PrepareFinalTracks ==
  /\ step = "save"
  /\ used' = MarkFinal
  /\ recoTracks' = recoTracks \o [n \in DOMAIN tracks |->
                                    [hits |-> tracks[n].hits, iter |-> iter, beggars |-> beggars]]
  /\ tracks' = <<>> /\ iTrack' = 1
  /\ iter' = iter + 1 /\ step' = "create"
  /\ found' = {}
  /\ UNCHANGED beggars

Next == \/ CreateCandidates
        \/ CleanTrack \/ TrimTrack \/ BegTrack \/ RemoveTrack \/ EndCompetition
        \/ PrepareFinalTracks

Spec == Init /\ [][Next]_vars

-----------------------------------------------------------------------------
\* No track that is kept, trimmed or robbed by beggars, ever has less than four
\* hits: neither those accepted so far nor those saved.
FourHitsAreLeft ==
  /\ \A n \in 1 .. iTrack - 1 : Len(tracks[n].hits) >= MinLength
  /\ \A n \in DOMAIN recoTracks : Len(recoTracks[n].hits) >= MinLength

\* A flag that is set belongs to a track that is kept, so no strip is lost to a
\* track that was removed, trimmed or gave it away; between the iterations the
\* flags are exactly the strips of the saved tracks.
Accepted == UNION {Strips(tracks[n].hits) : n \in 1 .. iTrack - 1}
Saved == UNION {Strips(recoTracks[n].hits) : n \in DOMAIN recoTracks}
FlagsBelongToTracks ==
  /\ used \subseteq Accepted \cup Saved
  /\ step = "create" => used = Saved

\* Two saved tracks share a strip only if both are of one iteration in which some
\* candidate begged: what an iteration leaves is safe from the later ones.
SharedOnlyByBegging ==
  \A m, n \in DOMAIN recoTracks :
    m # n /\ Strips(recoTracks[m].hits) \cap Strips(recoTracks[n].hits) # {} =>
      recoTracks[m].iter = recoTracks[n].iter /\ recoTracks[m].beggars > 0

\* What the source says of the candidates with more than six hits: they are added
\* to trackAndScores directly, whatever the classifier has to do.
LongCandidatesCompete ==
  [][step = "create" => {c \in found' : Len(c.hits) > MaxClassified} \subseteq Range(tracks')]_vars
===============================================================================
