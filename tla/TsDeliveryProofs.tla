--------------------------- MODULE TsDeliveryProofs ---------------------------
(***************************************************************************)
(* TsDelivery for all index sets, options and failures: no TS is lost or   *)
(* written twice by the sink, EOF closes a complete file, the file is in   *)
(* order, only missed TS are skipped, none is held that could be written,  *)
(* and all this is what TsArchive promises.                                *)
(*                                                                         *)
(* CheckTsQueues is used through one lemma, DrainStep: it takes m missed   *)
(* indices from the front of the vector and the reachable TS of the        *)
(* interval first..n from the map, and appends one entry per index of the  *)
(* interval.  All later proofs rest on that effect and never expand the    *)
(* handler again.                                                          *)
(*                                                                         *)
(* The inductive invariant, Bookkeeping, adds to the properties that the   *)
(* counters of sampler and sink are numbers of TS, and that EOF is only in *)
(* the channel once the sampler counts no more.  On top of it,             *)
(*   MissedInv: a reported index is missing in the source, and index 0 has *)
(*     its own cases, at the sampler and at the sink;                      *)
(*   OrderInv: the entries end at the last index of the sink, without      *)
(*     holes, and stored TS lie behind it;                                 *)
(*   ChainInv: these, and that what is to come is behind what was written; *)
(*   HeldInv: the map has no TS that the loop has passed or could take.    *)
(***************************************************************************)
EXTENDS TsDelivery, TLAPS, FiniteSetTheorems, SequenceTheorems, WellFoundedInduction

-----------------------------------------------------------------------------
(* Facts about the data.                                                   *)

\* A function on an interval that starts with 1 is a sequence.
LEMMA IntervalFunctionIsSeq ==
  ASSUME NEW S, NEW n \in Int, NEW f \in [1 .. n -> S]
  PROVE  f \in Seq(S) /\ Len(f) = IF n < 0 THEN 0 ELSE n
<1>1. CASE n >= 0
  BY <1>1
<1>2. CASE n < 0
  <2>1. 1 .. n = 1 .. 0
    BY <1>2
  <2>2. f \in [1 .. 0 -> S]
    BY <2>1
  <2> QED
    BY <1>2, <2>2
<1> QED
  BY <1>1, <1>2

\* A finite set of naturals that is not empty has a greatest element.
LEMMA GreatestExists ==
  ASSUME NEW B \in SUBSET Nat, IsFiniteSet(B), B # {}
  PROVE  \E h \in B : \A g \in B : g <= h
<1> DEFINE From(b) == {x \in B : b <= x}
           F == {From(b) : b \in B}
           R == StrictSubsetOrdering(B)
<1>1. IsWellFoundedOn(R, FiniteSubsetsOf(B))
  BY FS_StrictSubsetOrderingWellFounded
<1>2. F \subseteq FiniteSubsetsOf(B)
  BY FS_FiniteSubsetsOfFinite
<1>3. F # {}
  OBVIOUS
<1>4. PICK U \in F : \A V \in F : ~(<<V, U>> \in R)
  <2> HIDE DEF F, R
  <2> QED BY <1>1, <1>2, <1>3, WFMin
<1>5. PICK h \in B : U = From(h)
  OBVIOUS
<1>6. ASSUME NEW g \in B, ~(g <= h) PROVE FALSE
  <2> h \in Nat /\ g \in Nat /\ h < g
    BY <1>6
  <2>1. From(g) \subseteq From(h)
    <3> SUFFICES ASSUME NEW x \in B, g <= x PROVE h <= x
      OBVIOUS
    <3> x \in Nat
      OBVIOUS
    <3> QED OBVIOUS
  <2>2. h \in From(h) /\ h \notin From(g)
    OBVIOUS
  <2>3. <<From(g), From(h)>> \in R
    BY <2>1, <2>2 DEF StrictSubsetOrdering
  <2> QED
    BY <1>4, <1>5, <2>3
<1> QED
  BY <1>6

-----------------------------------------------------------------------------
(* Types of the values that CheckTsQueues works with.                      *)

\* The part of the map the loop of CheckTsQueues can reach is a finite part of it.
LEMMA ReachableType ==
  ASSUME NEW prev, NEW stored \in SUBSET Nat, IsFiniteSet(stored)
  PROVE  /\ Reachable(prev, stored) \subseteq stored
         /\ IsFiniteSet(Reachable(prev, stored))
         /\ Cardinality(Reachable(prev, stored)) \in Nat
BY FS_EmptySet, FS_CardinalityType DEF Reachable

\* The loop looks for 0 or for the index after the last one.
LEMMA FirstIndexType ==
  ASSUME NEW prev \in Nat, NEW stored, NEW missed
  PROVE  /\ FirstIndex(prev, stored, missed) \in Nat
         /\ FirstIndex(prev, stored, missed) \in {0, prev + 1}
BY DEF FirstIndex

\* The header branch holds a TS index or the header of no TS.
LEMMA HeaderAtType ==
  ASSUME NEW k \in Int, NEW first \in Nat, NEW full \in SUBSET Nat,
         NEW header \in Nat \cup {NoTs}
  PROVE  HeaderAt(k, first, full, header) \in Nat \cup {NoTs}
<1> DEFINE before == full \cap (first .. k)
<1>1. CASE before = {}
  BY <1>1 DEF HeaderAt
<1>2. CASE before # {}
  <2> IsFiniteSet(first .. k)
    BY FS_Interval
  <2>1. IsFiniteSet(before)
    BY FS_Intersection
  <2>2. \E h \in before : \A g \in before : g <= h
    BY <1>2, <2>1, GreatestExists
  <2> QED
    BY <1>2, <2>2 DEF HeaderAt
<1> QED
  BY <1>1, <1>2

\* An entry that the loop adds is an entry.
LEMMA DrainedEntryType ==
  ASSUME NEW k \in Nat, NEW first \in Nat, NEW full \in SUBSET Nat,
         NEW header \in Nat \cup {NoTs}
  PROVE  DrainedEntry(k, first, full, header) \in Entries
<1>1. HeaderAt(k, first, full, header) \in Nat \cup {NoTs}
  BY HeaderAtType
<1> QED
  BY <1>1 DEF DrainedEntry, Entries, Kinds

\* The part of the log that the loop adds.
Drained(first, n, full, header) ==
  [k \in 1 .. (n - first + 1) |-> DrainedEntry(first + k - 1, first, full, header)]

\* The entries that the loop adds are a sequence, one for each index it passes.
LEMMA DrainedType ==
  ASSUME NEW first \in Nat, NEW n \in Int, NEW full \in SUBSET Nat,
         NEW header \in Nat \cup {NoTs}, first - 1 <= n
  PROVE  /\ Drained(first, n, full, header) \in Seq(Entries)
         /\ Len(Drained(first, n, full, header)) = n - first + 1
<1> DEFINE f == Drained(first, n, full, header)
<1>1. f \in [1 .. (n - first + 1) -> Entries]
  <2> SUFFICES ASSUME NEW k \in 1 .. (n - first + 1)
               PROVE  DrainedEntry(first + k - 1, first, full, header) \in Entries
    BY DEF Drained
  <2> QED
    BY DrainedEntryType
<1> HIDE DEF f
<1> n - first + 1 \in Int /\ n - first + 1 >= 0
  OBVIOUS
<1>2. f \in Seq(Entries) /\ Len(f) = n - first + 1
  BY <1>1, IntervalFunctionIsSeq
<1> QED
  BY <1>2 DEF f

-----------------------------------------------------------------------------
(* What one call of CheckTsQueues does, free of the way Drains finds n and *)
(* m: the loop accounts for the indices first..n, each of them with a TS   *)
(* from the map (the set written) or with one of the first m missed ones.  *)

DrainEffect(prev, count, stored, missed, log, header, m, first, n, written, added) ==
  /\ first = FirstIndex(prev, stored, missed)
  /\ first - 1 <= n
  /\ written \subseteq first .. n
  /\ written \subseteq stored
  /\ written = (first .. n) \cap Reachable(prev, stored)
  /\ IsFiniteSet(written)
  /\ (first .. n) \ written = {missed[i] : i \in 1 .. m}
  /\ first \in (first .. n) \ written => MayStartMissed(count, first)
  /\ (n + 1) \notin Reachable(prev, stored)
  /\ Len(added) = n - first + 1
  /\ \A k \in 1 .. Len(added) :
       /\ added[k].ts = first + k - 1
       /\ added[k].kind = "full" <=> first + k - 1 \in written
  /\ fuPrevTsIndex' = IF first <= n THEN n ELSE prev
  /\ fulTsCounter' = count + Cardinality(written)
  /\ fulMissedTsCounter' = fulMissedTsCounter + m
  /\ fmFullTsStorage' = stored \ written
  /\ fvulMissedTsIndices' = SubSeq(missed, m + 1, Len(missed))
  /\ fEvtHeader' \in Nat \cup {NoTs}
  /\ processed' = log \o added
  /\ sinkState' \in {sinkState, "eof"}
  /\ sinkState' # sinkState =>
       fbReceivedEof /\ fuPrevTsIndex' = fuLastTsIndex /\ fulTsCounter' = fuTotalTsCount

\* Every run of CheckTsQueues has the effect DrainEffect, for some number of
\* missed indices and some interval of indices passed.
LEMMA DrainStep ==
  ASSUME NEW prev \in Nat, NEW count \in Nat,
         NEW stored \in SUBSET Nat, IsFiniteSet(stored),
         NEW missed \in Seq(Nat), NEW log, NEW header \in Nat \cup {NoTs},
         CheckTsQueues(prev, count, stored, missed, log, header)
  PROVE  \E m \in 0 .. Len(missed), first \in Nat, n \in Int,
            written \in SUBSET Nat, added \in Seq(Entries) :
           DrainEffect(prev, count, stored, missed, log, header,
                       m, first, n, written, added)
<1> DEFINE full  == Reachable(prev, stored)
           first == FirstIndex(prev, stored, missed)
<1>1. first \in Nat
  BY FirstIndexType
<1>2. full \subseteq stored /\ IsFiniteSet(full) /\ Cardinality(full) \in Nat
  BY ReachableType
<1> DEFINE Step(m, n) ==
             /\ Drains(prev, count, stored, missed, n, m)
             /\ LET run == first .. n IN
                /\ fuPrevTsIndex' = IF first <= n THEN n ELSE prev
                /\ fulTsCounter' = count + Cardinality(run \cap full)
                /\ fulMissedTsCounter' = fulMissedTsCounter + m
                /\ fmFullTsStorage' = stored \ (run \cap full)
                /\ fvulMissedTsIndices' = SubSeq(missed, m + 1, Len(missed))
                /\ fEvtHeader' = HeaderAt(n, first, full, header)
                /\ processed' = log \o Drained(first, n, full, header)
             /\ IF /\ fbReceivedEof
                   /\ fuPrevTsIndex' = fuLastTsIndex
                   /\ fulTsCounter' = fuTotalTsCount
                THEN Finish("eof")
                ELSE UNCHANGED sinkState
<1>3. PICK m \in 0 .. Len(missed) :
        \E n \in (first - 1) .. (first - 1 + m + Cardinality(full)) : Step(m, n)
  BY DEF CheckTsQueues, Drained, AllProcessed
<1>n. PICK n \in (first - 1) .. (first - 1 + m + Cardinality(full)) : Step(m, n)
  BY <1>3
<1> DEFINE written == (first .. n) \cap full
           added == Drained(first, n, full, header)
<1> n \in Int /\ first - 1 <= n
  BY <1>1, <1>2
<1>4. added \in Seq(Entries) /\ Len(added) = n - first + 1
  <2> HIDE DEF first, full
  <2> QED BY <1>1, <1>2, DrainedType
<1>5. IsFiniteSet(written)
  BY <1>2, FS_Intersection
<1>6. /\ (first .. n) \ written = {missed[i] : i \in 1 .. m}
      /\ first \in (first .. n) \ written => MayStartMissed(count, first)
      /\ (n + 1) \notin full
  <2> (first .. n) \ written = (first .. n) \ full
    OBVIOUS
  <2> QED BY <1>n DEF Drains
<1>7. \A k \in 1 .. Len(added) :
        /\ added[k].ts = first + k - 1
        /\ added[k].kind = "full" <=> first + k - 1 \in written
  <2> HIDE DEF first, full
  <2> SUFFICES ASSUME NEW k \in 1 .. Len(added)
               PROVE  /\ added[k].ts = first + k - 1
                      /\ added[k].kind = "full" <=> first + k - 1 \in written
    OBVIOUS
  <2>1. added[k] = DrainedEntry(first + k - 1, first, full, header)
    BY <1>4 DEF Drained
  <2>2. first + k - 1 \in first .. n
    BY <1>1, <1>4
  <2> QED
    BY <2>1, <2>2 DEF DrainedEntry
<1>8. fEvtHeader' \in Nat \cup {NoTs}
  <2> HIDE DEF first, full
  <2> QED BY <1>1, <1>2, <1>n, HeaderAtType
<1>9. /\ sinkState' \in {sinkState, "eof"}
      /\ sinkState' # sinkState =>
           fbReceivedEof /\ fuPrevTsIndex' = fuLastTsIndex /\ fulTsCounter' = fuTotalTsCount
  BY <1>n DEF Finish
<1>10. DrainEffect(prev, count, stored, missed, log, header, m, first, n, written, added)
  <2> HIDE DEF first, full, added
  <2> QED BY <1>1, <1>2, <1>n, <1>4, <1>5, <1>6, <1>7, <1>8, <1>9
          DEF DrainEffect, first, full, added
<1> HIDE DEF first, written, added
<1> written \in SUBSET Nat
  BY <1>2 DEF written
<1> QED
  BY <1>1, <1>4, <1>10

-----------------------------------------------------------------------------
(* Type correctness.  The map of early TS must be known to be finite, for  *)
(* the number of TS that the loop takes from it to be a number.            *)

SinkTypeInv == SinkTypeOK /\ IsFiniteSet(fmFullTsStorage)
TypeInv == TypeOK /\ IsFiniteSet(fmFullTsStorage)

\* CheckTsQueues, called with values of the right types, keeps the sink's types.
LEMMA DrainType ==
  ASSUME SinkTypeInv,
         NEW prev \in Nat, NEW count \in Nat,
         NEW stored \in SUBSET Nat, IsFiniteSet(stored),
         NEW missed \in Seq(Nat), NEW log \in Seq(Entries),
         NEW header \in Nat \cup {NoTs},
         CheckTsQueues(prev, count, stored, missed, log, header),
         UNCHANGED <<fbReceivedEof, fuLastTsIndex, fuTotalTsCount>>
  PROVE  SinkTypeInv'
<1>1. PICK m \in 0 .. Len(missed), first \in Nat, n \in Int,
           written \in SUBSET Nat, added \in Seq(Entries) :
        DrainEffect(prev, count, stored, missed, log, header, m, first, n, written, added)
  BY DrainStep
<1>2. fulTsCounter' \in Nat
  <2> Cardinality(written) \in Nat
    BY <1>1, FS_CardinalityType DEF DrainEffect
  <2> fulTsCounter' = count + Cardinality(written)
    BY <1>1 DEF DrainEffect
  <2> QED OBVIOUS
<1>3. fmFullTsStorage' \in SUBSET Nat /\ IsFiniteSet(fmFullTsStorage')
  BY <1>1, FS_Difference DEF DrainEffect
<1>4. fvulMissedTsIndices' \in Seq(Nat)
  <2>1. \A i \in (m + 1) .. Len(missed) : missed[i] \in Nat
    BY ElementOfSeq
  <2>2. SubSeq(missed, m + 1, Len(missed)) \in Seq(Nat)
    BY <2>1, SubSeqProperties
  <2> QED BY <1>1, <2>2 DEF DrainEffect
<1>5. processed' \in Seq(Entries)
  BY <1>1, ConcatProperties DEF DrainEffect
<1>6. /\ fuPrevTsIndex' \in Nat
      /\ fulMissedTsCounter' \in Nat
      /\ fEvtHeader' \in Nat \cup {NoTs}
      /\ sinkState' \in {"running", "eof", "stop"}
  <2>1. /\ fuPrevTsIndex' = IF first <= n THEN n ELSE prev
        /\ fulMissedTsCounter' = fulMissedTsCounter + m
        /\ fEvtHeader' \in Nat \cup {NoTs}
        /\ sinkState' \in {sinkState, "eof"}
    BY <1>1 DEF DrainEffect
  <2> QED
    BY <2>1 DEF SinkTypeInv, SinkTypeOK
<1> QED
  BY <1>2, <1>3, <1>4, <1>5, <1>6 DEF SinkTypeInv, SinkTypeOK

\* A vector of missed indices keeps the sink's types.
LEMMA HandleMissTsDataType ==
  ASSUME SinkTypeInv, NEW v \in Seq(Nat), HandleMissTsData(v)
  PROVE  SinkTypeInv'
<1> DEFINE missed == fvulMissedTsIndices \o v
<1>1. missed \in Seq(Nat)
  BY ConcatProperties DEF SinkTypeInv, SinkTypeOK
<1>2. CASE BypassConsecutiveTs
  BY <1>1, <1>2 DEF HandleMissTsData, SinkTypeInv, SinkTypeOK
<1>3. CASE ~BypassConsecutiveTs
  <2> HIDE DEF missed
  <2>1. /\ CheckTsQueues(fuPrevTsIndex, fulTsCounter, fmFullTsStorage, missed,
                         processed, fEvtHeader)
        /\ UNCHANGED <<fbReceivedEof, fuLastTsIndex, fuTotalTsCount>>
    BY <1>3 DEF HandleMissTsData, missed
  <2> QED
    BY <1>1, <2>1, DrainType DEF SinkTypeInv, SinkTypeOK
<1> QED
  BY <1>2, <1>3

\* The entry of a full TS is an entry.
LEMMA FullEntryType == ASSUME NEW idx \in Nat PROVE FullEntry(idx) \in Entries
BY DEF FullEntry, Entries, Kinds

\* A full TS keeps the sink's types, in both modes.
LEMMA HandleDataType ==
  ASSUME SinkTypeInv, NEW idx \in Nat, HandleData(idx)
  PROVE  SinkTypeInv'
<1>1. Append(processed, FullEntry(idx)) \in Seq(Entries)
  BY FullEntryType, AppendProperties DEF SinkTypeInv, SinkTypeOK
<1>2. IsFiniteSet(fmFullTsStorage \cup {idx})
  BY FS_AddElement DEF SinkTypeInv
<1>3. UNCHANGED <<fbReceivedEof, fuLastTsIndex, fuTotalTsCount>>
  BY DEF HandleData
<1>4. CASE HandleDataBypass(idx)
  BY <1>1, <1>3, <1>4 DEF HandleDataBypass, Finish, SinkTypeInv, SinkTypeOK
<1>5. CASE HandleDataDirect(idx)
  <2>1. CheckTsQueues(idx, fulTsCounter + 1, fmFullTsStorage, fvulMissedTsIndices,
                      Append(processed, FullEntry(idx)), idx)
    BY <1>5 DEF HandleDataDirect
  <2>2. /\ fulTsCounter + 1 \in Nat
        /\ fmFullTsStorage \in SUBSET Nat /\ IsFiniteSet(fmFullTsStorage)
        /\ fvulMissedTsIndices \in Seq(Nat)
    BY DEF SinkTypeInv, SinkTypeOK
  <2> QED
    BY <1>1, <1>3, <2>1, <2>2, DrainType
<1>6. CASE HandleDataStore(idx)
  <2>1. CheckTsQueues(fuPrevTsIndex, fulTsCounter, fmFullTsStorage \cup {idx},
                      fvulMissedTsIndices, processed, fEvtHeader)
    BY <1>6 DEF HandleDataStore
  <2>2. /\ fuPrevTsIndex \in Nat /\ fulTsCounter \in Nat
        /\ fmFullTsStorage \cup {idx} \in SUBSET Nat
        /\ fvulMissedTsIndices \in Seq(Nat)
        /\ processed \in Seq(Entries)
        /\ fEvtHeader \in Nat \cup {NoTs}
    BY DEF SinkTypeInv, SinkTypeOK
  <2> QED
    BY <1>2, <1>3, <2>1, <2>2, DrainType
<1> QED
  BY <1>4, <1>5, <1>6 DEF HandleData

Commands == [tag : {"EOF"}, last : Nat, total : Nat] \cup [tag : {"STOP"}]

\* EOF and STOP keep the sink's types.
LEMMA HandleCommandType ==
  ASSUME SinkTypeInv, NEW cmd \in Commands, HandleCommand(cmd)
  PROVE  SinkTypeInv'
<1> USE DEF SinkTypeInv, SinkTypeOK, HandleCommand, Finish
<1>1. CASE HandleEof(cmd)
  <2> cmd.last \in Nat /\ cmd.total \in Nat
    BY <1>1 DEF HandleEof, Commands
  <2> QED BY <1>1 DEF HandleEof
<1>2. CASE HandleStop(cmd)
  BY <1>2 DEF HandleStop
<1> QED
  BY <1>1, <1>2

\* GetNewTs sends a sequence of indices, the empty one if there is no gap.
LEMMA MissedIndicesType ==
  ASSUME NEW prev \in Nat, NEW count \in Nat, NEW i \in Nat
  PROVE  MissedIndices(prev, count, i) \in Seq(Nat)
<1> DEFINE first == FirstMissed(prev, count)
<1>1. first \in Nat
  BY DEF FirstMissed
<1>2. MissedIndices(prev, count, i) \in [1 .. (i - first) -> Nat]
  <2> HIDE DEF first
  <2> QED BY <1>1 DEF MissedIndices, first
<1>3. i - first \in Int
  BY <1>1
<1> HIDE DEF first
<1> QED
  BY <1>2, <1>3, IntervalFunctionIsSeq

\* The types hold initially.
LEMMA TypeInvInit == Init => TypeInv
<1> SUFFICES ASSUME Init PROVE TypeInv
  OBVIOUS
<1>1. SinkTypeOK
  BY EmptySeq DEF Init, SinkInit, SinkTypeOK
<1> QED
  BY <1>1, FS_EmptySet DEF Init, SinkInit, TypeInv, TypeOK

\* Steps of the sampler and of the channels keep the sink's types.
LEMMA SinkTypeUnchanged == SinkTypeInv /\ UNCHANGED sinkVars => SinkTypeInv'
BY DEF SinkTypeInv, SinkTypeOK, sinkVars

\* The part of TypeOK about the sampler and the channels.
SamplerTypeOK ==
  /\ smpPrevTsIndex \in Nat
  /\ smpTsCounter \in Nat
  /\ smpState \in {"running", "eof", "stopped"}
  /\ srcNext \in Nat
  /\ missedts \in Seq(Seq(Nat))
  /\ commands \in Seq(Commands)
  /\ inFlight \in SUBSET TsIndices
  /\ taken \in SUBSET TsIndices
  /\ lost \in SUBSET TsIndices

\* The types are those of the sink and those of the rest.
LEMMA TypeInvParts == TypeInv <=> SinkTypeInv /\ SamplerTypeOK
BY DEF TypeInv, TypeOK, SinkTypeInv, SamplerTypeOK, Commands

\* Every step of sampler, channels and sink keeps the types.
LEMMA TypeInvStep == TypeInv /\ [Next]_vars => TypeInv'
<1> SUFFICES ASSUME SinkTypeInv, SamplerTypeOK, [Next]_vars
             PROVE  SinkTypeInv' /\ SamplerTypeOK'
  BY TypeInvParts DEF TypeInv, TypeOK, SinkTypeInv, SamplerTypeOK, Commands
<1>a. TsIndices \subseteq Nat
  BY DeliveryAssumption
<1>b. ASSUME NEW i \in TsIndices, ReportMissed(i) PROVE missedts' \in Seq(Seq(Nat))
  <2>1. MissedIndices(smpPrevTsIndex, smpTsCounter, i) \in Seq(Nat)
    BY <1>a, MissedIndicesType DEF SamplerTypeOK
  <2> HIDE DEF MissedIndices
  <2> QED
    BY <1>b, <2>1, AppendProperties DEF ReportMissed, SamplerTypeOK
<1>c. SayStopTwice => commands' \in Seq(Commands)
  <2>1. Stop \in Commands
    BY DEF Stop, Commands
  <2>2. <<Stop, Stop>> \in Seq(Commands)
    BY <2>1
  <2>3. commands \in Seq(Commands)
    BY DEF SamplerTypeOK
  <2>4. commands \o <<Stop, Stop>> \in Seq(Commands)
    BY <2>2, <2>3, ConcatProperties
  <2>5. Append(commands, Stop) \in Seq(Commands)
    BY <2>1, <2>3, AppendProperties
  <2> QED
    BY <2>3, <2>4, <2>5 DEF SayStopTwice
<1>1. ASSUME NEW i \in TsIndices, SampleTs(i) PROVE SinkTypeInv' /\ SamplerTypeOK'
  <2>1. SinkTypeInv'
    BY <1>1, SinkTypeUnchanged DEF SampleTs
  <2>2. missedts' \in Seq(Seq(Nat))
    BY <1>1, <1>b DEF SampleTs
  <2>3. SamplerTypeOK'
    BY <1>a, <1>1, <2>2 DEF SampleTs, NewTs, Count, SamplerTypeOK
  <2> QED BY <2>1, <2>3
<1>2. ASSUME NEW i \in TsIndices, MissedSendFails(i) PROVE SinkTypeInv' /\ SamplerTypeOK'
  <2>1. SinkTypeInv'
    BY <1>2, SinkTypeUnchanged DEF MissedSendFails
  <2>2. SamplerTypeOK'
    BY <1>a, <1>c, <1>2 DEF MissedSendFails, NewTs, SamplerTypeOK
  <2> QED BY <2>1, <2>2
<1>3. ASSUME NEW i \in TsIndices, DataSendFails(i) PROVE SinkTypeInv' /\ SamplerTypeOK'
  <2>1. SinkTypeInv'
    BY <1>3, SinkTypeUnchanged DEF DataSendFails
  <2>2. missedts' \in Seq(Seq(Nat))
    BY <1>3, <1>b DEF DataSendFails
  <2>3. SamplerTypeOK'
    BY <1>a, <1>c, <1>3, <2>2 DEF DataSendFails, NewTs, Count, SamplerTypeOK
  <2> QED BY <2>1, <2>3
<1>4. CASE EndOfData
  <2>1. SinkTypeInv'
    BY <1>4, SinkTypeUnchanged DEF EndOfData
  <2>2. commands' \in Seq(Commands)
    <3> Eof(smpPrevTsIndex, smpTsCounter) \in Commands
      BY DEF Eof, Commands, SamplerTypeOK
    <3> Append(commands, Eof(smpPrevTsIndex, smpTsCounter)) \in Seq(Commands)
      BY AppendProperties DEF SamplerTypeOK
    <3> QED BY <1>4 DEF EndOfData, SayEof, SamplerTypeOK
  <2>3. SamplerTypeOK'
    BY <1>4, <2>2 DEF EndOfData, SamplerTypeOK
  <2> QED BY <2>1, <2>3
<1>5. CASE DeliverData
  <2>1. PICK i \in inFlight : HandleData(i) /\ inFlight' = inFlight \ {i}
    BY <1>5 DEF DeliverData
  <2>2. SinkTypeInv'
    BY <1>a, <2>1, HandleDataType DEF SamplerTypeOK
  <2>3. SamplerTypeOK'
    BY <1>5, <2>1 DEF DeliverData, smpVars, SamplerTypeOK
  <2> QED BY <2>2, <2>3
<1>6. CASE DeliverMissed
  <2>1. Head(missedts) \in Seq(Nat) /\ Tail(missedts) \in Seq(Seq(Nat))
    BY <1>6, HeadTailProperties DEF DeliverMissed, SamplerTypeOK
  <2>2. SinkTypeInv'
    BY <1>6, <2>1, HandleMissTsDataType DEF DeliverMissed
  <2>3. SamplerTypeOK'
    BY <1>6, <2>1 DEF DeliverMissed, smpVars, SamplerTypeOK
  <2> QED BY <2>2, <2>3
<1>7. CASE DeliverCommand
  <2>1. Head(commands) \in Commands /\ Tail(commands) \in Seq(Commands)
    BY <1>7, HeadTailProperties DEF DeliverCommand, SamplerTypeOK
  <2>2. SinkTypeInv'
    BY <1>7, <2>1, HandleCommandType DEF DeliverCommand
  <2>3. SamplerTypeOK'
    BY <1>7, <2>1 DEF DeliverCommand, smpVars, SamplerTypeOK
  <2> QED BY <2>2, <2>3
<1>8. CASE LoseTs
  <2>1. SinkTypeInv'
    BY <1>8, SinkTypeUnchanged DEF LoseTs
  <2>2. SamplerTypeOK'
    BY <1>8 DEF LoseTs, smpVars, SamplerTypeOK
  <2> QED BY <2>1, <2>2
<1>9. CASE UNCHANGED vars
  BY <1>9, SinkTypeUnchanged DEF vars, smpVars, netVars, SamplerTypeOK
<1> QED
  BY <1>1, <1>2, <1>3, <1>4, <1>5, <1>6, <1>7, <1>8, <1>9 DEF Next

\* Whatever the order of the messages and the failures, the state of sampler,
\* channels and sink has the declared types, and the map of the sink is finite.
THEOREM TypeCorrect == Spec => []TypeOK
<1>1. Spec => []TypeInv
  BY TypeInvInit, TypeInvStep, PTL DEF Spec
<1>2. TypeInv => TypeOK
  BY DEF TypeInv
<1> QED
  BY <1>1, <1>2, PTL

-----------------------------------------------------------------------------
(* Where the TS are.                                                       *)

\* The counters of sampler and sink are numbers of TS.
Counted ==
  /\ IsFiniteSet(taken) /\ Cardinality(taken) = smpTsCounter
  /\ IsFiniteSet(WrittenFull) /\ Cardinality(WrittenFull) = fulTsCounter
  /\ \A i \in taken : i < srcNext

\* EOF is said once nothing more can be taken, and the sink closes upon EOF
\* when it has written as many TS as there are.
Ended ==
  /\ \A k \in 1 .. Len(commands) :
       commands[k].tag = "EOF" => smpState # "running" /\ commands[k].total = smpTsCounter
  /\ fbReceivedEof => smpState # "running" /\ fuTotalTsCount = smpTsCounter
  /\ sinkState = "eof" => fbReceivedEof
  /\ ~BypassConsecutiveTs /\ sinkState = "eof" => fulTsCounter = smpTsCounter

Bookkeeping == TypeInv /\ EveryTsInOnePlace /\ Counted /\ Ended

\* Writing a TS adds its index to the full TS of the log.
LEMMA FullInAppend ==
  ASSUME NEW log \in Seq(Entries), NEW idx \in Nat
  PROVE  FullIn(Append(log, FullEntry(idx))) = FullIn(log) \cup {idx}
<1> DEFINE new == Append(log, FullEntry(idx))
<1>1. /\ new \in Seq(Entries) /\ Len(new) = Len(log) + 1
      /\ \A i \in 1 .. Len(log) : new[i] = log[i]
      /\ new[Len(log) + 1] = FullEntry(idx)
  BY FullEntryType, AppendProperties
<1>2. DOMAIN new = 1 .. Len(new) /\ DOMAIN log = 1 .. Len(log) /\ Len(log) \in Nat
  BY <1>1, LenProperties
<1> HIDE DEF new
<1>3. FullEntry(idx).ts = idx /\ FullEntry(idx).kind = "full"
  BY DEF FullEntry
<1>4. FullIn(new) \subseteq FullIn(log) \cup {idx}
  BY <1>1, <1>2, <1>3 DEF FullIn
<1>5. FullIn(log) \subseteq FullIn(new)
  BY <1>1, <1>2 DEF FullIn
<1>6. idx \in FullIn(new)
  <2> Len(log) + 1 \in DOMAIN new
    BY <1>1, <1>2
  <2> QED BY <1>1, <1>3 DEF FullIn
<1> QED
  BY <1>4, <1>5, <1>6 DEF new

\* The full TS of two logs joined are those of both.
LEMMA FullInConcat ==
  ASSUME NEW log \in Seq(Entries), NEW added \in Seq(Entries)
  PROVE  FullIn(log \o added) = FullIn(log) \cup FullIn(added)
<1> DEFINE new == log \o added
<1>1. /\ new \in Seq(Entries) /\ Len(new) = Len(log) + Len(added)
      /\ \A i \in 1 .. Len(log) : new[i] = log[i]
      /\ \A i \in 1 .. Len(added) : new[Len(log) + i] = added[i]
  BY ConcatProperties
<1>2. /\ DOMAIN new = 1 .. Len(new)
      /\ DOMAIN log = 1 .. Len(log) /\ DOMAIN added = 1 .. Len(added)
      /\ Len(log) \in Nat /\ Len(added) \in Nat
  BY <1>1, LenProperties
<1> HIDE DEF new
<1>3. ASSUME NEW x \in FullIn(new) PROVE x \in FullIn(log) \cup FullIn(added)
  <2> PICK i \in 1 .. Len(new) : new[i].kind = "full" /\ x = new[i].ts
    BY <1>2 DEF FullIn
  <2>1. CASE i <= Len(log)
    <3> i \in DOMAIN log /\ new[i] = log[i]
      BY <1>1, <1>2, <2>1
    <3> QED BY DEF FullIn
  <2>2. CASE Len(log) < i
    <3> i - Len(log) \in 1 .. Len(added) /\ i = Len(log) + (i - Len(log))
      BY <1>1, <1>2, <2>2
    <3> new[i] = added[i - Len(log)]
      BY <1>1
    <3> QED BY <1>2 DEF FullIn
  <2> QED BY <2>1, <2>2, <1>2
<1>4. FullIn(log) \subseteq FullIn(new)
  BY <1>1, <1>2 DEF FullIn
<1>5. ASSUME NEW x \in FullIn(added) PROVE x \in FullIn(new)
  <2> PICK i \in 1 .. Len(added) : added[i].kind = "full" /\ x = added[i].ts
    BY <1>2 DEF FullIn
  <2> Len(log) + i \in DOMAIN new /\ new[Len(log) + i] = added[i]
    BY <1>1, <1>2
  <2> QED BY DEF FullIn
<1> QED
  BY <1>3, <1>4, <1>5 DEF new

\* The full entries that the loop adds are the TS taken from the map.
LEMMA DrainedFull ==
  ASSUME NEW prev, NEW count, NEW stored, NEW missed, NEW log, NEW header,
         NEW m, NEW first \in Nat, NEW n \in Int,
         NEW written \in SUBSET Nat, NEW added \in Seq(Entries),
         DrainEffect(prev, count, stored, missed, log, header, m, first, n, written, added)
  PROVE  FullIn(added) = written
<1>1. /\ written \subseteq first .. n
      /\ Len(added) = n - first + 1
      /\ \A k \in 1 .. Len(added) :
           /\ added[k].ts = first + k - 1
           /\ added[k].kind = "full" <=> first + k - 1 \in written
  BY DEF DrainEffect
<1>2. DOMAIN added = 1 .. Len(added)
  BY LenProperties
<1>3. FullIn(added) \subseteq written
  BY <1>1, <1>2 DEF FullIn
<1>4. ASSUME NEW x \in written PROVE x \in FullIn(added)
  <2> DEFINE k == x - first + 1
  <2> k \in 1 .. Len(added) /\ x = first + k - 1
    BY <1>1
  <2> HIDE DEF k
  <2> QED BY <1>1, <1>2 DEF FullIn
<1> QED
  BY <1>3, <1>4

\* What CheckTsQueues does to the places of the TS in the sink.
SinkPlaces ==
  /\ fmFullTsStorage \cap WrittenFull = {}
  /\ IsFiniteSet(WrittenFull) /\ Cardinality(WrittenFull) = fulTsCounter

SinkHas(S) ==
  /\ SinkPlaces'
  /\ fmFullTsStorage' \cup WrittenFull' = S
  /\ sinkState' \in {sinkState, "eof"}
  /\ sinkState' # sinkState => fbReceivedEof
  /\ ~BypassConsecutiveTs /\ sinkState' # sinkState => fulTsCounter' = fuTotalTsCount

\* CheckTsQueues moves TS from the map to the file, and counts each it moves: it
\* neither drops nor repeats one.
LEMMA DrainMoves ==
  ASSUME NEW prev \in Nat, NEW count \in Nat,
         NEW stored \in SUBSET Nat, IsFiniteSet(stored),
         NEW missed \in Seq(Nat), NEW log \in Seq(Entries),
         NEW header \in Nat \cup {NoTs},
         CheckTsQueues(prev, count, stored, missed, log, header),
         stored \cap FullIn(log) = {},
         IsFiniteSet(FullIn(log)), Cardinality(FullIn(log)) = count
  PROVE  SinkHas(stored \cup FullIn(log))
<1>1. PICK m \in 0 .. Len(missed), first \in Nat, n \in Int,
           written \in SUBSET Nat, added \in Seq(Entries) :
        DrainEffect(prev, count, stored, missed, log, header, m, first, n, written, added)
  BY DrainStep
<1>2. FullIn(added) = written
  BY <1>1, DrainedFull
<1>3. /\ written \subseteq stored
      /\ IsFiniteSet(written)
      /\ fulTsCounter' = count + Cardinality(written)
      /\ fmFullTsStorage' = stored \ written
      /\ processed' = log \o added
      /\ sinkState' \in {sinkState, "eof"}
      /\ sinkState' # sinkState => fbReceivedEof /\ fulTsCounter' = fuTotalTsCount
  BY <1>1 DEF DrainEffect
<1>4. WrittenFull' = FullIn(log) \cup written
  BY <1>2, <1>3, FullInConcat DEF WrittenFull
<1>5. IsFiniteSet(WrittenFull') /\ Cardinality(WrittenFull') = fulTsCounter'
  <2>1. FullIn(log) \cap written = {}
    BY <1>3
  <2>2. /\ IsFiniteSet(FullIn(log) \cup written)
        /\ Cardinality(FullIn(log) \cup written)
             = count + Cardinality(written) - Cardinality(FullIn(log) \cap written)
    BY <1>3, FS_Union
  <2>3. Cardinality(FullIn(log) \cap written) = 0 /\ Cardinality(written) \in Nat
    BY <1>3, <2>1, FS_EmptySet, FS_CardinalityType
  <2> QED BY <1>3, <1>4, <2>2, <2>3
<1>6. fmFullTsStorage' \cap WrittenFull' = {}
  BY <1>3, <1>4
<1>7. fmFullTsStorage' \cup WrittenFull' = stored \cup FullIn(log)
  BY <1>3, <1>4
<1> QED
  BY <1>3, <1>5, <1>6, <1>7 DEF SinkHas, SinkPlaces

\* HandleData adds the TS that came to those the sink has, and nothing else.
LEMMA DataMoves ==
  ASSUME SinkTypeInv, SinkPlaces, NEW idx \in Nat, HandleData(idx),
         idx \notin fmFullTsStorage \cup WrittenFull
  PROVE  /\ SinkHas(fmFullTsStorage \cup WrittenFull \cup {idx})
         /\ sinkState = "running"
         /\ UNCHANGED <<fbReceivedEof, fuTotalTsCount>>
<1> DEFINE log == Append(processed, FullEntry(idx))
<1>1. log \in Seq(Entries) /\ FullIn(log) = WrittenFull \cup {idx}
  BY FullEntryType, AppendProperties, FullInAppend DEF WrittenFull, SinkTypeInv, SinkTypeOK
<1>2. IsFiniteSet(FullIn(log)) /\ Cardinality(FullIn(log)) = fulTsCounter + 1
  BY <1>1, FS_AddElement DEF SinkPlaces
<1> HIDE DEF log
<1>3. UNCHANGED <<fbReceivedEof, fuTotalTsCount>> /\ sinkState = "running"
  BY DEF HandleData
<1>4. CASE HandleDataBypass(idx)
  <2>1. /\ processed' = log /\ fulTsCounter' = fulTsCounter + 1
        /\ fmFullTsStorage' = fmFullTsStorage
        /\ BypassConsecutiveTs
        /\ sinkState' \in {sinkState, "eof"}
        /\ sinkState' # sinkState => fbReceivedEof
    BY <1>3, <1>4 DEF HandleDataBypass, Finish, log
  <2>2. WrittenFull' = WrittenFull \cup {idx}
    BY <1>1, <2>1 DEF WrittenFull
  <2>3. SinkPlaces'
    BY <1>1, <1>2, <2>1, <2>2 DEF SinkPlaces
  <2> QED
    BY <1>3, <2>1, <2>2, <2>3 DEF SinkHas
<1>5. CASE HandleDataDirect(idx)
  <2>1. CheckTsQueues(idx, fulTsCounter + 1, fmFullTsStorage, fvulMissedTsIndices, log, idx)
    BY <1>5 DEF HandleDataDirect, log
  <2>2. /\ fulTsCounter + 1 \in Nat
        /\ fmFullTsStorage \in SUBSET Nat /\ IsFiniteSet(fmFullTsStorage)
        /\ fvulMissedTsIndices \in Seq(Nat)
    BY DEF SinkTypeInv, SinkTypeOK
  <2>3. fmFullTsStorage \cap FullIn(log) = {}
    BY <1>1 DEF SinkPlaces
  <2>4. SinkHas(fmFullTsStorage \cup FullIn(log))
    BY <1>1, <1>2, <2>1, <2>2, <2>3, DrainMoves
  <2>5. fmFullTsStorage \cup FullIn(log) = fmFullTsStorage \cup WrittenFull \cup {idx}
    BY <1>1
  <2> QED
    BY <1>3, <2>4, <2>5
<1>6. CASE HandleDataStore(idx)
  <2>1. CheckTsQueues(fuPrevTsIndex, fulTsCounter, fmFullTsStorage \cup {idx},
                      fvulMissedTsIndices, processed, fEvtHeader)
    BY <1>6 DEF HandleDataStore
  <2>2. /\ fuPrevTsIndex \in Nat /\ fulTsCounter \in Nat
        /\ fmFullTsStorage \cup {idx} \in SUBSET Nat
        /\ IsFiniteSet(fmFullTsStorage \cup {idx})
        /\ fvulMissedTsIndices \in Seq(Nat)
        /\ processed \in Seq(Entries)
        /\ fEvtHeader \in Nat \cup {NoTs}
    BY FS_AddElement DEF SinkTypeInv, SinkTypeOK
  <2>3. (fmFullTsStorage \cup {idx}) \cap FullIn(processed) = {}
    BY DEF SinkPlaces, WrittenFull
  <2>4. IsFiniteSet(FullIn(processed)) /\ Cardinality(FullIn(processed)) = fulTsCounter
    BY DEF SinkPlaces, WrittenFull
  <2>5. SinkHas((fmFullTsStorage \cup {idx}) \cup FullIn(processed))
    BY <2>1, <2>2, <2>3, <2>4, DrainMoves
  <2>6. (fmFullTsStorage \cup {idx}) \cup FullIn(processed)
           = fmFullTsStorage \cup WrittenFull \cup {idx}
    BY DEF WrittenFull
  <2> QED
    BY <1>3, <2>5, <2>6
<1> QED
  BY <1>4, <1>5, <1>6 DEF HandleData

\* HandleMissTsData leaves the sink with the TS it has.
LEMMA MissedMoves ==
  ASSUME SinkTypeInv, SinkPlaces, NEW v \in Seq(Nat), HandleMissTsData(v)
  PROVE  /\ SinkHas(fmFullTsStorage \cup WrittenFull)
         /\ sinkState = "running"
         /\ UNCHANGED <<fbReceivedEof, fuTotalTsCount>>
<1> DEFINE missed == fvulMissedTsIndices \o v
<1>1. missed \in Seq(Nat)
  BY ConcatProperties DEF SinkTypeInv, SinkTypeOK
<1>2. UNCHANGED <<fbReceivedEof, fuTotalTsCount>> /\ sinkState = "running"
  BY DEF HandleMissTsData
<1>3. CASE BypassConsecutiveTs
  BY <1>2, <1>3 DEF HandleMissTsData, SinkPlaces, SinkHas, WrittenFull
<1>4. CASE ~BypassConsecutiveTs
  <2> HIDE DEF missed
  <2>1. CheckTsQueues(fuPrevTsIndex, fulTsCounter, fmFullTsStorage, missed,
                      processed, fEvtHeader)
    BY <1>4 DEF HandleMissTsData, missed
  <2>2. /\ fuPrevTsIndex \in Nat /\ fulTsCounter \in Nat
        /\ fmFullTsStorage \in SUBSET Nat /\ IsFiniteSet(fmFullTsStorage)
        /\ processed \in Seq(Entries)
        /\ fEvtHeader \in Nat \cup {NoTs}
    BY DEF SinkTypeInv, SinkTypeOK
  <2>3. /\ fmFullTsStorage \cap FullIn(processed) = {}
        /\ IsFiniteSet(FullIn(processed)) /\ Cardinality(FullIn(processed)) = fulTsCounter
    BY DEF SinkPlaces, WrittenFull
  <2>4. SinkHas(fmFullTsStorage \cup FullIn(processed))
    BY <1>1, <2>1, <2>2, <2>3, DrainMoves
  <2> QED
    BY <1>2, <2>4 DEF WrittenFull
<1> QED
  BY <1>3, <1>4

\* A TS that the sampler counts is a new one.
LEMMA CountMoves ==
  ASSUME TypeInv, Counted, NEW i \in TsIndices, NewTs(i), Count(i)
  PROVE  /\ i \notin taken
         /\ IsFiniteSet(taken') /\ Cardinality(taken') = smpTsCounter'
         /\ \A j \in taken' : j < srcNext'
<1> USE DeliveryAssumption DEF Counted, NewTs, Count
<1>1. i \in Nat /\ srcNext \in Nat /\ srcNext <= i
  BY DEF TypeInv, TypeOK
<1>2. i \notin taken /\ \A j \in taken : j \in Nat /\ j < srcNext
  BY <1>1 DEF TypeInv, TypeOK
<1>3. IsFiniteSet(taken \cup {i}) /\ Cardinality(taken \cup {i}) = smpTsCounter + 1
  BY <1>2, FS_AddElement
<1> QED
  BY <1>1, <1>2, <1>3

\* The bookkeeping invariant holds initially.
LEMMA BookkeepingInit == Init => Bookkeeping
<1> SUFFICES ASSUME Init PROVE Bookkeeping
  OBVIOUS
<1>1. WrittenFull = {}
  BY DEF Init, SinkInit, WrittenFull, FullIn
<1>2. EveryTsInOnePlace
  BY <1>1 DEF Init, SinkInit, EveryTsInOnePlace
<1>3. Counted
  BY <1>1, FS_EmptySet DEF Init, SinkInit, Counted
<1>4. Ended
  BY DEF Init, SinkInit, Ended
<1> QED
  BY <1>2, <1>3, <1>4, TypeInvInit DEF Bookkeeping

\* Every step keeps the bookkeeping invariant.
LEMMA BookkeepingStep == Bookkeeping /\ [Next]_vars => Bookkeeping'
<1> SUFFICES ASSUME Bookkeeping, [Next]_vars
             PROVE  EveryTsInOnePlace' /\ Counted' /\ Ended'
  BY TypeInvStep DEF Bookkeeping
<1>a. TypeInv /\ EveryTsInOnePlace /\ Counted /\ Ended
  BY DEF Bookkeeping
<1>b. SinkTypeInv /\ SamplerTypeOK /\ TsIndices \subseteq Nat
  BY <1>a, TypeInvParts, DeliveryAssumption
<1>c. SinkPlaces
  BY <1>a DEF EveryTsInOnePlace, Counted, SinkPlaces
<1>d. ASSUME UNCHANGED sinkVars
      PROVE  UNCHANGED <<fmFullTsStorage, WrittenFull, fulTsCounter, fbReceivedEof,
                         fuTotalTsCount, sinkState>>
  BY <1>d DEF sinkVars, WrittenFull
\* After an ending only a STOP is added to the commands.
<1>e. ASSUME smpState = "running", smpState' = "stopped",
             SayStopTwice, UNCHANGED sinkVars
      PROVE  Ended'
  <2>1. commands \in Seq(Commands) /\ Len(commands) \in Nat
    BY <1>b DEF SamplerTypeOK
  <2>2. /\ Len(commands') \in Nat
        /\ \A k \in 1 .. Len(commands') :
             commands'[k] = IF k <= Len(commands) THEN commands[k] ELSE Stop
    <3>1. CASE commands' = commands \o <<Stop, Stop>>
      BY <2>1, <3>1
    <3>2. CASE commands' = Append(commands, Stop)
      BY <2>1, <3>2
    <3>3. CASE commands' = commands
      BY <2>1, <3>3
    <3> QED BY <1>e, <3>1, <3>2, <3>3 DEF SayStopTwice
  <2>3. Stop.tag # "EOF"
    BY DEF Stop
  <2>4. \A k \in 1 .. Len(commands') : commands'[k].tag # "EOF"
    BY <1>a, <1>e, <2>1, <2>2, <2>3 DEF Ended
  <2>5. ~fbReceivedEof /\ sinkState # "eof"
    BY <1>a, <1>e DEF Ended
  <2> QED
    BY <1>d, <1>e, <2>4, <2>5 DEF Ended
<1>1. ASSUME NEW i \in TsIndices, SampleTs(i)
      PROVE  EveryTsInOnePlace' /\ Counted' /\ Ended'
  <2>1. /\ NewTs(i) /\ Count(i) /\ inFlight' = inFlight \cup {i}
        /\ UNCHANGED <<smpState, commands, lost, sinkVars>> /\ smpState = "running"
    BY <1>1 DEF SampleTs, NewTs
  <2>2. /\ i \notin taken /\ taken' = taken \cup {i}
        /\ IsFiniteSet(taken') /\ Cardinality(taken') = smpTsCounter'
        /\ \A j \in taken' : j < srcNext'
    BY <1>a, <2>1, CountMoves DEF Count
  <2>3. EveryTsInOnePlace'
    BY <1>a, <1>d, <2>1, <2>2 DEF EveryTsInOnePlace
  <2>4. Counted'
    BY <1>a, <1>d, <2>1, <2>2 DEF Counted
  <2>5. Ended'
    BY <1>a, <1>d, <2>1 DEF Ended
  <2> QED BY <2>3, <2>4, <2>5
<1>2. ASSUME NEW i \in TsIndices, MissedSendFails(i)
      PROVE  EveryTsInOnePlace' /\ Counted' /\ Ended'
  <2>1. /\ smpState = "running" /\ smpState' = "stopped"
        /\ SayStopTwice
        /\ UNCHANGED <<smpTsCounter, taken, inFlight, lost, sinkVars>>
        /\ srcNext' = i + 1 /\ srcNext <= i
    BY <1>2 DEF MissedSendFails, NewTs
  <2>2. EveryTsInOnePlace'
    BY <1>a, <1>d, <2>1 DEF EveryTsInOnePlace
  <2>3. Counted'
    <3> \A j \in taken : j \in Nat /\ j < i + 1
      BY <1>a, <1>b, <2>1 DEF Counted, SamplerTypeOK
    <3> QED BY <1>a, <1>d, <2>1 DEF Counted
  <2> QED BY <1>e, <2>1, <2>2, <2>3
<1>3. ASSUME NEW i \in TsIndices, DataSendFails(i)
      PROVE  EveryTsInOnePlace' /\ Counted' /\ Ended'
  <2>1. /\ NewTs(i) /\ Count(i) /\ lost' = lost \cup {i}
        /\ smpState = "running" /\ smpState' = "stopped"
        /\ SayStopTwice
        /\ UNCHANGED <<inFlight, sinkVars>>
    BY <1>3 DEF DataSendFails, NewTs
  <2>2. /\ i \notin taken /\ taken' = taken \cup {i}
        /\ IsFiniteSet(taken') /\ Cardinality(taken') = smpTsCounter'
        /\ \A j \in taken' : j < srcNext'
    BY <1>a, <2>1, CountMoves DEF Count
  <2>3. EveryTsInOnePlace'
    BY <1>a, <1>d, <2>1, <2>2 DEF EveryTsInOnePlace
  <2>4. Counted'
    BY <1>a, <1>d, <2>1, <2>2 DEF Counted
  <2> QED BY <1>e, <2>1, <2>3, <2>4
<1>4. CASE EndOfData
  <2>1. /\ smpState = "running" /\ smpState' = "eof"
        /\ SayEof
        /\ UNCHANGED <<smpTsCounter, srcNext, taken, inFlight, lost, sinkVars>>
    BY <1>4 DEF EndOfData
  <2>2. EveryTsInOnePlace' /\ Counted'
    BY <1>a, <1>d, <2>1 DEF EveryTsInOnePlace, Counted
  <2>3. /\ Len(commands') \in Nat /\ Len(commands) \in Nat
        /\ \A k \in 1 .. Len(commands') :
             commands'[k] = IF k <= Len(commands) THEN commands[k]
                            ELSE Eof(smpPrevTsIndex, smpTsCounter)
    <3>1. commands \in Seq(Commands) /\ Len(commands) \in Nat
      BY <1>b DEF SamplerTypeOK
    <3>2. CASE commands' = Append(commands, Eof(smpPrevTsIndex, smpTsCounter))
      BY <3>1, <3>2
    <3>3. CASE commands' = commands
      BY <3>1, <3>3
    <3> QED BY <2>1, <3>2, <3>3 DEF SayEof
  <2>4. Eof(smpPrevTsIndex, smpTsCounter).total = smpTsCounter
    BY DEF Eof
  <2>5. \A k \in 1 .. Len(commands') :
          commands'[k].tag = "EOF" => commands'[k].total = smpTsCounter
    <3> SUFFICES ASSUME NEW k \in 1 .. Len(commands'), commands'[k].tag = "EOF"
                 PROVE  commands'[k].total = smpTsCounter
      OBVIOUS
    <3>1. CASE k <= Len(commands)
      BY <1>a, <2>3, <3>1 DEF Ended
    <3>2. CASE Len(commands) < k
      BY <2>3, <2>4, <3>2
    <3> QED BY <2>3, <3>1, <3>2
  <2>6. ~fbReceivedEof /\ sinkState # "eof"
    BY <1>a, <2>1 DEF Ended
  <2>7. Ended'
    BY <1>d, <2>1, <2>5, <2>6 DEF Ended
  <2> QED BY <2>2, <2>7
\* A message to the sink that leaves the TS in it, and maybe a new one.
<1>f. ASSUME NEW S, SinkHas(S), sinkState = "running",
             UNCHANGED <<fbReceivedEof, fuTotalTsCount>>,
             UNCHANGED <<smpVars, commands>>
      PROVE  Counted' /\ Ended'
  <2>1. Counted'
    BY <1>a, <1>f DEF SinkHas, SinkPlaces, Counted, smpVars
  <2>2. sinkState' = "eof" => fbReceivedEof
    BY <1>f DEF SinkHas
  <2>3. ~BypassConsecutiveTs /\ sinkState' = "eof" => fulTsCounter' = smpTsCounter
    BY <1>a, <1>f, <2>2 DEF SinkHas, Ended
  <2>4. Ended'
    BY <1>a, <1>f, <2>2, <2>3 DEF Ended, smpVars
  <2> QED BY <2>1, <2>4
<1>5. CASE DeliverData
  <2>1. PICK i \in inFlight : HandleData(i) /\ inFlight' = inFlight \ {i}
    BY <1>5 DEF DeliverData
  <2>2. UNCHANGED <<smpVars, commands, lost>>
    BY <1>5 DEF DeliverData
  <2>3. i \in Nat /\ i \notin fmFullTsStorage \cup WrittenFull
    BY <1>a, <1>b DEF SamplerTypeOK, EveryTsInOnePlace
  <2>4. /\ SinkHas(fmFullTsStorage \cup WrittenFull \cup {i})
        /\ sinkState = "running"
        /\ UNCHANGED <<fbReceivedEof, fuTotalTsCount>>
    BY <1>b, <1>c, <2>1, <2>3, DataMoves
  <2>5. EveryTsInOnePlace'
    <3>1. /\ fmFullTsStorage' \cup WrittenFull' = fmFullTsStorage \cup WrittenFull \cup {i}
          /\ fmFullTsStorage' \cap WrittenFull' = {}
      BY <2>4 DEF SinkHas, SinkPlaces
    <3>2. taken' = taken /\ lost' = lost
      BY <2>2 DEF smpVars
    <3> QED BY <1>a, <2>1, <3>1, <3>2 DEF EveryTsInOnePlace
  <2> QED BY <1>f, <2>2, <2>4, <2>5
<1>6. CASE DeliverMissed
  <2>1. HandleMissTsData(Head(missedts)) /\ UNCHANGED <<smpVars, commands, inFlight, lost>>
    BY <1>6 DEF DeliverMissed
  <2>2. Head(missedts) \in Seq(Nat)
    BY <1>6, <1>b, HeadTailProperties DEF DeliverMissed, SamplerTypeOK
  <2>3. /\ SinkHas(fmFullTsStorage \cup WrittenFull)
        /\ sinkState = "running"
        /\ UNCHANGED <<fbReceivedEof, fuTotalTsCount>>
    BY <1>b, <1>c, <2>1, <2>2, MissedMoves
  <2>4. EveryTsInOnePlace'
    <3>1. /\ fmFullTsStorage' \cup WrittenFull' = fmFullTsStorage \cup WrittenFull
          /\ fmFullTsStorage' \cap WrittenFull' = {}
      BY <2>3 DEF SinkHas, SinkPlaces
    <3>2. taken' = taken /\ lost' = lost /\ inFlight' = inFlight
      BY <2>1 DEF smpVars
    <3> QED BY <1>a, <3>1, <3>2 DEF EveryTsInOnePlace
  <2> QED BY <1>f, <2>1, <2>3, <2>4
<1>7. CASE DeliverCommand
  <2> DEFINE cmd == Head(commands)
  <2>1. /\ HandleCommand(cmd) /\ commands # <<>> /\ commands' = Tail(commands)
        /\ UNCHANGED <<smpVars, inFlight, lost>>
    BY <1>7 DEF DeliverCommand
  <2>2. /\ cmd = commands[1] /\ 1 \in 1 .. Len(commands)
        /\ Len(commands') = Len(commands) - 1
        /\ \A k \in 1 .. Len(commands') : commands'[k] = commands[k + 1]
    BY <1>b, <2>1, HeadTailProperties DEF SamplerTypeOK
  <2> HIDE DEF cmd
  <2>3. UNCHANGED <<fmFullTsStorage, WrittenFull, fulTsCounter>> /\ sinkState = "running"
    BY <2>1 DEF HandleCommand, WrittenFull
  <2>4. EveryTsInOnePlace' /\ Counted'
    BY <1>a, <2>1, <2>3 DEF EveryTsInOnePlace, Counted, smpVars
  <2>5. \A k \in 1 .. Len(commands') :
          commands'[k].tag = "EOF" => smpState # "running" /\ commands'[k].total = smpTsCounter
    <3> SUFFICES ASSUME NEW k \in 1 .. Len(commands'), commands'[k].tag = "EOF"
                 PROVE  smpState # "running" /\ commands'[k].total = smpTsCounter
      OBVIOUS
    <3> k + 1 \in 1 .. Len(commands) /\ commands'[k] = commands[k + 1]
      BY <1>b, <2>2 DEF SamplerTypeOK
    <3> QED BY <1>a DEF Ended
  <2>6. CASE HandleEof(cmd)
    <3>1. smpState # "running" /\ cmd.total = smpTsCounter
      BY <1>a, <2>2, <2>6 DEF Ended, HandleEof
    <3>2. /\ fbReceivedEof' = TRUE /\ fuTotalTsCount' = smpTsCounter
          /\ sinkState' = "eof" => fulTsCounter = smpTsCounter
      BY <2>3, <2>6, <3>1 DEF HandleEof, Finish, AllProcessed
    <3> QED BY <2>1, <2>3, <2>4, <2>5, <3>1, <3>2 DEF Ended, smpVars
  <2>7. CASE HandleStop(cmd)
    <3>1. sinkState' = "stop" /\ UNCHANGED <<fbReceivedEof, fuTotalTsCount>>
      BY <2>7 DEF HandleStop, Finish
    <3> QED BY <1>a, <2>1, <2>4, <2>5, <3>1 DEF Ended, smpVars
  <2> QED BY <2>1, <2>6, <2>7 DEF HandleCommand
<1>8. CASE LoseTs
  <2>1. PICK i \in inFlight : inFlight' = inFlight \ {i} /\ lost' = lost \cup {i}
    BY <1>8 DEF LoseTs
  <2>2. UNCHANGED <<smpVars, commands, sinkVars>>
    BY <1>8 DEF LoseTs
  <2>3. EveryTsInOnePlace'
    BY <1>a, <1>d, <2>1, <2>2 DEF EveryTsInOnePlace, smpVars
  <2>4. Counted' /\ Ended'
    BY <1>a, <1>d, <2>2 DEF Counted, Ended, smpVars
  <2> QED BY <2>3, <2>4
<1>9. CASE UNCHANGED vars
  BY <1>a, <1>d, <1>9 DEF vars, smpVars, netVars, EveryTsInOnePlace, Counted, Ended
<1> QED
  BY <1>1, <1>2, <1>3, <1>4, <1>5, <1>6, <1>7, <1>8, <1>9 DEF Next

\* The bookkeeping invariant holds in every behaviour.
LEMMA BookkeepingHolds == Spec => []Bookkeeping
BY BookkeepingInit, BookkeepingStep, PTL DEF Spec

\* Each TS counted by the sampler is on its way, in the map of the sink, in
\* the file or lost with a worker, and in one of these only: the handlers of
\* the sink neither drop nor repeat a TS, in any order of messages and in both
\* modes.
THEOREM NoTsLostInSink == Spec => []EveryTsInOnePlace
BY BookkeepingHolds, PTL DEF Bookkeeping

\* The counts of EOF are reached only when all TS are written: the file's TS are
\* among those taken, and there are as many.
LEMMA EofMeansAllWritten ==
  ASSUME Bookkeeping, ~BypassConsecutiveTs PROVE EofCloseIsComplete
<1> SUFFICES ASSUME sinkState = "eof" PROVE taken = WrittenFull
  BY DEF EofCloseIsComplete
<1>1. WrittenFull \in SUBSET taken
  BY DEF Bookkeeping, EveryTsInOnePlace
<1>2. IsFiniteSet(taken) /\ Cardinality(taken) = Cardinality(WrittenFull)
  BY DEF Bookkeeping, Counted, Ended
<1> QED
  BY <1>1, <1>2, FS_Subset

\* If the order of the TS is checked, EOF closes the file only once every TS
\* that the sampler counted is in it, although EOF overtakes the data.
THEOREM EofClosesCompleteFile ==
  ASSUME ~BypassConsecutiveTs PROVE Spec => []EofCloseIsComplete
<1>1. Bookkeeping => EofCloseIsComplete
  BY EofMeansAllWritten
<1> QED
  BY <1>1, BookkeepingHolds, PTL

-----------------------------------------------------------------------------
(* Missed indices.                                                         *)

\* The source will not deliver index x and has not delivered it.
Gone(x) == x \notin taken /\ x < srcNext

MissedInv ==
  /\ \A i \in taken : i <= smpPrevTsIndex
  /\ \A k \in 1 .. Len(fvulMissedTsIndices) : Gone(fvulMissedTsIndices[k])
  /\ \A i \in 1 .. Len(missedts) : \A k \in 1 .. Len(missedts[i]) : Gone(missedts[i][k])
  /\ \A i \in 1 .. Len(processed) :
       processed[i].kind # "full" => Gone(processed[i].ts)

-----------------------------------------------------------------------------
(* Order.  Index 0 needs care, since it is also the value of fuPrevTsIndex *)
(* before anything was written: the sink looks for 0 as long as the last   *)
(* index is 0.  What makes this work is that a missed index 0 can only be  *)
(* the very first one reported, that nothing can be written before it, and *)
(* that a TS 0 cannot come after another entry 0.                          *)

OrderedLog(log) == \A i \in 1 .. Len(log) - 1 : log[i + 1].ts = log[i].ts + 1

NotStarted == processed = <<>> /\ 0 \notin taken /\ 1 \notin taken /\ 2 <= srcNext

OrderInv ==
  /\ processed = <<>> => fuPrevTsIndex = 0
  /\ processed # <<>> =>
       processed[Len(processed)].ts = fuPrevTsIndex /\ smpTsCounter # 0
  /\ OrderedLog(processed)
  /\ smpTsCounter = 0 =>
       smpPrevTsIndex = 0 /\ missedts = <<>> /\ fvulMissedTsIndices = <<>>
  /\ smpTsCounter # 0 => 0 < srcNext
  /\ \A k \in 1 .. Len(fvulMissedTsIndices) :
       fvulMissedTsIndices[k] = 0 => k = 1 /\ NotStarted
  /\ \A i \in 1 .. Len(missedts) : \A k \in 1 .. Len(missedts[i]) :
       missedts[i][k] = 0 => i = 1 /\ k = 1 /\ fvulMissedTsIndices = <<>> /\ NotStarted
  /\ processed # <<>> /\ fuPrevTsIndex = 0 => 0 \notin inFlight

-----------------------------------------------------------------------------
(* What the handlers of the sink do to missed indices.                     *)

\* The rest of the vector after m of its elements.
LEMMA RestOfVector ==
  ASSUME NEW missed \in Seq(Nat), NEW m \in 0 .. Len(missed)
  PROVE  LET rest == SubSeq(missed, m + 1, Len(missed)) IN
         /\ rest \in Seq(Nat) /\ Len(rest) = Len(missed) - m
         /\ \A k \in 1 .. Len(rest) : rest[k] = missed[m + k]
<1>1. \A i \in (m + 1) .. Len(missed) : missed[i] \in Nat
  BY ElementOfSeq
<1>2. m + 1 \in Int /\ Len(missed) \in Int
  OBVIOUS
<1> DEFINE rest == SubSeq(missed, m + 1, Len(missed))
<1>3. /\ rest \in Seq(Nat)
      /\ Len(rest) = IF m + 1 <= Len(missed) THEN Len(missed) - (m + 1) + 1 ELSE 0
      /\ \A k \in 1 .. Len(missed) - (m + 1) + 1 : rest[k] = missed[(m + 1) + k - 1]
  BY <1>1, <1>2, SubSeqProperties
<1> HIDE DEF rest
<1>4. Len(rest) = Len(missed) - m
  BY <1>3
<1>5. \A k \in 1 .. Len(rest) : rest[k] = missed[m + k]
  <2> SUFFICES ASSUME NEW k \in 1 .. Len(rest) PROVE rest[k] = missed[m + k]
    OBVIOUS
  <2> k \in 1 .. Len(missed) - (m + 1) + 1 /\ (m + 1) + k - 1 = m + k
    BY <1>4
  <2> QED BY <1>3
<1> QED
  BY <1>3, <1>4, <1>5 DEF rest

\* All missed indices the sink knows of are in G.
MissedIn(G, missed, log) ==
  /\ \A k \in 1 .. Len(missed) : missed[k] \in G
  /\ \A i \in 1 .. Len(log) : log[i].kind # "full" => log[i].ts \in G

SinkMissedIn(G) == MissedIn(G, fvulMissedTsIndices, processed)

\* CheckTsQueues makes no missed index up: those it skips come from the vector.
LEMMA DrainMissed ==
  ASSUME NEW prev \in Nat, NEW count \in Nat,
         NEW stored \in SUBSET Nat, IsFiniteSet(stored),
         NEW missed \in Seq(Nat), NEW log \in Seq(Entries),
         NEW header \in Nat \cup {NoTs},
         CheckTsQueues(prev, count, stored, missed, log, header),
         NEW G, MissedIn(G, missed, log)
  PROVE  MissedIn(G, fvulMissedTsIndices', processed')
<1>1. PICK m \in 0 .. Len(missed), first \in Nat, n \in Int,
           written \in SUBSET Nat, added \in Seq(Entries) :
        DrainEffect(prev, count, stored, missed, log, header, m, first, n, written, added)
  BY DrainStep
<1>2. /\ (first .. n) \ written = {missed[i] : i \in 1 .. m}
      /\ Len(added) = n - first + 1
      /\ \A k \in 1 .. Len(added) :
           /\ added[k].ts = first + k - 1
           /\ added[k].kind = "full" <=> first + k - 1 \in written
      /\ fvulMissedTsIndices' = SubSeq(missed, m + 1, Len(missed))
      /\ processed' = log \o added
  BY <1>1 DEF DrainEffect
<1>3. ASSUME NEW k \in 1 .. Len(fvulMissedTsIndices')
      PROVE  fvulMissedTsIndices'[k] \in G
  <2>1. fvulMissedTsIndices'[k] = missed[m + k] /\ Len(fvulMissedTsIndices') = Len(missed) - m
    BY <1>2, RestOfVector
  <2>2. m + k \in 1 .. Len(missed)
    BY <2>1
  <2> QED BY <2>1, <2>2 DEF MissedIn
<1>4. ASSUME NEW k \in 1 .. Len(added), added[k].kind # "full" PROVE added[k].ts \in G
  <2>1. first + k - 1 \in (first .. n) \ written
    BY <1>2, <1>4
  <2>2. PICK i \in 1 .. m : first + k - 1 = missed[i]
    BY <1>2, <2>1
  <2>3. i \in 1 .. Len(missed)
    OBVIOUS
  <2> QED BY <1>2, <2>2, <2>3 DEF MissedIn
<1>5. ASSUME NEW i \in 1 .. Len(processed'), processed'[i].kind # "full"
      PROVE  processed'[i].ts \in G
  <2>1. /\ Len(processed') = Len(log) + Len(added)
        /\ processed'[i] = IF i <= Len(log) THEN log[i] ELSE added[i - Len(log)]
    <3>1. /\ Len(log \o added) = Len(log) + Len(added)
          /\ \A j \in 1 .. Len(log) + Len(added) :
               (log \o added)[j] = IF j <= Len(log) THEN log[j] ELSE added[j - Len(log)]
      BY ConcatProperties
    <3>2. processed' = log \o added
      BY <1>2
    <3> QED BY <3>1, <3>2
  <2>2. CASE i <= Len(log)
    <3> i \in 1 .. Len(log)
      BY <2>2
    <3> QED BY <1>5, <2>1, <2>2 DEF MissedIn
  <2>3. CASE ~(i <= Len(log))
    <3> i - Len(log) \in 1 .. Len(added)
      BY <2>1, <2>3
    <3> QED BY <1>4, <1>5, <2>1, <2>3
  <2> QED BY <2>2, <2>3
<1> QED
  BY <1>3, <1>5 DEF MissedIn

\* HandleData makes no missed index up.
LEMMA DataMissed ==
  ASSUME SinkTypeInv, NEW idx \in Nat, HandleData(idx), NEW G, SinkMissedIn(G)
  PROVE  SinkMissedIn(G)'
<1> DEFINE log == Append(processed, FullEntry(idx))
<1>1. /\ log \in Seq(Entries) /\ Len(log) = Len(processed) + 1
      /\ \A i \in 1 .. Len(processed) : log[i] = processed[i]
      /\ log[Len(processed) + 1].kind = "full"
      /\ Len(processed) \in Nat
  BY FullEntryType, AppendProperties DEF FullEntry, SinkTypeInv, SinkTypeOK
<1> HIDE DEF log
<1>2. MissedIn(G, fvulMissedTsIndices, log)
  <2> SUFFICES ASSUME NEW i \in 1 .. Len(log), log[i].kind # "full" PROVE log[i].ts \in G
    BY DEF SinkMissedIn, MissedIn
  <2> i \in 1 .. Len(processed)
    BY <1>1
  <2> QED BY <1>1 DEF SinkMissedIn, MissedIn
<1>3. /\ fuPrevTsIndex \in Nat /\ fulTsCounter \in Nat /\ fulTsCounter + 1 \in Nat
      /\ fmFullTsStorage \in SUBSET Nat /\ IsFiniteSet(fmFullTsStorage)
      /\ fmFullTsStorage \cup {idx} \in SUBSET Nat
      /\ IsFiniteSet(fmFullTsStorage \cup {idx})
      /\ fvulMissedTsIndices \in Seq(Nat)
      /\ processed \in Seq(Entries)
      /\ fEvtHeader \in Nat \cup {NoTs}
  <2> IsFiniteSet(fmFullTsStorage \cup {idx})
    BY FS_AddElement DEF SinkTypeInv
  <2> QED BY DEF SinkTypeInv, SinkTypeOK
<1>4. CASE HandleDataBypass(idx)
  <2> processed' = log /\ fvulMissedTsIndices' = fvulMissedTsIndices
    BY <1>4 DEF HandleDataBypass, log
  <2> QED BY <1>2 DEF SinkMissedIn
<1>5. CASE HandleDataDirect(idx)
  <2>1. CheckTsQueues(idx, fulTsCounter + 1, fmFullTsStorage, fvulMissedTsIndices, log, idx)
    BY <1>5 DEF HandleDataDirect, log
  <2>2. MissedIn(G, fvulMissedTsIndices', processed')
    BY <1>1, <1>2, <1>3, <2>1, DrainMissed
  <2> QED BY <2>2 DEF SinkMissedIn
<1>6. CASE HandleDataStore(idx)
  <2>1. CheckTsQueues(fuPrevTsIndex, fulTsCounter, fmFullTsStorage \cup {idx},
                      fvulMissedTsIndices, processed, fEvtHeader)
    BY <1>6 DEF HandleDataStore
  <2>2. MissedIn(G, fvulMissedTsIndices, processed)
    BY DEF SinkMissedIn
  <2>3. MissedIn(G, fvulMissedTsIndices', processed')
    BY <1>3, <2>1, <2>2, DrainMissed
  <2> QED BY <2>3 DEF SinkMissedIn
<1> QED
  BY <1>4, <1>5, <1>6 DEF HandleData

\* HandleMissTsData only adds the missed indices that came.
LEMMA VectorMissed ==
  ASSUME SinkTypeInv, NEW v \in Seq(Nat), HandleMissTsData(v),
         NEW G, SinkMissedIn(G), \A k \in 1 .. Len(v) : v[k] \in G
  PROVE  SinkMissedIn(G)'
<1> DEFINE missed == fvulMissedTsIndices \o v
<1>1. /\ missed \in Seq(Nat)
      /\ Len(missed) = Len(fvulMissedTsIndices) + Len(v)
      /\ \A i \in 1 .. Len(fvulMissedTsIndices) + Len(v) :
           missed[i] = IF i <= Len(fvulMissedTsIndices) THEN fvulMissedTsIndices[i]
                       ELSE v[i - Len(fvulMissedTsIndices)]
      /\ Len(fvulMissedTsIndices) \in Nat
  BY ConcatProperties DEF SinkTypeInv, SinkTypeOK
<1> HIDE DEF missed
<1>2. MissedIn(G, missed, processed)
  <2> SUFFICES ASSUME NEW i \in 1 .. Len(missed) PROVE missed[i] \in G
    BY DEF SinkMissedIn, MissedIn
  <2>1. CASE i <= Len(fvulMissedTsIndices)
    <3> i \in 1 .. Len(fvulMissedTsIndices) /\ missed[i] = fvulMissedTsIndices[i]
      BY <1>1, <2>1
    <3> QED BY DEF SinkMissedIn, MissedIn
  <2>2. CASE ~(i <= Len(fvulMissedTsIndices))
    <3> i - Len(fvulMissedTsIndices) \in 1 .. Len(v)
      BY <1>1, <2>2
    <3> QED BY <1>1, <2>2
  <2> QED BY <2>1, <2>2
<1>3. CASE BypassConsecutiveTs
  <2> fvulMissedTsIndices' = missed /\ processed' = processed
    BY <1>3 DEF HandleMissTsData, missed
  <2> QED BY <1>2 DEF SinkMissedIn
<1>4. CASE ~BypassConsecutiveTs
  <2>1. CheckTsQueues(fuPrevTsIndex, fulTsCounter, fmFullTsStorage, missed,
                      processed, fEvtHeader)
    BY <1>4 DEF HandleMissTsData, missed
  <2>2. /\ fuPrevTsIndex \in Nat /\ fulTsCounter \in Nat
        /\ fmFullTsStorage \in SUBSET Nat /\ IsFiniteSet(fmFullTsStorage)
        /\ processed \in Seq(Entries)
        /\ fEvtHeader \in Nat \cup {NoTs}
    BY DEF SinkTypeInv, SinkTypeOK
  <2>3. MissedIn(G, fvulMissedTsIndices', processed')
    BY <1>1, <1>2, <2>1, <2>2, DrainMissed
  <2> QED BY <2>3 DEF SinkMissedIn
<1> QED
  BY <1>3, <1>4

-----------------------------------------------------------------------------
(* What the sampler reports.                                               *)

\* The indices GetNewTs reports are consecutive and before the new TS.
LEMMA MissedIndicesValues ==
  ASSUME NEW prev \in Nat, NEW count \in Nat, NEW i \in Nat
  PROVE  \A k \in 1 .. Len(MissedIndices(prev, count, i)) :
           /\ MissedIndices(prev, count, i)[k] = FirstMissed(prev, count) + k - 1
           /\ MissedIndices(prev, count, i)[k] < i
<1> DEFINE first == FirstMissed(prev, count)
           f == MissedIndices(prev, count, i)
<1>1. first \in Nat
  BY DEF FirstMissed
<1>2. f = [k \in 1 .. (i - first) |-> first + k - 1]
  BY DEF MissedIndices
<1>3. f \in Seq(Nat)
  BY MissedIndicesType
<1> HIDE DEF first, f
<1>4. DOMAIN f = 1 .. Len(f) /\ DOMAIN f = 1 .. (i - first)
  BY <1>2, <1>3, LenProperties
<1>5. ASSUME NEW k \in 1 .. Len(f) PROVE f[k] = first + k - 1 /\ f[k] < i
  <2>1. k \in 1 .. (i - first)
    BY <1>4
  <2>2. f[k] = first + k - 1
    BY <1>2, <2>1
  <2> QED BY <1>1, <2>1, <2>2
<1> QED
  BY <1>5 DEF first, f

\* The vectors in the channel after a new TS: the old ones, and a new one if there
\* is a gap.
LEMMA ReportedVectors ==
  ASSUME SamplerTypeOK, NEW i \in Nat, ReportMissed(i), NEW j \in 1 .. Len(missedts')
  PROVE  \/ j \in 1 .. Len(missedts) /\ missedts'[j] = missedts[j]
         \/ /\ j = Len(missedts) + 1
            /\ IsGap(smpPrevTsIndex, smpTsCounter, i)
            /\ missedts'[j] = MissedIndices(smpPrevTsIndex, smpTsCounter, i)
<1> DEFINE f == MissedIndices(smpPrevTsIndex, smpTsCounter, i)
<1>1. f \in Seq(Nat) /\ missedts \in Seq(Seq(Nat))
  BY MissedIndicesType DEF SamplerTypeOK
<1>2. missedts' = IF IsGap(smpPrevTsIndex, smpTsCounter, i) THEN Append(missedts, f) ELSE missedts
  BY DEF ReportMissed
<1> HIDE DEF f
<1>3. CASE IsGap(smpPrevTsIndex, smpTsCounter, i)
  <2>1. /\ Len(missedts') = Len(missedts) + 1 /\ Len(missedts) \in Nat
        /\ \A k \in 1 .. Len(missedts) : missedts'[k] = missedts[k]
        /\ missedts'[Len(missedts) + 1] = f
    BY <1>1, <1>2, <1>3, AppendProperties
  <2> QED BY <1>3, <2>1 DEF f
<1>4. CASE ~IsGap(smpPrevTsIndex, smpTsCounter, i)
  BY <1>2, <1>4
<1> QED
  BY <1>3, <1>4

-----------------------------------------------------------------------------
(* MissedInv is an invariant.                                              *)

\* The invariant about missed indices holds initially.
LEMMA MissedInvInit == Init => MissedInv
BY DEF Init, SinkInit, MissedInv

\* The indices reported with a new TS are gone: the source is past them.
LEMMA MissedInvSource ==
  ASSUME Bookkeeping, MissedInv, NEW i \in TsIndices, NewTs(i), ReportMissed(i), Count(i),
         UNCHANGED sinkVars
  PROVE  MissedInv'
<1>1. SamplerTypeOK /\ i \in Nat
  BY TypeInvParts, DeliveryAssumption DEF Bookkeeping
<1>2. /\ \A j \in taken : j \in Nat /\ j < srcNext
      /\ smpTsCounter = 0 => taken = {}
  BY <1>1, FS_EmptySet, DeliveryAssumption DEF Bookkeeping, Counted, SamplerTypeOK
<1>3. /\ srcNext <= i /\ srcNext' = i + 1 /\ srcNext \in Nat
      /\ taken' = taken \cup {i} /\ smpPrevTsIndex' = i
  BY <1>1 DEF NewTs, Count, SamplerTypeOK
<1>4. ASSUME NEW x \in Nat, Gone(x) PROVE x \notin taken' /\ x < srcNext'
  BY <1>1, <1>3, <1>4 DEF Gone
<1>5. \A j \in taken' : j <= smpPrevTsIndex'
  BY <1>1, <1>2, <1>3
<1>6. ASSUME NEW j \in 1 .. Len(missedts'), NEW k \in 1 .. Len(missedts'[j])
      PROVE  missedts'[j][k] \notin taken' /\ missedts'[j][k] < srcNext'
  <2>1. CASE j \in 1 .. Len(missedts) /\ missedts'[j] = missedts[j]
    <3> missedts[j] \in Seq(Nat)
      BY <1>1, <2>1, ElementOfSeq DEF SamplerTypeOK
    <3> missedts[j][k] \in Nat /\ Gone(missedts[j][k])
      BY <2>1, ElementOfSeq DEF MissedInv
    <3> QED BY <1>4, <2>1
  <2>2. CASE missedts'[j] = MissedIndices(smpPrevTsIndex, smpTsCounter, i)
    <3> DEFINE x == missedts'[j][k]
               first == FirstMissed(smpPrevTsIndex, smpTsCounter)
    <3>1. smpPrevTsIndex \in Nat /\ smpTsCounter \in Nat
      BY <1>1 DEF SamplerTypeOK
    <3>2. x = first + k - 1 /\ x < i
      <4> \A l \in 1 .. Len(MissedIndices(smpPrevTsIndex, smpTsCounter, i)) :
            /\ MissedIndices(smpPrevTsIndex, smpTsCounter, i)[l] = first + l - 1
            /\ MissedIndices(smpPrevTsIndex, smpTsCounter, i)[l] < i
        BY <1>1, <3>1, MissedIndicesValues
      <4> QED BY <2>2
    <3>3. first = (IF smpPrevTsIndex = 0 /\ smpTsCounter = 0 THEN 0 ELSE smpPrevTsIndex + 1)
      BY DEF FirstMissed
    <3> HIDE DEF x, first
    <3>4. x \in Int
      BY <3>1, <3>2, <3>3
    <3>5. x \notin taken
      <4>1. CASE smpTsCounter = 0
        BY <1>2, <4>1
      <4>2. CASE smpTsCounter # 0
        <5> smpPrevTsIndex < x
          BY <3>1, <3>2, <3>3, <4>2
        <5> QED BY <1>2, <3>1, <3>4 DEF MissedInv
      <4> QED BY <4>1, <4>2
    <3>6. x \notin taken' /\ x < srcNext'
      BY <1>1, <1>3, <3>2, <3>4, <3>5
    <3> QED BY <3>6 DEF x
  <2> QED BY <1>1, <2>1, <2>2, ReportedVectors
<1>7. ASSUME NEW k \in 1 .. Len(fvulMissedTsIndices)
      PROVE  Gone(fvulMissedTsIndices[k])'
  <2> fvulMissedTsIndices[k] \in Nat /\ Gone(fvulMissedTsIndices[k])
    BY ElementOfSeq DEF MissedInv, Bookkeeping, TypeInv, TypeOK, SinkTypeOK
  <2> UNCHANGED fvulMissedTsIndices
    BY DEF sinkVars
  <2> QED BY <1>4 DEF Gone
<1>8. ASSUME NEW k \in 1 .. Len(processed), processed[k].kind # "full"
      PROVE  Gone(processed[k].ts)'
  <2> processed[k] \in Entries
    BY ElementOfSeq DEF Bookkeeping, TypeInv, TypeOK, SinkTypeOK
  <2> processed[k].ts \in Nat /\ Gone(processed[k].ts)
    BY <1>8 DEF MissedInv, Entries
  <2> UNCHANGED processed
    BY DEF sinkVars
  <2> QED BY <1>4 DEF Gone
<1>9. UNCHANGED <<fvulMissedTsIndices, processed>>
  BY DEF sinkVars
<1> QED
  BY <1>5, <1>6, <1>7, <1>8, <1>9 DEF MissedInv, Gone

\* A step of the sink keeps the invariant if it keeps the missed indices it knows.
LEMMA MissedInvSink ==
  ASSUME Bookkeeping, MissedInv,
         SinkMissedIn({x \in Nat : Gone(x)})',
         UNCHANGED <<taken, srcNext, smpPrevTsIndex>>,
         \A i \in 1 .. Len(missedts') : \A k \in 1 .. Len(missedts'[i]) : Gone(missedts'[i][k])
  PROVE  MissedInv'
<1>1. SinkMissedIn({x \in Nat : Gone(x)})' <=>
        /\ \A k \in 1 .. Len(fvulMissedTsIndices') :
             fvulMissedTsIndices'[k] \in Nat /\ Gone(fvulMissedTsIndices'[k])
        /\ \A i \in 1 .. Len(processed') : processed'[i].kind # "full" =>
             processed'[i].ts \in Nat /\ Gone(processed'[i].ts)
  BY DEF SinkMissedIn, MissedIn, Gone
<1> QED
  BY <1>1 DEF MissedInv, Gone

\* All missed indices the sink knows of are gone.
LEMMA MissedInvSinkBefore ==
  ASSUME Bookkeeping, MissedInv PROVE SinkMissedIn({x \in Nat : Gone(x)})
<1>1. fvulMissedTsIndices \in Seq(Nat) /\ processed \in Seq(Entries)
  BY DEF Bookkeeping, TypeInv, TypeOK, SinkTypeOK
<1>2. \A k \in 1 .. Len(fvulMissedTsIndices) : fvulMissedTsIndices[k] \in Nat
  BY <1>1, ElementOfSeq
<1>3. ASSUME NEW i \in 1 .. Len(processed) PROVE processed[i].ts \in Nat
  <2> processed[i] \in Entries
    BY <1>1, ElementOfSeq
  <2> QED BY DEF Entries
<1> QED
  BY <1>2, <1>3 DEF MissedInv, SinkMissedIn, MissedIn

\* Every step keeps the invariant about missed indices.
LEMMA MissedInvStep == Bookkeeping /\ MissedInv /\ [Next]_vars => MissedInv'
<1> SUFFICES ASSUME Bookkeeping, MissedInv, [Next]_vars PROVE MissedInv'
  OBVIOUS
<1> DEFINE G == {x \in Nat : Gone(x)}
<1>a. SinkTypeInv /\ SamplerTypeOK /\ TsIndices \subseteq Nat
  BY TypeInvParts, DeliveryAssumption DEF Bookkeeping
<1>b. SinkMissedIn(G)
  BY MissedInvSinkBefore
<1>c. \A i \in 1 .. Len(missedts) : \A k \in 1 .. Len(missedts[i]) : Gone(missedts[i][k])
  BY DEF MissedInv
<1>1. ASSUME NEW i \in TsIndices, SampleTs(i) PROVE MissedInv'
  BY <1>1, MissedInvSource DEF SampleTs
<1>2. ASSUME NEW i \in TsIndices, MissedSendFails(i) PROVE MissedInv'
  <2>1. /\ UNCHANGED <<smpPrevTsIndex, taken, missedts, fvulMissedTsIndices, processed>>
        /\ srcNext \in Nat /\ srcNext <= i /\ srcNext' = i + 1 /\ i \in Nat
    BY <1>2, <1>a DEF MissedSendFails, NewTs, sinkVars, SamplerTypeOK
  <2>2. ASSUME NEW x \in Nat, Gone(x) PROVE x \notin taken' /\ x < srcNext'
    BY <2>1, <2>2 DEF Gone
  <2>3. /\ \A k \in 1 .. Len(fvulMissedTsIndices) :
             fvulMissedTsIndices[k] \in Nat /\ Gone(fvulMissedTsIndices[k])
        /\ \A k \in 1 .. Len(processed) : processed[k].kind # "full" =>
             processed[k].ts \in Nat /\ Gone(processed[k].ts)
    BY <1>b DEF SinkMissedIn, MissedIn
  <2>4. ASSUME NEW j \in 1 .. Len(missedts), NEW k \in 1 .. Len(missedts[j])
        PROVE  missedts[j][k] \in Nat /\ Gone(missedts[j][k])
    <3> missedts[j] \in Seq(Nat)
      BY <1>a, ElementOfSeq DEF SamplerTypeOK
    <3> QED BY <1>c, ElementOfSeq
  <2> QED BY <2>1, <2>2, <2>3, <2>4 DEF MissedInv, Gone
<1>3. ASSUME NEW i \in TsIndices, DataSendFails(i) PROVE MissedInv'
  BY <1>3, MissedInvSource DEF DataSendFails
<1>4. CASE EndOfData
  BY <1>4 DEF EndOfData, sinkVars, MissedInv, Gone
<1>5. CASE DeliverData
  <2>1. PICK i \in inFlight : HandleData(i)
    BY <1>5 DEF DeliverData
  <2>2. SinkMissedIn(G)'
    <3> i \in Nat
      BY <1>a DEF SamplerTypeOK
    <3>1. ASSUME NEW H, SinkMissedIn(H) PROVE MissedIn(H, fvulMissedTsIndices', processed')
      BY <1>a, <2>1, <3>1, DataMissed DEF SinkMissedIn
    <3>2. MissedIn(G, fvulMissedTsIndices', processed')
      BY <1>b, <3>1
    <3>3. G' = G
      BY <1>5 DEF DeliverData, smpVars, Gone
    <3> QED BY <3>2, <3>3 DEF SinkMissedIn
  <2>3. UNCHANGED <<taken, srcNext, smpPrevTsIndex, missedts>>
    BY <1>5 DEF DeliverData, smpVars
  <2> QED BY <1>c, <2>2, <2>3, MissedInvSink
<1>6. CASE DeliverMissed
  <2> DEFINE v == Head(missedts)
  <2>1. /\ HandleMissTsData(v) /\ missedts # <<>> /\ missedts' = Tail(missedts)
        /\ UNCHANGED <<taken, srcNext, smpPrevTsIndex>>
    BY <1>6 DEF DeliverMissed, smpVars
  <2>2. /\ v \in Seq(Nat) /\ v = missedts[1] /\ 1 \in 1 .. Len(missedts)
        /\ Len(missedts') = Len(missedts) - 1 /\ Len(missedts) \in Nat
        /\ \A j \in 1 .. Len(missedts') : missedts'[j] = missedts[j + 1]
    BY <1>a, <2>1, HeadTailProperties DEF SamplerTypeOK
  <2> HIDE DEF v
  <2>3. \A k \in 1 .. Len(v) : v[k] \in G
    BY <1>c, <2>2, ElementOfSeq
  <2>4. MissedIn(G, fvulMissedTsIndices', processed')
    <3>1. ASSUME NEW H, SinkMissedIn(H), \A k \in 1 .. Len(v) : v[k] \in H
          PROVE  MissedIn(H, fvulMissedTsIndices', processed')
      BY <1>a, <2>1, <2>2, <3>1, VectorMissed DEF SinkMissedIn
    <3> QED BY <1>b, <2>3, <3>1
  <2>5. SinkMissedIn(G)'
    <3> G' = G
      BY <2>1 DEF Gone
    <3> QED BY <2>4 DEF SinkMissedIn
  <2>6. ASSUME NEW j \in 1 .. Len(missedts'), NEW k \in 1 .. Len(missedts'[j])
        PROVE  Gone(missedts'[j][k])
    <3> j + 1 \in 1 .. Len(missedts) /\ missedts'[j] = missedts[j + 1]
      BY <2>2
    <3> QED BY <1>c
  <2> QED BY <2>1, <2>5, <2>6, MissedInvSink
<1>7. CASE DeliverCommand
  BY <1>7 DEF DeliverCommand, HandleCommand, smpVars, MissedInv, Gone
<1>8. CASE LoseTs
  BY <1>8 DEF LoseTs, smpVars, sinkVars, MissedInv, Gone
<1>9. CASE UNCHANGED vars
  BY <1>9 DEF vars, smpVars, netVars, sinkVars, MissedInv, Gone
<1> QED
  BY <1>1, <1>2, <1>3, <1>4, <1>5, <1>6, <1>7, <1>8, <1>9 DEF Next

\* The invariant about missed indices holds in every behaviour.
LEMMA MissedInvHolds == Spec => [](Bookkeeping /\ MissedInv)
BY BookkeepingInit, BookkeepingStep, MissedInvInit, MissedInvStep, PTL DEF Spec

\* An index is accounted for as missed only if the source did not deliver it,
\* and a full entry is a TS that was taken: a report of missed TS that comes
\* before or after the data around it never replaces a TS.
THEOREM OnlyMissedAreSkipped == Spec => []MissedAreMissing
<1>1. Bookkeeping /\ MissedInv => MissedAreMissing
  <2> SUFFICES ASSUME Bookkeeping, MissedInv, NEW i \in DOMAIN processed
               PROVE  processed[i].kind = "full" <=> processed[i].ts \in taken
    BY DEF MissedAreMissing
  <2>1. i \in 1 .. Len(processed)
    BY LenProperties DEF Bookkeeping, TypeInv, TypeOK, SinkTypeOK
  <2>2. CASE processed[i].kind = "full"
    <3> processed[i].ts \in WrittenFull
      BY <2>2 DEF WrittenFull, FullIn
    <3> QED BY <2>2 DEF Bookkeeping, EveryTsInOnePlace
  <2>3. CASE processed[i].kind # "full"
    BY <2>1, <2>3 DEF MissedInv, Gone
  <2> QED BY <2>2, <2>3
<1> QED
  BY <1>1, MissedInvHolds, PTL

-----------------------------------------------------------------------------
(* What the handlers of the sink do to the order of the log.               *)

\* The log ends with the last index, and index 0 is only looked for before it.
LogEnds(prev, log) ==
  /\ log = <<>> => prev = 0
  /\ log # <<>> => log[Len(log)].ts = prev
  /\ OrderedLog(log)

ZeroAtHead(missed, log, stored) ==
  \A k \in 1 .. Len(missed) :
    missed[k] = 0 => k = 1 /\ log = <<>> /\ 0 \notin stored /\ 1 \notin stored

\* CheckTsQueues continues an ordered log with the next indices, and leaves index
\* 0 nowhere but at the head of the vector.
LEMMA DrainOrder ==
  ASSUME NEW prev \in Nat, NEW count \in Nat,
         NEW stored \in SUBSET Nat, IsFiniteSet(stored),
         NEW missed \in Seq(Nat), NEW log \in Seq(Entries),
         NEW header \in Nat \cup {NoTs},
         CheckTsQueues(prev, count, stored, missed, log, header),
         LogEnds(prev, log), ZeroAtHead(missed, log, stored)
  PROVE  /\ LogEnds(fuPrevTsIndex', processed')
         /\ ZeroAtHead(fvulMissedTsIndices', processed', stored)
         /\ fuPrevTsIndex' = 0 => prev = 0
         /\ log = <<>> /\ processed' # <<>> /\ fuPrevTsIndex' = 0 =>
              missed # <<>> /\ missed[1] = 0
         /\ log # <<>> => processed' # <<>>
         /\ \A k \in 1 .. Len(fvulMissedTsIndices') :
              fvulMissedTsIndices'[k] = 0 => \E j \in 1 .. Len(missed) : missed[j] = 0
         /\ missed = <<>> /\ prev + 1 \notin stored =>
              processed' = log /\ fvulMissedTsIndices' = <<>>
<1>1. PICK m \in 0 .. Len(missed), first \in Nat, n \in Int,
           written \in SUBSET Nat, added \in Seq(Entries) :
        DrainEffect(prev, count, stored, missed, log, header, m, first, n, written, added)
  BY DrainStep
<1>2. /\ first = FirstIndex(prev, stored, missed)
      /\ first - 1 <= n
      /\ written \subseteq stored
      /\ (first .. n) \ written = {missed[i] : i \in 1 .. m}
      /\ Len(added) = n - first + 1
      /\ \A k \in 1 .. Len(added) : added[k].ts = first + k - 1
      /\ fuPrevTsIndex' = IF first <= n THEN n ELSE prev
      /\ fvulMissedTsIndices' = SubSeq(missed, m + 1, Len(missed))
      /\ processed' = log \o added
  BY <1>1 DEF DrainEffect
<1>3. /\ first = prev + 1 \/ first = 0
      /\ first = 0 => missed # <<>> /\ missed[1] = 0 /\ prev = 0
  BY <1>2 DEF FirstIndex
<1>4. first = 0 => log = <<>>
  <2> SUFFICES ASSUME first = 0 PROVE log = <<>>
    OBVIOUS
  <2> 1 \in 1 .. Len(missed) /\ missed[1] = 0
    BY <1>3
  <2> QED BY DEF ZeroAtHead
<1>5. /\ Len(processed') = Len(log) + Len(added)
      /\ Len(log) \in Nat /\ Len(added) \in Nat
      /\ \A i \in 1 .. Len(log) : processed'[i] = log[i]
      /\ \A i \in 1 .. Len(added) : processed'[Len(log) + i] = added[i]
      /\ processed' \in Seq(Entries)
  <2> DEFINE new == log \o added
  <2>1. /\ new \in Seq(Entries) /\ Len(new) = Len(log) + Len(added)
        /\ \A i \in 1 .. Len(log) : new[i] = log[i]
        /\ \A i \in 1 .. Len(added) : new[Len(log) + i] = added[i]
    BY ConcatProperties
  <2>2. processed' = new
    BY <1>2
  <2> HIDE DEF new
  <2> QED BY <2>1, <2>2
<1>6. ASSUME NEW i \in 1 .. Len(processed') - 1
      PROVE  processed'[i + 1].ts = processed'[i].ts + 1
  <2>1. CASE i < Len(log)
    <3> i \in 1 .. Len(log) - 1 /\ i \in 1 .. Len(log) /\ i + 1 \in 1 .. Len(log)
      BY <1>5, <2>1
    <3> QED BY <1>5 DEF LogEnds, OrderedLog
  <2>2. CASE i = Len(log)
    <3>1. log # <<>> /\ processed'[i].ts = prev
      <4> i \in 1 .. Len(log)
        BY <2>2
      <4> log # <<>>
        OBVIOUS
      <4> QED BY <1>5, <2>2 DEF LogEnds
    <3>2. first = prev + 1
      BY <1>3, <1>4, <3>1
    <3>3. 1 \in 1 .. Len(added) /\ processed'[i + 1] = added[1]
      BY <1>5, <2>2
    <3> QED BY <1>2, <3>1, <3>2, <3>3
  <2>3. CASE Len(log) < i
    <3> DEFINE k == i - Len(log)
    <3>1. k \in 1 .. Len(added) /\ k + 1 \in 1 .. Len(added)
      BY <1>5, <2>3
    <3>2. i = Len(log) + k /\ i + 1 = Len(log) + (k + 1)
      BY <1>5, <2>3
    <3> HIDE DEF k
    <3>3. processed'[i] = added[k] /\ processed'[i + 1] = added[k + 1]
      BY <1>5, <3>1, <3>2
    <3>4. added[k].ts = first + k - 1 /\ added[k + 1].ts = first + (k + 1) - 1
      BY <1>2, <3>1
    <3>5. first + (k + 1) - 1 = (first + k - 1) + 1
      BY <3>1
    <3> QED BY <3>3, <3>4, <3>5
  <2> QED BY <1>5, <2>1, <2>2, <2>3
<1>7. CASE first <= n
  <2>1. Len(added) \in 1 .. Len(added) /\ added[Len(added)].ts = n
    <3>1. Len(added) = n - first + 1
      BY <1>2
    <3>2. Len(added) \in 1 .. Len(added)
      BY <1>7, <3>1
    <3>3. added[Len(added)].ts = first + Len(added) - 1
      BY <1>2, <3>2
    <3>4. first + Len(added) - 1 = n
      BY <3>1
    <3> QED BY <3>2, <3>3, <3>4
  <2>2. processed'[Len(processed')].ts = n /\ processed' # <<>>
    <3>1. processed'[Len(log) + Len(added)] = added[Len(added)]
      BY <1>5, <2>1
    <3>2. 0 < Len(processed')
      BY <1>5, <2>1
    <3> QED BY <1>5, <2>1, <3>1, <3>2, EmptySeq
  <2>3. LogEnds(fuPrevTsIndex', processed')
    BY <1>2, <1>6, <1>7, <2>2 DEF LogEnds, OrderedLog
  <2>4. fuPrevTsIndex' = 0 => first = 0
    BY <1>2, <1>7
  <2>5. fuPrevTsIndex' = 0 => prev = 0 /\ missed # <<>> /\ missed[1] = 0
    BY <1>3, <2>4
  <2>6. ASSUME NEW k \in 1 .. Len(fvulMissedTsIndices'), fvulMissedTsIndices'[k] = 0
        PROVE  FALSE
    <3>1. /\ fvulMissedTsIndices'[k] = missed[m + k]
          /\ Len(fvulMissedTsIndices') = Len(missed) - m
      BY <1>2, RestOfVector
    <3>2. m + k \in 1 .. Len(missed) /\ missed[m + k] = 0
      BY <2>6, <3>1
    <3>3. m = 0 /\ log = <<>> /\ 0 \notin stored /\ 1 \notin stored /\ missed[1] = 0
      BY <3>2 DEF ZeroAtHead
    <3>4. prev = 0 /\ missed # <<>>
      BY <3>2, <3>3 DEF LogEnds
    <3>5. first = 0
      BY <1>2, <3>3, <3>4 DEF FirstIndex, Reachable
    <3>6. 0 \in first .. n /\ 0 \notin written
      BY <1>2, <1>7, <3>3, <3>5
    <3> QED BY <1>2, <3>3, <3>6
  <2>7. ZeroAtHead(fvulMissedTsIndices', processed', stored)
    BY <2>6 DEF ZeroAtHead
  <2>8. ~(missed = <<>> /\ prev + 1 \notin stored)
    <3> SUFFICES ASSUME missed = <<>>, prev + 1 \notin stored PROVE FALSE
      OBVIOUS
    <3>1. m = 0 /\ first = prev + 1
      BY <1>3, EmptySeq
    <3>2. first \in first .. n /\ first \notin written
      BY <1>2, <1>7, <3>1
    <3> QED BY <1>2, <3>1, <3>2
  <2> QED BY <2>2, <2>3, <2>5, <2>6, <2>7, <2>8
<1>8. CASE ~(first <= n)
  <2>1. Len(added) = 0 /\ added = <<>> /\ n = first - 1
    <3> n \in Int /\ first \in Nat
      OBVIOUS
    <3>1. n = first - 1
      BY <1>2, <1>8
    <3>2. Len(added) = n - first + 1
      BY <1>2
    <3>3. Len(added) = 0
      BY <3>1, <3>2
    <3> QED BY <3>1, <3>3, EmptySeq
  <2>2. processed' = log /\ fuPrevTsIndex' = prev
    BY <1>2, <1>8, <2>1, ConcatEmptySeq
  <2>3. ASSUME NEW k \in 1 .. Len(fvulMissedTsIndices'), fvulMissedTsIndices'[k] = 0
        PROVE  /\ k = 1 /\ log = <<>> /\ 0 \notin stored /\ 1 \notin stored
               /\ \E j \in 1 .. Len(missed) : missed[j] = 0
    <3>1. /\ fvulMissedTsIndices'[k] = missed[m + k]
          /\ Len(fvulMissedTsIndices') = Len(missed) - m
      BY <1>2, RestOfVector
    <3>2. m + k \in 1 .. Len(missed) /\ missed[m + k] = 0
      BY <2>3, <3>1
    <3> QED BY <3>2 DEF ZeroAtHead
  <2>4. ZeroAtHead(fvulMissedTsIndices', processed', stored)
    BY <2>2, <2>3 DEF ZeroAtHead
  <2>5. missed = <<>> => fvulMissedTsIndices' = <<>>
    <3> SUFFICES ASSUME missed = <<>> PROVE fvulMissedTsIndices' = <<>>
      OBVIOUS
    <3>1. Len(missed) = 0 /\ m = 0
      BY EmptySeq
    <3>2. Len(fvulMissedTsIndices') = 0 /\ fvulMissedTsIndices' \in Seq(Nat)
      BY <1>2, <3>1, RestOfVector
    <3> QED BY <3>2, EmptySeq
  <2> QED BY <2>2, <2>3, <2>4, <2>5
<1> QED
  BY <1>7, <1>8

-----------------------------------------------------------------------------
(* OrderInv is an invariant, if the order of the TS is checked.            *)

\* The invariant about order holds initially.
LEMMA OrderInvInit == Init => OrderInv
BY DEF Init, SinkInit, OrderInv, OrderedLog

\* The sampler reports and counts a new TS.
LEMMA OrderInvSource ==
  ASSUME Bookkeeping, MissedInv, OrderInv,
         NEW i \in TsIndices, NewTs(i), ReportMissed(i), Count(i),
         inFlight' \in {inFlight, inFlight \cup {i}}, UNCHANGED sinkVars
  PROVE  OrderInv'
<1>1. /\ SamplerTypeOK /\ i \in Nat
      /\ fuPrevTsIndex \in Nat /\ fvulMissedTsIndices \in Seq(Nat) /\ processed \in Seq(Entries)
  BY TypeInvParts, DeliveryAssumption DEF Bookkeeping, SinkTypeInv, SinkTypeOK
<1>2. /\ smpPrevTsIndex \in Nat /\ smpTsCounter \in Nat /\ srcNext \in Nat
      /\ srcNext <= i /\ srcNext' = i + 1
      /\ smpTsCounter' = smpTsCounter + 1 /\ taken' = taken \cup {i}
  BY <1>1 DEF NewTs, Count, SamplerTypeOK
<1>3. UNCHANGED <<fuPrevTsIndex, fvulMissedTsIndices, processed>>
  BY DEF sinkVars
<1>4. NotStarted => NotStarted'
  BY <1>1, <1>2, <1>3 DEF NotStarted
<1>5. processed # <<>> => i # 0
  BY <1>1, <1>2 DEF OrderInv
<1>6. ASSUME NEW j \in 1 .. Len(missedts'), NEW k \in 1 .. Len(missedts'[j]), missedts'[j][k] = 0
      PROVE  j = 1 /\ k = 1 /\ fvulMissedTsIndices = <<>> /\ NotStarted'
  <2>1. CASE j \in 1 .. Len(missedts) /\ missedts'[j] = missedts[j]
    BY <1>4, <1>6, <2>1 DEF OrderInv
  <2>2. CASE /\ j = Len(missedts) + 1
             /\ IsGap(smpPrevTsIndex, smpTsCounter, i)
             /\ missedts'[j] = MissedIndices(smpPrevTsIndex, smpTsCounter, i)
    <3>1. \A l \in 1 .. Len(MissedIndices(smpPrevTsIndex, smpTsCounter, i)) :
            /\ MissedIndices(smpPrevTsIndex, smpTsCounter, i)[l]
                 = FirstMissed(smpPrevTsIndex, smpTsCounter) + l - 1
      BY <1>1, <1>2, MissedIndicesValues
    <3>2. FirstMissed(smpPrevTsIndex, smpTsCounter) + k - 1 = 0
      BY <1>6, <2>2, <3>1
    <3>3. smpPrevTsIndex = 0 /\ smpTsCounter = 0 /\ k = 1
      BY <1>2, <3>2 DEF FirstMissed
    <3>4. missedts = <<>> /\ fvulMissedTsIndices = <<>> /\ processed = <<>>
      BY <3>3 DEF OrderInv
    <3>5. i # 0 /\ i # 1
      BY <2>2, <3>3 DEF IsGap
    <3>6. taken = {}
      BY <3>3, FS_EmptySet DEF Bookkeeping, Counted
    <3>7. NotStarted'
      BY <1>1, <1>2, <1>3, <3>4, <3>5, <3>6 DEF NotStarted
    <3>8. j = 1
      BY <2>2, <3>4, EmptySeq
    <3> QED BY <3>3, <3>4, <3>7, <3>8
  <2> QED BY <1>1, <2>1, <2>2, ReportedVectors
<1>7. \A k \in 1 .. Len(fvulMissedTsIndices) :
        fvulMissedTsIndices[k] = 0 => k = 1 /\ NotStarted'
  BY <1>4 DEF OrderInv
<1>8. smpTsCounter' # 0 /\ 0 < srcNext'
  BY <1>1, <1>2
<1>9. processed # <<>> /\ fuPrevTsIndex = 0 => 0 \notin inFlight'
  BY <1>5 DEF OrderInv
<1> QED
  BY <1>3, <1>6, <1>7, <1>8, <1>9 DEF OrderInv, OrderedLog

\* Every step keeps the invariant about order, unless the order check is bypassed.
LEMMA OrderInvStep ==
  ASSUME ~BypassConsecutiveTs
  PROVE  Bookkeeping /\ MissedInv /\ OrderInv /\ [Next]_vars => OrderInv'
<1> SUFFICES ASSUME Bookkeeping, MissedInv, OrderInv, [Next]_vars PROVE OrderInv'
  OBVIOUS
<1>a. SinkTypeInv /\ SamplerTypeOK /\ TsIndices \subseteq Nat
  BY TypeInvParts, DeliveryAssumption DEF Bookkeeping
<1>b. LogEnds(fuPrevTsIndex, processed)
  BY DEF OrderInv, LogEnds
<1>c. fmFullTsStorage \subseteq taken /\ inFlight \subseteq taken
  BY DEF Bookkeeping, EveryTsInOnePlace
<1>d. smpTsCounter = 0 => taken = {}
  BY FS_EmptySet DEF Bookkeeping, Counted
<1>e. /\ fuPrevTsIndex \in Nat /\ fulTsCounter \in Nat /\ fulTsCounter + 1 \in Nat
      /\ fmFullTsStorage \in SUBSET Nat /\ IsFiniteSet(fmFullTsStorage)
      /\ fvulMissedTsIndices \in Seq(Nat)
      /\ processed \in Seq(Entries)
      /\ fEvtHeader \in Nat \cup {NoTs}
  BY <1>a DEF SinkTypeInv, SinkTypeOK
\* The sink handled a message.
<1>f. ASSUME LogEnds(fuPrevTsIndex', processed'),
             UNCHANGED smpVars, smpTsCounter # 0,
             \A k \in 1 .. Len(fvulMissedTsIndices') :
               fvulMissedTsIndices'[k] = 0 => k = 1 /\ NotStarted',
             \A i \in 1 .. Len(missedts') : \A k \in 1 .. Len(missedts'[i]) :
               missedts'[i][k] = 0 =>
                 i = 1 /\ k = 1 /\ fvulMissedTsIndices' = <<>> /\ NotStarted',
             processed' # <<>> /\ fuPrevTsIndex' = 0 => 0 \notin inFlight'
      PROVE  OrderInv'
  <2>1. UNCHANGED <<smpTsCounter, smpPrevTsIndex, srcNext>>
    BY <1>f DEF smpVars
  <2>2. smpTsCounter # 0 => 0 < srcNext
    BY DEF OrderInv
  <2> QED BY <1>f, <2>1, <2>2 DEF OrderInv, LogEnds, OrderedLog
<1>g. \A k \in 1 .. Len(fvulMissedTsIndices) : fvulMissedTsIndices[k] = 0 => k = 1 /\ NotStarted
  BY DEF OrderInv
<1>h. \A i \in 1 .. Len(missedts) : \A k \in 1 .. Len(missedts[i]) :
        missedts[i][k] = 0 => i = 1 /\ k = 1 /\ fvulMissedTsIndices = <<>> /\ NotStarted
  BY DEF OrderInv
<1>1. ASSUME NEW i \in TsIndices, SampleTs(i) PROVE OrderInv'
  BY <1>1, OrderInvSource DEF SampleTs
<1>2. ASSUME NEW i \in TsIndices, MissedSendFails(i) PROVE OrderInv'
  <2>1. /\ UNCHANGED <<smpPrevTsIndex, smpTsCounter, taken, missedts, inFlight,
                       fuPrevTsIndex, fvulMissedTsIndices, processed>>
        /\ srcNext \in Nat /\ srcNext <= i /\ srcNext' = i + 1 /\ i \in Nat
    BY <1>2, <1>a DEF MissedSendFails, NewTs, sinkVars, SamplerTypeOK
  <2>2. NotStarted => NotStarted'
    BY <2>1 DEF NotStarted
  <2>3. smpTsCounter # 0 => 0 < srcNext'
    BY <2>1
  <2> QED BY <1>g, <1>h, <2>1, <2>2, <2>3 DEF OrderInv, OrderedLog
<1>3. ASSUME NEW i \in TsIndices, DataSendFails(i) PROVE OrderInv'
  BY <1>3, OrderInvSource DEF DataSendFails
<1>4. CASE EndOfData
  BY <1>4 DEF EndOfData, sinkVars, OrderInv, OrderedLog, NotStarted
<1>5. CASE DeliverData
  <2>1. PICK i \in inFlight : HandleData(i) /\ inFlight' = inFlight \ {i}
    BY <1>5 DEF DeliverData
  <2>2. UNCHANGED <<smpVars, missedts>>
    BY <1>5 DEF DeliverData
  <2>3. i \in Nat /\ i \in taken /\ smpTsCounter # 0
    BY <1>a, <1>c, <1>d DEF SamplerTypeOK
  <2>4. CASE HandleDataDirect(i)
    <3> DEFINE log == Append(processed, FullEntry(i))
    <3>1. CheckTsQueues(i, fulTsCounter + 1, fmFullTsStorage, fvulMissedTsIndices, log, i)
      BY <2>4 DEF HandleDataDirect
    <3>2. i = fuPrevTsIndex + 1 \/ (fuPrevTsIndex = 0 /\ i = 0)
      BY <2>4 DEF HandleDataDirect, IsNextTs
    <3>3. /\ log \in Seq(Entries) /\ log # <<>>
          /\ Len(log) = Len(processed) + 1 /\ Len(processed) \in Nat
          /\ \A k \in 1 .. Len(processed) : log[k] = processed[k]
          /\ log[Len(processed) + 1] = FullEntry(i)
      BY <1>e, <2>3, FullEntryType, AppendProperties
    <3>4. FullEntry(i).ts = i
      BY DEF FullEntry
    <3> HIDE DEF log
    <3>5. ~NotStarted
      BY <1>b, <2>3, <3>2 DEF NotStarted, LogEnds
    <3>6. processed # <<>> => i = fuPrevTsIndex + 1
      BY <3>2 DEF OrderInv
    <3>7. LogEnds(i, log)
      <4> SUFFICES ASSUME NEW k \in 1 .. Len(log) - 1 PROVE log[k + 1].ts = log[k].ts + 1
        BY <3>3, <3>4 DEF LogEnds, OrderedLog
      <4>1. CASE k = Len(processed)
        <5> processed # <<>> /\ k \in 1 .. Len(processed)
          BY <4>1
        <5> log[k] = processed[k] /\ log[k + 1] = FullEntry(i)
          BY <3>3, <4>1
        <5> QED BY <1>b, <3>4, <3>6, <4>1 DEF LogEnds
      <4>2. CASE k # Len(processed)
        <5> k \in 1 .. Len(processed) - 1 /\ k \in 1 .. Len(processed)
            /\ k + 1 \in 1 .. Len(processed)
          BY <3>3, <4>2
        <5> QED BY <1>b, <3>3 DEF LogEnds, OrderedLog
      <4> QED BY <4>1, <4>2
    <3>8. \A k \in 1 .. Len(fvulMissedTsIndices) : fvulMissedTsIndices[k] # 0
      BY <1>g, <3>5
    <3>9. ZeroAtHead(fvulMissedTsIndices, log, fmFullTsStorage)
      BY <3>8 DEF ZeroAtHead
    <3>10. /\ LogEnds(fuPrevTsIndex', processed')
           /\ fuPrevTsIndex' = 0 => i = 0
           /\ \A k \in 1 .. Len(fvulMissedTsIndices') :
                fvulMissedTsIndices'[k] = 0 =>
                  \E j \in 1 .. Len(fvulMissedTsIndices) : fvulMissedTsIndices[j] = 0
      BY <1>e, <2>3, <3>1, <3>3, <3>7, <3>9, DrainOrder
    <3>11. \A k \in 1 .. Len(fvulMissedTsIndices') : fvulMissedTsIndices'[k] # 0
      BY <3>8, <3>10
    <3>12. \A j \in 1 .. Len(missedts') : \A k \in 1 .. Len(missedts'[j]) : missedts'[j][k] # 0
      BY <1>h, <2>2, <3>5
    <3> QED BY <1>f, <2>1, <2>2, <2>3, <3>10, <3>11, <3>12
  <2>5. CASE HandleDataStore(i)
    <3> DEFINE stored == fmFullTsStorage \cup {i}
    <3>1. CheckTsQueues(fuPrevTsIndex, fulTsCounter, stored, fvulMissedTsIndices,
                        processed, fEvtHeader)
      BY <2>5 DEF HandleDataStore
    <3>2. stored \in SUBSET Nat /\ IsFiniteSet(stored) /\ stored \subseteq taken
      BY <1>c, <1>e, <2>3, FS_AddElement
    <3> HIDE DEF stored
    <3>3. ZeroAtHead(fvulMissedTsIndices, processed, stored)
      BY <1>g, <3>2 DEF ZeroAtHead, NotStarted
    <3>4. /\ LogEnds(fuPrevTsIndex', processed')
          /\ ZeroAtHead(fvulMissedTsIndices', processed', stored)
          /\ fuPrevTsIndex' = 0 => fuPrevTsIndex = 0
          /\ processed = <<>> /\ processed' # <<>> /\ fuPrevTsIndex' = 0 =>
               fvulMissedTsIndices # <<>> /\ fvulMissedTsIndices[1] = 0
          /\ \A k \in 1 .. Len(fvulMissedTsIndices') :
               fvulMissedTsIndices'[k] = 0 =>
                 \E j \in 1 .. Len(fvulMissedTsIndices) : fvulMissedTsIndices[j] = 0
          /\ fvulMissedTsIndices = <<>> /\ fuPrevTsIndex + 1 \notin stored =>
               processed' = processed /\ fvulMissedTsIndices' = <<>>
      BY <1>b, <1>e, <3>1, <3>2, <3>3, DrainOrder
    <3>5. UNCHANGED <<taken, srcNext>>
      BY <2>2 DEF smpVars
    <3>6. ASSUME NEW k \in 1 .. Len(fvulMissedTsIndices'), fvulMissedTsIndices'[k] = 0
          PROVE  k = 1 /\ NotStarted'
      <4> NotStarted
        BY <1>g, <3>4, <3>6
      <4> k = 1 /\ processed' = <<>>
        BY <3>4, <3>6 DEF ZeroAtHead
      <4> QED BY <3>5 DEF NotStarted
    <3>7. ASSUME NEW j \in 1 .. Len(missedts'), NEW k \in 1 .. Len(missedts'[j]), missedts'[j][k] = 0
          PROVE  j = 1 /\ k = 1 /\ fvulMissedTsIndices' = <<>> /\ NotStarted'
      <4>1. j = 1 /\ k = 1 /\ fvulMissedTsIndices = <<>> /\ NotStarted
        BY <1>h, <2>2, <3>7
      <4>2. fuPrevTsIndex + 1 = 1 /\ 1 \notin stored
        BY <1>b, <3>2, <4>1 DEF NotStarted, LogEnds
      <4>3. processed' = processed /\ fvulMissedTsIndices' = <<>>
        BY <3>4, <4>1, <4>2
      <4> QED BY <3>5, <4>1, <4>3 DEF NotStarted
    <3>8. processed' # <<>> /\ fuPrevTsIndex' = 0 => 0 \notin inFlight'
      <4> SUFFICES ASSUME processed' # <<>>, fuPrevTsIndex' = 0 PROVE 0 \notin inFlight
        BY <2>1
      <4>1. CASE processed # <<>>
        BY <3>4, <4>1 DEF OrderInv
      <4>2. CASE processed = <<>>
        <5> fvulMissedTsIndices # <<>> /\ fvulMissedTsIndices[1] = 0
          BY <3>4, <4>2
        <5> 1 \in 1 .. Len(fvulMissedTsIndices)
          BY <1>e, EmptySeq
        <5> NotStarted
          BY <1>g
        <5> QED BY <1>c DEF NotStarted
      <4> QED BY <4>1, <4>2
    <3> QED BY <1>f, <2>2, <2>3, <3>4, <3>6, <3>7, <3>8
  <2>6. ~HandleDataBypass(i)
    BY DEF HandleDataBypass
  <2> QED BY <2>1, <2>4, <2>5, <2>6 DEF HandleData
<1>6. CASE DeliverMissed
  <2> DEFINE v == Head(missedts)
             missed == fvulMissedTsIndices \o v
  <2>1. /\ HandleMissTsData(v) /\ missedts # <<>> /\ missedts' = Tail(missedts)
        /\ UNCHANGED smpVars /\ UNCHANGED <<taken, srcNext, inFlight>>
    BY <1>6 DEF DeliverMissed, smpVars
  <2>2. /\ v \in Seq(Nat) /\ v = missedts[1] /\ 1 \in 1 .. Len(missedts)
        /\ Len(missedts') = Len(missedts) - 1 /\ Len(missedts) \in Nat
        /\ \A j \in 1 .. Len(missedts') : missedts'[j] = missedts[j + 1]
    BY <1>a, <2>1, HeadTailProperties DEF SamplerTypeOK
  <2> HIDE DEF v
  <2>3. smpTsCounter # 0
    BY <2>1 DEF OrderInv
  <2>4. /\ missed \in Seq(Nat)
        /\ Len(missed) = Len(fvulMissedTsIndices) + Len(v)
        /\ Len(fvulMissedTsIndices) \in Nat /\ Len(v) \in Nat
        /\ \A j \in 1 .. Len(fvulMissedTsIndices) + Len(v) :
             missed[j] = IF j <= Len(fvulMissedTsIndices) THEN fvulMissedTsIndices[j]
                         ELSE v[j - Len(fvulMissedTsIndices)]
    BY <1>e, <2>2, ConcatProperties
  <2>5. CheckTsQueues(fuPrevTsIndex, fulTsCounter, fmFullTsStorage, missed,
                      processed, fEvtHeader)
    BY <2>1 DEF HandleMissTsData
  <2> HIDE DEF missed
  <2>6. ASSUME NEW j \in 1 .. Len(missed), missed[j] = 0 PROVE j = 1 /\ NotStarted
    <3>1. CASE j <= Len(fvulMissedTsIndices)
      <4> j \in 1 .. Len(fvulMissedTsIndices) /\ fvulMissedTsIndices[j] = 0
        BY <2>4, <2>6, <3>1
      <4> QED BY <1>g
    <3>2. CASE ~(j <= Len(fvulMissedTsIndices))
      <4> DEFINE l == j - Len(fvulMissedTsIndices)
      <4>1. l \in 1 .. Len(v) /\ v[l] = 0
        BY <2>4, <2>6, <3>2
      <4> HIDE DEF l
      <4>2. l = 1 /\ fvulMissedTsIndices = <<>> /\ NotStarted
        BY <1>h, <2>2, <4>1
      <4>3. j = 1
        BY <2>4, <4>2, EmptySeq DEF l
      <4> QED BY <4>2, <4>3
    <3> QED BY <3>1, <3>2
  <2>7. ZeroAtHead(missed, processed, fmFullTsStorage) /\ missed \in Seq(Nat)
    BY <1>c, <2>4, <2>6 DEF ZeroAtHead, NotStarted
  <2>8. /\ LogEnds(fuPrevTsIndex', processed')
        /\ ZeroAtHead(fvulMissedTsIndices', processed', fmFullTsStorage)
        /\ fuPrevTsIndex' = 0 => fuPrevTsIndex = 0
        /\ processed = <<>> /\ processed' # <<>> /\ fuPrevTsIndex' = 0 =>
             missed # <<>> /\ missed[1] = 0
        /\ \A k \in 1 .. Len(fvulMissedTsIndices') :
             fvulMissedTsIndices'[k] = 0 => \E j \in 1 .. Len(missed) : missed[j] = 0
    BY <1>b, <1>e, <2>5, <2>7, DrainOrder
  <2>9. ASSUME NEW k \in 1 .. Len(fvulMissedTsIndices'), fvulMissedTsIndices'[k] = 0
        PROVE  k = 1 /\ NotStarted'
    <3> NotStarted
      BY <2>6, <2>8, <2>9
    <3> k = 1 /\ processed' = <<>>
      BY <2>8, <2>9 DEF ZeroAtHead
    <3> QED BY <2>1 DEF NotStarted
  <2>10. ASSUME NEW j \in 1 .. Len(missedts'), NEW k \in 1 .. Len(missedts'[j])
         PROVE  missedts'[j][k] # 0
    <3> j + 1 \in 1 .. Len(missedts) /\ j + 1 # 1 /\ missedts'[j] = missedts[j + 1]
      BY <2>2
    <3> QED BY <1>h
  <2>11. processed' # <<>> /\ fuPrevTsIndex' = 0 => 0 \notin inFlight'
    <3> SUFFICES ASSUME processed' # <<>>, fuPrevTsIndex' = 0 PROVE 0 \notin inFlight
      BY <2>1
    <3>1. CASE processed # <<>>
      BY <2>8, <3>1 DEF OrderInv
    <3>2. CASE processed = <<>>
      <4> missed # <<>> /\ missed[1] = 0
        BY <2>8, <3>2
      <4> 1 \in 1 .. Len(missed)
        BY <2>4, EmptySeq
      <4> NotStarted
        BY <2>6
      <4> QED BY <1>c DEF NotStarted
    <3> QED BY <3>1, <3>2
  <2> QED BY <1>f, <2>1, <2>3, <2>8, <2>9, <2>10, <2>11
<1>7. CASE DeliverCommand
  BY <1>7 DEF DeliverCommand, HandleCommand, smpVars, OrderInv, OrderedLog, NotStarted
<1>8. CASE LoseTs
  BY <1>8 DEF LoseTs, smpVars, sinkVars, OrderInv, OrderedLog, NotStarted
<1>9. CASE UNCHANGED vars
  BY <1>9 DEF vars, smpVars, netVars, sinkVars, OrderInv, OrderedLog, NotStarted
<1> QED
  BY <1>1, <1>2, <1>3, <1>4, <1>5, <1>6, <1>7, <1>8, <1>9 DEF Next

\* The entries of the output have consecutive indices, whatever the order in
\* which data, missed indices and commands reach the sink.
THEOREM OutputInOrder == Spec => []InOrderWithoutHoles
<1>1. CASE BypassConsecutiveTs
  <2> InOrderWithoutHoles
    BY <1>1 DEF InOrderWithoutHoles
  <2> QED BY PTL
<1>2. CASE ~BypassConsecutiveTs
  <2>1. Bookkeeping /\ MissedInv /\ OrderInv /\ [Next]_vars
          => (Bookkeeping /\ MissedInv /\ OrderInv)'
    BY <1>2, BookkeepingStep, MissedInvStep, OrderInvStep
  <2>2. Init => Bookkeeping /\ MissedInv /\ OrderInv
    BY BookkeepingInit, MissedInvInit, OrderInvInit
  <2>3. Bookkeeping /\ MissedInv /\ OrderInv => InOrderWithoutHoles
    BY DEF OrderInv, OrderedLog, InOrderWithoutHoles
  <2> QED BY <2>1, <2>2, <2>3, PTL DEF Spec
<1> QED
  BY <1>1, <1>2

-----------------------------------------------------------------------------
(* The file is what TsArchive promises.  Of the facts about a step only    *)
(* one is new: a missed index is in front of a TS that was taken, so that  *)
(* no entry is ahead of the source.                                        *)

BehindTaken == {x \in Nat : \E j \in taken : x <= j}

BehindInv ==
  /\ SinkMissedIn(BehindTaken)
  /\ \A i \in 1 .. Len(missedts) : \A k \in 1 .. Len(missedts[i]) :
       missedts[i][k] \in BehindTaken

\* No index was reported yet.
LEMMA BehindInvInit == Init => BehindInv
BY DEF Init, SinkInit, BehindInv, SinkMissedIn, MissedIn

\* The sampler reports the indices in front of a TS that it then counts.
LEMMA BehindInvSource ==
  ASSUME SamplerTypeOK, BehindInv,
         NEW i \in TsIndices, ReportMissed(i), Count(i), UNCHANGED sinkVars
  PROVE  BehindInv'
<1>1. i \in Nat /\ smpPrevTsIndex \in Nat /\ smpTsCounter \in Nat
  BY DeliveryAssumption DEF SamplerTypeOK
<1>2. BehindTaken \subseteq BehindTaken'
  BY DEF BehindTaken, Count
<1>3. \A x \in Nat : x < i => x \in BehindTaken'
  BY <1>1 DEF BehindTaken, Count
<1>4. SinkMissedIn(BehindTaken)'
  BY <1>2 DEF BehindInv, SinkMissedIn, MissedIn, sinkVars
<1>5. ASSUME NEW j \in 1 .. Len(missedts'), NEW k \in 1 .. Len(missedts'[j])
      PROVE  missedts'[j][k] \in BehindTaken'
  <2>1. CASE j \in 1 .. Len(missedts) /\ missedts'[j] = missedts[j]
    BY <1>2, <2>1 DEF BehindInv
  <2>2. CASE missedts'[j] = MissedIndices(smpPrevTsIndex, smpTsCounter, i)
    <3>1. missedts'[j] \in Seq(Nat)
      BY <1>1, <2>2, MissedIndicesType
    <3>2. missedts'[j][k] \in Nat
      BY <3>1, ElementOfSeq
    <3>3. missedts'[j][k] < i
      <4> \A l \in 1 .. Len(MissedIndices(smpPrevTsIndex, smpTsCounter, i)) :
            MissedIndices(smpPrevTsIndex, smpTsCounter, i)[l] < i
        BY <1>1, MissedIndicesValues
      <4> QED BY <2>2
    <3> QED BY <1>3, <3>2, <3>3
  <2> QED BY <1>1, <2>1, <2>2, ReportedVectors
<1> QED
  BY <1>4, <1>5 DEF BehindInv

\* The sink and the channels report nothing.
LEMMA BehindInvStep == TypeInv /\ BehindInv /\ [Next]_vars => BehindInv'
<1> SUFFICES ASSUME TypeInv, BehindInv, [Next]_vars PROVE BehindInv'
  OBVIOUS
<1>a. SinkTypeInv /\ SamplerTypeOK /\ TsIndices \subseteq Nat
  BY TypeInvParts, DeliveryAssumption
<1>b. \A i \in 1 .. Len(missedts) : \A k \in 1 .. Len(missedts[i]) :
        missedts[i][k] \in BehindTaken
  BY DEF BehindInv
<1>c. UNCHANGED taken => BehindTaken' = BehindTaken
  BY DEF BehindTaken
<1>d. ASSUME UNCHANGED <<taken, missedts, fvulMissedTsIndices, processed>> PROVE BehindInv'
  BY <1>c, <1>d DEF BehindInv, SinkMissedIn
<1>1. ASSUME NEW i \in TsIndices, SampleTs(i) PROVE BehindInv'
  BY <1>a, <1>1, BehindInvSource DEF SampleTs
<1>2. ASSUME NEW i \in TsIndices, MissedSendFails(i) PROVE BehindInv'
  BY <1>2, <1>d DEF MissedSendFails, sinkVars
<1>3. ASSUME NEW i \in TsIndices, DataSendFails(i) PROVE BehindInv'
  BY <1>a, <1>3, BehindInvSource DEF DataSendFails
<1>4. CASE EndOfData
  BY <1>4, <1>d DEF EndOfData, sinkVars
<1>5. CASE DeliverData
  <2>1. PICK i \in inFlight : HandleData(i)
    BY <1>5 DEF DeliverData
  <2>2. i \in Nat /\ UNCHANGED <<taken, missedts>>
    BY <1>5, <1>a DEF DeliverData, smpVars, SamplerTypeOK
  <2>3. ASSUME NEW H, SinkMissedIn(H) PROVE MissedIn(H, fvulMissedTsIndices', processed')
    BY <1>a, <2>1, <2>2, <2>3, DataMissed DEF SinkMissedIn
  <2>4. MissedIn(BehindTaken, fvulMissedTsIndices', processed')
    BY <2>3 DEF BehindInv
  <2> QED BY <1>b, <1>c, <2>2, <2>4 DEF BehindInv, SinkMissedIn
<1>6. CASE DeliverMissed
  <2> DEFINE v == Head(missedts)
  <2>1. /\ HandleMissTsData(v) /\ missedts # <<>> /\ missedts' = Tail(missedts)
        /\ UNCHANGED taken
    BY <1>6 DEF DeliverMissed, smpVars
  <2>2. /\ v \in Seq(Nat) /\ v = missedts[1] /\ 1 \in 1 .. Len(missedts)
        /\ Len(missedts') = Len(missedts) - 1 /\ Len(missedts) \in Nat
        /\ \A j \in 1 .. Len(missedts') : missedts'[j] = missedts[j + 1]
    BY <1>a, <2>1, HeadTailProperties DEF SamplerTypeOK
  <2> HIDE DEF v
  <2>3. ASSUME NEW H, SinkMissedIn(H), \A k \in 1 .. Len(v) : v[k] \in H
        PROVE  MissedIn(H, fvulMissedTsIndices', processed')
    BY <1>a, <2>1, <2>2, <2>3, VectorMissed DEF SinkMissedIn
  <2>4. MissedIn(BehindTaken, fvulMissedTsIndices', processed')
    BY <1>b, <2>2, <2>3 DEF BehindInv
  <2>5. ASSUME NEW j \in 1 .. Len(missedts'), NEW k \in 1 .. Len(missedts'[j])
        PROVE  missedts'[j][k] \in BehindTaken
    <3> j + 1 \in 1 .. Len(missedts) /\ missedts'[j] = missedts[j + 1]
      BY <2>2
    <3> QED BY <1>b
  <2> QED BY <1>c, <2>1, <2>4, <2>5 DEF BehindInv, SinkMissedIn
<1>7. CASE DeliverCommand
  BY <1>7, <1>d DEF DeliverCommand, HandleCommand, smpVars
<1>8. CASE LoseTs
  BY <1>8, <1>d DEF LoseTs, smpVars, sinkVars
<1>9. CASE UNCHANGED vars
  BY <1>9, <1>d DEF vars, smpVars, netVars, sinkVars
<1> QED
  BY <1>1, <1>2, <1>3, <1>4, <1>5, <1>6, <1>7, <1>8, <1>9 DEF Next

\* What a handler of the sink does to the file: it appends entries to it.
SinkAppends ==
  /\ processed \in Seq(Entries) /\ processed' \in Seq(Entries)
  /\ Len(processed) <= Len(processed')
  /\ \A i \in 1 .. Len(processed) : processed'[i] = processed[i]
  /\ sinkState = "running" /\ sinkState' \in {"running", "eof"}

\* Entries joined to a sequence leave it as it is.
LEMMA JoinedKeeps ==
  ASSUME NEW log \in Seq(Entries), NEW added \in Seq(Entries)
  PROVE  /\ log \o added \in Seq(Entries)
         /\ Len(log) <= Len(log \o added)
         /\ \A i \in 1 .. Len(log) : (log \o added)[i] = log[i]
BY ConcatProperties

\* CheckTsQueues appends entries to the log it is given.
LEMMA DrainAppends ==
  ASSUME NEW prev \in Nat, NEW count \in Nat,
         NEW stored \in SUBSET Nat, IsFiniteSet(stored),
         NEW missed \in Seq(Nat), NEW log \in Seq(Entries),
         NEW header \in Nat \cup {NoTs},
         CheckTsQueues(prev, count, stored, missed, log, header)
  PROVE  /\ processed' \in Seq(Entries)
         /\ Len(log) <= Len(processed')
         /\ \A i \in 1 .. Len(log) : processed'[i] = log[i]
         /\ sinkState' \in {sinkState, "eof"}
<1>1. PICK m \in 0 .. Len(missed), first \in Nat, n \in Int,
           written \in SUBSET Nat, added \in Seq(Entries) :
        DrainEffect(prev, count, stored, missed, log, header, m, first, n, written, added)
  BY DrainStep
<1>2. processed' = log \o added /\ sinkState' \in {sinkState, "eof"}
  BY <1>1 DEF DrainEffect
<1> QED
  BY <1>2, JoinedKeeps

\* HandleData only appends entries.
LEMMA DataAppends ==
  ASSUME SinkTypeInv, NEW idx \in Nat, HandleData(idx) PROVE SinkAppends
<1> DEFINE log == Append(processed, FullEntry(idx))
<1>1. /\ log \in Seq(Entries) /\ Len(log) = Len(processed) + 1
      /\ \A i \in 1 .. Len(processed) : log[i] = processed[i]
      /\ Len(processed) \in Nat /\ processed \in Seq(Entries)
  <2> processed \in Seq(Entries) /\ FullEntry(idx) \in Entries
    BY FullEntryType DEF SinkTypeInv, SinkTypeOK
  <2> QED BY AppendProperties
<1> HIDE DEF log
<1>2. sinkState = "running"
  BY DEF HandleData
<1>3. /\ fuPrevTsIndex \in Nat /\ fulTsCounter \in Nat /\ fulTsCounter + 1 \in Nat
      /\ fmFullTsStorage \in SUBSET Nat /\ IsFiniteSet(fmFullTsStorage)
      /\ fmFullTsStorage \cup {idx} \in SUBSET Nat
      /\ IsFiniteSet(fmFullTsStorage \cup {idx})
      /\ fvulMissedTsIndices \in Seq(Nat)
      /\ fEvtHeader \in Nat \cup {NoTs}
  <2> IsFiniteSet(fmFullTsStorage \cup {idx})
    BY FS_AddElement DEF SinkTypeInv
  <2> QED BY DEF SinkTypeInv, SinkTypeOK
<1>4. CASE HandleDataBypass(idx)
  <2> processed' = log /\ sinkState' \in {sinkState, "eof"}
    BY <1>4 DEF HandleDataBypass, Finish, log
  <2> QED BY <1>1, <1>2 DEF SinkAppends
<1>5. CASE HandleDataDirect(idx)
  <2>1. CheckTsQueues(idx, fulTsCounter + 1, fmFullTsStorage, fvulMissedTsIndices, log, idx)
    BY <1>5 DEF HandleDataDirect, log
  <2>2. /\ processed' \in Seq(Entries)
        /\ Len(log) <= Len(processed')
        /\ \A i \in 1 .. Len(log) : processed'[i] = log[i]
        /\ sinkState' \in {sinkState, "eof"}
    BY <1>1, <1>3, <2>1, DrainAppends
  <2> Len(processed') \in Nat
    BY <2>2
  <2> QED BY <1>1, <1>2, <2>2 DEF SinkAppends
<1>6. CASE HandleDataStore(idx)
  <2>1. CheckTsQueues(fuPrevTsIndex, fulTsCounter, fmFullTsStorage \cup {idx},
                      fvulMissedTsIndices, processed, fEvtHeader)
    BY <1>6 DEF HandleDataStore
  <2>2. /\ processed' \in Seq(Entries)
        /\ Len(processed) <= Len(processed')
        /\ \A i \in 1 .. Len(processed) : processed'[i] = processed[i]
        /\ sinkState' \in {sinkState, "eof"}
    BY <1>1, <1>3, <2>1, DrainAppends
  <2> QED BY <1>1, <1>2, <2>2 DEF SinkAppends
<1> QED
  BY <1>4, <1>5, <1>6 DEF HandleData

\* HandleMissTsData only appends entries.
LEMMA MissTsDataAppends ==
  ASSUME SinkTypeInv, NEW v \in Seq(Nat), HandleMissTsData(v) PROVE SinkAppends
<1> DEFINE missed == fvulMissedTsIndices \o v
<1>1. missed \in Seq(Nat) /\ processed \in Seq(Entries) /\ sinkState = "running"
  BY ConcatProperties DEF SinkTypeInv, SinkTypeOK, HandleMissTsData
<1>2. CASE BypassConsecutiveTs
  BY <1>1, <1>2 DEF HandleMissTsData, SinkAppends
<1>3. CASE ~BypassConsecutiveTs
  <2>1. CheckTsQueues(fuPrevTsIndex, fulTsCounter, fmFullTsStorage, missed,
                      processed, fEvtHeader)
    BY <1>3 DEF HandleMissTsData
  <2> HIDE DEF missed
  <2>2. /\ fuPrevTsIndex \in Nat /\ fulTsCounter \in Nat
        /\ fmFullTsStorage \in SUBSET Nat /\ IsFiniteSet(fmFullTsStorage)
        /\ fEvtHeader \in Nat \cup {NoTs}
    BY DEF SinkTypeInv, SinkTypeOK
  <2> QED BY <1>1, <2>1, <2>2, DrainAppends DEF SinkAppends
<1> QED
  BY <1>2, <1>3

\* All that is known of a state of the chain.
ChainInv == Bookkeeping /\ MissedInv /\ OrderInv /\ BehindInv

\* It holds initially.
LEMMA ChainInvInit == Init => ChainInv
BY BookkeepingInit, MissedInvInit, OrderInvInit, BehindInvInit DEF ChainInv

\* It is inductive, if the order of the TS is checked.
LEMMA ChainInvStep ==
  ASSUME ~BypassConsecutiveTs PROVE ChainInv /\ [Next]_vars => ChainInv'
BY BookkeepingStep, MissedInvStep, OrderInvStep, BehindInvStep DEF ChainInv, Bookkeeping

\* What the archive promises of its entries.
EntriesInv ==
  \A i \in 1 .. Len(processed) :
    /\ processed[i].kind = "full" <=> processed[i].ts \in taken
    /\ \E j \in taken : processed[i].ts <= j
    /\ i > 1 => processed[i].ts = processed[i - 1].ts + 1

\* The invariants of the chain give it.
LEMMA ArchivedEntries == ChainInv => EntriesInv
<1> SUFFICES ASSUME ChainInv, NEW i \in 1 .. Len(processed)
             PROVE  /\ processed[i].kind = "full" <=> processed[i].ts \in taken
                    /\ \E j \in taken : processed[i].ts <= j
                    /\ i > 1 => processed[i].ts = processed[i - 1].ts + 1
  BY DEF EntriesInv
<1>1. /\ processed[i] \in Entries /\ DOMAIN processed = 1 .. Len(processed)
      /\ Len(processed) \in Nat
  BY ElementOfSeq, LenProperties DEF ChainInv, Bookkeeping, TypeInv, TypeOK, SinkTypeOK
<1>2. processed[i].ts \in Nat
  BY <1>1 DEF Entries
<1>3. processed[i].kind = "full" => processed[i].ts \in taken
  BY <1>1 DEF ChainInv, Bookkeeping, EveryTsInOnePlace, WrittenFull, FullIn
<1>4. processed[i].kind # "full" => processed[i].ts \notin taken
  BY DEF ChainInv, MissedInv, Gone
<1>5. \E j \in taken : processed[i].ts <= j
  <2>1. CASE processed[i].kind = "full"
    BY <1>2, <1>3, <2>1
  <2>2. CASE processed[i].kind # "full"
    BY <2>2 DEF ChainInv, BehindInv, SinkMissedIn, MissedIn, BehindTaken
  <2> QED BY <2>1, <2>2
<1>6. i > 1 => processed[i].ts = processed[i - 1].ts + 1
  <2> SUFFICES ASSUME i > 1 PROVE processed[i].ts = processed[i - 1].ts + 1
    OBVIOUS
  <2> i - 1 \in 1 .. Len(processed) - 1 /\ (i - 1) + 1 = i
    BY <1>1
  <2> QED BY DEF ChainInv, OrderInv, OrderedLog
<1> QED
  BY <1>3, <1>4, <1>5, <1>6

\* A file that EOF closed is complete.
LEMMA CompleteAtEof == ~BypassConsecutiveTs => (ChainInv => EofCloseIsComplete)
BY EofMeansAllWritten DEF ChainInv

\* A full entry of the file is one of the archive.
LEMMA FullEntryView ==
  ASSUME NEW t, NEW kind, NEW e, e = [ts |-> t, full |-> kind = "full"], kind = "full"
  PROVE  e.full /\ e.ts = t
BY Zenon

\* A handler of the sink that runs is a Write of the archive.
LEMMA SinkStepIsWrite ==
  ASSUME SinkAppends, EntriesInv', EofCloseIsComplete', UNCHANGED taken
  PROVE  Archive!Write
<1> DEFINE file == [i \in DOMAIN processed |->
                      [ts |-> processed[i].ts, full |-> processed[i].kind = "full"]]
<1>1. /\ DOMAIN processed = 1 .. Len(processed) /\ DOMAIN processed' = 1 .. Len(processed')
      /\ Len(processed) \in Nat /\ Len(processed') \in Nat
      /\ Len(processed) <= Len(processed')
      /\ \A i \in 1 .. Len(processed) : processed'[i] = processed[i]
  BY LenProperties DEF SinkAppends
<1>2. /\ \A i \in 1 .. Len(processed) :
           file[i] = [ts |-> processed[i].ts, full |-> processed[i].kind = "full"]
      /\ Len(file) = Len(processed) /\ DOMAIN file = 1 .. Len(processed)
  BY <1>1
<1>3. /\ \A i \in 1 .. Len(processed') :
           file'[i] = [ts |-> processed'[i].ts, full |-> processed'[i].kind = "full"]
      /\ Len(file') = Len(processed') /\ DOMAIN file' = 1 .. Len(processed')
  BY <1>1
<1> HIDE DEF file
<1>4. \A i \in 1 .. Len(processed') :
        /\ processed'[i].kind = "full" <=> processed'[i].ts \in taken
        /\ \E j \in taken : processed'[i].ts <= j
        /\ i > 1 => processed'[i].ts = processed'[i - 1].ts + 1
  BY DEF EntriesInv
<1>5. /\ Len(file) <= Len(file')
      /\ \A i \in 1 .. Len(file) : file'[i] = file[i]
  BY <1>1, <1>2, <1>3
<1>6. ASSUME NEW i \in (Len(file) + 1) .. Len(file')
      PROVE  /\ i > 1 => file'[i].ts = file'[i - 1].ts + 1
             /\ file'[i].full = (file'[i].ts \in taken)
             /\ \E j \in taken : file'[i].ts <= j
  <2>1. i \in 1 .. Len(processed') /\ (i > 1 => i - 1 \in 1 .. Len(processed'))
    BY <1>1, <1>2, <1>3
  <2>2. file'[i].ts = processed'[i].ts /\ file'[i].full = (processed'[i].kind = "full")
    BY <1>3, <2>1
  <2>3. i > 1 => file'[i - 1].ts = processed'[i - 1].ts
    BY <1>3, <2>1
  <2> QED BY <1>4, <2>1, <2>2, <2>3
<1>7. sinkState' = "eof" =>
        \A j \in taken : \E i \in DOMAIN file' : file'[i].full /\ file'[i].ts = j
  <2> SUFFICES ASSUME sinkState' = "eof", NEW j \in taken
               PROVE  \E i \in DOMAIN file' : file'[i].full /\ file'[i].ts = j
    OBVIOUS
  <2>2. j \in WrittenFull'
    BY DEF EofCloseIsComplete
  <2>3. PICK i \in DOMAIN processed' : processed'[i].kind = "full" /\ processed'[i].ts = j
    BY <2>2 DEF WrittenFull, FullIn
  <2>4. /\ i \in 1 .. Len(processed') /\ i \in DOMAIN file'
        /\ file'[i] = [ts |-> processed'[i].ts, full |-> processed'[i].kind = "full"]
    BY <1>1, <1>3
  <2>5. file'[i].full /\ file'[i].ts = j
    BY <2>3, <2>4, FullEntryView
  <2> QED BY <2>4, <2>5
<1>8. sinkState = "running" /\ sinkState' \in {"running", "eof"}
  BY DEF SinkAppends
<1> QED
  BY <1>5, <1>6, <1>7, <1>8 DEF Archive!Write, Archive!Extends, Archive!IsPrefixOf, file

\* A TS that the sampler counts is a Take of the archive.
LEMMA SourceStepIsTake ==
  ASSUME TypeInv, Counted, NEW i \in TsIndices, NewTs(i), Count(i), UNCHANGED sinkVars
  PROVE  Archive!Take
<1>1. i \in Nat /\ srcNext \in Nat /\ taken \subseteq Nat /\ srcNext <= i
  BY DeliveryAssumption DEF TypeInv, TypeOK, NewTs
<1>2. \A j \in taken : j < i
  BY <1>1 DEF Counted
<1>3. i \in taken' /\ taken' = taken \cup {i}
  BY DEF Count
<1>4. UNCHANGED <<processed, sinkState>>
  BY DEF sinkVars
<1> QED
  BY <1>2, <1>3, <1>4 DEF Archive!Take

\* EOF that finds everything written closes the file complete, otherwise it
\* changes nothing; STOP closes it early.
LEMMA CommandStep ==
  ASSUME processed \in Seq(Entries), EofCloseIsComplete', UNCHANGED taken,
         NEW cmd, HandleCommand(cmd), sinkState' \in {"running", "eof", "stop"}
  PROVE  Archive!Write \/ Archive!Abort \/ UNCHANGED Archive!archiveVars
<1>1. sinkState = "running" /\ UNCHANGED processed
  BY DEF HandleCommand
<1>2. CASE HandleStop(cmd)
  <2> sinkState' = "stop"
    BY <1>2 DEF HandleStop, Finish
  <2> QED BY <1>1 DEF Archive!Abort
<1>3. CASE HandleEof(cmd) /\ sinkState' = sinkState
  BY <1>1, <1>3 DEF Archive!archiveVars
<1>4. CASE HandleEof(cmd) /\ sinkState' = "eof"
  <2> DEFINE file == [i \in DOMAIN processed |->
                        [ts |-> processed[i].ts, full |-> processed[i].kind = "full"]]
  <2>1. /\ DOMAIN processed = 1 .. Len(processed) /\ Len(processed) \in Nat
        /\ DOMAIN file = 1 .. Len(processed) /\ Len(file) = Len(processed)
    BY LenProperties
  <2>2. \A i \in 1 .. Len(processed) :
          file[i] = [ts |-> processed[i].ts, full |-> processed[i].kind = "full"]
    BY <2>1
  <2>3. file' = file
    BY <1>1
  <2> HIDE DEF file
  <2>4. \A j \in taken : \E i \in DOMAIN file : file[i].full /\ file[i].ts = j
    <3> SUFFICES ASSUME NEW j \in taken
                 PROVE  \E i \in DOMAIN file : file[i].full /\ file[i].ts = j
      OBVIOUS
    <3>1. j \in WrittenFull
      BY <1>1, <1>4 DEF EofCloseIsComplete, WrittenFull
    <3>2. PICK i \in DOMAIN processed : processed[i].kind = "full" /\ processed[i].ts = j
      BY <3>1 DEF WrittenFull, FullIn
    <3>3. /\ i \in DOMAIN file
          /\ file[i] = [ts |-> processed[i].ts, full |-> processed[i].kind = "full"]
      BY <2>1, <2>2
    <3>4. file[i].full /\ file[i].ts = j
      BY <3>2, <3>3, FullEntryView
    <3> QED BY <3>3, <3>4
  <2>5. Archive!IsPrefixOf(file, file') /\ (Len(file) + 1) .. Len(file') = {}
    BY <2>1, <2>3 DEF Archive!IsPrefixOf
  <2> QED
    BY <1>1, <1>4, <2>3, <2>4, <2>5 DEF Archive!Write, Archive!Extends, file
<1>5. HandleEof(cmd) => sinkState' = sinkState \/ sinkState' = "eof"
  BY DEF HandleEof, Finish
<1> QED
  BY <1>2, <1>3, <1>4, <1>5 DEF HandleCommand

\* Each step of the chain is a step of the archive or leaves it unchanged.
LEMMA ArchiveStep ==
  ASSUME ChainInv, EntriesInv', EofCloseIsComplete', TypeInv', [Next]_vars
  PROVE  [Archive!ArchiveNext]_(Archive!archiveVars)
<1> USE DEF Archive!ArchiveNext
<1>a. /\ TypeInv /\ Counted /\ SinkTypeInv /\ SamplerTypeOK /\ TsIndices \subseteq Nat
      /\ processed \in Seq(Entries) /\ sinkState' \in {"running", "eof", "stop"}
  BY TypeInvParts, DeliveryAssumption
  DEF ChainInv, Bookkeeping, TypeInv, TypeOK, SinkTypeInv, SinkTypeOK
<1>b. UNCHANGED <<taken, processed, sinkState>> => UNCHANGED Archive!archiveVars
  BY DEF Archive!archiveVars
<1>1. ASSUME NEW i \in TsIndices, SampleTs(i) PROVE Archive!Take
  BY <1>a, <1>1, SourceStepIsTake DEF SampleTs
<1>2. ASSUME NEW i \in TsIndices, MissedSendFails(i) PROVE UNCHANGED Archive!archiveVars
  BY <1>b, <1>2 DEF MissedSendFails, sinkVars
<1>3. ASSUME NEW i \in TsIndices, DataSendFails(i) PROVE Archive!Take
  BY <1>a, <1>3, SourceStepIsTake DEF DataSendFails
<1>4. CASE EndOfData
  BY <1>b, <1>4 DEF EndOfData, sinkVars
<1>5. CASE DeliverData
  <2>1. PICK i \in inFlight : HandleData(i)
    BY <1>5 DEF DeliverData
  <2>2. i \in Nat /\ UNCHANGED taken
    BY <1>5, <1>a DEF DeliverData, smpVars, SamplerTypeOK
  <2>3. SinkAppends
    BY <1>a, <2>1, <2>2, DataAppends
  <2> QED BY <2>2, <2>3, SinkStepIsWrite
<1>6. CASE DeliverMissed
  <2>1. Head(missedts) \in Seq(Nat)
    BY <1>6, <1>a, HeadTailProperties DEF DeliverMissed, SamplerTypeOK
  <2>2. HandleMissTsData(Head(missedts)) /\ UNCHANGED taken
    BY <1>6 DEF DeliverMissed, smpVars
  <2>3. SinkAppends
    BY <1>a, <2>1, <2>2, MissTsDataAppends
  <2> QED BY <2>2, <2>3, SinkStepIsWrite
<1>7. CASE DeliverCommand
  <2> HandleCommand(Head(commands)) /\ UNCHANGED taken
    BY <1>7 DEF DeliverCommand, smpVars
  <2> QED BY <1>a, CommandStep
<1>8. CASE LoseTs
  BY <1>b, <1>8 DEF LoseTs, smpVars, sinkVars
<1>9. CASE UNCHANGED vars
  BY <1>b, <1>9 DEF vars, smpVars, sinkVars
<1> QED
  BY <1>1, <1>2, <1>3, <1>4, <1>5, <1>6, <1>7, <1>8, <1>9 DEF Next

\* The empty file is the empty archive.
LEMMA ArchiveStart == Init => Archive!ArchiveInit
<1> SUFFICES ASSUME Init PROVE Archive!ArchiveInit
  OBVIOUS
<1>1. taken = {} /\ processed = <<>> /\ sinkState = "running"
  BY DEF Init, SinkInit
<1>2. [i \in DOMAIN processed |->
         [ts |-> processed[i].ts, full |-> processed[i].kind = "full"]] = <<>>
  BY <1>1
<1> QED
  BY <1>1, <1>2 DEF Archive!ArchiveInit

\* If the order of the TS is checked, sampler, data path and sink implement the
\* archive, in any order of messages and with all faults: entries are only
\* appended, each the next index, full exactly for the TS that were taken, never
\* ahead of the source; the file is closed once, and as complete only when
\* everything taken is in it.
THEOREM ChainImplementsArchive ==
  ASSUME ~BypassConsecutiveTs PROVE Spec => ImplementsArchive
<1>1. Init => ChainInv
  BY ChainInvInit
<1>2. ChainInv /\ [Next]_vars => ChainInv'
  BY ChainInvStep
<1>3. ChainInv => EntriesInv /\ EofCloseIsComplete /\ TypeInv
  BY ArchivedEntries, CompleteAtEof DEF ChainInv, Bookkeeping
<1>4. ChainInv /\ (EntriesInv /\ EofCloseIsComplete /\ TypeInv)' /\ [Next]_vars
        => [Archive!ArchiveNext]_(Archive!archiveVars)
  BY ArchiveStep
<1> QED
  BY <1>1, <1>2, <1>3, <1>4, ArchiveStart, PTL
  DEF Spec, ImplementsArchive, Archive!ArchiveSpec

-----------------------------------------------------------------------------
(* No TS that could be written is held, if the source does not have both   *)
(* TS 0 and TS 1: with both, TS 1 may be taken for the first one, and the  *)
(* TS 0 that comes after it blocks the map.  The inductive invariant is    *)
(* that whatever is stored or on its way lies ahead of the last index.     *)

HasEntry(x) == \E i \in 1 .. Len(processed) : processed[i].ts = x

InFlightIsNew == \A k \in inFlight : ~HasEntry(k)

HeldInv ==
  /\ \A k \in fmFullTsStorage : fuPrevTsIndex < k
  /\ fuPrevTsIndex + 1 \notin fmFullTsStorage
  /\ \A k \in inFlight : fuPrevTsIndex < k \/ (k = 0 /\ processed = <<>>)
  /\ processed = <<>> => fulMissedTsCounter = 0

\* A TS on its way is not in the file, and was not skipped.
LEMMA NewInFlight == ChainInv => InFlightIsNew
<1> SUFFICES ASSUME ChainInv, NEW k \in inFlight, NEW i \in 1 .. Len(processed),
                    processed[i].ts = k
             PROVE  FALSE
  BY DEF InFlightIsNew, HasEntry
<1>1. k \in taken /\ k \notin WrittenFull
  BY DEF ChainInv, Bookkeeping, EveryTsInOnePlace
<1>2. processed[i].kind = "full"
  BY <1>1, ArchivedEntries DEF EntriesInv
<1>3. i \in DOMAIN processed
  BY LenProperties DEF ChainInv, Bookkeeping, TypeInv, TypeOK, SinkTypeOK
<1> QED
  BY <1>1, <1>2, <1>3 DEF WrittenFull, FullIn

HeldEffect(prev, count, stored, log) ==
  /\ \A k \in fmFullTsStorage' : fuPrevTsIndex' < k
  /\ (fuPrevTsIndex' + 1) \notin fmFullTsStorage'
  /\ \A k \in Nat : prev < k /\ ~HasEntry(k)' => fuPrevTsIndex' < k
  /\ processed' = <<>> =>
       log = <<>> /\ (fulMissedTsCounter = 0 => fulMissedTsCounter' = 0)
  /\ /\ log = <<>> /\ prev = 0 /\ count = 0 /\ fulMissedTsCounter = 0
     /\ 1 \notin stored /\ ~HasEntry(0)'
     => processed' = <<>>

\* If all that is stored lies ahead, CheckTsQueues takes every TS that is next, and
\* passes no index without an entry.  It starts a file only with a TS it has or
\* with index 0.
LEMMA DrainHeld ==
  ASSUME NEW prev \in Nat, NEW count \in Nat,
         NEW stored \in SUBSET Nat, IsFiniteSet(stored),
         NEW missed \in Seq(Nat), NEW log \in Seq(Entries),
         NEW header \in Nat \cup {NoTs},
         CheckTsQueues(prev, count, stored, missed, log, header),
         \A k \in stored : prev < k
  PROVE  HeldEffect(prev, count, stored, log)
<1>1. PICK m \in 0 .. Len(missed), first \in Nat, n \in Int,
           written \in SUBSET Nat, added \in Seq(Entries) :
        DrainEffect(prev, count, stored, missed, log, header, m, first, n, written, added)
  BY DrainStep
<1>2. Reachable(prev, stored) = stored
  BY DEF Reachable
<1>3. /\ first - 1 <= n
      /\ written = (first .. n) \cap stored
      /\ (first .. n) \ written = {missed[i] : i \in 1 .. m}
      /\ first \in (first .. n) \ written => MayStartMissed(count, first)
      /\ (n + 1) \notin stored
      /\ Len(added) = n - first + 1
      /\ \A k \in 1 .. Len(added) : added[k].ts = first + k - 1
      /\ fuPrevTsIndex' = IF first <= n THEN n ELSE prev
      /\ fulMissedTsCounter' = fulMissedTsCounter + m
      /\ fmFullTsStorage' = stored \ written
      /\ processed' = log \o added
  BY <1>1, <1>2 DEF DrainEffect
<1>4. first = prev + 1 \/ (first = 0 /\ prev = 0 /\ 1 \notin stored)
  BY <1>1, <1>2 DEF DrainEffect, FirstIndex
<1>5. /\ Len(log) \in Nat /\ Len(added) \in Nat
      /\ Len(processed') = Len(log) + Len(added)
      /\ \A j \in 1 .. Len(added) : processed'[Len(log) + j] = added[j]
  <2> DEFINE new == log \o added
  <2>1. /\ Len(new) = Len(log) + Len(added)
        /\ \A j \in 1 .. Len(added) : new[Len(log) + j] = added[j]
    BY ConcatProperties
  <2>2. processed' = new
    BY <1>3
  <2> HIDE DEF new
  <2> QED BY <2>1, <2>2
<1>6. ASSUME NEW x \in first .. n PROVE HasEntry(x)'
  <2> DEFINE j == x - first + 1
  <2>1. j \in 1 .. Len(added) /\ x = first + j - 1
    BY <1>3
  <2> HIDE DEF j
  <2>2. processed'[Len(log) + j].ts = x /\ Len(log) + j \in 1 .. Len(processed')
    BY <1>3, <1>5, <2>1
  <2> QED BY <2>2 DEF HasEntry
<1>7. ASSUME NEW k \in Nat, prev < k, k \notin first .. n PROVE fuPrevTsIndex' < k
  BY <1>3, <1>4, <1>7
<1>8. \A k \in fmFullTsStorage' : fuPrevTsIndex' < k
  BY <1>3, <1>7
<1>9. (fuPrevTsIndex' + 1) \notin fmFullTsStorage'
  BY <1>3, <1>4
<1>10. \A k \in Nat : prev < k /\ ~HasEntry(k)' => fuPrevTsIndex' < k
  BY <1>6, <1>7
<1>11. ASSUME processed' = <<>>
       PROVE  log = <<>> /\ (fulMissedTsCounter = 0 => fulMissedTsCounter' = 0)
  <2>1. Len(log) = 0 /\ Len(added) = 0
    BY <1>5, <1>11
  <2>2. first .. n = {}
    BY <1>3, <2>1
  <2>3. m = 0
    <3> SUFFICES ASSUME m # 0 PROVE FALSE
      OBVIOUS
    <3> 1 \in 1 .. m
      OBVIOUS
    <3> QED BY <1>3, <2>2
  <2> QED BY <1>3, <2>1, <2>3, EmptySeq
<1>12. ASSUME log = <<>>, prev = 0, count = 0, fulMissedTsCounter = 0,
              1 \notin stored, ~HasEntry(0)'
       PROVE  processed' = <<>>
  <2>1. ~(first <= n)
    <3> SUFFICES ASSUME first <= n PROVE FALSE
      OBVIOUS
    <3>1. first \in first .. n
      OBVIOUS
    <3>2. first = 1
      BY <1>4, <1>6, <1>12, <3>1
    <3>3. first \in (first .. n) \ written
      BY <1>3, <1>12, <3>1, <3>2
    <3> QED BY <1>3, <1>12, <3>2, <3>3 DEF MayStartMissed
  <2>2. Len(added) = 0
    BY <1>3, <2>1
  <2>3. added = <<>>
    BY <2>2, EmptySeq
  <2> QED BY <1>3, <1>12, <2>3, ConcatEmptySeq
<1> QED
  BY <1>8, <1>9, <1>10, <1>11, <1>12 DEF HeldEffect

\* Nothing is stored or on its way.
LEMMA HeldInvInit == Init => HeldInv
BY DEF Init, SinkInit, HeldInv

\* A new TS lies ahead of all entries, which are not ahead of the source.
LEMMA HeldInvSource ==
  ASSUME ChainInv, HeldInv, NEW i \in TsIndices, NewTs(i),
         inFlight' \in {inFlight, inFlight \cup {i}}, UNCHANGED sinkVars
  PROVE  HeldInv'
<1>1. i \in Nat /\ srcNext \in Nat /\ srcNext <= i
  BY DeliveryAssumption DEF ChainInv, Bookkeeping, TypeInv, TypeOK, NewTs
<1>2. /\ processed = <<>> => fuPrevTsIndex = 0
      /\ processed # <<>> => processed[Len(processed)].ts = fuPrevTsIndex
      /\ fuPrevTsIndex \in Nat /\ processed \in Seq(Entries)
  BY DEF ChainInv, OrderInv, Bookkeeping, TypeInv, TypeOK, SinkTypeOK
<1>3. processed # <<>> => fuPrevTsIndex < i
  <2> SUFFICES ASSUME processed # <<>> PROVE fuPrevTsIndex < i
    OBVIOUS
  <2> Len(processed) \in 1 .. Len(processed)
    BY <1>2, EmptySeq
  <2>1. PICK j \in taken : fuPrevTsIndex <= j
    BY <1>2, ArchivedEntries DEF EntriesInv
  <2>2. j \in Nat /\ j < srcNext
    BY DeliveryAssumption DEF ChainInv, Bookkeeping, Counted, TypeInv, TypeOK
  <2> QED BY <1>1, <1>2, <2>1, <2>2
<1>4. fuPrevTsIndex < i \/ (i = 0 /\ processed = <<>>)
  BY <1>1, <1>2, <1>3
<1>5. UNCHANGED <<fmFullTsStorage, fuPrevTsIndex, processed, fulMissedTsCounter>>
  BY DEF sinkVars
<1> QED
  BY <1>4, <1>5 DEF HeldInv

\* Every step keeps the invariant, if TS 0 and TS 1 cannot overtake each other.
LEMMA HeldInvStep ==
  ASSUME ~BypassConsecutiveTs, ~(0 \in TsIndices /\ 1 \in TsIndices)
  PROVE  ChainInv /\ InFlightIsNew' /\ HeldInv /\ [Next]_vars => HeldInv'
<1> SUFFICES ASSUME ChainInv, InFlightIsNew', HeldInv, [Next]_vars PROVE HeldInv'
  OBVIOUS
<1>a. /\ fuPrevTsIndex \in Nat /\ fulTsCounter \in Nat /\ fulTsCounter + 1 \in Nat
      /\ fulMissedTsCounter \in Nat
      /\ fmFullTsStorage \in SUBSET Nat /\ IsFiniteSet(fmFullTsStorage)
      /\ fvulMissedTsIndices \in Seq(Nat)
      /\ processed \in Seq(Entries)
      /\ fEvtHeader \in Nat \cup {NoTs}
      /\ inFlight \in SUBSET TsIndices /\ TsIndices \in SUBSET Nat
      /\ missedts \in Seq(Seq(Nat))
  BY DeliveryAssumption DEF ChainInv, Bookkeeping, TypeInv, TypeOK, SinkTypeOK
<1>b. processed = <<>> => fuPrevTsIndex = 0 /\ fulTsCounter = 0
  <2> SUFFICES ASSUME processed = <<>> PROVE fuPrevTsIndex = 0 /\ fulTsCounter = 0
    OBVIOUS
  <2> WrittenFull = {}
    BY DEF WrittenFull, FullIn
  <2> QED BY FS_EmptySet DEF ChainInv, OrderInv, Bookkeeping, Counted
<1>c. fmFullTsStorage \subseteq TsIndices
  BY DEF ChainInv, Bookkeeping, EveryTsInOnePlace, TypeInv, TypeOK
<1>d. ASSUME UNCHANGED sinkVars, inFlight' \subseteq inFlight PROVE HeldInv'
  BY <1>d DEF HeldInv, sinkVars
\* The loop ran with the TS of the map and perhaps a new one, all of them ahead.
<1>e. ASSUME NEW stored \in SUBSET TsIndices, IsFiniteSet(stored),
             NEW missed \in Seq(Nat), \A k \in stored : fuPrevTsIndex < k,
             CheckTsQueues(fuPrevTsIndex, fulTsCounter, stored, missed, processed, fEvtHeader),
             inFlight' \subseteq inFlight
      PROVE  HeldInv'
  <2>1. stored \in SUBSET Nat
    BY <1>a
  <2>2. /\ \A k \in fmFullTsStorage' : fuPrevTsIndex' < k
        /\ (fuPrevTsIndex' + 1) \notin fmFullTsStorage'
        /\ \A k \in Nat : fuPrevTsIndex < k /\ ~HasEntry(k)' => fuPrevTsIndex' < k
        /\ processed' = <<>> =>
             processed = <<>> /\ (fulMissedTsCounter = 0 => fulMissedTsCounter' = 0)
        /\ /\ processed = <<>> /\ fuPrevTsIndex = 0 /\ fulTsCounter = 0 /\ fulMissedTsCounter = 0
           /\ 1 \notin stored /\ ~HasEntry(0)'
           => processed' = <<>>
    <3> HeldEffect(fuPrevTsIndex, fulTsCounter, stored, processed)
      BY <1>a, <1>e, <2>1, DrainHeld
    <3> QED BY DEF HeldEffect
  <2>3. ASSUME NEW k \in inFlight'
        PROVE  fuPrevTsIndex' < k \/ (k = 0 /\ processed' = <<>>)
    <3>1. k \in inFlight /\ k \in Nat /\ k \in TsIndices /\ ~HasEntry(k)'
      BY <1>a, <1>e DEF InFlightIsNew
    <3>2. CASE fuPrevTsIndex < k
      BY <2>2, <3>1, <3>2
    <3>3. CASE k = 0 /\ processed = <<>>
      <4> 1 \notin stored
        BY <3>1, <3>3
      <4> QED BY <1>b, <2>2, <3>1, <3>3 DEF HeldInv
    <3> QED BY <3>1, <3>2, <3>3 DEF HeldInv
  <2> QED BY <2>2, <2>3 DEF HeldInv
<1>1. ASSUME NEW i \in TsIndices, SampleTs(i) PROVE HeldInv'
  BY <1>1, HeldInvSource DEF SampleTs
<1>2. ASSUME NEW i \in TsIndices, MissedSendFails(i) PROVE HeldInv'
  BY <1>2, <1>d DEF MissedSendFails
<1>3. ASSUME NEW i \in TsIndices, DataSendFails(i) PROVE HeldInv'
  BY <1>3, HeldInvSource DEF DataSendFails
<1>4. CASE EndOfData
  BY <1>4, <1>d DEF EndOfData
<1>5. CASE DeliverData
  <2>1. PICK i \in inFlight : HandleData(i) /\ inFlight' = inFlight \ {i}
    BY <1>5 DEF DeliverData
  <2>2. i \in Nat /\ i \in TsIndices /\ (fuPrevTsIndex < i \/ (i = 0 /\ processed = <<>>))
    BY <1>a DEF HeldInv
  <2>3. CASE HandleDataDirect(i)
    <3> DEFINE log == Append(processed, FullEntry(i))
    <3>1. CheckTsQueues(i, fulTsCounter + 1, fmFullTsStorage, fvulMissedTsIndices, log, i)
      BY <2>3 DEF HandleDataDirect
    <3>2. i = fuPrevTsIndex + 1 \/ (fuPrevTsIndex = 0 /\ i = 0)
      BY <2>3 DEF HandleDataDirect, IsNextTs
    <3>3. log \in Seq(Entries) /\ log # <<>>
      <4> FullEntry(i) \in Entries /\ processed \in Seq(Entries)
        BY <1>a, <2>2, FullEntryType
      <4> QED BY AppendProperties
    <3> HIDE DEF log
    <3>4. \A k \in fmFullTsStorage : i < k
      BY <1>a, <2>2, <3>2 DEF HeldInv
    <3>5. /\ \A k \in fmFullTsStorage' : fuPrevTsIndex' < k
          /\ (fuPrevTsIndex' + 1) \notin fmFullTsStorage'
          /\ \A k \in Nat : i < k /\ ~HasEntry(k)' => fuPrevTsIndex' < k
          /\ processed' # <<>>
      <4> HeldEffect(i, fulTsCounter + 1, fmFullTsStorage, log)
        BY <1>a, <2>2, <3>1, <3>3, <3>4, DrainHeld
      <4> QED BY <3>3 DEF HeldEffect
    <3>6. ASSUME NEW k \in inFlight' PROVE fuPrevTsIndex' < k
      <4>1. k \in inFlight /\ k # i /\ k \in Nat /\ k \in TsIndices /\ ~HasEntry(k)'
        BY <1>a, <2>1 DEF InFlightIsNew
      <4>2. i < k
        BY <1>a, <1>b, <2>2, <3>2, <4>1 DEF HeldInv
      <4> QED BY <3>5, <4>1, <4>2
    <3> QED BY <3>5, <3>6 DEF HeldInv
  <2>4. CASE HandleDataStore(i)
    <3> DEFINE stored == fmFullTsStorage \cup {i}
    <3>1. CheckTsQueues(fuPrevTsIndex, fulTsCounter, stored, fvulMissedTsIndices,
                        processed, fEvtHeader)
      BY <2>4 DEF HandleDataStore
    <3>2. stored \in SUBSET TsIndices /\ IsFiniteSet(stored)
      BY <1>a, <1>c, <2>2, FS_AddElement
    <3>3. ~(i = 0 /\ processed = <<>>)
      BY <1>b, <2>4 DEF HandleDataStore, IsNextTs
    <3>4. \A k \in stored : fuPrevTsIndex < k
      BY <2>2, <3>3 DEF HeldInv
    <3> HIDE DEF stored
    <3> QED BY <1>a, <1>e, <2>1, <3>1, <3>2, <3>4
  <2>5. ~HandleDataBypass(i)
    BY DEF HandleDataBypass
  <2> QED BY <2>1, <2>3, <2>4, <2>5 DEF HandleData
<1>6. CASE DeliverMissed
  <2> DEFINE missed == fvulMissedTsIndices \o Head(missedts)
  <2>1. Head(missedts) \in Seq(Nat)
    BY <1>6, <1>a, HeadTailProperties DEF DeliverMissed
  <2>2. missed \in Seq(Nat)
    BY <1>a, <2>1, ConcatProperties
  <2>3. /\ CheckTsQueues(fuPrevTsIndex, fulTsCounter, fmFullTsStorage, missed,
                         processed, fEvtHeader)
        /\ inFlight' = inFlight
    BY <1>6 DEF DeliverMissed, HandleMissTsData
  <2> HIDE DEF missed
  <2>4. \A k \in fmFullTsStorage : fuPrevTsIndex < k
    BY DEF HeldInv
  <2> QED BY <1>a, <1>c, <1>e, <2>2, <2>3, <2>4
<1>7. CASE DeliverCommand
  <2> /\ UNCHANGED <<fuPrevTsIndex, fulMissedTsCounter, fmFullTsStorage, processed>>
      /\ UNCHANGED inFlight
    BY <1>7 DEF DeliverCommand, HandleCommand
  <2> QED BY DEF HeldInv
<1>8. CASE LoseTs
  BY <1>8, <1>d DEF LoseTs
<1>9. CASE UNCHANGED vars
  BY <1>9, <1>d DEF vars, netVars
<1> QED
  BY <1>1, <1>2, <1>3, <1>4, <1>5, <1>6, <1>7, <1>8, <1>9 DEF Next

\* Between two messages no TS in the map is the next one to write, unless the
\* source has both TS 0 and TS 1; then it may be, see the race at the start of a
\* run.
THEOREM ReadyTsIsWritten ==
  ASSUME ~(0 \in TsIndices /\ 1 \in TsIndices) PROVE Spec => []NoReadyTsIsHeld
<1>1. CASE BypassConsecutiveTs
  <2> NoReadyTsIsHeld
    BY <1>1 DEF NoReadyTsIsHeld
  <2> QED BY PTL
<1>2. CASE ~BypassConsecutiveTs
  <2>1. Init => ChainInv /\ HeldInv
    BY ChainInvInit, HeldInvInit
  <2>2. ChainInv /\ [Next]_vars => ChainInv'
    BY <1>2, ChainInvStep
  <2>3. ChainInv => InFlightIsNew
    BY NewInFlight
  <2>4. ChainInv /\ InFlightIsNew' /\ HeldInv /\ [Next]_vars => HeldInv'
    BY <1>2, HeldInvStep
  <2>5. HeldInv => NoReadyTsIsHeld
    BY DEF HeldInv, NoReadyTsIsHeld
  <2> QED BY <2>1, <2>2, <2>3, <2>4, <2>5, PTL DEF Spec
<1> QED
  BY <1>1, <1>2

=============================================================================
