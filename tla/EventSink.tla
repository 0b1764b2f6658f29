------------------------------ MODULE EventSink ------------------------------
(***************************************************************************)
(* CbmDeviceDigiEventSink: the device at the end of the online chain that  *)
(* writes the event-built timeslices (TS) to one output file.  It gets     *)
(* full TS on "events", vectors of missed indices on "missedts" and EOF or *)
(* STOP on "commands".  The three inputs are independent, so the sink puts *)
(* the TS back in order with a map of early TS and a vector of missed      *)
(* indices, both of which it only reads from the front.                    *)
(*                                                                         *)
(* This module has the state and the three message handlers; the modules   *)
(* that extend it provide the messages.  A TS stands for its index.        *)
(***************************************************************************)
EXTENDS Integers, Sequences, FiniteSets

CONSTANTS BypassConsecutiveTs,  \* option: write TS as they come
          WriteMissingTs,       \* option: one empty entry per missed TS
          NoTs                  \* the header of no TS

ASSUME SinkAssumption ==
  /\ BypassConsecutiveTs \in BOOLEAN
  /\ WriteMissingTs \in BOOLEAN
  /\ NoTs \notin Nat

VARIABLES
  fuPrevTsIndex,        \* index of the last TS accounted for, 0 at the start
  fulTsCounter,         \* full TS written
  fulMissedTsCounter,   \* missed TS accounted for
  fmFullTsStorage,      \* map of early TS, ordered by index: the set of keys
  fvulMissedTsIndices,  \* missed indices not yet accounted for, as received
  fbReceivedEof,
  fuLastTsIndex,        \* from the EOF command
  fuTotalTsCount,       \* from the EOF command
  fEvtHeader,           \* the TS whose header the output branch holds
  processed,            \* the TS accounted for, in order: the file's entries
                        \* plus the missed TS skipped without an entry
  sinkState             \* "running", or closed by Finish: "eof", "stop"

sinkVars == <<fuPrevTsIndex, fulTsCounter, fulMissedTsCounter,
              fmFullTsStorage, fvulMissedTsIndices, fbReceivedEof,
              fuLastTsIndex, fuTotalTsCount, fEvtHeader, processed, sinkState>>

Kinds == {"full", "empty", "skipped"}
Entries == [ts : Nat, kind : Kinds, header : Nat \cup {NoTs}]

\* The full TS of a log of entries.
FullIn(log) == {log[i].ts : i \in {j \in DOMAIN log : log[j].kind = "full"}}
WrittenFull == FullIn(processed)

FullEntry(idx) == [ts |-> idx, kind |-> "full", header |-> idx]

SinkInit ==
  /\ fuPrevTsIndex = 0
  /\ fulTsCounter = 0
  /\ fulMissedTsCounter = 0
  /\ fmFullTsStorage = {}
  /\ fvulMissedTsIndices = <<>>
  /\ fbReceivedEof = FALSE
  /\ fuLastTsIndex = 0
  /\ fuTotalTsCount = 0
  /\ fEvtHeader = NoTs
  /\ processed = <<>>
  /\ sinkState = "running"

-----------------------------------------------------------------------------
(* The loop of CheckTsQueues takes the head of the map if it is the next   *)
(* index, else the head of the missed vector if it is, until neither is.   *)
(* It therefore accounts for an interval of indices first..n and for the   *)
(* first m missed indices; n and m are the only ones that satisfy Drains.  *)

\* Mutants: the head of the map is not looked at; it is hidden by its own guard.
ReachableAlways(prev, stored) == stored
ReachableBeyondNext(prev, stored) ==
  IF \A k \in stored : prev + 1 < k THEN stored ELSE {}

\* A buffered TS that is behind the last index is never taken and, being the
\* head of the map, hides the ones behind it.
Reachable(prev, stored) ==
  IF \A k \in stored : prev < k THEN stored ELSE {}

\* Mutant: a run joined in the middle is not looked for.
FirstIndexNext(prev, stored, missed) == prev + 1

\* The first index the loop looks for: 0 if the vector starts with index 0
\* and nothing was accounted for after 0, the next index otherwise.  The map is
\* tried first.
FirstIndex(prev, stored, missed) ==
  IF /\ prev = 0
     /\ missed # <<>> /\ missed[1] = 0
     /\ 1 \notin Reachable(prev, stored)
  THEN 0
  ELSE prev + 1

\* A missed TS is only taken as the very first one if it is TS 0.
MayStartMissed(count, first) ==
  0 < count \/ 0 < fulMissedTsCounter \/ first = 0

Drains(prev, count, stored, missed, n, m) ==
  LET full  == Reachable(prev, stored)
      first == FirstIndex(prev, stored, missed)
      empty == (first .. n) \ full
  IN  /\ empty = {missed[i] : i \in 1 .. m}
      /\ \A i, j \in 1 .. m : i < j => missed[i] < missed[j]
      /\ first \in empty => MayStartMissed(count, first)
      \* holes in both queues
      /\ (n + 1) \notin full
      /\ ~ /\ m < Len(missed)
           /\ missed[m + 1] = n + 1
           /\ first <= n \/ MayStartMissed(count, first)

\* The header branch is only refreshed by a full TS: an empty entry is
\* filled with what the last full one left there.
HeaderAt(k, first, full, header) ==
  LET before == full \cap (first .. k)
  IN  IF before = {} THEN header
      ELSE CHOOSE h \in before : \A g \in before : g <= h

DrainedEntry(k, first, full, header) ==
  [ts     |-> k,
   kind   |-> IF k \in full THEN "full"
              ELSE IF WriteMissingTs THEN "empty" ELSE "skipped",
   header |-> IF k \in full \/ WriteMissingTs
              THEN HeaderAt(k, first, full, header) ELSE NoTs]

Finish(cause) == sinkState' = cause

\* Mutants: the count is not compared; EOF is an order to close.
LastProcessed(prev, count, last, total) == prev = last
EofIsEnough(prev, count, last, total) == TRUE

\* What EOF announced is reached.
AllProcessed(prev, count, last, total) == prev = last /\ count = total

\* CheckTsQueues, run at the end of a handler that left the given values.
CheckTsQueues(prev, count, stored, missed, log, header) ==
  LET full  == Reachable(prev, stored)
      first == FirstIndex(prev, stored, missed)
  IN \E m \in 0 .. Len(missed) :
     \E n \in (first - 1) .. (first - 1 + m + Cardinality(full)) :
       /\ Drains(prev, count, stored, missed, n, m)
       /\ LET run == first .. n IN
          /\ fuPrevTsIndex' = IF first <= n THEN n ELSE prev
          /\ fulTsCounter' = count + Cardinality(run \cap full)
          /\ fulMissedTsCounter' = fulMissedTsCounter + m
          /\ fmFullTsStorage' = stored \ (run \cap full)
          /\ fvulMissedTsIndices' = SubSeq(missed, m + 1, Len(missed))
          /\ fEvtHeader' = HeaderAt(n, first, full, header)
          /\ processed' = log \o [k \in 1 .. (n - first + 1) |->
                                   DrainedEntry(first + k - 1, first, full, header)]
       /\ IF /\ fbReceivedEof
             /\ AllProcessed(fuPrevTsIndex', fulTsCounter', fuLastTsIndex, fuTotalTsCount)
          THEN Finish("eof")
          ELSE UNCHANGED sinkState

-----------------------------------------------------------------------------
(* The handlers.  FairMQ runs them one at a time in the device's thread;   *)
(* Finish asks for the transitions out of RUNNING, which ends the loop.    *)

HandleMissTsData(vIndices) ==
  /\ sinkState = "running"
  /\ LET missed == fvulMissedTsIndices \o vIndices IN
     IF BypassConsecutiveTs
     THEN /\ fvulMissedTsIndices' = missed
          /\ UNCHANGED <<fuPrevTsIndex, fulTsCounter, fulMissedTsCounter,
                         fmFullTsStorage, fEvtHeader, processed, sinkState>>
     ELSE CheckTsQueues(fuPrevTsIndex, fulTsCounter, fmFullTsStorage, missed,
                        processed, fEvtHeader)
  /\ UNCHANGED <<fbReceivedEof, fuLastTsIndex, fuTotalTsCount>>

\* Mutant: any TS ahead is taken for the next one.
IsNextOrLater(idx) == fuPrevTsIndex < idx

IsNextTs(idx) ==
  \/ idx = fuPrevTsIndex + 1
  \/ fuPrevTsIndex = 0 /\ fulTsCounter = 0 /\ idx = 0

\* Written at once, whatever its index; the end is found by counting.
HandleDataBypass(idx) ==
  /\ BypassConsecutiveTs
  /\ fuPrevTsIndex' = idx
  /\ fulTsCounter' = fulTsCounter + 1
  /\ processed' = Append(processed, FullEntry(idx))
  /\ fEvtHeader' = idx
  /\ IF fbReceivedEof /\ fulTsCounter' + Len(fvulMissedTsIndices) = fuTotalTsCount
     THEN Finish("eof")
     ELSE UNCHANGED sinkState
  /\ UNCHANGED <<fulMissedTsCounter, fmFullTsStorage, fvulMissedTsIndices>>

\* Mutant: the entry is prepared but not dumped.
HandleDataNotDumped(idx) ==
  /\ ~BypassConsecutiveTs
  /\ IsNextTs(idx)
  /\ CheckTsQueues(idx, fulTsCounter + 1, fmFullTsStorage, fvulMissedTsIndices,
                   processed, idx)

HandleDataDirect(idx) ==
  /\ ~BypassConsecutiveTs
  /\ IsNextTs(idx)
  /\ CheckTsQueues(idx, fulTsCounter + 1, fmFullTsStorage, fvulMissedTsIndices,
                   Append(processed, FullEntry(idx)), idx)

HandleDataStore(idx) ==
  /\ ~BypassConsecutiveTs
  /\ ~IsNextTs(idx)
  /\ CheckTsQueues(fuPrevTsIndex, fulTsCounter, fmFullTsStorage \cup {idx},
                   fvulMissedTsIndices, processed, fEvtHeader)

HandleData(idx) ==
  /\ sinkState = "running"
  /\ HandleDataBypass(idx) \/ HandleDataDirect(idx) \/ HandleDataStore(idx)
  /\ UNCHANGED <<fbReceivedEof, fuLastTsIndex, fuTotalTsCount>>

\* Commands: [tag |-> "EOF", last |-> index, total |-> count] and [tag |-> "STOP"].
HandleEof(cmd) ==
  /\ cmd.tag = "EOF"
  /\ fbReceivedEof' = TRUE
  /\ fuLastTsIndex' = cmd.last
  /\ fuTotalTsCount' = cmd.total
  /\ IF AllProcessed(fuPrevTsIndex, fulTsCounter, cmd.last, cmd.total)
     THEN Finish("eof")
     ELSE UNCHANGED sinkState

\* Mutant: STOP waits for missing TS as EOF does.
HandleStopWaits(cmd) ==
  /\ cmd.tag = "STOP"
  /\ fbReceivedEof' = TRUE
  /\ UNCHANGED <<fuLastTsIndex, fuTotalTsCount, sinkState>>

HandleStop(cmd) ==
  /\ cmd.tag = "STOP"
  /\ Finish("stop")
  /\ UNCHANGED <<fbReceivedEof, fuLastTsIndex, fuTotalTsCount>>

HandleCommand(cmd) ==
  /\ sinkState = "running"
  /\ HandleEof(cmd) \/ HandleStop(cmd)
  /\ UNCHANGED <<fuPrevTsIndex, fulTsCounter, fulMissedTsCounter,
                 fmFullTsStorage, fvulMissedTsIndices, fEvtHeader, processed>>

-----------------------------------------------------------------------------
\* Type invariant of the sink's state.
SinkTypeOK ==
  /\ fuPrevTsIndex \in Nat
  /\ fulTsCounter \in Nat
  /\ fulMissedTsCounter \in Nat
  /\ fmFullTsStorage \in SUBSET Nat
  /\ fvulMissedTsIndices \in Seq(Nat)
  /\ fbReceivedEof \in BOOLEAN
  /\ fuLastTsIndex \in Nat
  /\ fuTotalTsCount \in Nat
  /\ fEvtHeader \in Nat \cup {NoTs}
  /\ processed \in Seq(Entries)
  /\ sinkState \in {"running", "eof", "stop"}
=============================================================================
