---------------------------- MODULE EventSinkLoop ----------------------------
(***************************************************************************)
(* The loop of CheckTsQueues written as the code has it, one iteration     *)
(* after the other, against the closed form Drains that module EventSink   *)
(* uses.  One handler call is made from every small state of the sink.     *)
(***************************************************************************)
EXTENDS EventSink

CONSTANTS MaxIndex,     \* bound on the TS indices
          MaxMissed     \* bound on the length of the missed vector

VARIABLE call           \* the one call made: what came and its index

loopVars == <<sinkVars, call>>

\* The values the loop works on.
Working(prev, count, miss, stored, missed, log, header) ==
  [prev |-> prev, count |-> count, miss |-> miss, stored |-> stored,
   missed |-> missed, log |-> log, header |-> header]

MapHeadIsNext(s) ==
  /\ s.stored # {}
  /\ (s.prev + 1) \in s.stored
  /\ \A k \in s.stored : s.prev + 1 <= k

VectorHeadIsNext(s) ==
  /\ s.missed # <<>>
  /\ \/ s.prev = 0 /\ Head(s.missed) = 0
     \/ (0 < s.count \/ 0 < s.miss) /\ Head(s.missed) = s.prev + 1

TakeMapHead(s) ==
  [s EXCEPT !.prev = s.prev + 1, !.count = @ + 1, !.stored = @ \ {s.prev + 1},
            !.header = s.prev + 1, !.log = Append(@, FullEntry(s.prev + 1))]

TakeVectorHead(s) ==
  LET entry == IF WriteMissingTs
               THEN [ts |-> Head(s.missed), kind |-> "empty", header |-> s.header]
               ELSE [ts |-> Head(s.missed), kind |-> "skipped", header |-> NoTs]
  IN  [s EXCEPT !.prev = Head(s.missed), !.miss = @ + 1, !.missed = Tail(@),
                !.log = Append(@, entry)]

RECURSIVE Loop(_)
Loop(s) ==
  IF MapHeadIsNext(s) THEN Loop(TakeMapHead(s))
  ELSE IF VectorHeadIsNext(s) THEN Loop(TakeVectorHead(s))
  ELSE s

\* The handlers' values when they call the loop.
Now == Working(fuPrevTsIndex, fulTsCounter, fulMissedTsCounter, fmFullTsStorage,
               fvulMissedTsIndices, processed, fEvtHeader)

AfterData(idx) ==
  IF IsNextTs(idx)
  THEN [Now EXCEPT !.prev = idx, !.count = @ + 1, !.header = idx,
                   !.log = Append(@, FullEntry(idx))]
  ELSE [Now EXCEPT !.stored = @ \cup {idx}]

AfterMissed(v) == [Now EXCEPT !.missed = @ \o v]

-----------------------------------------------------------------------------
Indices == 0 .. MaxIndex
Vectors == {v \in UNION {[1 .. l -> Indices] : l \in 0 .. MaxMissed} :
              \A i, j \in DOMAIN v : v[i] = v[j] => i = j}

LoopInit ==
  /\ fuPrevTsIndex \in Indices
  /\ fulTsCounter \in {0, 1} /\ fulMissedTsCounter \in {0, 1}
  /\ fmFullTsStorage \in SUBSET Indices
  /\ fvulMissedTsIndices \in Vectors
  \* no second TS 0 after the first
  /\ fuPrevTsIndex = 0 /\ fulTsCounter + fulMissedTsCounter > 0
       => \A i \in DOMAIN fvulMissedTsIndices : fvulMissedTsIndices[i] # 0
  /\ fbReceivedEof = FALSE /\ fuLastTsIndex = 0 /\ fuTotalTsCount = 0
  /\ fEvtHeader = NoTs
  /\ processed = <<>>
  /\ sinkState = "running"
  /\ call = <<>>

CallHandleData ==
  \E idx \in Indices : HandleData(idx) /\ call' = <<"events", idx>>

CallHandleMissTsData ==
  \E idx \in Indices :
    /\ \A i \in DOMAIN fvulMissedTsIndices : fvulMissedTsIndices[i] # idx
    /\ fuPrevTsIndex = 0 /\ fulTsCounter + fulMissedTsCounter > 0 => idx # 0
    /\ HandleMissTsData(<<idx>>)
    /\ call' = <<"missedts", idx>>

LoopNext == call = <<>> /\ (CallHandleData \/ CallHandleMissTsData)

LoopSpec == LoopInit /\ [][LoopNext]_loopVars

\* A handler that runs CheckTsQueues leaves exactly what the loop of the code
\* computes, written one iteration at a time: same TS written, in the same
\* order, same counters, same rest of the map and of the vector.
HandlersRunTheLoop ==
  [][Now' = Loop(IF call'[1] = "events" THEN AfterData(call'[2])
                                        ELSE AfterMissed(<<call'[2]>>))]_loopVars
=============================================================================
