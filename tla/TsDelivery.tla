------------------------------ MODULE TsDelivery ------------------------------
(***************************************************************************)
(* From the sampler to the output file: the no-split TS sampler, a data    *)
(* path that may hand the TS over in any order, and the event sink.  The   *)
(* unpackers and event builders, which work in parallel on different TS,   *)
(* are only seen here as that data path.                                   *)
(* Missed indices and commands bypass them, on channels of their own.      *)
(***************************************************************************)
EXTENDS EventSink, TsStream

CONSTANTS TsIndices,      \* indices the source may deliver
          SourceSkips,    \* the source may leave out some of them
          MaxTimeslices,  \* fulMaxTimeslices, after which the sampler ends
          SendMayFail,    \* a Send of the sampler may fail
          TsMayGetLost    \* a device of the data path may die with a TS

ASSUME DeliveryAssumption ==
  /\ TsIndices \in SUBSET Nat
  /\ SourceSkips \in BOOLEAN
  /\ MaxTimeslices \in Nat
  /\ SendMayFail \in BOOLEAN
  /\ TsMayGetLost \in BOOLEAN

VARIABLES
  smpPrevTsIndex,  \* the sampler's fulPrevTsIndex
  smpTsCounter,    \* the sampler's fulTsCounter
  smpState,        \* "running", after EOF "eof", out of RUNNING "stopped"
  srcNext,         \* the source has delivered no index from here on
  missedts,        \* channel: vectors of missed indices
  commands,        \* channel: EOF and STOP
  inFlight,        \* TS sent and not yet given to the sink
  taken,           \* history: all TS the sampler counted
  lost             \* history: the ones that will never reach the sink

smpVars == <<smpPrevTsIndex, smpTsCounter, smpState, srcNext, taken>>
netVars == <<missedts, commands, inFlight, lost>>
vars == <<sinkVars, smpVars, netVars>>

Init ==
  /\ SinkInit
  /\ smpPrevTsIndex = 0
  /\ smpTsCounter = 0
  /\ smpState = "running"
  /\ srcNext = 0
  /\ missedts = <<>>
  /\ commands = <<>>
  /\ inFlight = {}
  /\ taken = {}
  /\ lost = {}

-----------------------------------------------------------------------------
(* The sampler, one action per outcome of a request.                       *)

NewTs(i) ==
  /\ smpState = "running"
  /\ i \in TsIndices /\ srcNext <= i
  /\ SourceSkips \/ \A j \in TsIndices : srcNext <= j => i <= j
  /\ smpTsCounter < MaxTimeslices
  /\ srcNext' = i + 1

ReportMissed(i) ==
  missedts' = IF IsGap(smpPrevTsIndex, smpTsCounter, i)
              THEN Append(missedts, MissedIndices(smpPrevTsIndex, smpTsCounter, i))
              ELSE missedts

Count(i) ==
  /\ smpPrevTsIndex' = i
  /\ smpTsCounter' = smpTsCounter + 1
  /\ taken' = taken \cup {i}

SampleTs(i) ==
  /\ NewTs(i)
  /\ ReportMissed(i)
  /\ Count(i)
  /\ inFlight' = inFlight \cup {i}
  /\ UNCHANGED <<smpState, commands, lost, sinkVars>>

\* The result of SendCommand is ignored: a command that is not sent is lost.
SayEof ==
  \/ commands' = Append(commands, Eof(smpPrevTsIndex, smpTsCounter))
  \/ SendMayFail /\ UNCHANGED commands

SayStopTwice ==
  \/ commands' = commands \o <<Stop, Stop>>
  \/ commands' = Append(commands, Stop)
  \/ UNCHANGED commands

\* GetNewTs sends STOP and gives no TS; HandleRequest then sends STOP again
\* and ends the device.
MissedSendFails(i) ==
  /\ SendMayFail
  /\ NewTs(i)
  /\ IsGap(smpPrevTsIndex, smpTsCounter, i)
  /\ SayStopTwice
  /\ smpState' = "stopped"
  /\ UNCHANGED <<smpPrevTsIndex, smpTsCounter, taken, missedts, inFlight, lost,
                 sinkVars>>

\* The TS is counted, but its reply is not sent.
DataSendFails(i) ==
  /\ SendMayFail
  /\ NewTs(i)
  /\ ReportMissed(i)
  /\ Count(i)
  /\ lost' = lost \cup {i}
  /\ SayStopTwice
  /\ smpState' = "stopped"
  /\ UNCHANGED <<inFlight, sinkVars>>

\* No more TS from the source, or the maximum reached.
EndOfData ==
  /\ smpState = "running"
  /\ smpState' = "eof"
  /\ SayEof
  /\ UNCHANGED <<smpPrevTsIndex, smpTsCounter, srcNext, taken, missedts, inFlight,
                 lost, sinkVars>>

(* The channels. *)

DeliverData ==
  /\ \E i \in inFlight : HandleData(i) /\ inFlight' = inFlight \ {i}
  /\ UNCHANGED <<smpVars, missedts, commands, lost>>

DeliverMissed ==
  /\ missedts # <<>>
  /\ HandleMissTsData(Head(missedts))
  /\ missedts' = Tail(missedts)
  /\ UNCHANGED <<smpVars, commands, inFlight, lost>>

DeliverCommand ==
  /\ commands # <<>>
  /\ HandleCommand(Head(commands))
  /\ commands' = Tail(commands)
  /\ UNCHANGED <<smpVars, missedts, inFlight, lost>>

LoseTs ==
  /\ TsMayGetLost
  /\ \E i \in inFlight : inFlight' = inFlight \ {i} /\ lost' = lost \cup {i}
  /\ UNCHANGED <<smpVars, missedts, commands, sinkVars>>

Next ==
  \/ \E i \in TsIndices : SampleTs(i) \/ MissedSendFails(i) \/ DataSendFails(i)
  \/ EndOfData
  \/ DeliverData \/ DeliverMissed \/ DeliverCommand
  \/ LoseTs

Spec == Init /\ [][Next]_vars

\* FairMQ polls the sink's three channels in turn, and the devices of the data
\* path wait for nothing else than their input and room for their output.
\* Nothing makes the source deliver or end.
Fairness ==
  WF_vars(DeliverData) /\ WF_vars(DeliverMissed) /\ WF_vars(DeliverCommand)

FairSpec == Spec /\ Fairness

-----------------------------------------------------------------------------
\* Type invariant.
TypeOK ==
  /\ SinkTypeOK
  /\ smpPrevTsIndex \in Nat
  /\ smpTsCounter \in Nat
  /\ smpState \in {"running", "eof", "stopped"}
  /\ srcNext \in Nat
  /\ missedts \in Seq(Seq(Nat))
  /\ commands \in Seq([tag : {"EOF"}, last : Nat, total : Nat] \cup [tag : {"STOP"}])
  /\ inFlight \in SUBSET TsIndices
  /\ taken \in SUBSET TsIndices
  /\ lost \in SUBSET TsIndices

\* The output has the TS in index order without holes or repetition, whatever
\* the order in which the workers, the missed indices and the commands come in
\* (HandleData, CheckTsQueues).
InOrderWithoutHoles ==
  ~BypassConsecutiveTs =>
    \A i \in 1 .. Len(processed) - 1 : processed[i + 1].ts = processed[i].ts + 1

\* Each TS counted at the source is in exactly one place, and the sink never
\* gives a TS up while it runs: it is on its way, waiting in the map, in the
\* file, or it died with a worker.
EveryTsInOnePlace ==
  /\ taken = inFlight \cup fmFullTsStorage \cup WrittenFull \cup lost
  /\ inFlight \cap (fmFullTsStorage \cup WrittenFull \cup lost) = {}
  /\ fmFullTsStorage \cap (WrittenFull \cup lost) = {}
  /\ WrittenFull \cap lost = {}

\* Finish upon EOF means that every TS the sampler counted is in the file:
\* EOF overtaking data never closes the file early.
EofCloseIsComplete ==
  sinkState = "eof" => taken = WrittenFull

\* An index is reported missed and skipped only if the source did not deliver
\* it, and no TS is written that was not taken.
MissedAreMissing ==
  \A i \in DOMAIN processed :
    (processed[i].kind = "full") <=> (processed[i].ts \in taken)

\* CheckTsQueues "Should be reached only if both queues at the end or hole
\* found in both": between two messages no buffered TS is the next to write.
NoReadyTsIsHeld ==
  (~BypassConsecutiveTs /\ sinkState = "running")
    => (fuPrevTsIndex + 1) \notin fmFullTsStorage

Said(tag) == \E i \in DOMAIN commands : commands[i].tag = tag

\* EOF gets the file closed, unless a TS dies on its way.
EofLeadsToClose == Said("EOF") ~> (sinkState # "running" \/ lost # {})

\* A failing source closes the file too, whatever was lost before.
StopLeadsToClose == Said("STOP") ~> (sinkState # "running")

\* The file is what TsArchive promises.
Archive ==
  INSTANCE TsArchive WITH
    taken   <- taken,
    archive <- [i \in DOMAIN processed |->
                  [ts |-> processed[i].ts, full |-> processed[i].kind = "full"]],
    closed  <- CASE sinkState = "running" -> "no"
                 [] sinkState = "eof" -> "complete"
                 [] OTHER -> "early"

ImplementsArchive == Archive!ArchiveSpec
=============================================================================
