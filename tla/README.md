# CbmRoot in TLA+: the online timeslice chain and the online reconstruction

CbmRoot is the simulation, reconstruction and online software of the CBM
experiment. Most of it is sequential numeric code. What it has of control is in
two places. The online chain under `MQ/` is made of FairMQ devices (processes) that
take timeslices (TS) from the data acquisition, unpack them, build events in
parallel and put the result back in order in one file, while a server merges their
histograms. The online reconstruction under `algo/` works on one timeslice: a
track finder with threads that share flags, in which candidates compete for hits;
and triggers, an event builder and an event selector. This directory specifies both.

```
             "ts-request" REQ/REP               PUSH/PULL           PUSH/PULL "events"
  TsSampler <====================> Unpack x N ------------> Build x N -------------.
   |   |                                                                           v
   |   `------------- "missedts"  vectors of missed indices (PUB/SUB) ---------> Digi event sink -> file
   `----------------- "commands"  EOF last count / STOP     (PUB/SUB) --------->   |
                                                     histograms -> histogram server

  hits of a TS -> FindTracks: threads, windows -> CreateTracks | GraphConstructor -> CloneMerger -> tracks
  digis, tracks -> trigger -> event builder -> event selector -> events
```

The links are those of `MQ/mcbm/startBuildRawEvents2022.sh.in`. A TS goes
through one unpacker and one event builder, in parallel to others, so TS overtake
each other; missed indices and commands overtake TS and each other. The sink has
to find the order and the end again.

## Inventory

| Component | State | Operations | Hard behaviour | Correct if |
|---|---|---|---|---|
| **TS sampler** `MQ/source/CbmMQTsSamplerRepReq` | last index, counter, EOF flag, start time of the first TS, buffer of TS with flags per part | `HandleRequest` in three modes: whole TS, per system ID, per block of them; first index; EOF; STOP | clients in any order, sends that fail after the TS was taken, bounded buffer, first TS 0 or later | parts in order, sent twice only while the buffer grows and lost only to its bound, holes reported once, EOF announces what was sent, nothing after an ending |
| **Digi event sink** `MQ/mcbm/CbmDeviceDigiEventSink` | last index, counters, map of early TS, vector of missed indices, EOF data | `HandleData`, `HandleMissTsData`, `HandleCommand`, each followed by `CheckTsQueues` | three unordered inputs, 0 as first index and as "nothing yet", EOF before data | file in order without holes, nothing lost, closed at EOF exactly when complete |
| **Unpacker** `MQ/mcbm/CbmDeviceUnpack`, **event builder** `CbmDeviceBuildDigiEvents` | one TS at a time | request, receive, unpack, send; receive, build, send | a death with a TS in hand | one TS out for one TS in |
| **Older sink** `MQ/mcbm/CbmDeviceMcbmEventSink` | as above | as above | takes missed indices by another rule | as above |
| **Histogram server** `MQ/histoServer` and the devices that send to it | merged histograms, canvases, registered names, flags "all registered" | configuration, data, both in one message; start, HTTP thread, stop and save | configuration after data, mutex only in some handlers, failed sends, restarts | each fill counted once, each configured histogram registered, nothing changes while it is shown |
| **Windows of the track finder** `algo/ca/core/tracking/CaTrackFinder` | per thread: window, tracks, flags of used hits, range | one thread per range of windows, merge | a copy of flags another thread is writing; tracks cut by a window border | no hit in two tracks, no particle inside a range lost, an end |
| **Competition of candidates** `CaTrackFinderWindow` | candidates alive or dead, owner of each strip | collect, compete in rounds, extend and store, next level | ties, dead candidates that hold strips, extensions | winners own their strips alone |
| **Graph network tracking** `GraphConstructor` | sorted candidates, flags of strips | trim, beg, remove, save, three iterations | hits that change their track | four hits left, no flag without a track |
| **Clone merger** `CaCloneMerger` | partner, chi2 and direction of each track | link pairs, write the new lists | pairs that displace each other | mutual links, each hit once, runs in order |
| **Trigger, event builder, selector** `algo/trigger`, `algo/evbuild`, `algo/evselector` | positions in the times, triggers, events | move the window, trigger, dead time; copy; select | window borders, unsorted input | triggers dense, apart and none missed; events as configured |
| Parameter server, other samplers, detector unpackers, offline code | | | | |

`PROJECT.json` lists all of them with what is modelled of each, and the hazards
with the line where they bite.

## Modules

| Module | Models |
|---|---|
| `EventSink` | the state and the three message handlers of the digi event sink |
| `EventSinkLoop` | the loop of `CheckTsQueues` one iteration at a time, against the closed form in `EventSink` |
| `TsStream` | what `GetNewTs` computes: gap test, list of missed indices, the two commands |
| `TsDelivery` | sampler (no-split) + unordered data path + the two side channels + `EventSink`: the system |
| `TsArchive` | the abstract specification: what the chain promises about the file |
| `TsSampler` | `HandleRequest` of the sampler in its three modes, and the clients' side of the link |
| `TsSamplerClients` | `TsSampler` with clients that ask again and again; histories and properties |
| `HistoServer` | the histogram server, its HTTP thread and the devices that send to it |
| `CaWindows` | `FindTracks` and `FindTracksThread`: ranges, windows, threads, flags |
| `CaCompetition` | `CreateTracks`: candidates, the rounds of `DoCompetitionLoop`, `SelectTracks` |
| `GnnCompetition` | the end of `CreateTracksTriplets`, `PrepareFinalTracks`, the iterations |
| `CloneMerger` | `CloneMerger::Exec` |
| `TimeClusterTrigger`, `V0Trigger`, `DigiEventSelector` | the parts of the event building |
| `EventbuildChain` | these three, the event builder and `EventbuildChain::Run` on one timeslice |
| `MC...` | tables and inputs for TLC, one per module that needs some |
| `TsDeliveryProofs`, `TsSamplerProofs`, `HistoServerProofs` | the theorems about `TsDelivery`, `TsSamplerClients` and `HistoServer` |
| `CaWindowsProofs`, `CaCompetitionProofs`, `GnnCompetitionProofs`, `CloneMergerProofs`, `EventbuildChainProofs` | the theorems about these modules |

### EventSink

The variables have the names of the members. `fmFullTsStorage`, a `std::map`, is
the set of its keys: the code uses it only from its smallest key, and a TS stands
for its index. `processed` is the file as the sequence of entries (`full`,
`empty` for a missed TS with the option `WriteMissingTs`) together with the missed
TS that were skipped. `fEvtHeader` is there because an empty entry is filled
with what the last full one left in the branch.

One handler is one action: FairMQ calls the handlers one at a time from the
thread of the device. Its parts are `HandleDataBypass` / `HandleDataDirect` /
`HandleDataStore`, `HandleEof` / `HandleStop`. Each ends in `CheckTsQueues`, as
in the code.

The loop of `CheckTsQueues` is written in closed form: it accounts for an
interval `first..n` of indices and for the first `m` entries of the vector, and
`Drains` states which `n` and `m`, with `Reachable` for the fact that a TS behind
the last index, once at the head of the map, hides all others. This has no
recursion, so it can be used in proofs. That it is the loop is not assumed:
`EventSinkLoop` has the loop as the code writes it, and run `sink_loop` compares
the two from every small state, also from states with out-of-order vectors and
stuck maps.

`Finish` ends the sink: the device leaves RUNNING and no handler runs any more.
(FairMQ may still finish a round of polling; a message of that round that is
handled after `Finish` is not modelled.)

### TsStream, TsDelivery

The sampler appears with the outcomes a request for a whole TS can have:
`SampleTs`, `MissedSendFails` (TS taken, missed indices not sent, two STOP:
one from `GetNewTs`, one from `HandleRequest`), `DataSendFails` (counted and not
sent), `EndOfData`. The result of `SendCommand` is ignored by the code, so EOF and
each STOP may be lost when sends fail (`SayEof`, `SayStopTwice`). `inFlight` is a set, since TS may come in any order; `missedts` and
`commands` are queues, FairMQ keeps the order within a channel. `LoseTs` is the
death of an unpacker or event builder. `taken` and `lost` are histories.

### TsArchive

Three steps: `Take` a TS, `Write` a run of entries that continues the
sequence (a full entry exactly for the TS that were taken; perhaps closing the
file if everything taken is in it), `Abort`. `TsDelivery` implements it with
the file as the archive and the sink's state as `closed`.

### TsSampler

One action per request, `HandleRequest(c)`, with `IgnoreRequest`,
`AnswerFirstIndex`, `AnswerFullTs` and `AnswerPart` for its branches; the three
outcomes of `GetNewTs` are operators that each branch combines with what it does
about them. The buffer of TS and the flags, which the code keeps in two
parallel deques, are one sequence of `[ts, sent]`. `link` is the client's REQ socket: `idle`,
`requested`, `replied`, or `unanswered` if the handler returned without a reply:
a REQ socket then waits for ever, as `CbmDeviceUnpack::ConditionalRun` does.
How the sampler was started (mode, room in the buffer, what the source has, what
the clients want) is a record `setup` that `Init` chooses from `Setups`.

### HistoServer

One action per handler; data, histogram and canvas configurations come on
three channels of each device. A device of the 2022 chain puts configuration and
first data in one message (`combined`); an older one sends its configuration in
`InitTask` on the other channels (`separate`), and then anything may come first.
A histogram is its class and the number of its fills, so that "counted once" can be said.
The handlers are functions of a record of what they merge (`Merged`), because
`ReceiveConfigAndData` calls the others. The vectors that the code keeps in
parallel are one sequence. `ReceiveData` is one step with the mutex; `HttpLock` to
`HttpServed` is the time in which the HTTP thread has it. `SaveHistograms` goes
through null pointers if a configured histogram was never received: `crashed`.

### CaWindows

A hit is the interval of event times it allows, with its station; bogus hits and
streams are kept. `Init` computes the ranges of the threads as `FindTracks` does; then
each thread copies the flags of thread 0 *one at a time* (`CopyFlag`, a race
in the code), selects hits (`SelectHits`), looks for tracks and stores them or gives
them up to the next window. `ScannedHits` to `LeftBehind` are the branches of the loop over the hits of a stream. The finder in a window is ideal but may miss a
particle; `missed` and `racy` are histories of the excuses a lost hit may have.

### CaCompetition, GnnCompetition, CloneMerger

Three pure algorithms whose steps depend on the order of candidates. What the
numeric code gives them (candidates, their chi2, the chi2 of a pair) is chosen
freely from a pool or a set; the algorithm is modelled step by step: one candidate
marks or takes its strips, one candidate is trimmed, begs or is removed, one pair
is linked. Strips are used as in the code: a hit has two, and hits share them. Where the code erases
elements of a vector by position, the model says which positions are left (`AtPositions`, also in
`EventbuildChain`).

### EventbuildChain

One timeslice. `Run` chooses the trigger as the code does, one round of a trigger's
loop is a step, then one event per trigger is built and the selector drops
events. `CopyRange` takes what lies between a lower and an upper bound (`IsLower`, `IsUpper`) as
the code does, which is meant for digis in the order of their times; the assumption
`DigisInOrder` says so, except for the detector whose digis the trigger itself looks through and
rejects when they are not in order. Trigger times are halves of sums in the code and kept doubled here.

## Runs

| Run | Question | Instance |
|---|---|---|
| `sink_loop` | Is `Drains` the loop of `CheckTsQueues`? | last index and map over 0..4, every vector without repetition of up to 3 indices in any order, one call |
| `delivery` | Is the file in order, complete, closed at the end, and the archive that was promised? | indices from {0,2,3,5,6}, any of them left out by the source, up to 4 TS, all faults |
| `delivery_bypass` | Does the mode without order write everything once, and close only a complete file? | TS 0..4 without holes |
| `sampler` | Do clients get their parts in order and lose them only to the bound of the buffer, is what EOF announces what was sent, is all over after an ending, who may wait in vain, is the source read to an ending? | seven setups: whole TS for two clients with failing sends; one of the two asks for the first index; two blocks with room for one TS and failing sends, for two, and for three; one block that both clients ask for, and room for two; system IDs, one without data and one unknown, and room for two |
| `histo_server` | Is every fill counted once, what was received served, and what is shown stable? | two devices, one of which may be an older one, two names, one of them with two classes; a restart, failed sends, two runs |
| `ca_windows` | Is each hit in at most one track, is a particle inside a range saved whole, how much of any other may be lost, do the threads end? | four hits, three of one particle or two of each of two, tracks of two hits or more, intervals in, across and around the windows and bogus ones, one or two streams and threads, cut on hits per station or none |
| `ca_competition` | Do winners own their strips alone? Who stays dead? | seven candidates of three and four hits that share hits and single strips, up to four at a level, all extensions |
| `gnn_competition` | Do tracks keep four hits and flags their tracks? | nine candidates, up to five in an iteration, three iterations |
| `clone_merger` | Are links mutual, the lists runs of tracks? | four tracks of any of five shapes, three values of chi2 |
| `eventbuild` | Are triggers dense, apart and complete, events as configured? | times 0..4 up to four of them with all small windows, thresholds and dead times; hits in any order; up to four tracks; six selections |
| `start_race`, `long_candidates` | counterexamples, see Findings | |

**Bounds.** The code has no number above which it behaves differently except
index 0 (and 1, its successor), the counters 0 and the high water mark. The
indices {0,2,3,5,6} give a first TS 0, a first TS 2 and a later one, holes of one and of
several indices, and two pairs of neighbours that may overtake each other; four TS
allow two to wait while two are written. Index 1 is left out of `delivery`
because of the first finding. Five TS and a buffer of two let the
buffer overflow more than once. One faulty send ends a sampler, so several
faults per behaviour need no more TS. `MaxTimeslices` (`fulMaxTimeslices`, an
option of the device) is the bound of the state space of the chain; integers are
64 bit counters of TS in the code and do not overflow. `fuPublishFreqTs` is 100:
see below for 0. `MaxFills`, `MaxQueue`, `MaxRuns`, `MaxRestarts` bound the
histogram server: what can go wrong there needs one message of each kind in any
order, not many. In `ca_windows` windows are two units long and intervals up to
that long or beyond, so that a hit may be before, in, across and behind a border;
three hits of a particle with tracks of two or more are enough for a track that is cut by a border, or found
without a hit that another thread uses, and for a rest of it that is too short. The theorems have no such bounds.
In the competitions the pool has every way in which two candidates may meet: in a
hit, a front strip, a back strip, with equal length, station and chi2; four
candidates make chains of three who wait for each other. Four tracks
are two pairs that displace each other. `MaxCandidates` bounds the candidates of
a level or iteration. The thresholds of the trigger are 0..3 on four times, so that two
triggers and a rest fit. No cfg uses symmetry: the indices are ordered and the clients differ.

**Deadlock** is not checked: a sampler and a sink that ended, or that wait for a
source or a TS that never comes, stop in a legal way, and the algorithms
come to their end. The liveness properties say when they must not.

**Fairness.** `TsDelivery`: a message that waits at the sink is eventually
handled. FairMQ polls the three channels in turn, and the devices of the data
path wait for nothing else than their input. Neither the source nor the faults are fair, and a command may be
lost: that EOF or STOP was said is the premise of `EofLeadsToClose` and
`StopLeadsToClose`, not a result. A lost EOF leaves the file open for ever.
`TsSamplerClients`: clients ask again once answered and the sampler answers; a
request may have any outcome. `SamplerEnds` holds because the source or
`fulMaxTimeslices` runs out, and because no outcome leaves all clients
unanswered without an ending.
`HistoServer`: the HTTP thread runs, and a `PostRun` that has begun goes on; neither
the operator nor the devices are fair. `CaWindows`: each thread runs, and is
joined. The other algorithms are sequential and only their safety is
stated.

### Properties

In order: `InOrderWithoutHoles`, `NoReadyTsIsHeld`. Nothing lost or made up:
`EveryTsInOnePlace`, `MissedAreMissing`. The end: `EofCloseIsComplete` (not too
early; checked in bypass mode, where nothing else says it, and proved for the other),
`EofLeadsToClose` (not never), `StopLeadsToClose`. All of them as steps of the
promise: `ImplementsArchive`. `TypeOK` of `TsDelivery` is the invariant that types all of sink, sampler
and channels; the one of `CloneMerger` is proved only.
Sampler: `EofCountsWhatWasSent`, `EveryHoleIsReported`, `QuietAfterEnding`,
`OnlyTheEndLeavesUnanswered`, `SamplerEnds`. The first is about whole TS; it and the STOP of
`QuietAfterEnding` leave out requests for the first index, see Findings.
For the split modes, with clients that want one part each: `PartsInOrder` (a client's TS never go
back, and all that is sent twice in a row is less than the buffer has room for) and
`PartsLostByOverflowOnly` (of the last TS, as many as the buffer has room for, no part
is lost as long as the sampler goes on: one of the clients that want it had it, or it is still there).
With one client per part it is that client's; a slow client's part of an older TS may be lost, which is
what the bound is for. Requests for the first index are left out of the second, since the
TS they read never comes into the buffer.

Histogram server: `EveryFillCountedOnce`, `ShownIsStable` and
`PostRunEnds` hold for both styles of devices. `ReceivedIsServed` is for combined messages
only: with separate ones a configuration can come after its data, and is then never looked at
(`CbmMqHistoServer.cxx:309`); a configured histogram that has not come when the run ends is
a null pointer at `:478`.

Track finder: `HitsUsedOnce` for hits; `WinnersShareNoStrip`, `SharedOnlyByExtension`
and `SharedOnlyByBegging` for strips, the last two naming the one way in which tracks
come to share some. Both properties of `CaWindows` about particles are for those
the finder can see (`Findable`: the intervals of the hits have a common moment, there are
enough hits, the finder did not miss the particle and the cut took none of its hits away). `NoHitLost`
says that fewer hits of such a particle than make a track are in no track; for the hits in the race of the flags
(`racy`) it says nothing. Less cannot be said: a thread that copied the flags of hits that
thread 0 had stored for good is left with the rest, which may be too short to be found. `InteriorSavedWhole` is for a
particle whose hits all end before the upper border of a thread's range and begin more than one
window behind the lower border; one thread, or the ends of the timeslice, have no such border, so with one
thread it is for every findable particle.
`DeadHaveRivals` says who may stay dead: who meets a winner in a strip, or a candidate that beats it.
It is tempting to say that every dead candidate meets a winner, or that it does so unless a better one met
by it is dead too; both are wrong, since a candidate may be kept dead by one that beats it and is dead
itself. `FourHitsAreLeft`, `FlagsBelongToTracks`; `LinksAreMutual`,
`NoStaleChi2`, `EveryHitInItsRun`.

Event building: `TriggersAreSeparated`, `ClustersAreMinimal`, `NoClusterMissed` define
the time cluster trigger; `V0FindsEveryPair` the V0 trigger on sorted tracks;
`TriggerDigisInEvent`, `EventsAsSelected` the events.

Every one is broken by at least one plausible bug, written as an operator ("Mutant")
in front of the definition it would replace.

## Findings

Each is the counterexample of a run; `PROJECT.json` has the quotes.

1. `start_race`: TS 1 that overtakes TS 0 at the start of a run is written at
   once, because `fuPrevTsIndex` starts as 0. TS 0 then stays at the head of the map and blocks
   all TS that are stored behind it; the sink only goes on with TS that come
   in order by luck. (`CbmDeviceDigiEventSink.cxx:375`)
2. `long_candidates`: in the third iteration `CreateTracksTriplets` returns early if
   the classifier has nothing to do. The long candidates, which need no classifier and
   were already put into `trackAndScores`, are dropped. (`GraphConstructor.cxx:829`)

Seen while modelling, in the model where it is about state, and not kept as runs:

- Bypass mode with missed TS: the number of missed TS is added to the number of written ones
  and compared with a total that counts only full TS, so the file is closed too
  early (`CbmDeviceDigiEventSink.cxx:403`); `delivery_bypass` has no holes for that reason.
- With room for more than one TS in the buffer, `--uTsIndex` points to the TS before the
  new one, whose part is sent a second time (`CbmMQTsSamplerRepReq.cxx:820`, `:733`);
  `PartsInOrder` bounds these repeats by the room of the buffer, which is what they take to
  grow, and `PartsLostByOverflowOnly` says that the new TS is not lost by them.
- A request for the first index reads a TS, counts it and drops it, so the total of
  EOF is never reached by the sink (`:385`).
- Bypass mode, TS out of order at the end, EOF after them: the count is only
  compared in `HandleData`, so nothing closes the file (`:522`; with `BypassConsecutiveTs`
  `EofLeadsToClose` does not hold).
- The entry of a missed TS keeps the event header of the last full TS (`:571`),
  although a comment calls the entry empty; `header` in `Entries` shows it.
- STOP closes the file without the TS in the map (`:531`); they were received.
- Asked for the first index, the sampler may say STOP because the missed
  indices cannot be sent, and go on (`CbmMQTsSamplerRepReq.cxx:385`):
  what `QuietAfterEnding` says of commands is for clients that do not ask for it.
- A run that starts with TS 1 does not report TS 0 as missed (`:512`), which is why the
  sampler's runs start with 0 or 2.
- The default `PubFreqTs` 0 is a divisor at `:447`; `Publish` has it as a crash.
- With both split options set, `InitTask`, `HandleRequest` and
  `AddNewTsInBuffer` do not agree on which of them counts.
- The copy of the flags in `FindTracksThread` (`CaTrackFinder.cxx:371`) may see flags of a
  track that thread 0 gives up right afterwards; the thread then never uses these
  hits. The module has it as the history `racy`; without that exemption `NoHitLost` is violated.
- The same copy may see flags of the first hits of a track that thread 0 has found and stored, cut at its border; what
  is left of it for the thread behind the border may be too short for a track, and then is in none.
- A track that is given up clears flags of strips it may share with a saved one
  (`:536`), since extensions make tracks share strips. No run has both.
- Begging: all longer tracks that meet the first used hit give a hit, not only
  one (`GraphConstructor.cxx:1021`); the other used hits of the beggar are not asked for, so it
  keeps them with their tracks. The test at `:1011` never holds.
- The V0 trigger's times are not in order (`V0Trigger.cxx:60`), while the event builder asks for
  sorted ones (`EventBuilder.h:70`) without yet depending on it.
- A mask for another detector than BMON rejects all events (`DigiEventSelector.cxx:62`).
- Two tracks may lose a link that was better for one of them: a pair is linked if it is
  better for *one* of the two (`CaCloneMerger.cxx:151`).

## Proofs

### TsDelivery

About `TsDelivery`, for every set of indices, every option, with all faults
(`DeliveryAssumption` and `SinkAssumption` only type the constants):

| Theorem | Says | Inductive invariant |
|---|---|---|
| `TypeCorrect` | `Spec => []TypeOK` | `TypeInv`: the types, and the map is finite |
| `NoTsLostInSink` | `Spec => []EveryTsInOnePlace`, both modes | `Bookkeeping` |
| `EofClosesCompleteFile` | a file closed at EOF is complete, without bypass | `Bookkeeping` |
| `OnlyMissedAreSkipped` | `Spec => []MissedAreMissing` | `Bookkeeping /\ MissedInv` |
| `OutputInOrder` | `Spec => []InOrderWithoutHoles` | `Bookkeeping /\ MissedInv /\ OrderInv` |
| `ChainImplementsArchive` | `Spec => ImplementsArchive`, without bypass | `ChainInv`: these and `BehindInv` |
| `ReadyTsIsWritten` | `Spec => []NoReadyTsIsHeld`, if the source has not both TS 0 and TS 1 | `ChainInv /\ HeldInv` |

*The step of the loop.* Everything rests on `DrainStep`: if the next state
satisfies `CheckTsQueues(...)` there are an interval `first..n`, a set `written` of
stored TS in it, and `m` missed indices that fill the rest, such that the new values
are those of `DrainEffect`. The later lemmas use only that.

*Nothing lost.* `EveryTsInOnePlace` alone is not inductive: to know that EOF
closes a complete file one needs that the counters are the sizes of the sets
(`Counted`) and that the total in the EOF command, on its way or received, is the
sampler's final count (`Ended`). Then the file is closed when as many TS are in
the file as were taken; the file is a subset of those, so it is all of them
(`EofMeansAllWritten`, by `FS_Subset` and the counting).

*Order.* The log ends with `fuPrevTsIndex`, and each drain continues it. The
difficulty is index 0, at once the first index and the value of `fuPrevTsIndex` before
anything was written; the sink looks for a missed 0 as long as the last index is
0, also after an entry 0. `OrderInv` says why this cannot go wrong: a missed index
0 is only ever the first one of the first vector, and then nothing can have been written
yet since neither TS 0 nor TS 1 exist (`NotStarted`).
`MissedInv` (a reported index is `Gone`: not taken, and behind the source) ties what is
on the missed channel to what the source can still deliver.

*The archive.* Each step of `TsDelivery` is a step of `TsArchive` or leaves file and `closed` alone.
Taking a TS is `Take`; a handler that drains is `Write` of the entries that it
appends, which continue the file by `OrderInv`, are full exactly for TS that were taken, and of
which each missed one lies behind some TS that was taken (`BehindInv`: the sampler
reports indices in front of a TS that it then counts). If it closes the file as well, the file is complete by `Bookkeeping`.

*Nothing held.* `HeldInv` says that all TS in the map and on their way lie behind the last index, but for a
TS 0 before anything was written. The race of finding 1 is excluded by the hypothesis: it needs TS 0 and
TS 1. It does not contradict `OutputInOrder`: TS 0 is not written
after TS 1, it is never written.

### TsSampler, TsSamplerClients

For any number of clients, every setup, all three modes and any failing sends:

| Theorem | Says | Invariant |
|---|---|---|
| `EofIsTheCount` | `Spec => []EofCountsWhatWasSent` | `CountedInv`, with `GivenBehind`: what was given out lies behind the source, so the next TS is a new one |
| `OnlyEndedIsSilent` | `Spec => []OnlyTheEndLeavesUnanswered` | `ClientsInv` |
| `NothingAfterEnding` | `Spec => QuietAfterEnding`, an action property | `SaidEnds`: EOF said means end found, STOP said means not running |
| `HolesReported` | `Spec => [](~StartsAtOne => EveryHoleIsReported)` | `HoleInv`: what was read and what was reported, up to the last index |
| `PartsComeInOrder` | `Spec => []PartsInOrder` | `SplitInv` |
| `OnlyOverflowLosesParts` | `Spec => []PartsLostByOverflowOnly` | `SplitInv`, with `HoleInv` for the type of `taken` |

`~StartsAtOne` leaves out the one source for which the property is false, see Findings; the run
has no such source.

`ClientsInv` is the common base: `StreamInv` types the sampler, `ShapeInv` the links.
A request has many branches; `RequestEffect` sums them up as what they do to
`Answered`, the TS each client was given (nothing, or one more TS that the source has passed)
and to the commands. The proofs about the end and the commands look at requests through this lemma only.
`NothingAfterEnding` needs in addition that a request which is ignored changes nothing, and that a
sampler which is over has no other: `SaidEnds` turns a command into the end or the failure it came with.

`SplitInv` has three parts for any room of the buffer. `BufferInv`: the buffer holds TS behind the source
in increasing order, and who is marked was given the part. `NewestInv`: they are the last ones of those taken; with the flags this is
`PartsLostByOverflowOnly`. `OrderInv`, for clients of one part: who was not given its part of a TS in the buffer
had earlier ones only (`UnsentAhead`), nobody had a later one than the last in the buffer (`LastIsLatest`), and
the repeats are fewer than the TS in the buffer. None of it can be left out: the code takes the first TS whose flag is not set, which is
in order by `UnsentAhead`; when it takes the last one of the old buffer instead of the new one, which it does exactly if nothing
was dropped, that is in order by `LastIsLatest`, and the buffer has grown with the repeats.
`SplitEffect` is the case split on requests (from the buffer, from a new TS, no part), `NewBufferFacts` and
`MarkedFacts` the two operations on the buffer.

### HistoServer

For any devices, names, classes and canvases, of either style, with any sends that fail:

| Theorem | Says | Inductive invariant |
|---|---|---|
| `HistoTypes` | `Spec => []TypeOK` | itself |
| `FillsCountedOnce` | `Spec => []EveryFillCountedOnce` | itself, with `TypeOK` |
| `ReceivedCanBeShown` | `Spec => []ReceivedIsServed` | `ServedInv` with `ConfigFirst`: a device's configuration was received or is in front of its data |
| `ShownStays` | `Spec => ShownIsStable`, an action property | `Serving`: while it serves, the HTTP thread has the mutex |

The handlers fold an operator over the histograms or the configurations of a message. Each fold is
handled by a lemma that says what the whole fold does (which names it adds, what it adds to one
name, what it leaves alone), from what one step does; `EveryFillCountedOnce` is then a matter of sums in which one term changes.

### CaWindows

For any hits, streams, event times, numbers of threads, lengths of windows and of tracks, every order of the threads and
whatever the finder misses. `CaWindowsAssumption` types the constants and says that the streams lie one after
the other. Times are integers here and floating point numbers in the code; the
proofs use their order and the sum with a window's length only.

| Theorem | Says | Invariant |
|---|---|---|
| `HitsAreUsedOnce` | `Spec => []HitsUsedOnce` | `WindowsInv` |
| `LostHitsAreFew` | `Spec => []NoHitLost` | `SeenInv` |
| `InteriorIsSavedWhole` | `Spec => []InteriorSavedWhole` | `SeenInv` |

*Hits used once.* The flags alone do not carry it, since the flags of tracks
that are left to the next window are taken back. `WindowsInv` says that what a thread has stored,
what it has found in this window and, during the search, the hits it looks at are apart
from each other: then taking back the flags of found tracks touches no stored one.

*Nothing overlooked.* The two others speak of what happens to a particle in all windows of all threads. They
need that each hit is looked at in time, although the loops jump over hits: at the
beginning of a stream over those whose `fMaxTimeBeforeHit` is early, at its end over those whose
`fMinTimeAfterHit` is late. `Computed` is what `FindTracks` prepares for that: these times bound the hit's own and only grow along a
stream (`InfoOK`), and the ranges of the threads follow each other and cover the timeslice
(`RangeOK`, from the sums of `WindowIt`). `RangeInv` then says that what the thread still has to see lies between
the ends of its streams, and `CopyInv` that a good hit is only flagged for a track, or `racy`.

`TodoInv` is the core. Take hits `D` of a particle that are `Due` to a thread: they overlap each other, none ends before
its range and not all after it, they are enough for a track and in no track of this thread or thread 0. Then they
are `Open`: the thread is not done, they end behind all windows it has done, they are in the present window or there will be
another one, and in the present one they are found. The step that counts is `StoreTracks`:
a track that is kept has all of `D`, because one of its hits ends before the next window and the others begin before that; one that
is not kept lies in the next window, and there is one.
When all threads are done nothing is due any more. If too many hits of a particle were
lost they would be due to the last thread whose range begins before they end (`HomeExists`).

*Saved whole.* For a particle inside a range no other thread ever has a hit of it in its window (`WindowsApart`), so none stores one
or leaves one in the race (`ApartInv`). Its own thread stores all of it or nothing (`OwnInv`), by the
argument above with `D` all its hits. That the output has the tracks of
the threads, each at a place of its own, is `OutputListed`.

### CaCompetition

For every set of hits and strips, every pool of candidates and any order of them
(the assumption types the constants).

| Theorem | Says | Inductive invariant |
|---|---|---|
| `WinnersAreDisjoint` | `Spec => []WinnersShareNoStrip` | `OwnersInv`: who is alive owns all its strips |
| `DeadLostToRivals` | `Spec => []DeadHaveRivals` | `OwnersInv /\ RivalInv`: in a round, who is dead and had its turn owns all its strips still, or has a rival that won or beats it |
| `OnlyExtensionsShare` | `Spec => []SharedOnlyByExtension` | `SavedInv`: what is used is used by a stored track; the tracks of this level have cores that were alive |

An owner is alone by being a function; the invariant is that nobody takes a
strip from a candidate that is alive (`MayTake`), and that a candidate only becomes alive with all of
its strips. A core of the current level is disjoint from what was used when the
level began, hence from the tracks of earlier levels.

### GnnCompetition

For every set of hits and strips, every finite pool of candidates, and whatever the classifier rejects:

| Theorem | Says | Part of the invariant `GnnInv` |
|---|---|---|
| `FourHitsStay` | `Spec => []FourHitsAreLeft` | `Shape`: also those that still wait have four hits |
| `FlagsHaveTracks` | `Spec => []FlagsBelongToTracks` | `Flags`: no candidate has a strip of a saved track, and these stay flagged |
| `OnlyBeggarsShare` | `Spec => []SharedOnlyByBegging` | `Apart`: as long as nobody begged, accepted tracks are apart and their strips flagged |

Begging takes back flags, of the hit that a donor gives. They are flags of accepted tracks and not of saved
ones, since no candidate of an iteration has a strip of these; that is why what an iteration leaves is safe from the later ones.

### CloneMerger

`TypeCorrect`, `LinksMutual` (`LinksAreMutual`) and `Chi2NeverStale` (`NoStaleChi2`), for any number of tracks
of any shape: their conjunction is the inductive invariant `LinksInv`. The step of `Link` is the
one that counts: the two partners that are released are the only tracks that pointed at
the two that are linked, because links were mutual before.

`HitsInTheirRuns` (`EveryHitInItsRun`) adds `ListsInv`: the list of hits is made of the contents of the
tracks written so far, one run after the other; a track was written or its partner was, never both
(`WrittenInv`); hence no hit is written twice, and at the end none is left out. Where a run begins is a sum of lengths; that the
recursive function `Starts` is that sum is proved over the natural numbers.

### EventbuildChain

For every timeslice and configuration in `Cases` (times are integers, settings naturals):

| Theorem | Says |
|---|---|
| `DeadTimeKept` | `Spec => []TriggersAreSeparated` |
| `TriggersAreDense` | `Spec => []ClustersAreMinimal` |
| `EveryClusterTriggers` | `Spec => []NoClusterMissed` |
| `AllPairsFound` | `Spec => []V0FindsEveryPair` |
| `TriggerDigisComeIn` | `Spec => []TriggerDigisInEvent` |
| `SelectionAsAsked` | `Spec => []EventsAsSelected` |

The inductive invariant `ChainInv` says of the search: the data are sorted (`DataType`);
all windows found lie behind the window start by more than the dead time
(`ClustersBehind`); the window has fewer data than the threshold (`WindowNotFull`); and a datum
behind the window start was left for a reason (`LeftForAReason`): it belongs
to a trigger or its dead time, or it is further than the window size behind the current datum. The last one
gives that no cluster is missed.

`V0Inv`, for the pairs: each pair that the loops have passed was looked at, or its first track was left at a partner
that came too late, and then, on sorted tracks, this one comes too late as well. `BuiltInv`, for the events: they
are those of the first triggers, and in the end the selected ones of all of them. Lower
and upper bound exist and enclose all digis of the interval, as the first position at which a
comparison fails, and because the digis are in order.

### How induction is done

No theorem of the libraries that takes an operator as parameter is used. What needs induction over data (the
position at which a loop stops, the value of a fold or a sum, the elements at some positions
of a sequence) is proved from the least counterexample: a set of natural numbers
that is not empty has a minimum (`WFMin`), and what holds below the minimum contradicts it.

### Only model-checked

Liveness everywhere: `EofLeadsToClose`, `StopLeadsToClose`, `SamplerEnds`, `PostRunEnds`, `TimesliceEnds`
(the provers have no rule for `ENABLED` and fairness). The closed form of the loop of `CheckTsQueues` in run
`sink_loop`, which uses a recursive operator. `ChainImplementsArchive`, `EofClosesCompleteFile`
and `ReadyTsIsWritten` are theorems with the hypotheses given above; beyond them the properties are false, see Findings.

## Not modelled

The content of histograms and the layout of canvases; the waits before EOF and
STOP; the optional absence of the missed TS and command channels; unknown or
malformed commands; ROOT files and the contents of a TS; both split options at once.
The unpackers and event builders are seen as the unordered data path of
`TsDelivery` and as clients in `TsSamplerClients`; what they compute is numeric
code. The channels of `TsDelivery` neither lose nor duplicate commands or vectors that were
sent (a PUB/SUB link may drop beyond its high water mark).

The older sink, the other samplers and devices, and the histogram service repeat
what is modelled with other details. The parameter server answers requests and keeps no state of a protocol.

Of the reconstruction, all that computes with floating point numbers is left
open: a chi2, a fit, a cut or a network is a free choice. So are the
GPU variants, grids and the construction of doublets and triplets.

By far the largest part of the repository (detector geometry and response, unpackers
and hit finders, analysis, macros) is sequential numeric code in the task framework
of FairRoot, without concurrency, protocol or state that lives longer than
an event. A model of it would be the identity or a transliteration, so the share of
all source lines that is mapped stays small.

## Plan

What could follow, most useful first:

1. `CaWindows` over the tracks of `CaCompetition`, with strips that tracks share.
2. The unpackers and event builders as processes with queues of bounded length between sampler and
   sink, shown to implement `TsDelivery`; the older sink as a second instance of it.
3. The loop of `CheckTsQueues` with a recursive function in place of the operator, so that its closed form can be proved.
