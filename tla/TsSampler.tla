------------------------------ MODULE TsSampler ------------------------------
(***************************************************************************)
(* CbmMQTsSamplerRepReq: gets timeslices (TS) from the source and answers  *)
(* the requests of its clients (unpackers, monitors), one at a time.  In   *)
(* no-split mode a reply is a whole TS, and each TS goes to one client.    *)
(* In the split modes a request names a system ID or a block of them, and  *)
(* the reply is that part of a TS; the TS wait in a bounded buffer until   *)
(* the parts were asked for.  Missed TS and the end of the data are told   *)
(* to everybody on two other channels.                                     *)
(*                                                                         *)
(* The clients are here their side of the REQ/REP link; a TS is its index. *)
(***************************************************************************)
EXTENDS TsStream, FiniteSets

CONSTANTS Clients,
          Parts,          \* system IDs or blocks the sampler knows
          FirstIndex,     \* the request "SendFirstTimesliceIndex"
          fuPublishFreqTs,
          Setups          \* how a sampler and its clients may be started

ASSUME SamplerAssumption ==
  /\ FirstIndex \notin Parts
  /\ fuPublishFreqTs \in Nat
  /\ \A s \in Setups :
       /\ s.SplitMode \in {"no-split", "sysid", "block"}
       /\ s.PartsInData \subseteq Parts
       /\ s.fulHighWaterMark \in Nat \ {0}
       /\ s.fulMaxTimeslices \in Nat
       /\ s.TsIndices \subseteq Nat
       /\ s.SendMayFail \in BOOLEAN

VARIABLES
  setup,              \* the program options, the source and the links
  fulPrevTsIndex, fulTsCounter, fbEofFound,
  firstKnown,         \* fulFirstTsIndex # 0: the start time of the first TS
  fbListCompReady,    \* the components of the parts were listed
  tsBuffer,           \* fdpTimesliceBuffer and fdbCompSentFlags, in parallel:
                      \* sequence of [ts, sent]
  deviceState,        \* "running", "stopped" (a handler failed), "crashed"
  srcNext,            \* the source has delivered no index from here on
  missedts, commands, \* output channels: vectors of indices; EOF and STOP
  link                \* per client: [state, body] of its REQ/REP connection

streamVars == <<fulPrevTsIndex, fulTsCounter, fbEofFound, firstKnown, srcNext,
                missedts>>
bufferVars == <<fbListCompReady, tsBuffer>>
samplerVars == <<setup, streamVars, bufferVars, deviceState, commands, link>>

SplitMode == setup.SplitMode
PartsInData == setup.PartsInData    \* the parts the TS have components of
fulHighWaterMark == setup.fulHighWaterMark
fulMaxTimeslices == setup.fulMaxTimeslices
TsIndices == setup.TsIndices        \* indices the source may deliver
SendMayFail == setup.SendMayFail    \* a Send may fail (transfer interrupted)

Idle == [state |-> "idle"]
FirstIndexReply == [first |-> TRUE]

SamplerInit ==
  /\ setup \in Setups
  /\ fulPrevTsIndex = 0 /\ fulTsCounter = 0 /\ fbEofFound = FALSE
  /\ firstKnown = FALSE
  /\ fbListCompReady = FALSE
  /\ tsBuffer = <<>>
  /\ deviceState = "running"
  /\ srcNext = 0
  /\ missedts = <<>> /\ commands = <<>>
  /\ link = [c \in Clients |-> Idle]

-----------------------------------------------------------------------------
(* GetNewTs, one action per outcome.                                       *)

FromSource(i) ==
  /\ i \in TsIndices /\ srcNext <= i
  /\ fulTsCounter < fulMaxTimeslices
  /\ srcNext' = i + 1
  /\ firstKnown' = TRUE

\* A TS is returned.
GetNewTs(i) ==
  /\ FromSource(i)
  /\ missedts' = IF IsGap(fulPrevTsIndex, fulTsCounter, i)
                 THEN Append(missedts, MissedIndices(fulPrevTsIndex, fulTsCounter, i))
                 ELSE missedts
  /\ fulTsCounter' = fulTsCounter + 1
  /\ fulPrevTsIndex' = i
  /\ UNCHANGED fbEofFound

\* The missed indices are not sent: STOP (left to the caller), no TS returned.
GetNewTsFails(i) ==
  /\ SendMayFail
  /\ FromSource(i)
  /\ IsGap(fulPrevTsIndex, fulTsCounter, i)
  /\ UNCHANGED <<fulPrevTsIndex, fulTsCounter, fbEofFound, missedts>>

\* Mutants: the end is not remembered; only the maximum is an end.
GetNewTsForgetsEnd == UNCHANGED streamVars
GetNewTsEndsAtMaximum ==
  /\ fulTsCounter = fulMaxTimeslices
  /\ fbEofFound' = TRUE
  /\ UNCHANGED <<fulPrevTsIndex, fulTsCounter, firstKnown, srcNext, missedts>>

\* The source is at its end or the maximum is reached: EOF (left to the caller).
GetNewTsEnds ==
  /\ fbEofFound' = TRUE
  /\ UNCHANGED <<fulPrevTsIndex, fulTsCounter, firstKnown, srcNext, missedts>>

-----------------------------------------------------------------------------
(* Ends of HandleRequest.                                                  *)

Asked(c) == link[c].state = "requested"
Part(c) == link[c].body

Answer(c, body) ==
  link' = [link EXCEPT ![c] = [state |-> "replied", body |-> body]]
NoAnswer(c) ==
  link' = [link EXCEPT ![c] = [state |-> "unanswered"]]

\* "0 == fulMessageCounter % fuPublishFreqTs" divides by zero, and when the
\* maximal time is over the histograms are used that were not created.
Publish ==
  deviceState' = IF fuPublishFreqTs = 0 THEN "crashed" ELSE "running"

\* The result of SendCommand is ignored: a word that is not sent is lost.
Say(words) ==
  \E n \in IF SendMayFail THEN 0 .. Len(words) ELSE {Len(words)} :
    commands' = commands \o SubSeq(words, 1, n)

\* Mutant: the handler returns true.
FailAndGoOn(c, words) ==
  /\ NoAnswer(c)
  /\ Say(words)
  /\ UNCHANGED deviceState

FailAndStop(c, words) ==
  /\ NoAnswer(c)
  /\ Say(words)
  /\ deviceState' = "stopped"

\* SendData succeeds or fails; CreateAndSendFullTs says STOP of its own.
SendData(c, body, stops) ==
  \/ Answer(c, body) /\ Publish /\ Say(<<>>)
  \/ SendMayFail /\ FailAndStop(c, stops)

-----------------------------------------------------------------------------
(* HandleRequest, by kind of request.                                      *)

\* All requests are ignored once the end was reached.
IgnoreRequest(c) ==
  /\ fbEofFound
  /\ NoAnswer(c)
  /\ UNCHANGED <<streamVars, bufferVars, deviceState, commands>>

\* The reply is the start time of the first TS.  If none was read yet, one is
\* read for it, and not kept.
AnswerFirstIndex(c) ==
  /\ Part(c) = FirstIndex
  /\ IF firstKnown
     THEN UNCHANGED streamVars /\ Say(<<>>)
     ELSE \/ \E i \in TsIndices : GetNewTs(i) /\ Say(<<>>)
          \/ \E i \in TsIndices : GetNewTsFails(i) /\ Say(<<Stop>>)
          \/ GetNewTsEnds /\ Say(<<Eof(fulPrevTsIndex, fulTsCounter)>>)
  /\ \/ Answer(c, FirstIndexReply) /\ UNCHANGED deviceState
     \/ /\ SendMayFail
        /\ NoAnswer(c)
        /\ deviceState' = IF fbEofFound' THEN deviceState ELSE "stopped"
  /\ UNCHANGED bufferVars

AnswerFullTs(c) ==
  /\ SplitMode = "no-split"
  /\ Part(c) # FirstIndex
  /\ \/ \E i \in TsIndices : GetNewTs(i) /\ SendData(c, [ts |-> i], <<Stop, Stop>>)
     \/ \E i \in TsIndices : GetNewTsFails(i) /\ FailAndStop(c, <<Stop, Stop>>)
     \/ GetNewTsEnds /\ NoAnswer(c) /\ Publish
          /\ Say(<<Eof(fulPrevTsIndex, fulTsCounter)>>)
  /\ UNCHANGED bufferVars

(* The split modes.                                                        *)

\* Mutant: the flags are not looked at.
UnsentOrNot(part) == 1 .. Len(tsBuffer)

Unsent(part) == {u \in 1 .. Len(tsBuffer) : part \notin tsBuffer[u].sent}
FirstUnsent(part) == CHOOSE u \in Unsent(part) : \A v \in Unsent(part) : u <= v

\* A system ID without components is not sent, a block without is.
SentParts == IF SplitMode = "sysid" THEN PartsInData ELSE Parts

\* The first request makes the list of components, from a first TS.
NeedsNewTs(part) ==
  IF fbListCompReady THEN part \in SentParts /\ Unsent(part) = {}
                     ELSE TRUE

\* At the high water mark the oldest TS make room, sent or not.
Trimmed ==
  IF Len(tsBuffer) < fulHighWaterMark THEN tsBuffer
  ELSE SubSeq(tsBuffer, Len(tsBuffer) - fulHighWaterMark + 2, Len(tsBuffer))

\* Mutant: the flag is set for the newest TS, not for the one that was sent.
SendPartMarksNewest(c, buffer, u) ==
  \/ /\ Answer(c, [ts |-> buffer[u].ts, part |-> Part(c)])
     /\ tsBuffer' = [buffer EXCEPT ![Len(buffer)].sent = @ \cup {Part(c)}]
     /\ Publish
     /\ Say(<<>>)
  \/ /\ SendMayFail
     /\ tsBuffer' = buffer
     /\ FailAndStop(c, <<Stop>>)

\* Send the part from position u of the buffer, then mark it as sent.
SendPart(c, buffer, u) ==
  \/ /\ Answer(c, [ts |-> buffer[u].ts, part |-> Part(c)])
     /\ tsBuffer' = [buffer EXCEPT ![u].sent = @ \cup {Part(c)}]
     /\ Publish
     /\ Say(<<>>)
  \/ /\ SendMayFail
     /\ tsBuffer' = buffer
     /\ FailAndStop(c, <<Stop>>)

CreateCombinedComponents(c, buffer, u) ==
  CASE Part(c) \notin Parts ->
         tsBuffer' = buffer /\ FailAndStop(c, <<Stop>>)
    [] Part(c) \in Parts \ SentParts ->
         tsBuffer' = buffer /\ NoAnswer(c) /\ Publish /\ Say(<<>>)
    [] OTHER -> SendPart(c, buffer, u)

\* Part still to be sent from the buffer, or no need for a TS.
AnswerFromBuffer(c) ==
  /\ ~NeedsNewTs(Part(c))
  /\ CreateCombinedComponents(c, tsBuffer,
       IF Unsent(Part(c)) = {} THEN 0 ELSE FirstUnsent(Part(c)))
  /\ UNCHANGED <<streamVars, fbListCompReady>>

\* All TS of the buffer sent this part: a new TS is added.  The position was
\* decremented before, to be the last one once the oldest TS is removed.
AnswerFromNewTs(c) ==
  /\ NeedsNewTs(Part(c))
  /\ \E i \in TsIndices :
       /\ GetNewTs(i)
       /\ CreateCombinedComponents(c, Append(Trimmed, [ts |-> i, sent |-> {}]),
            IF fbListCompReady THEN Len(tsBuffer) ELSE 1)
  /\ fbListCompReady' = TRUE

AnswerNoTs(c) ==
  /\ NeedsNewTs(Part(c))
  /\ \/ \E i \in TsIndices : GetNewTsFails(i) /\ FailAndStop(c, <<Stop, Stop>>)
     \/ GetNewTsEnds /\ NoAnswer(c) /\ Publish
          /\ Say(<<Eof(fulPrevTsIndex, fulTsCounter)>>)
  /\ tsBuffer' = Trimmed
  /\ UNCHANGED fbListCompReady

AnswerPart(c) ==
  /\ SplitMode # "no-split"
  /\ Part(c) # FirstIndex
  /\ AnswerFromBuffer(c) \/ AnswerFromNewTs(c) \/ AnswerNoTs(c)

HandleRequest(c) ==
  /\ deviceState = "running"
  /\ Asked(c)
  /\ \/ IgnoreRequest(c)
     \/ ~fbEofFound /\ (AnswerFirstIndex(c) \/ AnswerFullTs(c) \/ AnswerPart(c))
  /\ UNCHANGED setup

-----------------------------------------------------------------------------
(* The clients' side of the link: one request at a time.                   *)

SendRequest(c, r) ==
  /\ link[c] = Idle
  /\ link' = [link EXCEPT ![c] = [state |-> "requested", body |-> r]]
  /\ UNCHANGED <<setup, streamVars, bufferVars, deviceState, commands>>

ReceiveReply(c) ==
  /\ link[c].state = "replied"
  /\ link' = [link EXCEPT ![c] = Idle]
  /\ UNCHANGED <<setup, streamVars, bufferVars, deviceState, commands>>
=============================================================================
