--------------------------- MODULE TsSamplerClients ---------------------------
(***************************************************************************)
(* The sampler with clients that ask for their part again and again, and   *)
(* what they got.                                                          *)
(***************************************************************************)
EXTENDS TsSampler

CONSTANT Requests   \* the requests a client may make

ASSUME WantedAssumption ==
  \A s \in Setups : s.Wanted \in [Clients -> SUBSET Requests]

VARIABLES got,    \* per client: the TS received, in order
          taken   \* history: the TS that were counted, in order

vars == <<samplerVars, got, taken>>

Wanted == setup.Wanted   \* per client: the requests it makes

Init == SamplerInit /\ got = [c \in Clients |-> <<>>] /\ taken = <<>>

Ask(c) ==
  /\ \E r \in Wanted[c] : SendRequest(c, r)
  /\ UNCHANGED <<got, taken>>

Serve(c) ==
  /\ HandleRequest(c)
  /\ taken' = IF fulTsCounter' # fulTsCounter THEN Append(taken, fulPrevTsIndex')
                                              ELSE taken
  /\ UNCHANGED got

Receive(c) ==
  /\ ReceiveReply(c)
  /\ got' = [got EXCEPT ![c] = IF link[c].body = FirstIndexReply THEN @
                               ELSE Append(@, link[c].body.ts)]
  /\ UNCHANGED taken

Next == \E c \in Clients : Ask(c) \/ Serve(c) \/ Receive(c)

Spec == Init /\ [][Next]_vars

\* FairMQ serves the requests that are there; a client waits for its reply
\* and then asks again.
FairSpec == Spec /\ \A c \in Clients :
  WF_vars(Ask(c)) /\ WF_vars(Serve(c)) /\ WF_vars(Receive(c))

-----------------------------------------------------------------------------
\* The TS a client was answered with: received or waiting in its link.
Answered(c) ==
  got[c] \o IF link[c].state = "replied" /\ link[c].body # FirstIndexReply
            THEN <<link[c].body.ts>> ELSE <<>>

AnsweredTs == UNION {{Answered(c)[i] : i \in DOMAIN Answered(c)} : c \in Clients}
NobodyWantsFirstIndex == \A c \in Clients : FirstIndex \notin Wanted[c]
TakenTs == {taken[i] : i \in DOMAIN taken}

\* The counter that EOF announces, and that the sink waits for as "global full
\* TS count", counts the TS that were sent to somebody: in no-split mode, unless
\* a client asks for the first index, whose TS is counted and not sent.
EofCountsWhatWasSent ==
  SplitMode = "no-split" /\ NobodyWantsFirstIndex =>
    \A i \in DOMAIN commands :
      commands[i].tag = "EOF" =>
        /\ commands[i].total = Cardinality(AnsweredTs)
        /\ AnsweredTs = {} \/ commands[i].last \in AnsweredTs

\* Every index up to the last TS was counted or reported missed, once
\* (missed TS detection of GetNewTs).
EveryHoleIsReported ==
  LET missed == UNION {{<<m, i>> : i \in DOMAIN missedts[m]} : m \in DOMAIN missedts}
  IN  deviceState = "running" =>
        \A k \in 0 .. fulPrevTsIndex :
          /\ fulTsCounter > 0 =>
               (k \in TakenTs <=> \A x \in missed : missedts[x[1]][x[2]] # k)
          /\ \A x, y \in missed :
               missedts[x[1]][x[2]] = missedts[y[1]][y[2]] => x = y

\* Once the sampler found the end, or failed, or said STOP, it is over: no client
\* is answered with a TS or a part of one, though its request is there and the buffer
\* may have its part, and nothing is read, counted, buffered or said any more, even
\* if the command was lost.  A sampler that says STOP because it cannot answer a
\* request for the first index goes on.
QuietAfterEnding ==
  [][(fbEofFound \/ deviceState # "running" \/ (NobodyWantsFirstIndex /\ commands # <<>>))
       => /\ \A c \in Clients : Answered(c)' = Answered(c)
          /\ UNCHANGED <<streamVars, bufferVars, commands, taken>>]_vars

\* A client only waits in vain for a sampler that has ended; in the mode per
\* system ID also for a system that has no components.
OnlyTheEndLeavesUnanswered ==
  \A c \in Clients :
    link[c].state = "unanswered" =>
      \/ fbEofFound \/ deviceState # "running"
      \/ SplitMode = "sysid" /\ Wanted[c] \cap (Parts \ PartsInData) # {}

\* Split: "Search if TS in buffer where all components for this system where
\* not sent yet": a client gets its part of the TS in the order of the source, also
\* while others make the buffer grow and drop its oldest TS.  A TS is only sent
\* again when the buffer grows, so fewer than fulHighWaterMark times in all.
OnePartEach == \A c \in Clients : \A p, q \in Wanted[c] \cap Parts : p = q
RepeatsOf(c) == {i \in DOMAIN Answered(c) : /\ i + 1 \in DOMAIN Answered(c)
                                            /\ Answered(c)[i] = Answered(c)[i + 1]}
Repeats == UNION {{c} \X RepeatsOf(c) : c \in Clients}
PartsInOrder ==
  SplitMode # "no-split" /\ OnePartEach =>
    /\ \A c \in Clients : \A i, j \in DOMAIN Answered(c) :
         i < j => Answered(c)[i] <= Answered(c)[j]
    /\ Cardinality(Repeats) < fulHighWaterMark

\* Split: a slow client loses a part only to the bound of the buffer.  Of the last
\* fulHighWaterMark TS that were read each part was given to somebody who wants it,
\* or is in the buffer and will be sent to the next who asks, whatever the others
\* asked for in between (AddNewTsInBuffer and the flags of what was sent).
PartsLostByOverflowOnly ==
  /\ SplitMode # "no-split" /\ OnePartEach /\ NobodyWantsFirstIndex
  /\ deviceState = "running" /\ ~fbEofFound
  => \A k \in DOMAIN taken, p \in SentParts :
       Len(taken) - k < fulHighWaterMark =>
         \/ \E u \in DOMAIN tsBuffer : tsBuffer[u].ts = taken[k] /\ p \notin tsBuffer[u].sent
         \/ \E c \in Clients : /\ p \in Wanted[c]
                                /\ \E i \in DOMAIN Answered(c) : Answered(c)[i] = taken[k]

\* As long as the clients ask, the source is read to its end or to a failure that
\* ends the sampler: it never goes on for ever without giving out a TS.
SamplerEnds == <>(fbEofFound \/ deviceState = "stopped")
=============================================================================
