---------------------------- MODULE TsSamplerProofs ----------------------------
(***************************************************************************)
(* What the clients of the sampler can rely on, for any number of them and *)
(* any way to start it.  The proofs see a step of a client or the sampler  *)
(* by what it does to Answered: nothing, or one more TS for one client.    *)
(*                                                                         *)
(* HoleInv relates what was read and what was reported missed to the last  *)
(* index; it leaves out the start at index 1, where the code reports       *)
(* nothing for index 0.  SplitInv says for the split modes what the buffer *)
(* holds, of the TS read and of what was given to whom, and bounds what a  *)
(* client is given twice.                                                  *)
(***************************************************************************)
EXTENDS TsSamplerClients, FiniteSetTheorems, SequenceTheorems, WellFoundedInduction, TLAPS

-----------------------------------------------------------------------------
(* Sequences of anything, and of commands.                                 *)

IsSeq(s) == s \in Seq({s[i] : i \in DOMAIN s})

LEMMA SeqIsSeq ==
  ASSUME NEW S, NEW s \in Seq(S) PROVE IsSeq(s)
BY DEF IsSeq

LEMMA AppendFacts ==
  ASSUME NEW s, IsSeq(s), NEW x
  PROVE  /\ IsSeq(Append(s, x)) /\ s \o <<x>> = Append(s, x)
         /\ s \o <<>> = s /\ Append(s, x) \o <<>> = Append(s, x)
         /\ DOMAIN s = 1 .. Len(s) /\ Len(s) \in Nat
         /\ DOMAIN Append(s, x) = 1 .. Len(s) + 1
         /\ \A i \in DOMAIN s : Append(s, x)[i] = s[i]
         /\ Append(s, x)[Len(s) + 1] = x
<1> DEFINE T == {s[i] : i \in DOMAIN s} \cup {x}
<1>1. s \in Seq(T) /\ x \in T
  BY DEF IsSeq
<1>2. Append(s, x) \in Seq(T)
  BY <1>1
<1> HIDE DEF T
<1>3. IsSeq(Append(s, x))
  BY <1>2, SeqIsSeq
<1> QED BY <1>1, <1>2, <1>3

Words == [tag : {"EOF"}, last : Nat, total : Nat] \cup {Stop}

\* What is said is appended as far as it is sent.
LEMMA SaidFacts ==
  ASSUME NEW words \in Seq(Words), commands \in Seq(Words), setup \in Setups, Say(words)
  PROVE  /\ commands' \in Seq(Words)
         /\ \A j \in DOMAIN commands' :
              \/ j \in DOMAIN commands /\ commands'[j] = commands[j]
              \/ \E k \in DOMAIN words : commands'[j] = words[k]
<1>1. PICK n \in 0 .. Len(words) : commands' = commands \o SubSeq(words, 1, n)
  <2>1. Len(words) \in Nat
    OBVIOUS
  <2>2. CASE SendMayFail
    BY <2>2 DEF Say
  <2>3. CASE ~SendMayFail
    <3>1. commands' = commands \o SubSeq(words, 1, Len(words))
      BY <2>3 DEF Say
    <3> QED BY <2>1, <3>1
  <2> QED BY <2>2, <2>3
<1> DEFINE said == SubSeq(words, 1, n)
<1>2. /\ said \in Seq(Words) /\ Len(said) = n
      /\ \A k \in 1 .. n : said[k] = words[k]
      /\ n \in Nat /\ DOMAIN words = 1 .. Len(words) /\ Len(words) \in Nat /\ n <= Len(words)
  OBVIOUS
<1> HIDE DEF said
<1>3. /\ commands' = commands \o said /\ commands' \in Seq(Words)
      /\ DOMAIN commands' = 1 .. Len(commands) + n /\ DOMAIN commands = 1 .. Len(commands)
      /\ Len(commands) \in Nat
      /\ \A j \in 1 .. Len(commands) + n :
           commands'[j] = IF j <= Len(commands) THEN commands[j] ELSE said[j - Len(commands)]
  BY <1>1, <1>2 DEF said
<1>4. ASSUME NEW j \in DOMAIN commands'
      PROVE  \/ j \in DOMAIN commands /\ commands'[j] = commands[j]
             \/ \E k \in DOMAIN words : commands'[j] = words[k]
  <2>1. CASE j <= Len(commands)
    BY <2>1, <1>3
  <2>2. CASE ~(j <= Len(commands))
    <3>1. j - Len(commands) \in 1 .. n
      BY <2>2, <1>2, <1>3
    <3> QED BY <2>2, <3>1, <1>2, <1>3
  <2> QED BY <2>1, <2>2
<1> QED BY <1>3, <1>4

LEMMA NothingSaid ==
  ASSUME commands \in Seq(Words), Say(<<>>) PROVE commands' = commands
BY DEF Say
-----------------------------------------------------------------------------
(* What a step does to Answered.                                           *)

ShapeInv ==
  /\ setup \in Setups
  /\ DOMAIN link = Clients /\ DOMAIN got = Clients
  /\ \A c \in Clients : IsSeq(got[c])
  /\ \A c \in Clients : Asked(c) => Part(c) \in Wanted[c]

Keeps(c) == Answered(c)' = Answered(c)

\* Without a reply on its way a client was answered with what it got.
LEMMA AnsweredFacts ==
  ASSUME ShapeInv, NEW c \in Clients
  PROVE  /\ IsSeq(Answered(c))
         /\ link[c].state # "replied" => Answered(c) = got[c]
<1>1. IsSeq(got[c])
  BY DEF ShapeInv
<1>2. \/ Answered(c) = got[c] \o <<link[c].body.ts>> /\ link[c].state = "replied"
      \/ Answered(c) = got[c] \o <<>>
  BY DEF Answered
<1>3. link[c].state # "replied" => Answered(c) = got[c] \o <<>>
  BY DEF Answered
<1> DEFINE t == link[c].body.ts
           more == Append(got[c], t)
<1>4. got[c] \o <<>> = got[c] /\ got[c] \o <<t>> = more /\ IsSeq(more)
  <2> HIDE DEF t
  <2> QED BY <1>1, AppendFacts
<1>5. CASE Answered(c) = got[c]
  BY <1>1, <1>5
<1>6. CASE Answered(c) = more /\ link[c].state = "replied"
  <2>1. IsSeq(Answered(c))
    <3> HIDE DEF more
    <3> QED BY <1>4, <1>6
  <2> QED BY <2>1, <1>6
<1> QED BY <1>2, <1>3, <1>4, <1>5, <1>6

LEMMA NothingGiven ==
  ASSUME ShapeInv, NEW c \in Clients, Asked(c), got' = got,
         NoAnswer(c) \/ Answer(c, FirstIndexReply)
  PROVE  /\ \A d \in Clients : Keeps(d)
         /\ DOMAIN link' = Clients /\ \A d \in Clients : Asked(d)' => Asked(d) /\ link'[d] = link[d]
<1>1. /\ DOMAIN link' = Clients
      /\ \A d \in Clients \ {c} : link'[d] = link[d]
      /\ link'[c].state = "replied" => link'[c].body = FirstIndexReply
      /\ link'[c].state # "requested"
  BY DEF NoAnswer, Answer, ShapeInv
<1>2. link[c].state # "replied"
  BY DEF Asked
<1> QED BY <1>1, <1>2 DEF Keeps, Answered, Asked, FirstIndexReply

LEMMA OneGiven ==
  ASSUME ShapeInv, NEW c \in Clients, Asked(c), got' = got,
         NEW body, body # FirstIndexReply, Answer(c, body)
  PROVE  /\ Answered(c)' = Append(Answered(c), body.ts)
         /\ \A d \in Clients \ {c} : Keeps(d)
         /\ DOMAIN link' = Clients /\ \A d \in Clients : Asked(d)' => Asked(d) /\ link'[d] = link[d]
<1>1. /\ DOMAIN link' = Clients
      /\ \A d \in Clients \ {c} : link'[d] = link[d]
      /\ link'[c].state = "replied" /\ link'[c].body = body
  BY DEF Answer, ShapeInv
<1>2. Answered(c) = got[c]
  BY AnsweredFacts DEF Asked
<1>3. got[c] \o <<body.ts>> = Append(got[c], body.ts)
  BY AppendFacts DEF ShapeInv
<1>4. Answered(c)' = got[c] \o <<body.ts>>
  BY <1>1 DEF Answered, FirstIndexReply
<1>5. \A d \in Clients \ {c} : Keeps(d)
  BY <1>1 DEF Keeps, Answered, FirstIndexReply
<1> QED BY <1>1, <1>2, <1>3, <1>4, <1>5 DEF Asked

LEMMA AskKeeps ==
  ASSUME ShapeInv, NEW c \in Clients, Ask(c)
  PROVE  ShapeInv' /\ \A d \in Clients : Keeps(d)
<1>1. PICK r \in Wanted[c] : SendRequest(c, r)
  BY DEF Ask
<1>2. /\ DOMAIN link' = Clients /\ got' = got /\ setup' = setup
      /\ \A d \in Clients \ {c} : link'[d] = link[d]
      /\ link'[c].state = "requested" /\ link'[c].body = r
      /\ link[c].state = "idle"
  BY <1>1 DEF Ask, SendRequest, ShapeInv, Idle
<1>3. \A d \in Clients : Keeps(d)
  BY <1>2 DEF Keeps, Answered, FirstIndexReply
<1>4. ShapeInv'
  BY <1>2 DEF ShapeInv, Asked, Part, Wanted
<1> QED BY <1>3, <1>4

LEMMA ReceiveKeeps ==
  ASSUME ShapeInv, NEW c \in Clients, Receive(c)
  PROVE  ShapeInv' /\ \A d \in Clients : Keeps(d)
<1>1. /\ DOMAIN link' = Clients /\ DOMAIN got' = Clients /\ setup' = setup
      /\ \A d \in Clients \ {c} : link'[d] = link[d] /\ got'[d] = got[d]
      /\ link'[c].state = "idle" /\ link[c].state = "replied"
      /\ got'[c] = IF link[c].body = FirstIndexReply THEN got[c]
                   ELSE Append(got[c], link[c].body.ts)
  BY DEF Receive, ReceiveReply, ShapeInv, Idle
<1>2. IsSeq(got[c])
  BY DEF ShapeInv
<1>3. \A d \in Clients \ {c} : Keeps(d)
  BY <1>1 DEF Keeps, Answered, FirstIndexReply
<1>4. Keeps(c) /\ IsSeq(got'[c])
  <2>1. CASE link[c].body = FirstIndexReply
    BY <2>1, <1>1, <1>2 DEF Keeps, Answered
  <2>2. CASE link[c].body # FirstIndexReply
    <3> DEFINE t == link[c].body.ts
    <3>1. got'[c] = Append(got[c], t)
      BY <2>2, <1>1
    <3>2. Answered(c) = got[c] \o <<t>>
      BY <2>2, <1>1 DEF Answered
    <3>3. Answered(c)' = Append(got[c], t) \o <<>>
      BY <3>1, <1>1 DEF Answered
    <3> HIDE DEF t
    <3> QED BY <3>1, <3>2, <3>3, <1>2, AppendFacts DEF Keeps
  <2> QED BY <2>1, <2>2
<1>5. ShapeInv'
  BY <1>1, <1>4 DEF ShapeInv, Asked, Part, Wanted
<1> QED BY <1>3, <1>4, <1>5
-----------------------------------------------------------------------------
(* What the handler of a request does to the client, the commands and the  *)
(* end of the data.                                                        *)

StreamInv ==
  /\ setup \in Setups
  /\ fulPrevTsIndex \in Nat /\ fulTsCounter \in Nat /\ srcNext \in Nat
  /\ fbEofFound \in BOOLEAN
  /\ commands \in Seq(Words)

NoSuchPart(c) == SplitMode = "sysid" /\ Part(c) \in Parts \ PartsInData

\* A TS, or a part of one, is given to the client.
GivesTs(c) ==
  /\ Part(c) # FirstIndex /\ ~fbEofFound /\ commands' = commands
  /\ \E body : body # FirstIndexReply /\ Answer(c, body)

Replies(c) ==
  \/ Part(c) = FirstIndex /\ Answer(c, FirstIndexReply)
  \/ NoAnswer(c) /\ (fbEofFound' \/ deviceState' # "running" \/ NoSuchPart(c))
  \/ GivesTs(c)

\* Of the commands, EOF comes with the end of the data, STOP with a failure.
Old(j) == j \in DOMAIN commands /\ commands'[j] = commands[j]
Commands(c) ==
  /\ commands' \in Seq(Words)
  /\ \/ commands' = commands
     \/ /\ fbEofFound'
        /\ \A j \in DOMAIN commands' :
             Old(j) \/ commands'[j] = Eof(fulPrevTsIndex, fulTsCounter)
     \/ /\ Part(c) = FirstIndex \/ deviceState' # "running"
        /\ \A j \in DOMAIN commands' : Old(j) \/ commands'[j] = Stop

LEMMA SomeWords ==
  ASSUME StreamInv
  PROVE  /\ <<>> \in Seq(Words) /\ <<Stop>> \in Seq(Words) /\ <<Stop, Stop>> \in Seq(Words)
         /\ <<Eof(fulPrevTsIndex, fulTsCounter)>> \in Seq(Words)
<1>1. Stop \in Words
  BY DEF Words
<1>2. Eof(fulPrevTsIndex, fulTsCounter) \in Words
  BY DEF Words, Eof, StreamInv
<1> HIDE DEF Words
<1> QED BY <1>1, <1>2

LEMMA SaidNothing ==
  ASSUME StreamInv, NEW c \in Clients, Say(<<>>) PROVE Commands(c) /\ commands' = commands
BY NothingSaid DEF Commands, StreamInv

LEMMA SaidStop ==
  ASSUME StreamInv, NEW c \in Clients, Say(<<Stop>>) \/ Say(<<Stop, Stop>>),
         Part(c) = FirstIndex \/ deviceState' # "running"
  PROVE  Commands(c)
<1>1. PICK words \in {<<Stop>>, <<Stop, Stop>>} : Say(words)
  OBVIOUS
<1>2. words \in Seq(Words) /\ \A k \in DOMAIN words : words[k] = Stop
  <2>1. \A k \in DOMAIN words : words[k] = Stop
    OBVIOUS
  <2> QED BY <2>1, SomeWords
<1>3. /\ commands' \in Seq(Words)
      /\ \A j \in DOMAIN commands' : Old(j) \/ \E k \in DOMAIN words : commands'[j] = words[k]
  BY <1>1, <1>2, SaidFacts DEF StreamInv, Old
<1> QED BY <1>2, <1>3 DEF Commands

LEMMA SaidEof ==
  ASSUME StreamInv, NEW c \in Clients, Say(<<Eof(fulPrevTsIndex, fulTsCounter)>>), fbEofFound'
  PROVE  Commands(c)
<1> DEFINE words == <<Eof(fulPrevTsIndex, fulTsCounter)>>
<1>2. words \in Seq(Words) /\ \A k \in DOMAIN words : words[k] = Eof(fulPrevTsIndex, fulTsCounter)
  BY SomeWords
<1>3. Say(words)
  OBVIOUS
<1> HIDE DEF words
<1>4. /\ commands' \in Seq(Words)
      /\ \A j \in DOMAIN commands' : Old(j) \/ \E k \in DOMAIN words : commands'[j] = words[k]
  BY <1>2, <1>3, SaidFacts DEF StreamInv, Old
<1> QED BY <1>2, <1>4 DEF Commands

LEMMA FirstIndexEffect ==
  ASSUME StreamInv, NEW c \in Clients, deviceState = "running", ~fbEofFound, AnswerFirstIndex(c)
  PROVE  Replies(c) /\ Commands(c)
<1>1. Replies(c)
  BY DEF AnswerFirstIndex, Replies
<1>2. Commands(c)
  <2>1. CASE Say(<<>>)
    BY <2>1, SaidNothing
  <2>2. CASE Say(<<Stop>>)
    BY <2>2, SaidStop DEF AnswerFirstIndex
  <2>3. CASE GetNewTsEnds /\ Say(<<Eof(fulPrevTsIndex, fulTsCounter)>>)
    BY <2>3, SaidEof DEF GetNewTsEnds
  <2> QED BY <2>1, <2>2, <2>3 DEF AnswerFirstIndex
<1> QED BY <1>1, <1>2

LEMMA FullTsEffect ==
  ASSUME StreamInv, NEW c \in Clients, deviceState = "running", ~fbEofFound, AnswerFullTs(c)
  PROVE  Replies(c) /\ Commands(c)
<1>1. ASSUME NEW i \in TsIndices, SendData(c, [ts |-> i], <<Stop, Stop>>)
      PROVE  Replies(c) /\ Commands(c)
  <2>1. CASE Answer(c, [ts |-> i]) /\ Publish /\ Say(<<>>)
    <3>1. [ts |-> i] # FirstIndexReply
      BY DEF FirstIndexReply
    <3>2. Commands(c) /\ commands' = commands
      BY <2>1, SaidNothing
    <3> QED BY <2>1, <3>1, <3>2 DEF Replies, GivesTs, AnswerFullTs
  <2>2. CASE FailAndStop(c, <<Stop, Stop>>)
    BY <2>2, SaidStop DEF FailAndStop, Replies
  <2> QED BY <1>1, <2>1, <2>2 DEF SendData
<1>2. CASE FailAndStop(c, <<Stop, Stop>>)
  BY <1>2, SaidStop DEF FailAndStop, Replies
<1>3. CASE GetNewTsEnds /\ NoAnswer(c) /\ Say(<<Eof(fulPrevTsIndex, fulTsCounter)>>)
  BY <1>3, SaidEof DEF GetNewTsEnds, Replies
<1> QED BY <1>1, <1>2, <1>3 DEF AnswerFullTs

LEMMA CombinedEffect ==
  ASSUME StreamInv, NEW c \in Clients, deviceState = "running", ~fbEofFound,
         Part(c) # FirstIndex, NEW buffer, NEW u, CreateCombinedComponents(c, buffer, u)
  PROVE  Replies(c) /\ Commands(c)
<1>1. CASE FailAndStop(c, <<Stop>>)
  BY <1>1, SaidStop DEF FailAndStop, Replies
<1>2. CASE Part(c) \in Parts \ SentParts /\ NoAnswer(c) /\ Say(<<>>)
  <2>1. NoSuchPart(c)
    BY <1>2 DEF SentParts, NoSuchPart
  <2> QED BY <1>2, <2>1, SaidNothing DEF Replies
<1>3. CASE SendPart(c, buffer, u)
  <2>1. CASE Answer(c, [ts |-> buffer[u].ts, part |-> Part(c)]) /\ Say(<<>>)
    <3>1. [ts |-> buffer[u].ts, part |-> Part(c)] # FirstIndexReply
      BY DEF FirstIndexReply
    <3>2. Commands(c) /\ commands' = commands
      BY <2>1, SaidNothing
    <3> QED BY <2>1, <3>1, <3>2 DEF Replies, GivesTs
  <2>2. CASE FailAndStop(c, <<Stop>>)
    BY <2>2, <1>1
  <2> QED BY <1>3, <2>1, <2>2 DEF SendPart
<1>4. \/ Part(c) \notin Parts /\ FailAndStop(c, <<Stop>>)
      \/ Part(c) \in Parts \ SentParts /\ NoAnswer(c) /\ Say(<<>>)
      \/ SendPart(c, buffer, u)
  BY DEF CreateCombinedComponents
<1> QED BY <1>1, <1>2, <1>3, <1>4

LEMMA PartEffect ==
  ASSUME StreamInv, NEW c \in Clients, deviceState = "running", ~fbEofFound, AnswerPart(c)
  PROVE  Replies(c) /\ Commands(c)
<1>0. Part(c) # FirstIndex
  BY DEF AnswerPart
<1>1. CASE AnswerFromBuffer(c)
  BY <1>0, <1>1, CombinedEffect DEF AnswerFromBuffer
<1>2. CASE AnswerFromNewTs(c)
  BY <1>0, <1>2, CombinedEffect DEF AnswerFromNewTs
<1>3. CASE AnswerNoTs(c)
  <2>1. CASE FailAndStop(c, <<Stop, Stop>>)
    BY <2>1, SaidStop DEF FailAndStop, Replies
  <2>2. CASE GetNewTsEnds /\ NoAnswer(c) /\ Say(<<Eof(fulPrevTsIndex, fulTsCounter)>>)
    BY <2>2, SaidEof DEF GetNewTsEnds, Replies
  <2> QED BY <1>3, <2>1, <2>2 DEF AnswerNoTs
<1> QED BY <1>1, <1>2, <1>3 DEF AnswerPart

LEMMA RequestEffect ==
  ASSUME StreamInv, NEW c \in Clients, HandleRequest(c)
  PROVE  /\ deviceState = "running" /\ Asked(c) /\ setup' = setup
         /\ Replies(c) /\ Commands(c)
         /\ fbEofFound => fbEofFound' /\ NoAnswer(c) /\ commands' = commands
<1>1. CASE IgnoreRequest(c)
  BY <1>1 DEF IgnoreRequest, HandleRequest, Replies, Commands, StreamInv, streamVars
<1>2. CASE ~fbEofFound /\ (AnswerFirstIndex(c) \/ AnswerFullTs(c) \/ AnswerPart(c))
  BY <1>2, FirstIndexEffect, FullTsEffect, PartEffect DEF HandleRequest
<1> QED BY <1>1, <1>2 DEF HandleRequest

\* In every handler the source gives a TS, or one that is not kept, or none.
LEMMA StreamEffect ==
  ASSUME StreamInv, NEW c \in Clients, HandleRequest(c)
  PROVE  \/ UNCHANGED streamVars
         \/ \E i \in TsIndices : GetNewTs(i) \/ GetNewTsFails(i)
         \/ GetNewTsEnds
<1>1. CASE IgnoreRequest(c)
  BY <1>1 DEF IgnoreRequest
<1>2. CASE AnswerFirstIndex(c)
  BY <1>2 DEF AnswerFirstIndex
<1>3. CASE AnswerFullTs(c)
  BY <1>3 DEF AnswerFullTs
<1>4. CASE AnswerPart(c)
  <2>1. CASE AnswerFromBuffer(c)
    BY <2>1 DEF AnswerFromBuffer
  <2>2. CASE AnswerFromNewTs(c)
    BY <2>2 DEF AnswerFromNewTs
  <2>3. CASE AnswerNoTs(c)
    BY <2>3 DEF AnswerNoTs
  <2> QED BY <1>4, <2>1, <2>2, <2>3 DEF AnswerPart
<1> QED BY <1>1, <1>2, <1>3, <1>4 DEF HandleRequest

LEMMA StreamStep ==
  ASSUME StreamInv, NEW c \in Clients, HandleRequest(c)
  PROVE  StreamInv' /\ srcNext <= srcNext'
<1>1. TsIndices \subseteq Nat
  BY SamplerAssumption DEF StreamInv, TsIndices
<1>2. /\ fulPrevTsIndex' \in Nat /\ fulTsCounter' \in Nat /\ srcNext' \in Nat
      /\ fbEofFound' \in BOOLEAN /\ srcNext <= srcNext'
  <2>1. CASE UNCHANGED streamVars
    BY <2>1 DEF streamVars, StreamInv
  <2>2. CASE \E i \in TsIndices : GetNewTs(i) \/ GetNewTsFails(i)
    BY <2>2, <1>1 DEF GetNewTs, GetNewTsFails, FromSource, StreamInv
  <2>3. CASE GetNewTsEnds
    BY <2>3 DEF GetNewTsEnds, StreamInv
  <2> QED BY <2>1, <2>2, <2>3, StreamEffect
<1>3. commands' \in Seq(Words) /\ setup' = setup
  BY RequestEffect DEF Commands
<1> QED BY <1>2, <1>3 DEF StreamInv

Gives(c, t) ==
  Answered(c)' = Append(Answered(c), t) /\ \A d \in Clients \ {c} : Keeps(d)

LEMMA ServeEffect ==
  ASSUME StreamInv, ShapeInv, NEW c \in Clients, Serve(c)
  PROVE  /\ ShapeInv'
         /\ (\A d \in Clients : Keeps(d)) \/ GivesTs(c)
<1>1. HandleRequest(c) /\ got' = got
  BY DEF Serve
<1>2. Asked(c) /\ setup' = setup /\ Replies(c)
  BY <1>1, RequestEffect
<1>3. CASE NoAnswer(c) \/ Answer(c, FirstIndexReply)
  <2>1. /\ \A d \in Clients : Keeps(d)
        /\ DOMAIN link' = Clients /\ \A d \in Clients : Asked(d)' => Asked(d) /\ link'[d] = link[d]
    BY <1>1, <1>2, <1>3, NothingGiven
  <2> QED BY <2>1, <1>1, <1>2 DEF ShapeInv, Part, Wanted
<1>4. CASE GivesTs(c)
  <2>1. PICK body : body # FirstIndexReply /\ Answer(c, body)
    BY <1>4 DEF GivesTs
  <2>2. /\ Gives(c, body.ts)
        /\ DOMAIN link' = Clients /\ \A d \in Clients : Asked(d)' => Asked(d) /\ link'[d] = link[d]
    BY <2>1, <1>1, <1>2, OneGiven DEF Gives
  <2>3. ShapeInv'
    BY <2>2, <1>1, <1>2 DEF ShapeInv, Part, Wanted
  <2> QED BY <2>2, <2>3, <1>4
<1> QED BY <1>2, <1>3, <1>4 DEF Replies

ClientsInv == StreamInv /\ ShapeInv

LEMMA InitClientsInv == Init => ClientsInv
<1> SUFFICES ASSUME Init PROVE ClientsInv
  OBVIOUS
<1>0. <<>> \in Seq(Words)
  OBVIOUS
<1>1. StreamInv
  <2>1. fbEofFound = FALSE /\ commands = <<>> /\ setup \in Setups
        /\ fulPrevTsIndex = 0 /\ fulTsCounter = 0 /\ srcNext = 0
    BY DEF Init, SamplerInit
  <2> QED BY <2>1, <1>0 DEF StreamInv
<1>2. IsSeq(<<>>)
  BY DEF IsSeq
<1>3. ShapeInv
  BY <1>2 DEF Init, SamplerInit, ShapeInv, Asked, Idle
<1> QED BY <1>1, <1>3 DEF ClientsInv

\* Steps of the clients leave the sampler and what was answered alone.
LEMMA ClientStep ==
  ASSUME ClientsInv, NEW c \in Clients, Ask(c) \/ Receive(c)
  PROVE  /\ ClientsInv' /\ \A d \in Clients : Keeps(d)
         /\ UNCHANGED <<setup, streamVars, deviceState, commands>>
<1>1. UNCHANGED <<setup, streamVars, deviceState, commands>>
  BY DEF Ask, Receive, SendRequest, ReceiveReply
<1>2. StreamInv'
  BY <1>1 DEF ClientsInv, StreamInv, streamVars
<1>3. ShapeInv' /\ \A d \in Clients : Keeps(d)
  BY AskKeeps, ReceiveKeeps DEF ClientsInv
<1> QED BY <1>1, <1>2, <1>3 DEF ClientsInv

LEMMA StutterStep ==
  ASSUME ClientsInv, UNCHANGED vars
  PROVE  ClientsInv' /\ \A d \in Clients : Keeps(d)
BY DEF vars, samplerVars, streamVars, bufferVars, ClientsInv, StreamInv, ShapeInv, IsSeq,
       Asked, Part, Wanted, Keeps, Answered

LEMMA NextClientsInv == ClientsInv /\ [Next]_vars => ClientsInv'
<1> SUFFICES ASSUME ClientsInv, [Next]_vars PROVE ClientsInv'
  OBVIOUS
<1>1. ASSUME NEW c \in Clients, Serve(c) PROVE ClientsInv'
  BY <1>1, StreamStep, ServeEffect DEF ClientsInv, Serve
<1>2. ASSUME NEW c \in Clients, Ask(c) \/ Receive(c) PROVE ClientsInv'
  BY <1>2, ClientStep
<1>3. CASE UNCHANGED vars
  BY <1>3, StutterStep
<1> QED BY <1>1, <1>2, <1>3 DEF Next

LEMMA ClientsInvariant == Spec => []ClientsInv
BY InitClientsInv, NextClientsInv, PTL DEF Spec
-----------------------------------------------------------------------------
(* Who waits in vain.                                                      *)

LEMMA NextUnanswered ==
  ClientsInv /\ OnlyTheEndLeavesUnanswered /\ [Next]_vars => OnlyTheEndLeavesUnanswered'
<1> SUFFICES ASSUME ClientsInv, OnlyTheEndLeavesUnanswered, [Next]_vars
             PROVE  OnlyTheEndLeavesUnanswered'
  OBVIOUS
<1> USE DEF OnlyTheEndLeavesUnanswered
<1>1. ASSUME NEW c \in Clients, Serve(c) PROVE OnlyTheEndLeavesUnanswered'
  <2>1. /\ deviceState = "running" /\ Asked(c) /\ setup' = setup /\ Replies(c)
        /\ fbEofFound => fbEofFound'
    BY <1>1, RequestEffect DEF Serve, ClientsInv
  <2>2. /\ \A d \in Clients \ {c} : link'[d] = link[d]
        /\ link'[c].state = "unanswered" => NoAnswer(c)
    BY <2>1 DEF Replies, GivesTs, Answer, NoAnswer, ClientsInv, ShapeInv
  <2>3. Answer(c, FirstIndexReply) \/ GivesTs(c) => link'[c].state = "replied"
    BY DEF GivesTs, Answer, ClientsInv, ShapeInv
  <2>4. ASSUME link'[c].state = "unanswered"
        PROVE  fbEofFound' \/ deviceState' # "running" \/ NoSuchPart(c)
    BY <2>1, <2>3, <2>4 DEF Replies
  <2>5. NoSuchPart(c) => SplitMode = "sysid" /\ Wanted[c] \cap (Parts \ PartsInData) # {}
    BY <2>1 DEF NoSuchPart, ClientsInv, ShapeInv
  <2> QED BY <2>1, <2>2, <2>4, <2>5 DEF SplitMode, Wanted, PartsInData
<1>2. ASSUME NEW c \in Clients, Ask(c) \/ Receive(c) PROVE OnlyTheEndLeavesUnanswered'
  <2>1. UNCHANGED <<setup, streamVars, deviceState, commands>>
    BY <1>2, ClientStep
  <2>2. /\ \A d \in Clients \ {c} : link'[d] = link[d]
        /\ link'[c].state # "unanswered"
    BY <1>2 DEF Ask, Receive, SendRequest, ReceiveReply, Idle, ClientsInv, ShapeInv
  <2> QED BY <2>1, <2>2 DEF streamVars, SplitMode, Wanted, PartsInData
<1>3. CASE UNCHANGED vars
  BY <1>3 DEF vars, samplerVars, streamVars, SplitMode, Wanted, PartsInData
<1> QED BY <1>1, <1>2, <1>3 DEF Next

\* A client is only left without an answer by an ended sampler, or in the mode
\* per system ID for a system without components (HandleRequest).
THEOREM OnlyEndedIsSilent == Spec => []OnlyTheEndLeavesUnanswered
<1>1. Init => OnlyTheEndLeavesUnanswered
  BY DEF Init, SamplerInit, Idle, OnlyTheEndLeavesUnanswered
<1> QED BY <1>1, ClientsInvariant, NextUnanswered, PTL DEF Spec

-----------------------------------------------------------------------------
(* After the ending.                                                       *)

LEMMA KeptTs == (\A d \in Clients : Keeps(d)) => AnsweredTs' = AnsweredTs
BY DEF Keeps, AnsweredTs

\* What was said ends the sampler, or the data.
SaidEnds ==
  NobodyWantsFirstIndex /\ commands # <<>> => fbEofFound \/ deviceState # "running"

LEMMA NextSaidEnds == ClientsInv /\ SaidEnds /\ [Next]_vars => SaidEnds'
<1> SUFFICES ASSUME ClientsInv, SaidEnds, [Next]_vars PROVE SaidEnds'
  OBVIOUS
<1>1. ASSUME NEW c \in Clients, Serve(c) PROVE SaidEnds'
  <2>1. /\ deviceState = "running" /\ Asked(c) /\ setup' = setup /\ Commands(c)
        /\ fbEofFound => fbEofFound'
    BY <1>1, RequestEffect DEF Serve, ClientsInv
  <2>2. NobodyWantsFirstIndex' => NobodyWantsFirstIndex /\ Part(c) # FirstIndex
    BY <2>1 DEF NobodyWantsFirstIndex, Wanted, ClientsInv, ShapeInv
  <2> QED BY <2>1, <2>2 DEF SaidEnds, Commands
<1>2. ASSUME NEW c \in Clients, Ask(c) \/ Receive(c) PROVE SaidEnds'
  BY <1>2, ClientStep DEF SaidEnds, streamVars, NobodyWantsFirstIndex, Wanted
<1>3. CASE UNCHANGED vars
  BY <1>3 DEF vars, samplerVars, streamVars, SaidEnds, NobodyWantsFirstIndex, Wanted
<1> QED BY <1>1, <1>2, <1>3 DEF Next

\* The antecedent and the consequent of QuietAfterEnding.
Over == fbEofFound \/ deviceState # "running" \/ (NobodyWantsFirstIndex /\ commands # <<>>)
AllQuiet ==
  /\ \A c \in Clients : Answered(c)' = Answered(c)
  /\ UNCHANGED <<streamVars, bufferVars, commands, taken>>

LEMMA QuietStep == ClientsInv /\ SaidEnds /\ [Next]_vars => [Over => AllQuiet]_vars
<1> SUFFICES ASSUME ClientsInv, SaidEnds, [Next]_vars, Over PROVE AllQuiet
  OBVIOUS
<1>1. ASSUME NEW c \in Clients, Serve(c) PROVE AllQuiet
  <2>1. deviceState = "running" /\ Asked(c) /\ got' = got /\ HandleRequest(c)
    BY <1>1, RequestEffect DEF Serve, ClientsInv
  <2>2. IgnoreRequest(c)
    BY <2>1 DEF Over, SaidEnds, HandleRequest
  <2>3. UNCHANGED <<streamVars, bufferVars, commands>> /\ NoAnswer(c)
    BY <2>2 DEF IgnoreRequest
  <2>4. taken' = taken
    BY <1>1, <2>3 DEF Serve, streamVars
  <2>5. \A d \in Clients : Keeps(d)
    BY <2>1, <2>3, NothingGiven DEF ClientsInv
  <2> QED BY <2>3, <2>4, <2>5 DEF AllQuiet, Keeps
<1>2. ASSUME NEW c \in Clients, Ask(c) \/ Receive(c) PROVE AllQuiet
  <2>1. UNCHANGED <<streamVars, commands>> /\ \A d \in Clients : Keeps(d)
    BY <1>2, ClientStep
  <2>2. UNCHANGED <<bufferVars, taken>>
    BY <1>2 DEF Ask, Receive, SendRequest, ReceiveReply
  <2> QED BY <2>1, <2>2 DEF AllQuiet, Keeps
<1>3. CASE UNCHANGED vars
  <2>1. \A d \in Clients : Keeps(d)
    BY <1>3, StutterStep
  <2> QED BY <1>3, <2>1 DEF vars, samplerVars, AllQuiet, Keeps
<1> QED BY <1>1, <1>2, <1>3 DEF Next

\* After the end of the source, a failure or a STOP no client is answered with a TS
\* or a part, and nothing is read, counted, buffered or said, in any mode and also
\* if the command was lost; for STOP unless a client asks for the first index.
THEOREM NothingAfterEnding == Spec => QuietAfterEnding
<1>1. Init => SaidEnds
  BY DEF Init, SamplerInit, SaidEnds
<1>2. [][Over => AllQuiet]_vars => QuietAfterEnding
  BY PTL DEF QuietAfterEnding, Over, AllQuiet
<1> QED BY <1>1, <1>2, ClientsInvariant, NextSaidEnds, QuietStep, PTL DEF Spec
-----------------------------------------------------------------------------
(* No-split mode.                                                          *)

\* The new TS i, and nothing else, is given to the client.
GivesNew(c, i) ==
  /\ Gives(c, i) /\ GetNewTs(i)
  /\ ~fbEofFound /\ Part(c) # FirstIndex /\ commands' = commands

\* Without an answer, a TS that was counted has been lost with the device.
GivesNothing(c) ==
  /\ \A d \in Clients : Keeps(d)
  /\ \/ UNCHANGED <<fulPrevTsIndex, fulTsCounter>>
     \/ deviceState' # "running" \/ Part(c) = FirstIndex

LEMMA NoSplitEffect ==
  ASSUME ClientsInv, SplitMode = "no-split", NEW c \in Clients, Serve(c)
  PROVE  (\E i \in TsIndices : GivesNew(c, i)) \/ GivesNothing(c)
<1>1. HandleRequest(c) /\ got' = got /\ Asked(c) /\ Commands(c)
  BY RequestEffect DEF Serve, ClientsInv
<1>2. ASSUME NoAnswer(c) \/ Answer(c, FirstIndexReply) PROVE \A d \in Clients : Keeps(d)
  BY <1>1, <1>2, NothingGiven DEF ClientsInv
<1>3. CASE IgnoreRequest(c)
  BY <1>2, <1>3 DEF IgnoreRequest, streamVars, GivesNothing
<1>4. CASE AnswerFirstIndex(c)
  BY <1>2, <1>4 DEF AnswerFirstIndex, GivesNothing
<1>5. CASE ~fbEofFound /\ AnswerFullTs(c)
  <2>1. ASSUME NEW i \in TsIndices, GetNewTs(i), Answer(c, [ts |-> i]), Say(<<>>)
        PROVE  GivesNew(c, i)
    <3> DEFINE body == [ts |-> i]
    <3>1. body # FirstIndexReply /\ body.ts = i /\ Answer(c, body)
      BY <2>1 DEF FirstIndexReply
    <3> HIDE DEF body
    <3>2. Gives(c, i)
      BY <1>1, <3>1, OneGiven DEF Gives, ClientsInv
    <3>3. commands' = commands
      BY <2>1, NothingSaid DEF ClientsInv, StreamInv
    <3> QED BY <1>5, <2>1, <3>2, <3>3 DEF GivesNew, AnswerFullTs
  <2>2. CASE FailAndStop(c, <<Stop, Stop>>)
    BY <1>2, <2>2 DEF FailAndStop, GivesNothing
  <2>3. CASE GetNewTsEnds /\ NoAnswer(c)
    BY <1>2, <2>3 DEF GetNewTsEnds, GivesNothing
  <2> QED BY <1>5, <2>1, <2>2, <2>3 DEF AnswerFullTs, SendData
<1>6. ~ AnswerPart(c)
  BY DEF AnswerPart
<1> QED BY <1>1, <1>3, <1>4, <1>5, <1>6 DEF HandleRequest

\* What was given is behind the source: the next TS is new for everybody.
GivenBehind ==
  SplitMode = "no-split" =>
    \A c \in Clients : \A i \in DOMAIN Answered(c) :
      Answered(c)[i] \in Nat /\ Answered(c)[i] < srcNext

LEMMA GivesKeepsBehind ==
  ASSUME ClientsInv, GivenBehind, SplitMode = "no-split", setup' = setup, NEW c \in Clients,
         NEW i \in TsIndices, GivesNew(c, i)
  PROVE  GivenBehind'
<1>1. SplitMode' = "no-split" /\ i \in Nat /\ srcNext \in Nat
  BY SamplerAssumption DEF SplitMode, ClientsInv, StreamInv, TsIndices
<1>2. srcNext <= i /\ srcNext' = i + 1
  BY DEF GivesNew, GetNewTs, FromSource
<1> DEFINE s == Answered(c)
<1>3. /\ Answered(c)' = Append(s, i)
      /\ \A d \in Clients \ {c} : Answered(d)' = Answered(d)
  BY DEF GivesNew, Gives, Keeps
<1>4. IsSeq(s)
  BY AnsweredFacts DEF ClientsInv
<1>5. \A d \in Clients : \A k \in DOMAIN Answered(d) :
        Answered(d)[k] \in Nat /\ Answered(d)[k] < srcNext'
  BY <1>1, <1>2 DEF GivenBehind
<1>6. \A k \in DOMAIN Append(s, i) : Append(s, i)[k] \in Nat /\ Append(s, i)[k] < srcNext'
  <2>1. \A k \in DOMAIN s : s[k] \in Nat /\ s[k] < srcNext'
    BY <1>5
  <2> HIDE DEF s
  <2>2. \A k \in DOMAIN Append(s, i) :
          Append(s, i)[k] = i \/ (k \in DOMAIN s /\ Append(s, i)[k] = s[k])
    BY <1>4, AppendFacts
  <2> QED BY <1>1, <1>2, <2>1, <2>2
<1> QED BY <1>3, <1>5, <1>6 DEF GivenBehind

LEMMA KeepsBehind ==
  ASSUME ClientsInv, GivenBehind, setup' = setup, \A d \in Clients : Keeps(d),
         srcNext' \in Nat, srcNext <= srcNext'
  PROVE  GivenBehind'
BY DEF Keeps, GivenBehind, SplitMode, ClientsInv, StreamInv

LEMMA NextBehind == ClientsInv /\ GivenBehind /\ [Next]_vars => GivenBehind'
<1> SUFFICES ASSUME ClientsInv, GivenBehind, [Next]_vars PROVE GivenBehind'
  OBVIOUS
<1>1. ASSUME NEW c \in Clients, Serve(c) PROVE GivenBehind'
  <2>1. setup' = setup /\ srcNext' \in Nat /\ srcNext <= srcNext'
    BY <1>1, RequestEffect, StreamStep DEF Serve, ClientsInv, StreamInv
  <2>2. CASE SplitMode = "no-split"
    BY <1>1, <2>1, <2>2, NoSplitEffect, GivesKeepsBehind, KeepsBehind DEF GivesNothing
  <2>3. CASE SplitMode # "no-split"
    BY <2>1, <2>3 DEF GivenBehind, SplitMode
  <2> QED BY <2>2, <2>3
<1>2. ASSUME NEW c \in Clients, Ask(c) \/ Receive(c) PROVE GivenBehind'
  BY <1>2, ClientStep, KeepsBehind DEF streamVars, ClientsInv, StreamInv
<1>3. CASE UNCHANGED vars
  BY <1>3, StutterStep, KeepsBehind
     DEF vars, samplerVars, streamVars, ClientsInv, StreamInv
<1> QED BY <1>1, <1>2, <1>3 DEF Next
-----------------------------------------------------------------------------
(* The count of EOF, for clients that want TS only.                        *)

CountsApply == SplitMode = "no-split" /\ NobodyWantsFirstIndex

IsEof(j) == commands[j].tag = "EOF"

\* As long as TS are given out they are counted; EOF comes after that.
CountedInv ==
  CountsApply =>
    /\ IsFiniteSet(AnsweredTs)
    /\ deviceState = "running" /\ ~fbEofFound =>
         /\ Cardinality(AnsweredTs) = fulTsCounter
         /\ AnsweredTs = {} \/ fulPrevTsIndex \in AnsweredTs
    /\ \A j \in DOMAIN commands :
         IsEof(j) =>
           /\ fbEofFound
           /\ commands[j].total = Cardinality(AnsweredTs)
           /\ AnsweredTs = {} \/ commands[j].last \in AnsweredTs

LEMMA GivesNewTs ==
  ASSUME ClientsInv, GivenBehind, SplitMode = "no-split", NEW c \in Clients,
         NEW i \in TsIndices, GivesNew(c, i)
  PROVE  AnsweredTs' = AnsweredTs \cup {i} /\ i \notin AnsweredTs
<1>0. i \in Nat /\ srcNext \in Nat /\ srcNext <= i
  BY SamplerAssumption DEF ClientsInv, StreamInv, TsIndices, GivesNew, GetNewTs, FromSource
<1> DEFINE TsOf(s) == {s[k] : k \in DOMAIN s}
           s == Answered(c)
<1>1. /\ Answered(c)' = Append(s, i)
      /\ \A d \in Clients \ {c} : Answered(d)' = Answered(d)
  BY DEF GivesNew, Gives, Keeps
<1>2. IsSeq(s)
  BY AnsweredFacts DEF ClientsInv
<1>3. TsOf(Append(s, i)) = TsOf(s) \cup {i}
  <2> HIDE DEF s
  <2>1. /\ DOMAIN s = 1 .. Len(s) /\ Len(s) \in Nat
        /\ DOMAIN Append(s, i) = 1 .. Len(s) + 1
        /\ \A k \in DOMAIN s : Append(s, i)[k] = s[k]
        /\ Append(s, i)[Len(s) + 1] = i
    BY <1>2, AppendFacts
  <2>2. /\ \A k \in DOMAIN Append(s, i) : k \in DOMAIN s \/ k = Len(s) + 1
        /\ DOMAIN s \subseteq DOMAIN Append(s, i) /\ Len(s) + 1 \in DOMAIN Append(s, i)
    BY <2>1
  <2> QED BY <2>1, <2>2
<1>4. /\ AnsweredTs = UNION {TsOf(Answered(d)) : d \in Clients}
      /\ AnsweredTs' = UNION {TsOf(Answered(d)') : d \in Clients}
  BY DEF AnsweredTs
<1>5. AnsweredTs' = AnsweredTs \cup {i}
  <2> HIDE DEF TsOf, s
  <2>1. TsOf(Answered(c)') = TsOf(Answered(c)) \cup {i}
    BY <1>1, <1>3 DEF s
  <2> QED BY <1>1, <1>4, <2>1
<1>6. i \notin AnsweredTs
  <2> SUFFICES ASSUME NEW d \in Clients, NEW k \in DOMAIN Answered(d), Answered(d)[k] = i
               PROVE  FALSE
    BY <1>4
  <2> QED BY <1>0 DEF GivenBehind
<1> QED BY <1>5, <1>6

LEMMA ServeCounts ==
  ASSUME ClientsInv, GivenBehind, CountedInv, CountsApply, NEW c \in Clients, Serve(c)
  PROVE  CountedInv'
<1>1. /\ deviceState = "running" /\ Asked(c) /\ setup' = setup /\ Commands(c)
      /\ fbEofFound => fbEofFound' /\ commands' = commands
  BY RequestEffect DEF Serve, ClientsInv
<1>2. Part(c) # FirstIndex
  BY <1>1 DEF CountsApply, NobodyWantsFirstIndex, ClientsInv, ShapeInv
<1>3. ASSUME NEW i \in TsIndices, GivesNew(c, i) PROVE CountedInv'
  <2>1. AnsweredTs' = AnsweredTs \cup {i} /\ i \notin AnsweredTs
    BY <1>3, GivesNewTs DEF CountsApply
  <2>2. /\ ~fbEofFound /\ commands' = commands
        /\ fulTsCounter' = fulTsCounter + 1 /\ fulPrevTsIndex' = i
    BY <1>3 DEF GivesNew, GetNewTs
  <2>3. /\ IsFiniteSet(AnsweredTs') /\ Cardinality(AnsweredTs') = fulTsCounter'
    <3>1. IsFiniteSet(AnsweredTs) /\ Cardinality(AnsweredTs) = fulTsCounter
      BY <1>1, <2>2 DEF CountedInv
    <3> QED BY <2>1, <2>2, <3>1, FS_AddElement
  <2>4. \A j \in DOMAIN commands' : ~ IsEof(j)'
    BY <2>2 DEF CountedInv, IsEof
  <2> QED BY <2>1, <2>2, <2>3, <2>4 DEF CountedInv
<1>4. CASE GivesNothing(c)
  <2>1. AnsweredTs' = AnsweredTs
    BY <1>4, KeptTs DEF GivesNothing
  <2>2. \/ fulTsCounter' = fulTsCounter /\ fulPrevTsIndex' = fulPrevTsIndex
        \/ deviceState' # "running"
    BY <1>2, <1>4 DEF GivesNothing
  <2>3. ASSUME NEW j \in DOMAIN commands', IsEof(j)'
        PROVE  /\ fbEofFound'
               /\ commands'[j].total = Cardinality(AnsweredTs')
               /\ AnsweredTs' = {} \/ commands'[j].last \in AnsweredTs'
    <3>1. CASE Old(j)
      BY <1>1, <2>1, <2>3, <3>1 DEF CountedInv, IsEof, Old
    <3>2. CASE fbEofFound' /\ ~fbEofFound /\ commands'[j] = Eof(fulPrevTsIndex, fulTsCounter)
      BY <1>1, <2>1, <3>2 DEF CountedInv, Eof
    <3>3. commands'[j] # Stop
      BY <2>3 DEF IsEof, Stop
    <3>4. commands' = commands => Old(j)
      BY DEF Old
    <3> QED BY <1>1, <1>2, <3>1, <3>2, <3>3, <3>4 DEF Commands
  <2> QED BY <1>1, <2>1, <2>2, <2>3 DEF CountedInv
<1> QED BY <1>3, <1>4, NoSplitEffect DEF CountsApply

LEMMA NextCounted == ClientsInv /\ GivenBehind /\ CountedInv /\ [Next]_vars => CountedInv'
<1> SUFFICES ASSUME ClientsInv, GivenBehind, CountedInv, [Next]_vars PROVE CountedInv'
  OBVIOUS
<1>0. ASSUME setup' = setup PROVE CountsApply' <=> CountsApply
  BY <1>0 DEF CountsApply, SplitMode, NobodyWantsFirstIndex, Wanted
<1>1. ASSUME NEW c \in Clients, Serve(c) PROVE CountedInv'
  <2>1. setup' = setup
    BY <1>1, RequestEffect DEF Serve, ClientsInv
  <2>2. CASE CountsApply
    BY <1>1, <2>2, ServeCounts
  <2>3. CASE ~CountsApply
    BY <1>0, <2>1, <2>3 DEF CountedInv
  <2> QED BY <2>2, <2>3
<1>2. ASSUME UNCHANGED <<setup, streamVars, deviceState, commands>>,
             \A d \in Clients : Keeps(d)
      PROVE  CountedInv'
  BY <1>0, <1>2, KeptTs DEF CountedInv, streamVars, IsEof
<1>3. ASSUME NEW c \in Clients, Ask(c) \/ Receive(c) PROVE CountedInv'
  BY <1>2, <1>3, ClientStep
<1>4. CASE UNCHANGED vars
  BY <1>2, <1>4, StutterStep DEF vars, samplerVars
<1> QED BY <1>1, <1>3, <1>4 DEF Next

\* EOF announces the number of TS that were given out and the last of them: what
\* the sink waits for, for any number of unpackers.
THEOREM EofIsTheCount == Spec => []EofCountsWhatWasSent
<1>1. Init => GivenBehind /\ CountedInv
  <2> SUFFICES ASSUME Init PROVE GivenBehind /\ CountedInv
    OBVIOUS
  <2>1. \A c \in Clients : Answered(c) = <<>>
    BY DEF Init, SamplerInit, Idle, Answered
  <2>2. AnsweredTs = {}
    BY <2>1 DEF AnsweredTs
  <2>3. commands = <<>> /\ fulTsCounter = 0
    BY DEF Init, SamplerInit
  <2>4. GivenBehind
    BY <2>1 DEF GivenBehind
  <2> QED BY <2>2, <2>3, <2>4, FS_EmptySet DEF CountedInv
<1>2. CountedInv => EofCountsWhatWasSent
  BY DEF CountedInv, CountsApply, IsEof, EofCountsWhatWasSent
<1> QED BY <1>1, <1>2, ClientsInvariant, NextBehind, NextCounted, PTL DEF Spec
-----------------------------------------------------------------------------
(* The holes of the stream, in any mode and for any clients.               *)

\* The indices reported with a TS are all from the first one missed on.
MissedFrom(prev, count, i) ==
  /\ MissedIndices(prev, count, i) \in Seq(Nat)
  /\ DOMAIN MissedIndices(prev, count, i) = 1 .. (i - FirstMissed(prev, count))
  /\ \A k \in 1 .. (i - FirstMissed(prev, count)) :
       MissedIndices(prev, count, i)[k] = FirstMissed(prev, count) + k - 1
  /\ FirstMissed(prev, count) \in Nat

LEMMA MissedFacts ==
  ASSUME NEW prev \in Nat, NEW count \in Nat, NEW i \in Nat
  PROVE  MissedFrom(prev, count, i)
<1> DEFINE first == FirstMissed(prev, count)
<1>1. first \in Nat
  BY DEF FirstMissed
<1>2. MissedIndices(prev, count, i) = [k \in 1 .. (i - first) |-> first + k - 1]
  BY DEF MissedIndices
<1>3. i - first \in Int
  BY <1>1
<1> HIDE DEF first
<1>4. [k \in 1 .. (i - first) |-> first + k - 1] \in Seq(Nat)
  <2>1. CASE i - first \in Nat
    BY <1>1, <2>1
  <2>2. CASE i - first < 0
    <3> DEFINE g == [k \in 1 .. (i - first) |-> first + k - 1]
    <3>1. 1 .. (i - first) = 1 .. 0
      BY <1>3, <2>2
    <3>2. g \in [1 .. 0 -> Nat]
      BY <3>1
    <3> HIDE DEF g
    <3>3. g \in Seq(Nat)
      BY <3>2
    <3> QED BY <3>3 DEF g
  <2> QED BY <1>3, <2>1, <2>2
<1> QED BY <1>1, <1>2, <1>4 DEF first, MissedFrom

\* A first TS with the index 1 is taken for the successor of one that never was:
\* the index 0 is not reported then.
StartsAtOne == taken # <<>> /\ taken[1] = 1

HoleInv ==
  /\ taken \in Seq(Nat) /\ Len(taken) = fulTsCounter
  /\ missedts \in Seq(Seq(Nat))
  /\ fulTsCounter = 0 => fulPrevTsIndex = 0 /\ missedts = <<>>
  /\ fulTsCounter > 0 => fulPrevTsIndex \in TakenTs /\ fulPrevTsIndex < srcNext
  /\ \A j \in DOMAIN taken : taken[j] <= fulPrevTsIndex
  /\ \A m \in DOMAIN missedts : \A l \in DOMAIN missedts[m] : missedts[m][l] <= fulPrevTsIndex
  /\ \A m, n \in DOMAIN missedts : \A k \in DOMAIN missedts[m], l \in DOMAIN missedts[n] :
       missedts[m][k] = missedts[n][l] => m = n /\ k = l
  /\ StartsAtOne \/
       \A k \in 0 .. fulPrevTsIndex :
         fulTsCounter > 0 =>
           (k \in TakenTs <=>
              \A m \in DOMAIN missedts : \A l \in DOMAIN missedts[m] : missedts[m][l] # k)

\* What the next TS adds: itself to those taken, and all between to the missed.
TakesNext(i) ==
  /\ i \in Nat /\ fulPrevTsIndex' = i /\ fulTsCounter' = fulTsCounter + 1
  /\ srcNext <= i /\ srcNext' = i + 1
  /\ taken' = Append(taken, i)
  /\ LET f == MissedIndices(fulPrevTsIndex, fulTsCounter, i)
     IN  missedts' = IF IsGap(fulPrevTsIndex, fulTsCounter, i) THEN Append(missedts, f)
                     ELSE missedts

LEMMA TakesKeepsHoles ==
  ASSUME StreamInv, HoleInv, NEW i, TakesNext(i)
  PROVE  HoleInv'
<1> DEFINE first == FirstMissed(fulPrevTsIndex, fulTsCounter)
           f == MissedIndices(fulPrevTsIndex, fulTsCounter, i)
           gap == IsGap(fulPrevTsIndex, fulTsCounter, i)
           N == Len(taken)
           M == Len(missedts)
<1>1. /\ i \in Nat /\ fulPrevTsIndex \in Nat /\ fulTsCounter \in Nat /\ srcNext \in Nat
      /\ fulPrevTsIndex' = i /\ fulTsCounter' = fulTsCounter + 1
      /\ srcNext <= i /\ srcNext' = i + 1
  BY DEF TakesNext, StreamInv
<1>2. /\ f \in Seq(Nat) /\ DOMAIN f = 1 .. (i - first) /\ first \in Nat
      /\ \A k \in 1 .. (i - first) : f[k] = first + k - 1
  <2>1. MissedFrom(fulPrevTsIndex, fulTsCounter, i)
    BY <1>1, MissedFacts
  <2> QED BY <2>1 DEF MissedFrom
<1>3. missedts' = IF gap THEN Append(missedts, f) ELSE missedts
  BY DEF TakesNext
<1>4. /\ fulTsCounter > 0 => first = fulPrevTsIndex + 1 /\ fulPrevTsIndex < i
      /\ fulTsCounter = 0 => first = 0 /\ fulPrevTsIndex = 0
      /\ ~gap => \/ i = first
                 \/ i = 1 /\ fulTsCounter = 0
      /\ first <= i
  BY <1>1 DEF HoleInv, FirstMissed, IsGap
<1>5. /\ taken \in Seq(Nat) /\ N = fulTsCounter /\ DOMAIN taken = 1 .. N
      /\ taken' \in Seq(Nat) /\ Len(taken') = N + 1 /\ DOMAIN taken' = 1 .. N + 1
      /\ \A j \in 1 .. N : taken'[j] = taken[j]
      /\ taken'[N + 1] = i /\ \A j \in 1 .. N : taken[j] <= fulPrevTsIndex
  <2>1. taken \in Seq(Nat) /\ taken' = Append(taken, i) /\ N = fulTsCounter /\ i \in Nat
    BY DEF HoleInv, TakesNext
  <2>2. DOMAIN taken = 1 .. N
    BY <2>1
  <2>3. \A j \in 1 .. N : taken[j] <= fulPrevTsIndex
    BY <2>2 DEF HoleInv
  <2> QED BY <2>1, <2>2, <2>3
<1>6. /\ missedts \in Seq(Seq(Nat)) /\ DOMAIN missedts = 1 .. M /\ M \in Nat
      /\ \A m \in 1 .. M : missedts[m] \in Seq(Nat)
      /\ fulTsCounter = 0 => M = 0
      /\ \A m \in 1 .. M : \A l \in DOMAIN missedts[m] : missedts[m][l] <= fulPrevTsIndex
      /\ \A m, n \in 1 .. M : \A k \in DOMAIN missedts[m], l \in DOMAIN missedts[n] :
           missedts[m][k] = missedts[n][l] => m = n /\ k = l
  <2>1. missedts \in Seq(Seq(Nat)) /\ DOMAIN missedts = 1 .. M /\ M \in Nat
    BY DEF HoleInv
  <2>2. \A m \in 1 .. M : missedts[m] \in Seq(Nat)
    BY <2>1
  <2>3. fulTsCounter = 0 => M = 0
    BY DEF HoleInv
  <2> HIDE DEF M
  <2> QED BY <2>1, <2>2, <2>3 DEF HoleInv
<1> HIDE DEF first, f, gap, N, M
<1>7. /\ missedts' \in Seq(Seq(Nat))
      /\ gap => /\ DOMAIN missedts' = 1 .. M + 1 /\ missedts'[M + 1] = f
                /\ \A m \in 1 .. M : missedts'[m] = missedts[m]
      /\ ~gap => missedts' = missedts
  <2>1. CASE gap
    BY <1>2, <1>3, <1>6, <2>1 DEF M
  <2>2. CASE ~gap
    BY <1>3, <1>6, <2>2
  <2> QED BY <2>1, <2>2
<1>8. \A m \in DOMAIN missedts' :
        \/ m \in 1 .. M /\ missedts'[m] = missedts[m]
        \/ gap /\ m = M + 1 /\ missedts'[m] = f
  BY <1>6, <1>7
\* The values reported before lie before those reported now.
<1>9. \A m \in 1 .. M : \A l \in DOMAIN missedts[m] :
        missedts[m][l] \in Nat /\ missedts[m][l] < first
  <2> TAKE m \in 1 .. M
  <2> TAKE l \in DOMAIN missedts[m]
  <2>1. missedts[m][l] \in Nat
    <3>1. missedts[m] \in Seq(Nat)
      BY <1>6
    <3> QED BY <3>1
  <2>2. missedts[m][l] <= fulPrevTsIndex /\ fulTsCounter # 0
    BY <1>6
  <2> QED BY <1>1, <1>2, <1>4, <2>1, <2>2
<1>10. \A l \in DOMAIN f : f[l] \in Nat /\ first <= f[l] /\ f[l] < i
  BY <1>1, <1>2
<1>11. \A j \in 1 .. N : taken[j] \in Nat /\ taken[j] < first
  <2> TAKE j \in 1 .. N
  <2>1. taken[j] \in Nat /\ taken[j] <= fulPrevTsIndex /\ fulTsCounter > 0
    BY <1>1, <1>5
  <2> QED BY <1>1, <1>2, <1>4, <2>1
<1>12. fulPrevTsIndex' \in TakenTs' /\ \A j \in DOMAIN taken' : taken'[j] <= i
  <2>1. N + 1 \in DOMAIN taken'
    BY <1>1, <1>5
  <2>2. fulPrevTsIndex' \in TakenTs'
    BY <1>1, <1>5, <2>1 DEF TakenTs
  <2>3. ASSUME NEW j \in DOMAIN taken' PROVE taken'[j] <= i
    <3>1. CASE j \in 1 .. N
      BY <1>1, <1>2, <1>4, <1>5, <1>11, <3>1
    <3>2. CASE j = N + 1
      BY <1>1, <1>5, <3>2
    <3> QED BY <1>1, <1>5, <3>1, <3>2
  <2> QED BY <2>2, <2>3
<1>13. \A m \in DOMAIN missedts' : \A l \in DOMAIN missedts'[m] :
         /\ missedts'[m][l] \in Nat /\ missedts'[m][l] < i
         /\ m \in 1 .. M => missedts'[m][l] < first
         /\ m = M + 1 => first <= missedts'[m][l]
  <2> TAKE m \in DOMAIN missedts'
  <2> TAKE l \in DOMAIN missedts'[m]
  <2>1. CASE m \in 1 .. M /\ missedts'[m] = missedts[m]
    <3>1. missedts[m][l] \in Nat /\ missedts[m][l] < first /\ m # M + 1
      BY <1>6, <1>9, <2>1
    <3> QED BY <1>1, <1>2, <1>4, <2>1, <3>1
  <2>2. CASE m = M + 1 /\ missedts'[m] = f
    <3>1. f[l] \in Nat /\ first <= f[l] /\ f[l] < i /\ m \notin 1 .. M
      BY <1>6, <1>10, <2>2
    <3> QED BY <2>2, <3>1
  <2> QED BY <1>8, <2>1, <2>2
<1>14. ASSUME NEW m \in DOMAIN missedts', NEW n \in DOMAIN missedts',
              NEW k \in DOMAIN missedts'[m], NEW l \in DOMAIN missedts'[n],
              missedts'[m][k] = missedts'[n][l]
       PROVE  m = n /\ k = l
  <2>1. CASE m \in 1 .. M /\ n \in 1 .. M
    <3>1. missedts'[m] = missedts[m] /\ missedts'[n] = missedts[n]
      BY <1>6, <1>8, <2>1
    <3> QED BY <1>6, <1>14, <2>1, <3>1
  <2>2. CASE m \in 1 .. M /\ n = M + 1
    <3>1. /\ missedts'[m][k] \in Nat /\ missedts'[m][k] < first
          /\ missedts'[n][l] \in Nat /\ first <= missedts'[n][l]
      BY <1>13, <2>2
    <3> QED BY <1>2, <1>14, <3>1
  <2>3. CASE m = M + 1 /\ n \in 1 .. M
    <3>1. /\ missedts'[n][l] \in Nat /\ missedts'[n][l] < first
          /\ missedts'[m][k] \in Nat /\ first <= missedts'[m][k]
      BY <1>13, <2>3
    <3> QED BY <1>2, <1>14, <3>1
  <2>4. CASE m = M + 1 /\ n = M + 1
    <3>1. missedts'[m] = f /\ missedts'[n] = f
      BY <1>6, <1>8, <2>4
    <3>2. f[k] = first + k - 1 /\ f[l] = first + l - 1 /\ k \in Int /\ l \in Int
      BY <1>2, <3>1
    <3> QED BY <1>2, <1>14, <2>4, <3>1, <3>2
  <2> QED BY <1>8, <2>1, <2>2, <2>3, <2>4
<1>15. ASSUME ~StartsAtOne', NEW k \in 0 .. i
       PROVE  k \in TakenTs' <=>
                \A m \in DOMAIN missedts' : \A l \in DOMAIN missedts'[m] : missedts'[m][l] # k
  <2>1. ~gap => i = first
    <3>1. CASE i = 1 /\ fulTsCounter = 0
      <4>1. taken'[1] = 1 /\ 1 \in DOMAIN taken'
        BY <1>5, <3>1
      <4>2. taken' # <<>>
        BY <4>1
      <4> QED BY <1>15, <4>1, <4>2 DEF StartsAtOne
    <3> QED BY <1>4, <3>1
  <2>2. TakenTs' = TakenTs \cup {i}
    <3>1. \A j \in DOMAIN taken' : \/ j \in 1 .. N /\ taken'[j] = taken[j]
                                 \/ taken'[j] = i
      BY <1>1, <1>5
    <3>2. /\ \A j \in 1 .. N : j \in DOMAIN taken' /\ taken'[j] = taken[j]
          /\ N + 1 \in DOMAIN taken' /\ taken'[N + 1] = i
      BY <1>1, <1>5
    <3>3. TakenTs = {taken[j] : j \in 1 .. N} /\ TakenTs' = {taken'[j] : j \in DOMAIN taken'}
      BY <1>5 DEF TakenTs
    <3> QED BY <3>1, <3>2, <3>3
  <2>3. \A t \in TakenTs : t \in Nat /\ t < first
    BY <1>5, <1>11 DEF TakenTs
  <2>4. CASE k < first
    <3>1. fulTsCounter > 0 /\ k \in 0 .. fulPrevTsIndex
      BY <1>1, <1>2, <1>4, <2>4
    <3>2. ~StartsAtOne
      BY <1>1, <1>5, <1>15, <3>1 DEF StartsAtOne
    <3>3. k \in TakenTs <=> \A m \in 1 .. M : \A l \in DOMAIN missedts[m] : missedts[m][l] # k
      BY <1>6, <3>1, <3>2 DEF HoleInv
    <3>4. \A l \in DOMAIN f : f[l] # k
      BY <1>2, <1>10, <2>4
    <3>5. k # i
      BY <1>2, <1>4, <2>4
    <3>6. (\A m \in DOMAIN missedts' : \A l \in DOMAIN missedts'[m] : missedts'[m][l] # k)
            <=> \A m \in 1 .. M : \A l \in DOMAIN missedts[m] : missedts[m][l] # k
      <4>1. \A m \in 1 .. M : m \in DOMAIN missedts' /\ missedts'[m] = missedts[m]
        BY <1>6, <1>7
      <4> QED BY <1>8, <3>4, <4>1
    <3> QED BY <2>2, <3>3, <3>5, <3>6
  <2>5. CASE first <= k /\ k < i
    <3>1. k \notin TakenTs'
      BY <1>2, <2>2, <2>3, <2>5
    <3>2. gap
      BY <1>1, <1>2, <2>1, <2>5
    <3> DEFINE l == k - first + 1
    <3>3. l \in DOMAIN f /\ f[l] = k
      <4>1. l \in 1 .. (i - first) /\ first + l - 1 = k
        BY <1>1, <1>2, <2>5
      <4> HIDE DEF l
      <4> QED BY <1>2, <4>1
    <3>4. M + 1 \in DOMAIN missedts' /\ missedts'[M + 1] = f
      BY <1>6, <1>7, <3>2
    <3> HIDE DEF l
    <3> QED BY <3>1, <3>3, <3>4
  <2>6. CASE k = i
    <3>1. \A m \in DOMAIN missedts' : \A l \in DOMAIN missedts'[m] : missedts'[m][l] # k
      BY <1>1, <1>13, <2>6
    <3> QED BY <2>2, <2>6, <3>1
  <2> QED BY <1>1, <1>2, <2>4, <2>5, <2>6
<1>16. /\ Len(taken') = fulTsCounter' /\ fulTsCounter' \in Nat /\ fulTsCounter' > 0
       /\ fulPrevTsIndex' < srcNext'
  BY <1>1, <1>5
<1>17. \A m \in DOMAIN missedts' : \A l \in DOMAIN missedts'[m] : missedts'[m][l] <= fulPrevTsIndex'
  BY <1>1, <1>13
<1> QED BY <1>1, <1>5, <1>7, <1>12, <1>14, <1>15, <1>16, <1>17 DEF HoleInv

LEMMA HolesUnchanged ==
  ASSUME StreamInv, HoleInv, UNCHANGED <<taken, missedts, fulTsCounter, fulPrevTsIndex>>,
         srcNext' \in Nat, srcNext <= srcNext'
  PROVE  HoleInv'
<1>1. TakenTs' = TakenTs /\ (StartsAtOne' <=> StartsAtOne)
  BY DEF TakenTs, StartsAtOne
<1>2. fulTsCounter > 0 => fulPrevTsIndex < srcNext'
  BY DEF HoleInv, StreamInv
<1> QED BY <1>1, <1>2 DEF HoleInv

LEMMA ServeKeepsHoles ==
  ASSUME ClientsInv, HoleInv, NEW c \in Clients, Serve(c)
  PROVE  HoleInv'
<1>0. StreamInv /\ HandleRequest(c)
  BY DEF ClientsInv, Serve
<1>1. /\ StreamInv' /\ srcNext <= srcNext'
      /\ taken' = IF fulTsCounter' # fulTsCounter THEN Append(taken, fulPrevTsIndex') ELSE taken
  BY <1>0, StreamStep DEF Serve
<1>2. ASSUME NEW i \in TsIndices, GetNewTs(i) PROVE HoleInv'
  <2>1. i \in Nat /\ fulTsCounter \in Nat /\ fulTsCounter' = fulTsCounter + 1
    BY <1>0, <1>2, SamplerAssumption DEF StreamInv, TsIndices, GetNewTs
  <2>2. taken' = Append(taken, i)
    BY <1>1, <1>2, <2>1 DEF GetNewTs
  <2>3. TakesNext(i)
    BY <1>2, <2>1, <2>2 DEF GetNewTs, FromSource, TakesNext
  <2> QED BY <1>0, <2>3, TakesKeepsHoles
<1>3. CASE UNCHANGED <<missedts, fulTsCounter, fulPrevTsIndex>>
  BY <1>0, <1>1, <1>3, HolesUnchanged DEF StreamInv
<1> QED BY <1>0, <1>2, <1>3, StreamEffect DEF streamVars, GetNewTsFails, GetNewTsEnds

LEMMA NextHoles == ClientsInv /\ HoleInv /\ [Next]_vars => HoleInv'
<1> SUFFICES ASSUME ClientsInv, HoleInv, [Next]_vars PROVE HoleInv'
  OBVIOUS
<1>1. CASE UNCHANGED <<streamVars, taken>>
  <2>1. srcNext \in Nat /\ StreamInv
    BY DEF ClientsInv, StreamInv
  <2> QED BY <1>1, <2>1, HolesUnchanged DEF streamVars
<1>2. ASSUME NEW c \in Clients, Ask(c) \/ Receive(c) PROVE UNCHANGED <<streamVars, taken>>
  BY <1>2 DEF Ask, Receive, SendRequest, ReceiveReply
<1>3. UNCHANGED vars => UNCHANGED <<streamVars, taken>>
  BY DEF vars, samplerVars
<1> QED BY <1>1, <1>2, <1>3, ServeKeepsHoles DEF Next

LEMMA HolesAreReported == HoleInv /\ ~StartsAtOne => EveryHoleIsReported
<1> SUFFICES ASSUME HoleInv, ~StartsAtOne PROVE EveryHoleIsReported
  OBVIOUS
<1> DEFINE missed == UNION {{<<m, i>> : i \in DOMAIN missedts[m]} : m \in DOMAIN missedts}
<1>1. \A x \in missed : x[1] \in DOMAIN missedts /\ x[2] \in DOMAIN missedts[x[1]]
                         /\ x = <<x[1], x[2]>>
  OBVIOUS
<1>2. \A m \in DOMAIN missedts : \A l \in DOMAIN missedts[m] :
        \E x \in missed : x[1] = m /\ x[2] = l
  <2> TAKE m \in DOMAIN missedts
  <2> TAKE l \in DOMAIN missedts[m]
  <2>1. <<m, l>> \in missed /\ <<m, l>>[1] = m /\ <<m, l>>[2] = l
    OBVIOUS
  <2> QED BY <2>1
<1> HIDE DEF missed
<1>3. \A k \in 0 .. fulPrevTsIndex :
        fulTsCounter > 0 => (k \in TakenTs <=> \A x \in missed : missedts[x[1]][x[2]] # k)
  <2> SUFFICES ASSUME NEW k \in 0 .. fulPrevTsIndex, fulTsCounter > 0
               PROVE  k \in TakenTs <=> \A x \in missed : missedts[x[1]][x[2]] # k
    OBVIOUS
  <2>1. k \in TakenTs <=>
          \A m \in DOMAIN missedts : \A l \in DOMAIN missedts[m] : missedts[m][l] # k
    BY DEF HoleInv
  <2> QED BY <1>1, <1>2, <2>1
<1>4. \A x, y \in missed : missedts[x[1]][x[2]] = missedts[y[1]][y[2]] => x = y
  <2> SUFFICES ASSUME NEW x \in missed, NEW y \in missed,
                      missedts[x[1]][x[2]] = missedts[y[1]][y[2]]
               PROVE  x = y
    OBVIOUS
  <2>1. x[1] = y[1] /\ x[2] = y[2]
    BY <1>1 DEF HoleInv
  <2> QED BY <1>1, <2>1
<1> QED BY <1>3, <1>4 DEF EveryHoleIsReported, missed

\* Each index up to the last TS was given by the source or reported missed, once,
\* however the sampler is asked, unless its first TS has the index 1.
THEOREM HolesReported == Spec => [](~StartsAtOne => EveryHoleIsReported)
<1>1. Init => HoleInv
  <2> SUFFICES ASSUME Init PROVE HoleInv
    OBVIOUS
  <2>1. taken = <<>> /\ missedts = <<>> /\ fulTsCounter = 0 /\ fulPrevTsIndex = 0
    BY DEF Init, SamplerInit
  <2> QED BY <2>1 DEF HoleInv, TakenTs, StartsAtOne
<1>2. HoleInv => (~StartsAtOne => EveryHoleIsReported)
  BY HolesAreReported
<1> QED BY <1>1, <1>2, ClientsInvariant, NextHoles, PTL DEF Spec
-----------------------------------------------------------------------------
(* The split modes.  BufferInv says what the buffer is: TS behind the      *)
(* source in order, whose flags say who was given what.  NewestInv says    *)
(* that they are the last TS of those taken.  For clients of one part each,*)
(* OrderInv has two facts that make the order inductive: who was not given *)
(* its part of a TS of the buffer was given earlier ones only, and nobody  *)
(* was given a later one than the last; each TS sent again made the buffer *)
(* grow, so that they are fewer than its entries.                          *)

Split == SplitMode # "no-split"
Alive == deviceState = "running" /\ ~fbEofFound

IsBuffer(b) == b \in Seq([ts : Nat, sent : SUBSET Parts]) /\ Len(b) <= fulHighWaterMark
Increasing(b, n) ==
  /\ \A v, w \in DOMAIN b : v < w => b[v].ts < b[w].ts
  /\ \A v \in DOMAIN b : b[v].ts < n

HasTs(d, t) == \E k \in DOMAIN Answered(d) : Answered(d)[k] = t
IsBefore(d, t) == \A k \in DOMAIN Answered(d) : Answered(d)[k] < t
IsUpTo(d, t) == \A k \in DOMAIN Answered(d) : Answered(d)[k] <= t

SentGiven(b) ==
  \A v \in DOMAIN b : \A p \in b[v].sent : \E d \in Clients : p \in Wanted[d] /\ HasTs(d, b[v].ts)
UnsentAhead(b) ==
  \A d \in Clients : \A p \in Wanted[d] \cap Parts : \A v \in DOMAIN b :
    p \notin b[v].sent => IsBefore(d, b[v].ts)
LastIsLatest(b) == b # <<>> => \A d \in Clients : IsUpTo(d, b[Len(b)].ts)

IsNewestOf(b, tk) ==
  /\ Len(b) = IF Len(tk) < fulHighWaterMark THEN Len(tk) ELSE fulHighWaterMark
  /\ \A v \in DOMAIN b : b[v].ts = tk[Len(tk) - Len(b) + v]

RepeatsFit(n) == IsFiniteSet(Repeats) /\ (Repeats = {} \/ Cardinality(Repeats) < n)

AnsweredBehind ==
  \A c \in Clients : \A k \in DOMAIN Answered(c) :
    Answered(c)[k] \in Nat /\ Answered(c)[k] < srcNext

AnsweredInOrder ==
  \A c \in Clients : \A i, j \in DOMAIN Answered(c) :
    i < j => Answered(c)[i] <= Answered(c)[j]

BufferInv ==
  /\ AnsweredBehind
  /\ Alive => /\ IsBuffer(tsBuffer) /\ Increasing(tsBuffer, srcNext) /\ SentGiven(tsBuffer)
              /\ fbListCompReady \in BOOLEAN /\ (fbListCompReady <=> tsBuffer # <<>>)

NewestInv == Alive /\ NobodyWantsFirstIndex => IsNewestOf(tsBuffer, taken)

OrderInv ==
  OnePartEach =>
    /\ AnsweredInOrder /\ RepeatsFit(fulHighWaterMark)
    /\ Alive => UnsentAhead(tsBuffer) /\ LastIsLatest(tsBuffer) /\ RepeatsFit(Len(tsBuffer))

SplitInv == Split => BufferInv /\ NewestInv /\ OrderInv

\* PartsInOrder and PartsLostByOverflowOnly are what is left of it for a reader.
LEMMA SplitInvIsEnough ==
  ASSUME ClientsInv, HoleInv, SplitInv PROVE PartsInOrder /\ PartsLostByOverflowOnly
<1>1. fulHighWaterMark \in Nat \ {0}
  BY SamplerAssumption DEF ClientsInv, StreamInv, fulHighWaterMark
<1>2. PartsInOrder
  <2> SUFFICES ASSUME Split, OnePartEach PROVE AnsweredInOrder /\ Cardinality(Repeats) < fulHighWaterMark
    BY DEF PartsInOrder, AnsweredInOrder, Split
  <2>1. AnsweredInOrder /\ RepeatsFit(fulHighWaterMark)
    BY DEF SplitInv, OrderInv
  <2>2. Cardinality({}) = 0
    BY FS_EmptySet
  <2> QED BY <1>1, <2>1, <2>2 DEF RepeatsFit
<1>3. PartsLostByOverflowOnly
  <2> SUFFICES ASSUME Split, NobodyWantsFirstIndex, Alive,
                      NEW k \in DOMAIN taken, NEW p \in SentParts,
                      Len(taken) - k < fulHighWaterMark,
                      \A u \in DOMAIN tsBuffer : tsBuffer[u].ts = taken[k] => p \in tsBuffer[u].sent
               PROVE  \E c \in Clients : p \in Wanted[c] /\ HasTs(c, taken[k])
    BY DEF PartsLostByOverflowOnly, Split, Alive, HasTs
  <2>1. /\ IsBuffer(tsBuffer) /\ SentGiven(tsBuffer) /\ IsNewestOf(tsBuffer, taken)
        /\ taken \in Seq(Nat)
    BY DEF SplitInv, BufferInv, NewestInv, HoleInv
  <2>2. /\ Len(taken) \in Nat /\ k \in 1 .. Len(taken)
        /\ DOMAIN tsBuffer = 1 .. Len(tsBuffer) /\ Len(tsBuffer) \in Nat
    BY <2>1 DEF IsBuffer
  <2> DEFINE u == k - Len(taken) + Len(tsBuffer)
  <2>3. u \in DOMAIN tsBuffer /\ Len(taken) - Len(tsBuffer) + u = k
    BY <1>1, <2>1, <2>2 DEF IsNewestOf
  <2> HIDE DEF u
  <2>4. tsBuffer[u].ts = taken[k] /\ p \in tsBuffer[u].sent
    BY <2>1, <2>3 DEF IsNewestOf
  <2> QED BY <2>1, <2>3, <2>4 DEF SentGiven
<1> QED BY <1>2, <1>3

-----------------------------------------------------------------------------
(* Operations on buffers.                                                  *)

Entry(i) == [ts |-> i, sent |-> {}]
NewBuffer(i) == Append(Trimmed, Entry(i))
Marked(b, u, p) == [b EXCEPT ![u].sent = @ \cup {p}]

LEMMA MarkedFacts ==
  ASSUME NEW b, IsBuffer(b), NEW u \in DOMAIN b, NEW p \in Parts
  PROVE  /\ IsBuffer(Marked(b, u, p)) /\ Len(Marked(b, u, p)) = Len(b)
         /\ DOMAIN Marked(b, u, p) = DOMAIN b
         /\ \A v \in DOMAIN b :
              /\ Marked(b, u, p)[v].ts = b[v].ts
              /\ Marked(b, u, p)[v].sent = IF v = u THEN b[v].sent \cup {p} ELSE b[v].sent
<1> DEFINE E == [ts : Nat, sent : SUBSET Parts]
           e == [b[u] EXCEPT !.sent = @ \cup {p}]
           m == [b EXCEPT ![u] = e]
<1>1. b \in Seq(E) /\ b[u] \in E /\ Len(b) <= fulHighWaterMark
  <2>1. b \in Seq(E) /\ Len(b) <= fulHighWaterMark
    BY DEF IsBuffer
  <2> HIDE DEF E
  <2> QED BY <2>1
<1>2. e \in E /\ e.ts = b[u].ts /\ e.sent = b[u].sent \cup {p}
  BY <1>1
<1>3. Marked(b, u, p) = m
  BY DEF Marked
<1> HIDE DEF E, e
<1>4. m \in Seq(E) /\ Len(m) = Len(b) /\ DOMAIN m = DOMAIN b
  BY <1>1, <1>2
<1>5. \A v \in DOMAIN b : m[v] = IF v = u THEN e ELSE b[v]
  BY <1>1
<1> HIDE DEF m
<1> QED BY <1>1, <1>2, <1>3, <1>4, <1>5 DEF IsBuffer, E

\* What stays moves one position ahead if the buffer was full.
Shift == IF Len(tsBuffer) < fulHighWaterMark THEN 0 ELSE 1

LEMMA NewBufferFacts ==
  ASSUME fulHighWaterMark \in Nat \ {0}, IsBuffer(tsBuffer), NEW i \in Nat
  PROVE  /\ IsBuffer(NewBuffer(i)) /\ Len(NewBuffer(i)) = Len(tsBuffer) + 1 - Shift
         /\ DOMAIN NewBuffer(i) = 1 .. Len(NewBuffer(i))
         /\ Len(NewBuffer(i)) \in Nat \ {0}
         /\ NewBuffer(i)[Len(NewBuffer(i))] = Entry(i)
         /\ \A v \in DOMAIN NewBuffer(i) : v # Len(NewBuffer(i)) =>
              v + Shift \in DOMAIN tsBuffer /\ NewBuffer(i)[v] = tsBuffer[v + Shift]
<1> DEFINE E == [ts : Nat, sent : SUBSET Parts]
           n == Len(tsBuffer)
<1>1. tsBuffer \in Seq(E) /\ n \in Nat /\ n <= fulHighWaterMark /\ DOMAIN tsBuffer = 1 .. n
  BY DEF IsBuffer
<1>2. Entry(i) \in E
  BY DEF Entry
<1> HIDE DEF E
<1>3. Trimmed \in Seq(E) /\ Len(Trimmed) = n - Shift
      /\ \A v \in 1 .. n - Shift : v + Shift \in 1 .. n /\ Trimmed[v] = tsBuffer[v + Shift]
  <2>1. CASE n < fulHighWaterMark
    BY <1>1, <2>1 DEF Trimmed, Shift
  <2>2. CASE ~(n < fulHighWaterMark)
    <3>1. n = fulHighWaterMark /\ Shift = 1 /\ n \in Nat \ {0}
      <4>1. Shift = 1
        BY <2>2 DEF Shift
      <4>2. n \in Nat /\ n <= fulHighWaterMark /\ ~(n < fulHighWaterMark)
        BY <1>1, <2>2
      <4> HIDE DEF n
      <4> QED BY <4>1, <4>2
    <3>2. Trimmed = SubSeq(tsBuffer, 2, n)
      BY <3>1 DEF Trimmed
    <3> HIDE DEF n
    <3>3. SubSeq(tsBuffer, 2, n) \in Seq(E) /\ Len(SubSeq(tsBuffer, 2, n)) = n - 1
          /\ \A v \in 1 .. n - 1 : SubSeq(tsBuffer, 2, n)[v] = tsBuffer[v + 1]
      BY <1>1, <3>1 DEF n
    <3> QED BY <3>1, <3>2, <3>3
  <2> QED BY <2>1, <2>2
<1> HIDE DEF n
<1>4. Shift \in {0, 1} /\ n - Shift \in Nat /\ n + 1 - Shift <= fulHighWaterMark
  BY <1>1 DEF Shift, n
<1>5. /\ NewBuffer(i) \in Seq(E) /\ Len(NewBuffer(i)) = n - Shift + 1
      /\ NewBuffer(i)[n - Shift + 1] = Entry(i)
      /\ \A v \in 1 .. n - Shift : NewBuffer(i)[v] = Trimmed[v]
  BY <1>2, <1>3, <1>4 DEF NewBuffer
<1>6. DOMAIN NewBuffer(i) = 1 .. n - Shift + 1
  BY <1>5
<1>7. IsBuffer(NewBuffer(i))
  BY <1>1, <1>4, <1>5 DEF IsBuffer, E
<1> QED BY <1>1, <1>3, <1>4, <1>5, <1>6, <1>7 DEF n

\* A buffer with a new TS, before it is marked.
LEMMA NewBufferFits ==
  ASSUME fulHighWaterMark \in Nat \ {0}, AnsweredBehind, IsBuffer(tsBuffer),
         Increasing(tsBuffer, srcNext), SentGiven(tsBuffer),
         NEW i \in Nat, srcNext \in Nat, srcNext <= i
  PROVE  /\ Increasing(NewBuffer(i), i + 1) /\ SentGiven(NewBuffer(i))
         /\ UnsentAhead(tsBuffer) => UnsentAhead(NewBuffer(i))
         /\ LastIsLatest(NewBuffer(i))
<1> DEFINE N == NewBuffer(i)
           n == Len(N)
<1>1. /\ DOMAIN N = 1 .. n /\ n \in Nat \ {0} /\ N[n] = Entry(i) /\ IsBuffer(N)
      /\ \A v \in DOMAIN N : v # n => v + Shift \in DOMAIN tsBuffer /\ N[v] = tsBuffer[v + Shift]
  BY NewBufferFacts
<1>2. Shift \in {0, 1}
  BY DEF Shift
<1>3. Entry(i).ts = i /\ Entry(i).sent = {}
  BY DEF Entry
<1>4. \A d \in Clients : IsBefore(d, i) /\ IsUpTo(d, i)
  BY DEF AnsweredBehind, IsBefore, IsUpTo
<1>5. \A v \in DOMAIN tsBuffer : tsBuffer[v].ts \in Nat /\ tsBuffer[v].ts < i
  <2> DEFINE E == [ts : Nat, sent : SUBSET Parts]
  <2>1. \A v \in DOMAIN tsBuffer : tsBuffer[v] \in E
    <3>1. tsBuffer \in Seq(E)
      BY DEF IsBuffer
    <3> HIDE DEF E
    <3> QED BY <3>1
  <2>2. \A e \in E : e.ts \in Nat
    OBVIOUS
  <2> HIDE DEF E
  <2> QED BY <2>1, <2>2 DEF Increasing
<1> HIDE DEF N, n
<1>6. Increasing(N, i + 1)
  <2>1. \A v \in DOMAIN N : v # n => N[v].ts \in Nat /\ N[v].ts < i
    BY <1>1, <1>5
  <2>2. ASSUME NEW v \in DOMAIN N, NEW w \in DOMAIN N, v < w PROVE N[v].ts < N[w].ts
    <3>1. CASE w = n
      BY <1>1, <1>3, <2>1, <2>2, <3>1
    <3>2. CASE w # n
      <4>1. v # n /\ v + Shift < w + Shift
        BY <1>1, <1>2, <2>2, <3>2
      <4>2. /\ v + Shift \in DOMAIN tsBuffer /\ N[v] = tsBuffer[v + Shift]
            /\ w + Shift \in DOMAIN tsBuffer /\ N[w] = tsBuffer[w + Shift]
        BY <1>1, <3>2, <4>1
      <4> QED BY <4>1, <4>2 DEF Increasing
    <3> QED BY <3>1, <3>2
  <2>3. \A v \in DOMAIN N : N[v].ts < i + 1
    BY <1>1, <1>3, <2>1
  <2> QED BY <2>2, <2>3 DEF Increasing
<1>7. SentGiven(N)
  BY <1>1, <1>3 DEF SentGiven
<1>8. ASSUME UnsentAhead(tsBuffer) PROVE UnsentAhead(N)
  BY <1>1, <1>3, <1>4, <1>8 DEF UnsentAhead
<1>9. LastIsLatest(N)
  BY <1>1, <1>3, <1>4 DEF LastIsLatest, n
<1> QED BY <1>6, <1>7, <1>8, <1>9 DEF N

\* It is what the device took last.
LEMMA NewBufferIsNewest ==
  ASSUME fulHighWaterMark \in Nat \ {0}, IsBuffer(tsBuffer), NEW i \in Nat,
         taken \in Seq(Nat), IsNewestOf(tsBuffer, taken)
  PROVE  IsNewestOf(NewBuffer(i), Append(taken, i))
<1> DEFINE N == NewBuffer(i)
           n == Len(N)
           m == Len(taken)
           tk == Append(taken, i)
           b == Len(tsBuffer)
<1>1. /\ DOMAIN N = 1 .. n /\ n \in Nat \ {0} /\ N[n] = Entry(i) /\ n = b + 1 - Shift
      /\ \A v \in DOMAIN N : v # n => v + Shift \in DOMAIN tsBuffer /\ N[v] = tsBuffer[v + Shift]
  BY NewBufferFacts
<1>2. /\ m \in Nat /\ Len(tk) = m + 1 /\ tk[m + 1] = i /\ \A j \in 1 .. m : tk[j] = taken[j]
  OBVIOUS
<1>3. b \in Nat /\ DOMAIN tsBuffer = 1 .. b
  BY DEF IsBuffer
<1>4. /\ b = IF m < fulHighWaterMark THEN m ELSE fulHighWaterMark
      /\ \A v \in 1 .. b : tsBuffer[v].ts = taken[m - b + v]
  BY <1>3 DEF IsNewestOf
<1>5. Shift = IF b < fulHighWaterMark THEN 0 ELSE 1
  BY DEF Shift
<1> HIDE DEF N, n, m, tk, b
<1>6. n = IF m + 1 < fulHighWaterMark THEN m + 1 ELSE fulHighWaterMark
  BY <1>1, <1>2, <1>3, <1>4, <1>5
<1>7. ASSUME NEW v \in DOMAIN N PROVE N[v].ts = tk[m + 1 - n + v]
  <2>1. CASE v = n
    <3>1. m + 1 - n + v = m + 1
      BY <1>1, <1>2, <2>1
    <3> QED BY <1>1, <1>2, <2>1, <3>1 DEF Entry
  <2>2. CASE v # n
    <3>1. v + Shift \in 1 .. b /\ N[v] = tsBuffer[v + Shift]
      BY <1>1, <1>3, <2>2
    <3> DEFINE w == v + Shift
    <3>2. w \in 1 .. b /\ m \in Nat /\ b \in Nat /\ b <= m
      BY <1>2, <1>3, <1>4, <3>1
    <3>3. m - b + w = m + 1 - n + v
      <4>1. v \in Int /\ Shift \in {0, 1}
        BY <1>1, <1>5
      <4> QED BY <1>1, <3>2, <4>1
    <3>4. N[v] = tsBuffer[w]
      BY <3>1
    <3> HIDE DEF w
    <3>5. m - b + w \in 1 .. m
      BY <3>2
    <3> QED BY <1>2, <1>4, <3>2, <3>3, <3>4, <3>5
  <2> QED BY <2>1, <2>2
<1>8. Len(tk) - Len(N) = m + 1 - n
  <2>1. n = Len(N) /\ Len(tk) = m + 1
    BY <1>2 DEF n
  <2> QED BY <1>1, <1>2, <2>1
<1>9. IsNewestOf(N, tk)
  <2>1. Len(N) = IF Len(tk) < fulHighWaterMark THEN Len(tk) ELSE fulHighWaterMark
    BY <1>2, <1>6 DEF n
  <2>2. \A v \in DOMAIN N : N[v].ts = tk[Len(tk) - Len(N) + v]
    BY <1>7, <1>8
  <2> QED BY <2>1, <2>2 DEF IsNewestOf
<1> QED BY <1>9 DEF N, tk
-----------------------------------------------------------------------------
(* What a request does to the buffer and the clients in the split modes.   *)

\* The part of the first TS of the buffer that was not sent is given.
FromOld(c) ==
  \E u \in DOMAIN tsBuffer :
    /\ Part(c) \in Parts \ tsBuffer[u].sent
    /\ \A v \in DOMAIN tsBuffer : v < u => Part(c) \in tsBuffer[v].sent
    /\ Gives(c, tsBuffer[u].ts) /\ tsBuffer' = Marked(tsBuffer, u, Part(c))
    /\ UNCHANGED <<srcNext, taken, fbListCompReady>>

\* A new TS is buffered, and perhaps the part of it given, or once more the part of
\* the TS before it if the buffer grew.
GivesOfNew(c, i, u) ==
  /\ Part(c) \in Parts /\ \A v \in DOMAIN tsBuffer : Part(c) \in tsBuffer[v].sent
  /\ u \in DOMAIN NewBuffer(i)
  /\ \/ u = Len(NewBuffer(i))
     \/ u = Len(tsBuffer) /\ Shift = 0
  /\ Gives(c, NewBuffer(i)[u].ts) /\ tsBuffer' = Marked(NewBuffer(i), u, Part(c))

FromNew(c) ==
  \E i \in Nat :
    /\ srcNext <= i /\ srcNext' = i + 1 /\ taken' = Append(taken, i) /\ fbListCompReady' = TRUE
    /\ \/ (\A d \in Clients : Keeps(d)) /\ tsBuffer' = NewBuffer(i)
       \/ \E u \in Nat : GivesOfNew(c, i, u)

NoPart(c) ==
  /\ \A d \in Clients : Keeps(d)
  /\ Alive' => tsBuffer' = tsBuffer /\ fbListCompReady' = fbListCompReady
  /\ Alive' /\ Part(c) # FirstIndex => taken' = taken

\* A request is answered from position u of the buffer, or not at all.
LEMMA CombinedParts ==
  ASSUME ClientsInv, NEW c \in Clients, Asked(c), got' = got, NEW buffer, NEW u,
         CreateCombinedComponents(c, buffer, u)
  PROVE  \/ (\A d \in Clients : Keeps(d)) /\ tsBuffer' = buffer
         \/ /\ Gives(c, buffer[u].ts) /\ Part(c) \in Parts /\ Part(c) \in SentParts
            /\ tsBuffer' = Marked(buffer, u, Part(c))
<1>1. ASSUME NoAnswer(c) PROVE \A d \in Clients : Keeps(d)
  BY <1>1, NothingGiven DEF ClientsInv
<1>2. ASSUME Answer(c, [ts |-> buffer[u].ts, part |-> Part(c)])
      PROVE  Gives(c, buffer[u].ts)
  <2> DEFINE body == [ts |-> buffer[u].ts, part |-> Part(c)]
  <2>1. body # FirstIndexReply /\ body.ts = buffer[u].ts /\ Answer(c, body)
    BY <1>2 DEF FirstIndexReply
  <2> HIDE DEF body
  <2> QED BY <2>1, OneGiven DEF Gives, ClientsInv
<1>3. CASE tsBuffer' = buffer /\ NoAnswer(c)
  BY <1>1, <1>3
<1>4. CASE Part(c) \in Parts /\ Part(c) \in SentParts /\ SendPart(c, buffer, u)
  BY <1>1, <1>2, <1>4 DEF SendPart, FailAndStop, Marked
<1>5. \/ tsBuffer' = buffer /\ NoAnswer(c)
      \/ Part(c) \in Parts /\ Part(c) \in SentParts /\ SendPart(c, buffer, u)
  BY DEF CreateCombinedComponents, FailAndStop
<1> QED BY <1>3, <1>4, <1>5

\* A set of natural numbers has a least one.
LEMMA Least ==
  ASSUME NEW S \in SUBSET Nat, S # {}
  PROVE  \E m \in S : \A x \in S : m <= x
<1> DEFINE R == OpToRel(<, Nat)
<1>1. IsWellFoundedOn(R, Nat)
  BY NatLessThanWellFounded
<1>2. PICK m \in S : \A y \in S : ~(<<y, m>> \in R)
  <2> HIDE DEF R
  <2> QED BY <1>1, WFMin
<1>3. \A y \in S : ~(y < m)
  BY <1>2 DEF OpToRel
<1> QED BY <1>3

LEMMA FirstUnsentFacts ==
  ASSUME IsBuffer(tsBuffer), NEW p, Unsent(p) # {}
  PROVE  /\ FirstUnsent(p) \in DOMAIN tsBuffer /\ p \notin tsBuffer[FirstUnsent(p)].sent
         /\ \A v \in DOMAIN tsBuffer : v < FirstUnsent(p) => p \in tsBuffer[v].sent
<1>1. DOMAIN tsBuffer = 1 .. Len(tsBuffer)
  BY DEF IsBuffer
<1>2. Unsent(p) = {u \in DOMAIN tsBuffer : p \notin tsBuffer[u].sent}
  BY <1>1 DEF Unsent
<1>3. Unsent(p) \subseteq Nat
  BY DEF Unsent
<1>4. \E u \in Unsent(p) : \A v \in Unsent(p) : u <= v
  BY <1>3, Least
<1>5. FirstUnsent(p) \in Unsent(p) /\ \A v \in Unsent(p) : FirstUnsent(p) <= v
  BY <1>4 DEF FirstUnsent
<1> QED BY <1>1, <1>2, <1>5

LEMMA FromBufferEffect ==
  ASSUME ClientsInv, IsBuffer(tsBuffer), NEW c \in Clients, Asked(c), got' = got,
         taken' = taken, AnswerFromBuffer(c)
  PROVE  FromOld(c) \/ NoPart(c)
<1> DEFINE u == IF Unsent(Part(c)) = {} THEN 0 ELSE FirstUnsent(Part(c))
<1>1. CreateCombinedComponents(c, tsBuffer, u)
  BY DEF AnswerFromBuffer
<1>2. srcNext' = srcNext /\ fbListCompReady' = fbListCompReady
  BY DEF AnswerFromBuffer, streamVars
<1>3. CASE (\A d \in Clients : Keeps(d)) /\ tsBuffer' = tsBuffer
  BY <1>2, <1>3 DEF NoPart
<1>4. CASE /\ Gives(c, tsBuffer[u].ts) /\ Part(c) \in Parts /\ Part(c) \in SentParts
           /\ tsBuffer' = Marked(tsBuffer, u, Part(c))
  <2>1. Unsent(Part(c)) # {}
    BY <1>4 DEF AnswerFromBuffer, NeedsNewTs
  <2>2. u = FirstUnsent(Part(c))
    BY <2>1
  <2> HIDE DEF u
  <2> QED BY <1>2, <1>4, <2>1, <2>2, FirstUnsentFacts DEF FromOld
<1> HIDE DEF u
<1> QED BY <1>1, <1>3, <1>4, CombinedParts

LEMMA FromNewEffect ==
  ASSUME ClientsInv, IsBuffer(tsBuffer), fbListCompReady \in BOOLEAN,
         fbListCompReady <=> tsBuffer # <<>>, fulHighWaterMark \in Nat \ {0},
         NEW c \in Clients, Asked(c), Serve(c), AnswerFromNewTs(c)
  PROVE  FromNew(c)
<1> DEFINE u == IF fbListCompReady THEN Len(tsBuffer) ELSE 1
<1>1. PICK i \in TsIndices :
        GetNewTs(i) /\ CreateCombinedComponents(c, Append(Trimmed, [ts |-> i, sent |-> {}]), u)
  BY DEF AnswerFromNewTs
<1>2. i \in Nat /\ fulTsCounter \in Nat
  BY SamplerAssumption DEF ClientsInv, StreamInv, TsIndices
<1>3. srcNext <= i /\ srcNext' = i + 1 /\ fbListCompReady' = TRUE
  BY <1>1 DEF AnswerFromNewTs, GetNewTs, FromSource
<1>4. taken' = Append(taken, i) /\ got' = got
  <2>1. fulTsCounter' # fulTsCounter /\ fulPrevTsIndex' = i
    BY <1>1, <1>2 DEF GetNewTs
  <2> QED BY <2>1 DEF Serve
<1> DEFINE N == NewBuffer(i)
<1>5. CreateCombinedComponents(c, N, u)
  BY <1>1 DEF NewBuffer, Entry
<1>6. /\ DOMAIN N = 1 .. Len(N) /\ Len(N) = Len(tsBuffer) + 1 - Shift
      /\ DOMAIN tsBuffer = 1 .. Len(tsBuffer) /\ Len(tsBuffer) \in Nat
  BY <1>2, NewBufferFacts DEF IsBuffer
<1>7. /\ Shift \in {0, 1}
      /\ fbListCompReady => Len(tsBuffer) # 0
      /\ ~fbListCompReady => tsBuffer = <<>> /\ Len(tsBuffer) = 0 /\ Shift = 0
  <2>1. Len(tsBuffer) = 0 <=> tsBuffer = <<>>
    BY DEF IsBuffer
  <2> QED BY <2>1 DEF Shift
<1>8. /\ u \in DOMAIN N /\ u \in Nat
      /\ u = Len(N) \/ (u = Len(tsBuffer) /\ Shift = 0)
  <2>1. CASE fbListCompReady
    <3>1. u = Len(tsBuffer)
      BY <2>1
    <3> HIDE DEF u, N
    <3> QED BY <2>1, <3>1, <1>6, <1>7
  <2>2. CASE ~fbListCompReady
    <3>1. u = 1
      BY <2>2
    <3> HIDE DEF u, N
    <3> QED BY <2>2, <3>1, <1>6, <1>7
  <2> QED BY <2>1, <2>2
<1> HIDE DEF u, N
<1>9. CASE (\A d \in Clients : Keeps(d)) /\ tsBuffer' = N
  BY <1>2, <1>3, <1>4, <1>9 DEF FromNew, N
<1>10. CASE /\ Gives(c, N[u].ts) /\ Part(c) \in Parts /\ Part(c) \in SentParts
            /\ tsBuffer' = Marked(N, u, Part(c))
  <2>1. \A v \in DOMAIN tsBuffer : Part(c) \in tsBuffer[v].sent
    <3>1. CASE fbListCompReady
      <4>1. Unsent(Part(c)) = {}
        BY <3>1 DEF AnswerFromNewTs, NeedsNewTs
      <4> QED BY <4>1, <1>6 DEF Unsent
    <3>2. CASE ~fbListCompReady
      BY <3>2, <1>6, <1>7
    <3> QED BY <3>1, <3>2
  <2>2. GivesOfNew(c, i, u)
    BY <1>8, <1>10, <2>1 DEF GivesOfNew, N
  <2> QED BY <1>2, <1>3, <1>4, <1>8, <2>2 DEF FromNew
<1> QED BY <1>4, <1>5, <1>9, <1>10, CombinedParts

LEMMA SplitEffect ==
  ASSUME ClientsInv, BufferInv, Split, fulHighWaterMark \in Nat \ {0},
         NEW c \in Clients, Serve(c)
  PROVE  NoPart(c) \/ (Alive /\ (FromOld(c) \/ FromNew(c)))
<1>1. /\ HandleRequest(c) /\ got' = got /\ Asked(c) /\ deviceState = "running"
      /\ fbEofFound => fbEofFound'
  BY RequestEffect DEF Serve, ClientsInv
<1>2. ASSUME NoAnswer(c) \/ Answer(c, FirstIndexReply) PROVE \A d \in Clients : Keeps(d)
  BY <1>1, <1>2, NothingGiven DEF ClientsInv
<1>3. CASE IgnoreRequest(c)
  BY <1>1, <1>2, <1>3 DEF IgnoreRequest, Alive, NoPart
<1>4. CASE AnswerFirstIndex(c)
  BY <1>2, <1>4 DEF AnswerFirstIndex, bufferVars, NoPart
<1>5. CASE ~fbEofFound /\ AnswerPart(c)
  <2>1. Alive /\ IsBuffer(tsBuffer) /\ fbListCompReady \in BOOLEAN
        /\ (fbListCompReady <=> tsBuffer # <<>>)
    BY <1>1, <1>5 DEF Alive, BufferInv
  <2>2. CASE AnswerFromBuffer(c)
    <3>1. taken' = taken
      BY <2>2 DEF AnswerFromBuffer, streamVars, Serve
    <3> QED BY <1>1, <2>1, <2>2, <3>1, FromBufferEffect
  <2>3. CASE AnswerFromNewTs(c)
    BY <1>1, <2>1, <2>3, FromNewEffect
  <2>4. CASE AnswerNoTs(c)
    <3>1. NoAnswer(c) /\ ~Alive'
      BY <2>4 DEF AnswerNoTs, FailAndStop, GetNewTsEnds, Alive
    <3> QED BY <1>2, <3>1 DEF NoPart
  <2> QED BY <1>5, <2>2, <2>3, <2>4 DEF AnswerPart
<1>6. ~ AnswerFullTs(c)
  BY DEF AnswerFullTs, Split
<1> QED BY <1>1, <1>3, <1>4, <1>5, <1>6 DEF HandleRequest
-----------------------------------------------------------------------------
(* What one more TS for a client changes in the facts about all of them.   *)

LEMMA GivenFacts ==
  ASSUME ClientsInv, NEW c \in Clients, NEW t, Gives(c, t)
  PROVE  /\ DOMAIN Answered(c) = 1 .. Len(Answered(c)) /\ Len(Answered(c)) \in Nat
         /\ DOMAIN Answered(c)' = 1 .. Len(Answered(c)) + 1
         /\ \A k \in DOMAIN Answered(c) : Answered(c)'[k] = Answered(c)[k]
         /\ Answered(c)'[Len(Answered(c)) + 1] = t
         /\ \A k \in DOMAIN Answered(c)' :
              k = Len(Answered(c)) + 1 \/ k \in DOMAIN Answered(c)
         /\ \A d \in Clients \ {c} : Answered(d)' = Answered(d)
<1> DEFINE s == Answered(c)
<1>1. Answered(c)' = Append(s, t) /\ IsSeq(s) /\ \A d \in Clients \ {c} : Answered(d)' = Answered(d)
  BY AnsweredFacts DEF Gives, ClientsInv, Keeps
<1> HIDE DEF s
<1>2. /\ DOMAIN s = 1 .. Len(s) /\ Len(s) \in Nat
      /\ DOMAIN Append(s, t) = 1 .. Len(s) + 1
      /\ \A k \in DOMAIN s : Append(s, t)[k] = s[k]
      /\ Append(s, t)[Len(s) + 1] = t
  BY <1>1, AppendFacts
<1>3. \A k \in DOMAIN Append(s, t) : k = Len(s) + 1 \/ k \in DOMAIN s
  BY <1>2
<1> QED BY <1>1, <1>2, <1>3 DEF s

Grows(c, t) == (\A d \in Clients : Keeps(d)) \/ Gives(c, t)

\* What HasTs, IsBefore and IsUpTo say of the clients then.
LEMMA GrowsFacts ==
  ASSUME ClientsInv, NEW c \in Clients, NEW t \in Nat, Grows(c, t), AnsweredBehind
  PROVE  /\ \A d \in Clients : \A x : HasTs(d, x) => \E k \in DOMAIN Answered(d)' : Answered(d)'[k] = x
         /\ \A d \in Clients : \A x \in Nat :
              /\ IsBefore(d, x) /\ (d = c => t < x \/ Keeps(d)) =>
                   \A k \in DOMAIN Answered(d)' : Answered(d)'[k] < x
              /\ IsUpTo(d, x) /\ (t <= x \/ Keeps(d)) =>
                   \A k \in DOMAIN Answered(d)' : Answered(d)'[k] <= x
<1>1. CASE \A d \in Clients : Keeps(d)
  BY <1>1 DEF Keeps, HasTs, IsBefore, IsUpTo
<1>2. CASE Gives(c, t)
  <2>1. /\ DOMAIN Answered(c) = 1 .. Len(Answered(c)) /\ Len(Answered(c)) \in Nat
        /\ DOMAIN Answered(c)' = 1 .. Len(Answered(c)) + 1
        /\ \A k \in DOMAIN Answered(c) : Answered(c)'[k] = Answered(c)[k]
        /\ Answered(c)'[Len(Answered(c)) + 1] = t
        /\ \A k \in DOMAIN Answered(c)' :
             k = Len(Answered(c)) + 1 \/ k \in DOMAIN Answered(c)
        /\ \A d \in Clients \ {c} : Answered(d)' = Answered(d)
    BY <1>2, GivenFacts
  <2>2. DOMAIN Answered(c) \subseteq DOMAIN Answered(c)'
    BY <2>1
  <2>3. /\ \A x : HasTs(c, x) => \E k \in DOMAIN Answered(c)' : Answered(c)'[k] = x
        /\ \A x \in Nat :
             /\ IsBefore(c, x) /\ (t < x \/ Keeps(c)) =>
                  \A k \in DOMAIN Answered(c)' : Answered(c)'[k] < x
             /\ IsUpTo(c, x) /\ (t <= x \/ Keeps(c)) =>
                  \A k \in DOMAIN Answered(c)' : Answered(c)'[k] <= x
    BY <2>1, <2>2 DEF HasTs, IsBefore, IsUpTo, Keeps
  <2> QED BY <2>1, <2>3 DEF HasTs, IsBefore, IsUpTo
<1> QED BY <1>1, <1>2 DEF Grows

\* The order of what a client was answered with, and the range of it.
LEMMA GrowsInOrder ==
  ASSUME ClientsInv, NEW c \in Clients, NEW t \in Nat, Grows(c, t), AnsweredBehind,
         srcNext \in Nat, srcNext' \in Nat, srcNext <= srcNext', t < srcNext'
  PROVE  AnsweredBehind' /\ (AnsweredInOrder /\ IsUpTo(c, t) => AnsweredInOrder')
<1>1. \A d \in Clients : \A k \in DOMAIN Answered(d) :
        Answered(d)[k] \in Nat /\ Answered(d)[k] < srcNext'
  BY DEF AnsweredBehind
<1>2. CASE \A d \in Clients : Keeps(d)
  BY <1>1, <1>2 DEF Keeps, AnsweredBehind, AnsweredInOrder
<1>3. CASE Gives(c, t)
  <2>1. /\ DOMAIN Answered(c) = 1 .. Len(Answered(c)) /\ Len(Answered(c)) \in Nat
        /\ DOMAIN Answered(c)' = 1 .. Len(Answered(c)) + 1
        /\ \A k \in DOMAIN Answered(c) : Answered(c)'[k] = Answered(c)[k]
        /\ Answered(c)'[Len(Answered(c)) + 1] = t
        /\ \A k \in DOMAIN Answered(c)' :
             k = Len(Answered(c)) + 1 \/ k \in DOMAIN Answered(c)
        /\ \A d \in Clients \ {c} : Answered(d)' = Answered(d)
    BY <1>3, GivenFacts
  <2>2. AnsweredBehind'
    BY <1>1, <2>1 DEF AnsweredBehind
  <2>3. ASSUME AnsweredInOrder, IsUpTo(c, t), NEW i \in DOMAIN Answered(c)',
              NEW j \in DOMAIN Answered(c)', i < j
        PROVE  Answered(c)'[i] <= Answered(c)'[j]
    <3>1. i \in DOMAIN Answered(c) /\ Answered(c)'[i] = Answered(c)[i]
      BY <2>1, <2>3
    <3>2. CASE j = Len(Answered(c)) + 1
      BY <2>1, <2>3, <3>1, <3>2 DEF IsUpTo
    <3>3. CASE j \in DOMAIN Answered(c)
      BY <2>1, <2>3, <3>1, <3>3 DEF AnsweredInOrder
    <3> QED BY <2>1, <3>2, <3>3
  <2>4. AnsweredInOrder /\ IsUpTo(c, t) => AnsweredInOrder'
    BY <2>1, <2>3 DEF AnsweredInOrder
  <2> QED BY <2>2, <2>4
<1> QED BY <1>2, <1>3 DEF Grows

\* Only a client that is given its last TS again adds one to the repeats.
LEMMA GrowsRepeats ==
  ASSUME ClientsInv, NEW c \in Clients, NEW t \in Nat, Grows(c, t), AnsweredBehind
  PROVE  /\ Repeats' \subseteq Repeats \cup {<<c, Len(Answered(c))>>}
         /\ (\A d \in Clients : Keeps(d)) \/ IsBefore(c, t) => Repeats' = Repeats
<1>1. CASE \A d \in Clients : Keeps(d)
  <2>1. \A d \in Clients : RepeatsOf(d)' = RepeatsOf(d)
    BY <1>1 DEF RepeatsOf, Keeps
  <2> QED BY <2>1 DEF Repeats
<1>2. CASE Gives(c, t)
  <2> DEFINE n == Len(Answered(c))
  <2>1. /\ DOMAIN Answered(c) = 1 .. n /\ n \in Nat
        /\ DOMAIN Answered(c)' = 1 .. n + 1
        /\ \A k \in DOMAIN Answered(c) : Answered(c)'[k] = Answered(c)[k]
        /\ Answered(c)'[n + 1] = t
        /\ \A d \in Clients \ {c} : Answered(d)' = Answered(d)
    BY <1>2, GivenFacts
  <2> HIDE DEF n
  <2>2. \A d \in Clients \ {c} : RepeatsOf(d)' = RepeatsOf(d)
    BY <2>1 DEF RepeatsOf
  <2>3. /\ \A i \in RepeatsOf(c)' : i \in RepeatsOf(c) \/ (i = n /\ i \in 1 .. n /\ Answered(c)[i] = t)
        /\ RepeatsOf(c) \subseteq RepeatsOf(c)'
    <3>1. ASSUME NEW i \in RepeatsOf(c)'
          PROVE  i \in RepeatsOf(c) \/ (i = n /\ i \in 1 .. n /\ Answered(c)[i] = t)
      <4>1. i \in 1 .. n + 1 /\ i + 1 \in 1 .. n + 1 /\ Answered(c)'[i] = Answered(c)'[i + 1]
        BY <2>1 DEF RepeatsOf
      <4>2. i \in 1 .. n /\ Answered(c)'[i] = Answered(c)[i]
        BY <2>1, <4>1
      <4>3. CASE i = n
        BY <2>1, <4>1, <4>2, <4>3
      <4>4. CASE i # n
        <5>1. i + 1 \in 1 .. n /\ Answered(c)'[i + 1] = Answered(c)[i + 1]
          BY <2>1, <4>2, <4>4
        <5> QED BY <2>1, <4>1, <4>2, <5>1 DEF RepeatsOf
      <4> QED BY <4>3, <4>4
    <3>2. RepeatsOf(c) \subseteq RepeatsOf(c)'
      BY <2>1 DEF RepeatsOf
    <3> QED BY <3>1, <3>2
  <2>4. Repeats' \subseteq Repeats \cup {<<c, n>>}
    BY <2>2, <2>3 DEF Repeats
  <2>5. ASSUME IsBefore(c, t) PROVE Repeats' = Repeats
    <3>1. \A i \in 1 .. n : Answered(c)[i] # t
      BY <2>1, <2>5 DEF IsBefore, AnsweredBehind
    <3>2. RepeatsOf(c)' = RepeatsOf(c)
      BY <2>3, <3>1
    <3> QED BY <2>2, <3>2 DEF Repeats
  <2>6. ASSUME \A d \in Clients : Keeps(d) PROVE Repeats' = Repeats
    BY <2>6, <1>1
  <2> QED BY <2>4, <2>5, <2>6, <1>1 DEF n
<1> QED BY <1>1, <1>2 DEF Grows
-----------------------------------------------------------------------------
(* The buffer b, with the part marked that was given of it.                *)

Sends(c, b, u) ==
  \/ (\A d \in Clients : Keeps(d)) /\ tsBuffer' = b
  \/ /\ u \in DOMAIN b /\ Gives(c, b[u].ts) /\ Part(c) \in Parts
     /\ \A v \in DOMAIN b : v < u => Part(c) \in b[v].sent
     /\ tsBuffer' = Marked(b, u, Part(c))

LEMMA BufferEntries ==
  ASSUME NEW b, IsBuffer(b)
  PROVE  /\ DOMAIN b = 1 .. Len(b) /\ Len(b) \in Nat /\ (b # <<>> <=> Len(b) # 0)
         /\ \A v \in DOMAIN b : b[v].ts \in Nat /\ b[v].sent \subseteq Parts
<1> DEFINE E == [ts : Nat, sent : SUBSET Parts]
<1>1. b \in Seq(E)
  BY DEF IsBuffer
<1>2. \A e \in E : e.ts \in Nat /\ e.sent \subseteq Parts
  OBVIOUS
<1> HIDE DEF E
<1> QED BY <1>1, <1>2

LEMMA SendsShape ==
  ASSUME NEW c \in Clients, NEW b, IsBuffer(b), NEW u, Sends(c, b, u), setup' = setup
  PROVE  /\ IsBuffer(tsBuffer)' /\ Len(tsBuffer') = Len(b) /\ DOMAIN tsBuffer' = DOMAIN b
         /\ \A v \in DOMAIN b :
              /\ tsBuffer'[v].ts = b[v].ts
              /\ \/ tsBuffer'[v].sent = b[v].sent
                 \/ /\ tsBuffer'[v].sent = b[v].sent \cup {Part(c)}
                    /\ v = u /\ Gives(c, b[u].ts)
<1>1. fulHighWaterMark' = fulHighWaterMark
  BY DEF fulHighWaterMark
<1>2. CASE (\A d \in Clients : Keeps(d)) /\ tsBuffer' = b
  BY <1>1, <1>2 DEF IsBuffer
<1>3. CASE u \in DOMAIN b /\ Gives(c, b[u].ts) /\ Part(c) \in Parts /\ tsBuffer' = Marked(b, u, Part(c))
  <2> DEFINE p == Part(c)
             m == Marked(b, u, p)
  <2>1. /\ IsBuffer(m) /\ Len(m) = Len(b) /\ DOMAIN m = DOMAIN b
        /\ \A v \in DOMAIN b : /\ m[v].ts = b[v].ts
                               /\ m[v].sent = IF v = u THEN b[v].sent \cup {p} ELSE b[v].sent
    <3> HIDE DEF p
    <3> QED BY <1>3, MarkedFacts DEF p
  <2>2. tsBuffer' = m
    BY <1>3
  <2> HIDE DEF m
  <2> QED BY <1>1, <1>3, <2>1, <2>2 DEF IsBuffer
<1> QED BY <1>2, <1>3 DEF Sends

LEMMA SendsBuffer ==
  ASSUME ClientsInv, AnsweredBehind, setup' = setup,
         NEW c \in Clients, Part(c) \in Wanted[c], NEW b, IsBuffer(b), NEW u, Sends(c, b, u),
         srcNext' \in Nat, srcNext <= srcNext', Increasing(b, srcNext'), SentGiven(b)
  PROVE  AnsweredBehind' /\ Increasing(tsBuffer, srcNext)' /\ SentGiven(tsBuffer)'
<1>1. /\ DOMAIN tsBuffer' = DOMAIN b
      /\ \A v \in DOMAIN b :
           /\ tsBuffer'[v].ts = b[v].ts
           /\ \/ tsBuffer'[v].sent = b[v].sent
              \/ /\ tsBuffer'[v].sent = b[v].sent \cup {Part(c)}
                 /\ v = u /\ Gives(c, b[u].ts)
  BY SendsShape
<1>2. Increasing(tsBuffer, srcNext)'
  BY <1>1 DEF Increasing
<1>3. srcNext \in Nat /\ Wanted' = Wanted
  BY DEF ClientsInv, StreamInv, Wanted
<1>4. AnsweredBehind'
  <2>1. CASE \A d \in Clients : Keeps(d)
    BY <1>3, <2>1 DEF AnsweredBehind, Keeps
  <2>2. CASE u \in DOMAIN b /\ Gives(c, b[u].ts)
    <3>1. b[u].ts \in Nat /\ b[u].ts < srcNext'
      BY <2>2, BufferEntries DEF Increasing
    <3> QED BY <1>3, <2>2, <3>1, GrowsInOrder DEF Grows
  <2> QED BY <2>1, <2>2 DEF Sends
<1>5. ASSUME NEW v \in DOMAIN b, NEW p \in tsBuffer'[v].sent
      PROVE  \E d \in Clients : p \in Wanted[d] /\ \E k \in DOMAIN Answered(d)' : Answered(d)'[k] = b[v].ts
  <2>1. CASE p \in b[v].sent
    <3>1. PICK d \in Clients : p \in Wanted[d] /\ HasTs(d, b[v].ts)
      BY <2>1 DEF SentGiven
    <3>2. CASE \A e \in Clients : Keeps(e)
      BY <3>1, <3>2 DEF HasTs, Keeps
    <3>3. CASE u \in DOMAIN b /\ Gives(c, b[u].ts)
      <4>1. b[u].ts \in Nat
        BY <3>3, BufferEntries
      <4> QED BY <3>1, <3>3, <4>1, GrowsFacts DEF Grows
    <3> QED BY <3>1, <3>2, <3>3 DEF Sends
  <2>2. CASE p = Part(c) /\ v = u /\ Gives(c, b[u].ts)
    <3>1. /\ Len(Answered(c)) + 1 \in DOMAIN Answered(c)'
          /\ Answered(c)'[Len(Answered(c)) + 1] = b[u].ts
      BY <2>2, GivenFacts
    <3> QED BY <2>2, <3>1
  <2> QED BY <1>1, <1>5, <2>1, <2>2
<1>6. SentGiven(tsBuffer)'
  BY <1>1, <1>3, <1>5 DEF SentGiven, HasTs
<1> QED BY <1>2, <1>4, <1>6

LEMMA SendsOrder ==
  ASSUME ClientsInv, AnsweredBehind, OnePartEach, setup' = setup,
         NEW c \in Clients, Part(c) \in Wanted[c], NEW b, IsBuffer(b), NEW u, Sends(c, b, u),
         NEW n, Increasing(b, n), UnsentAhead(b), LastIsLatest(b)
  PROVE  UnsentAhead(tsBuffer)' /\ LastIsLatest(tsBuffer)'
<1>0. Wanted' = Wanted /\ DOMAIN b = 1 .. Len(b) /\ Len(b) \in Nat /\ (b # <<>> <=> Len(b) # 0)
      /\ \A v \in DOMAIN b : b[v].ts \in Nat
  BY BufferEntries DEF Wanted
<1>1. CASE (\A d \in Clients : Keeps(d)) /\ tsBuffer' = b
  BY <1>0, <1>1 DEF UnsentAhead, LastIsLatest, IsBefore, IsUpTo, Keeps
<1>2. CASE /\ u \in DOMAIN b /\ Gives(c, b[u].ts) /\ Part(c) \in Parts
           /\ \A v \in DOMAIN b : v < u => Part(c) \in b[v].sent
           /\ tsBuffer' = Marked(b, u, Part(c))
  <2> DEFINE p == Part(c)
  <2>1. /\ IsBuffer(tsBuffer)' /\ DOMAIN tsBuffer' = DOMAIN b /\ Len(tsBuffer') = Len(b)
        /\ \A v \in DOMAIN b :
             /\ tsBuffer'[v].ts = b[v].ts
             /\ tsBuffer'[v].sent = IF v = u THEN b[v].sent \cup {p} ELSE b[v].sent
    <3>1. /\ Len(Marked(b, u, p)) = Len(b) /\ DOMAIN Marked(b, u, p) = DOMAIN b
          /\ \A v \in DOMAIN b :
               /\ Marked(b, u, p)[v].ts = b[v].ts
               /\ Marked(b, u, p)[v].sent = IF v = u THEN b[v].sent \cup {p} ELSE b[v].sent
      <4> HIDE DEF p
      <4> QED BY <1>2, MarkedFacts DEF p
    <3> QED BY <1>2, <3>1, SendsShape
  <2>2. b[u].ts \in Nat /\ p \in Parts /\ p \in Wanted[c]
    BY <1>0, <1>2
  <2>3. ASSUME NEW d \in Clients, NEW q \in Wanted[d] \cap Parts, NEW v \in DOMAIN b,
               q \notin tsBuffer'[v].sent
        PROVE  \A k \in DOMAIN Answered(d)' : Answered(d)'[k] < b[v].ts
    <3>1. IsBefore(d, b[v].ts)
      BY <2>1, <2>3 DEF UnsentAhead
    <3>2. d = c => b[u].ts < b[v].ts
      <4> SUFFICES ASSUME d = c PROVE b[u].ts < b[v].ts
        OBVIOUS
      <4>1. q = p
        BY <2>2 DEF OnePartEach
      <4>2. v # u /\ p \notin b[v].sent
        BY <2>1, <2>3, <4>1
      <4>3. ~(v < u)
        BY <1>2, <4>2
      <4>4. v \in Nat /\ u \in Nat
        BY <1>0, <1>2
      <4> QED BY <1>2, <4>2, <4>3, <4>4 DEF Increasing
    <3> QED BY <1>0, <1>2, <2>2, <3>1, <3>2, GrowsFacts DEF Grows
  <2>4. ASSUME NEW d \in Clients
        PROVE  \A k \in DOMAIN Answered(d)' : Answered(d)'[k] <= b[Len(b)].ts
    <3>1. Len(b) \in DOMAIN b /\ b # <<>>
      BY <1>0, <1>2
    <3>2. b[u].ts <= b[Len(b)].ts /\ b[Len(b)].ts \in Nat
      <4>1. u = Len(b) \/ u < Len(b)
        BY <1>0, <1>2
      <4> QED BY <1>0, <1>2, <3>1, <4>1 DEF Increasing
    <3>3. IsUpTo(d, b[Len(b)].ts)
      BY <3>1 DEF LastIsLatest
    <3> QED BY <1>2, <2>2, <3>2, <3>3, GrowsFacts DEF Grows
  <2>5. UnsentAhead(tsBuffer)'
    BY <1>0, <2>1, <2>3 DEF UnsentAhead, IsBefore
  <2>6. LastIsLatest(tsBuffer)'
    <3>1. \A d \in Clients : \A k \in DOMAIN Answered(d)' : Answered(d)'[k] <= tsBuffer'[Len(tsBuffer')].ts
      <4>1. Len(b) \in DOMAIN b
        BY <1>0, <1>2
      <4> QED BY <2>1, <2>4, <4>1
    <3> QED BY <3>1 DEF LastIsLatest, IsUpTo
  <2> QED BY <2>5, <2>6
<1> QED BY <1>1, <1>2 DEF Sends
LEMMA RepeatsStillFit ==
  ASSUME NEW n \in Nat, NEW m \in Nat, RepeatsFit(n),
         \/ Repeats' = Repeats /\ n <= m
         \/ n # 0 /\ n < m /\ \E x : Repeats' \subseteq Repeats \cup {x}
  PROVE  IsFiniteSet(Repeats') /\ (Repeats' = {} \/ Cardinality(Repeats') < m)
<1>0. IsFiniteSet(Repeats) /\ Cardinality(Repeats) \in Nat
      /\ (Repeats = {} \/ Cardinality(Repeats) < n)
  BY FS_CardinalityType DEF RepeatsFit
<1>1. CASE Repeats' = Repeats /\ n <= m
  BY <1>0, <1>1
<1>2. CASE n # 0 /\ n < m /\ \E x : Repeats' \subseteq Repeats \cup {x}
  <2>1. PICK x : Repeats' \subseteq Repeats \cup {x}
    BY <1>2
  <2>2. /\ IsFiniteSet(Repeats \cup {x})
        /\ Cardinality(Repeats \cup {x}) <= Cardinality(Repeats) + 1
    BY <1>0, FS_AddElement
  <2>3. /\ IsFiniteSet(Repeats') /\ Cardinality(Repeats') <= Cardinality(Repeats \cup {x})
        /\ Cardinality(Repeats') \in Nat /\ Cardinality(Repeats \cup {x}) \in Nat
    BY <2>1, <2>2, FS_Subset, FS_CardinalityType
  <2>4. Cardinality(Repeats) < n
    BY <1>0, <1>2, FS_EmptySet
  <2> QED BY <1>0, <1>2, <2>2, <2>3, <2>4
<1> QED BY <1>1, <1>2

-----------------------------------------------------------------------------
(* The steps of the split modes.                                           *)

Facts == BufferInv /\ NewestInv /\ OrderInv

\* Nothing is given, and the buffer stays as long as the sampler goes on.
LEMMA KeepsFacts ==
  ASSUME ClientsInv, Facts, setup' = setup, \A d \in Clients : Keeps(d),
         srcNext' \in Nat, srcNext <= srcNext',
         Alive' => Alive /\ tsBuffer' = tsBuffer /\ fbListCompReady' = fbListCompReady,
         Alive' /\ NobodyWantsFirstIndex => taken' = taken
  PROVE  Facts'
<1>1. /\ Wanted' = Wanted /\ fulHighWaterMark' = fulHighWaterMark /\ srcNext \in Nat
      /\ (OnePartEach' <=> OnePartEach) /\ (NobodyWantsFirstIndex' <=> NobodyWantsFirstIndex)
  BY DEF Wanted, fulHighWaterMark, ClientsInv, StreamInv, OnePartEach, NobodyWantsFirstIndex
<1>2. AnsweredBehind'
  BY <1>1 DEF Facts, BufferInv, AnsweredBehind, Keeps
<1>3. BufferInv'
  <2> SUFFICES ASSUME Alive'
               PROVE  /\ IsBuffer(tsBuffer)' /\ Increasing(tsBuffer, srcNext)' /\ SentGiven(tsBuffer)'
                      /\ (fbListCompReady \in BOOLEAN /\ (fbListCompReady <=> tsBuffer # <<>>))'
    BY <1>2 DEF BufferInv
  <2>1. /\ IsBuffer(tsBuffer) /\ Increasing(tsBuffer, srcNext) /\ SentGiven(tsBuffer)
        /\ fbListCompReady \in BOOLEAN /\ (fbListCompReady <=> tsBuffer # <<>>)
    BY DEF Facts, BufferInv
  <2>2. IsBuffer(tsBuffer)'
    BY <1>1, <2>1 DEF IsBuffer
  <2>3. Increasing(tsBuffer, srcNext)'
    BY <1>1, <2>1, BufferEntries DEF Increasing
  <2>4. SentGiven(tsBuffer)'
    BY <1>1, <2>1 DEF SentGiven, HasTs, Keeps
  <2> QED BY <2>1, <2>2, <2>3, <2>4
<1>4. NewestInv'
  BY <1>1 DEF Facts, NewestInv, IsNewestOf
<1>5. Repeats' = Repeats
  <2>1. \A d \in Clients : RepeatsOf(d)' = RepeatsOf(d)
    BY DEF RepeatsOf, Keeps
  <2> QED BY <2>1 DEF Repeats
<1>6. OrderInv'
  <2> SUFFICES ASSUME OnePartEach
               PROVE  /\ AnsweredInOrder' /\ RepeatsFit(fulHighWaterMark)'
                      /\ Alive' => /\ UnsentAhead(tsBuffer)' /\ LastIsLatest(tsBuffer)'
                                   /\ RepeatsFit(Len(tsBuffer))'
    BY <1>1 DEF OrderInv
  <2>1. AnsweredInOrder' /\ RepeatsFit(fulHighWaterMark)'
    BY <1>1, <1>5 DEF Facts, OrderInv, AnsweredInOrder, RepeatsFit, Keeps
  <2>2. ASSUME Alive'
        PROVE  UnsentAhead(tsBuffer)' /\ LastIsLatest(tsBuffer)' /\ RepeatsFit(Len(tsBuffer))'
    <3>1. UnsentAhead(tsBuffer) /\ LastIsLatest(tsBuffer) /\ RepeatsFit(Len(tsBuffer))
      BY <2>2 DEF Facts, OrderInv
    <3> QED BY <1>1, <1>5, <2>2, <3>1
            DEF UnsentAhead, LastIsLatest, RepeatsFit, IsBefore, IsUpTo, Keeps
  <2> QED BY <2>1, <2>2
<1> QED BY <1>3, <1>4, <1>6 DEF Facts

\* The facts about the buffer b after something was given of it.  The repeats are
\* fewer than its TS, since one more makes it larger than the last buffer.
LEMMA SendsFacts ==
  ASSUME ClientsInv, Facts, setup' = setup, fulHighWaterMark \in Nat \ {0},
         NEW c \in Clients, Part(c) \in Wanted[c], NEW b, IsBuffer(b), NEW u, Sends(c, b, u),
         srcNext' \in Nat, srcNext <= srcNext', Increasing(b, srcNext'), SentGiven(b),
         fbListCompReady' = TRUE, b # <<>>,
         NobodyWantsFirstIndex => IsNewestOf(b, taken'),
         OnePartEach =>
           /\ UnsentAhead(b) /\ LastIsLatest(b)
           /\ RepeatsFit(Len(tsBuffer)) /\ Len(tsBuffer) \in Nat /\ Len(tsBuffer) <= Len(b)
           /\ \/ \A d \in Clients : Keeps(d)
              \/ IsBefore(c, b[u].ts)
              \/ IsUpTo(c, b[u].ts) /\ Len(tsBuffer) # 0 /\ Len(tsBuffer) < Len(b)
  PROVE  Facts'
<1>1. /\ Wanted' = Wanted /\ fulHighWaterMark' = fulHighWaterMark /\ srcNext \in Nat
      /\ (OnePartEach' <=> OnePartEach) /\ (NobodyWantsFirstIndex' <=> NobodyWantsFirstIndex)
      /\ AnsweredBehind
  BY DEF Wanted, fulHighWaterMark, ClientsInv, StreamInv, OnePartEach, NobodyWantsFirstIndex,
         Facts, BufferInv
<1>2. /\ IsBuffer(tsBuffer)' /\ Len(tsBuffer') = Len(b) /\ DOMAIN tsBuffer' = DOMAIN b
      /\ \A v \in DOMAIN b : tsBuffer'[v].ts = b[v].ts
  BY SendsShape
<1>3. AnsweredBehind' /\ Increasing(tsBuffer, srcNext)' /\ SentGiven(tsBuffer)'
  BY <1>1, SendsBuffer
<1>4. /\ DOMAIN b = 1 .. Len(b) /\ Len(b) \in Nat /\ Len(b) # 0 /\ Len(b) <= fulHighWaterMark
      /\ \A v \in DOMAIN b : b[v].ts \in Nat
  BY BufferEntries DEF IsBuffer
<1>5. BufferInv'
  <2>1. tsBuffer' # <<>>
    BY <1>2, <1>4
  <2> QED BY <1>2, <1>3, <2>1 DEF BufferInv
<1>6. NewestInv'
  <2>1. IsNewestOf(b, taken') => IsNewestOf(tsBuffer', taken')
    BY <1>2 DEF IsNewestOf
  <2> QED BY <1>1, <2>1 DEF NewestInv, IsNewestOf
<1>7. ASSUME OnePartEach PROVE OrderInv'
  <2>1. UnsentAhead(b) /\ LastIsLatest(b) /\ AnsweredInOrder
    BY <1>7 DEF Facts, OrderInv
  <2>2. UnsentAhead(tsBuffer)' /\ LastIsLatest(tsBuffer)'
    BY <1>1, <1>7, <2>1, SendsOrder
  <2>3. CASE \A d \in Clients : Keeps(d)
    <3>1. Repeats' = Repeats
      <4>1. \A d \in Clients : RepeatsOf(d)' = RepeatsOf(d)
        BY <2>3 DEF RepeatsOf, Keeps
      <4> QED BY <4>1 DEF Repeats
    <3>2. AnsweredInOrder'
      BY <2>1, <2>3 DEF AnsweredInOrder, Keeps
    <3>3. /\ IsFiniteSet(Repeats')
          /\ Repeats' = {} \/ Cardinality(Repeats') < Len(b)
          /\ Repeats' = {} \/ Cardinality(Repeats') < fulHighWaterMark
      <4>1. RepeatsFit(Len(tsBuffer)) /\ Len(tsBuffer) <= Len(b) /\ Len(tsBuffer) \in Nat
        BY <1>7
      <4> QED BY <1>4, <3>1, <4>1, RepeatsStillFit
    <3> QED BY <1>1, <1>2, <2>2, <3>2, <3>3 DEF OrderInv, RepeatsFit
  <2>4. CASE u \in DOMAIN b /\ Gives(c, b[u].ts) /\ ~(\A d \in Clients : Keeps(d))
    <3> DEFINE t == b[u].ts
    <3>1. t \in Nat /\ t < srcNext' /\ Grows(c, t)
      BY <1>4, <2>4 DEF Grows, Increasing
    <3>2. IsUpTo(c, t)
      <4>1. IsBefore(c, t) => IsUpTo(c, t)
        <5> HIDE DEF t
        <5> QED BY <1>1, <3>1 DEF IsBefore, IsUpTo, AnsweredBehind
      <4> QED BY <1>7, <2>4, <4>1
    <3>3. IsBefore(c, t) \/ (Len(tsBuffer) # 0 /\ Len(tsBuffer) < Len(b))
      BY <1>7, <2>4
    <3> HIDE DEF t
    <3>4. AnsweredInOrder'
      BY <1>1, <2>1, <3>1, <3>2, GrowsInOrder
    <3>5. /\ Repeats' \subseteq Repeats \cup {<<c, Len(Answered(c))>>}
          /\ IsBefore(c, t) => Repeats' = Repeats
      BY <1>1, <3>1, GrowsRepeats
    <3>6. /\ IsFiniteSet(Repeats')
          /\ Repeats' = {} \/ Cardinality(Repeats') < Len(b)
          /\ Repeats' = {} \/ Cardinality(Repeats') < fulHighWaterMark
      <4>1. RepeatsFit(Len(tsBuffer)) /\ Len(tsBuffer) <= Len(b) /\ Len(tsBuffer) \in Nat
        BY <1>7
      <4>2. \/ Repeats' = Repeats
            \/ Len(tsBuffer) # 0 /\ Len(tsBuffer) < Len(b) /\ \E x : Repeats' \subseteq Repeats \cup {x}
        BY <3>3, <3>5
      <4> QED BY <1>4, <4>1, <4>2, RepeatsStillFit
    <3> QED BY <1>1, <1>2, <2>2, <3>4, <3>6 DEF OrderInv, RepeatsFit
  <2> QED BY <2>3, <2>4 DEF Sends
<1>8. OrderInv'
  BY <1>1, <1>7 DEF OrderInv
<1> QED BY <1>5, <1>6, <1>8 DEF Facts

LEMMA FromOldFacts ==
  ASSUME ClientsInv, Facts, Alive, setup' = setup, fulHighWaterMark \in Nat \ {0},
         NEW c \in Clients, Part(c) \in Wanted[c], FromOld(c), srcNext' \in Nat
  PROVE  Facts'
<1>1. PICK u \in DOMAIN tsBuffer :
        /\ Part(c) \in Parts \ tsBuffer[u].sent
        /\ \A v \in DOMAIN tsBuffer : v < u => Part(c) \in tsBuffer[v].sent
        /\ Gives(c, tsBuffer[u].ts) /\ tsBuffer' = Marked(tsBuffer, u, Part(c))
        /\ UNCHANGED <<srcNext, taken, fbListCompReady>>
  BY DEF FromOld
<1>2. Sends(c, tsBuffer, u)
  BY <1>1 DEF Sends
<1>3. /\ IsBuffer(tsBuffer) /\ Increasing(tsBuffer, srcNext) /\ SentGiven(tsBuffer)
      /\ fbListCompReady \in BOOLEAN /\ (fbListCompReady <=> tsBuffer # <<>>)
  BY DEF Facts, BufferInv
<1>4. Len(tsBuffer) \in Nat /\ tsBuffer # <<>>
  BY <1>1, <1>3, BufferEntries
<1>5. srcNext <= srcNext' /\ Increasing(tsBuffer, srcNext') /\ fbListCompReady' = TRUE
  BY <1>1, <1>3, <1>4 DEF ClientsInv, StreamInv
<1>6. NobodyWantsFirstIndex => IsNewestOf(tsBuffer, taken')
  BY <1>1 DEF Facts, NewestInv
<1>7. OnePartEach =>
        /\ UnsentAhead(tsBuffer) /\ LastIsLatest(tsBuffer) /\ RepeatsFit(Len(tsBuffer))
        /\ IsBefore(c, tsBuffer[u].ts)
  BY <1>1 DEF Facts, OrderInv, UnsentAhead
<1>8. Len(tsBuffer) <= Len(tsBuffer)
  BY <1>4
<1> QED BY <1>2, <1>3, <1>4, <1>5, <1>6, <1>7, <1>8, SendsFacts

LEMMA FromNewFacts ==
  ASSUME ClientsInv, HoleInv, Facts, Alive, setup' = setup, fulHighWaterMark \in Nat \ {0},
         NEW c \in Clients, Part(c) \in Wanted[c], FromNew(c)
  PROVE  Facts'
<1>1. PICK i \in Nat :
        /\ srcNext <= i /\ srcNext' = i + 1 /\ taken' = Append(taken, i) /\ fbListCompReady' = TRUE
        /\ \/ (\A d \in Clients : Keeps(d)) /\ tsBuffer' = NewBuffer(i)
           \/ \E u \in Nat : GivesOfNew(c, i, u)
  BY DEF FromNew
<1> DEFINE N == NewBuffer(i)
<1>2. /\ AnsweredBehind /\ srcNext \in Nat
      /\ IsBuffer(tsBuffer) /\ Increasing(tsBuffer, srcNext) /\ SentGiven(tsBuffer)
  BY DEF Facts, BufferInv, ClientsInv, StreamInv
<1>3. /\ IsBuffer(N) /\ Len(N) = Len(tsBuffer) + 1 - Shift /\ DOMAIN N = 1 .. Len(N)
      /\ Len(N) \in Nat \ {0} /\ N[Len(N)] = Entry(i)
      /\ \A v \in DOMAIN N : v # Len(N) => v + Shift \in DOMAIN tsBuffer /\ N[v] = tsBuffer[v + Shift]
  BY <1>2, NewBufferFacts
<1>4. /\ Increasing(N, i + 1) /\ SentGiven(N) /\ LastIsLatest(N)
      /\ UnsentAhead(tsBuffer) => UnsentAhead(N)
  BY <1>1, <1>2, NewBufferFits
<1>5. NobodyWantsFirstIndex => IsNewestOf(N, taken')
  BY <1>1, <1>2, NewBufferIsNewest DEF Facts, NewestInv, HoleInv
<1>6. /\ Shift \in {0, 1} /\ Len(tsBuffer) \in Nat /\ DOMAIN tsBuffer = 1 .. Len(tsBuffer)
      /\ Len(tsBuffer) <= Len(N)
      /\ tsBuffer # <<>> <=> Len(tsBuffer) # 0
  <2>1. Shift \in {0, 1}
    BY DEF Shift
  <2> QED BY <1>2, <1>3, <2>1, BufferEntries
<1>7. N # <<>>
  <2> HIDE DEF N
  <2> QED BY <1>3, BufferEntries
<1>8. PICK u : /\ Sends(c, N, u)
               /\ \/ \A d \in Clients : Keeps(d)
                  \/ u \in DOMAIN N /\ (u = Len(N) \/ (u = Len(tsBuffer) /\ Shift = 0))
  <2>1. CASE (\A d \in Clients : Keeps(d)) /\ tsBuffer' = N
    BY <2>1 DEF Sends
  <2>2. ASSUME NEW u \in Nat, GivesOfNew(c, i, u)
        PROVE  /\ Sends(c, N, u)
               /\ u \in DOMAIN N /\ (u = Len(N) \/ (u = Len(tsBuffer) /\ Shift = 0))
    <3>1. /\ Part(c) \in Parts /\ \A v \in DOMAIN tsBuffer : Part(c) \in tsBuffer[v].sent
          /\ u \in DOMAIN N /\ Gives(c, N[u].ts) /\ tsBuffer' = Marked(N, u, Part(c))
          /\ u = Len(N) \/ (u = Len(tsBuffer) /\ Shift = 0)
      BY <2>2 DEF GivesOfNew
    <3> HIDE DEF N
    <3>2. \A v \in DOMAIN N : v < u => Part(c) \in N[v].sent
      BY <1>3, <3>1
    <3> QED BY <3>1, <3>2 DEF Sends
  <2> QED BY <1>1, <2>1, <2>2
<1>9. ASSUME OnePartEach
      PROVE  /\ UnsentAhead(N) /\ LastIsLatest(N) /\ RepeatsFit(Len(tsBuffer))
             /\ \/ \A d \in Clients : Keeps(d)
                \/ IsBefore(c, N[u].ts)
                \/ IsUpTo(c, N[u].ts) /\ Len(tsBuffer) # 0 /\ Len(tsBuffer) < Len(N)
  <2>1. UnsentAhead(tsBuffer) /\ LastIsLatest(tsBuffer) /\ RepeatsFit(Len(tsBuffer))
    BY <1>9 DEF Facts, OrderInv
  <2> HIDE DEF N
  <2>2. CASE u = Len(N)
    <3>1. N[u].ts = i
      BY <1>3, <2>2 DEF Entry
    <3>2. IsBefore(c, i)
      BY <1>1, <1>2 DEF AnsweredBehind, IsBefore
    <3> QED BY <1>4, <2>1, <3>1, <3>2
  <2>3. CASE u \in DOMAIN N /\ u = Len(tsBuffer) /\ Shift = 0
    <3>0. Len(N) = Len(tsBuffer) + 1 - Shift /\ Len(tsBuffer) \in Nat /\ Shift = 0 /\ u = Len(tsBuffer)
      BY <1>3, <1>6, <2>3
    <3>1. Len(N) = Len(tsBuffer) + 1 /\ u # Len(N) /\ u + Shift = u /\ Len(tsBuffer) < Len(N)
      BY <3>0
    <3>2. N[u] = tsBuffer[u] /\ u \in DOMAIN tsBuffer
      BY <1>3, <2>3, <3>1
    <3>3. Len(tsBuffer) # 0 /\ tsBuffer # <<>>
      BY <1>6, <2>3, <3>2
    <3>4. IsUpTo(c, N[u].ts)
      BY <2>1, <2>3, <3>2, <3>3 DEF LastIsLatest
    <3> QED BY <1>4, <2>1, <3>1, <3>3, <3>4
  <2> QED BY <1>4, <1>8, <2>1, <2>2, <2>3
<1>10. srcNext' \in Nat /\ srcNext <= srcNext' /\ Increasing(N, srcNext')
  BY <1>1, <1>2, <1>4
<1> HIDE DEF N
<1> QED BY <1>1, <1>3, <1>4, <1>5, <1>6, <1>7, <1>8, <1>9, <1>10, SendsFacts

LEMMA NextSplitInv == ClientsInv /\ HoleInv /\ SplitInv /\ [Next]_vars => SplitInv'
<1> SUFFICES ASSUME ClientsInv, HoleInv, Split => Facts, [Next]_vars PROVE (Split => Facts)'
  BY DEF SplitInv, Facts
<1>0. fulHighWaterMark \in Nat \ {0}
  BY SamplerAssumption DEF ClientsInv, StreamInv, fulHighWaterMark
<1>1. ASSUME setup' = setup PROVE Split' <=> Split
  BY <1>1 DEF Split, SplitMode
<1>2. ASSUME NEW c \in Clients, Serve(c) PROVE (Split => Facts)'
  <2>1. /\ setup' = setup /\ Asked(c) /\ deviceState = "running" /\ (fbEofFound => fbEofFound')
    BY <1>2, RequestEffect DEF Serve, ClientsInv
  <2>2. srcNext' \in Nat /\ srcNext <= srcNext'
    BY <1>2, StreamStep DEF Serve, ClientsInv, StreamInv
  <2>3. Part(c) \in Wanted[c]
    BY <2>1 DEF ClientsInv, ShapeInv
  <2> SUFFICES ASSUME Split PROVE Facts'
    BY <1>1, <2>1
  <2>4. CASE NoPart(c)
    <3>1. Alive' => Alive
      BY <2>1 DEF Alive
    <3>2. NobodyWantsFirstIndex => Part(c) # FirstIndex
      BY <2>3 DEF NobodyWantsFirstIndex
    <3> QED BY <2>1, <2>2, <2>4, <3>1, <3>2, KeepsFacts DEF NoPart
  <2>5. CASE Alive /\ FromOld(c)
    BY <1>0, <2>1, <2>2, <2>3, <2>5, FromOldFacts
  <2>6. CASE Alive /\ FromNew(c)
    BY <1>0, <2>1, <2>3, <2>6, FromNewFacts
  <2> QED BY <1>0, <1>2, <2>4, <2>5, <2>6, SplitEffect DEF Facts
<1>3. ASSUME UNCHANGED <<setup, streamVars, bufferVars, deviceState, taken>>,
             \A d \in Clients : Keeps(d)
      PROVE  (Split => Facts)'
  <2>1. /\ setup' = setup /\ srcNext' \in Nat /\ srcNext <= srcNext' /\ (Alive' <=> Alive)
        /\ tsBuffer' = tsBuffer /\ fbListCompReady' = fbListCompReady /\ taken' = taken
    BY <1>3 DEF streamVars, bufferVars, Alive, ClientsInv, StreamInv
  <2> QED BY <1>1, <1>3, <2>1, KeepsFacts
<1>4. ASSUME NEW c \in Clients, Ask(c) \/ Receive(c) PROVE (Split => Facts)'
  <2>1. UNCHANGED <<bufferVars, taken>>
    BY <1>4 DEF Ask, Receive, SendRequest, ReceiveReply
  <2> QED BY <1>3, <1>4, <2>1, ClientStep
<1>5. CASE UNCHANGED vars
  BY <1>3, <1>5, StutterStep DEF vars, samplerVars
<1> QED BY <1>2, <1>4, <1>5 DEF Next

LEMMA InitSplitInv == Init => HoleInv /\ SplitInv
<1> SUFFICES ASSUME Init PROVE HoleInv /\ Facts
  BY DEF SplitInv, Facts
<1>1. /\ taken = <<>> /\ missedts = <<>> /\ fulTsCounter = 0 /\ fulPrevTsIndex = 0
      /\ tsBuffer = <<>> /\ fbListCompReady = FALSE /\ setup \in Setups
  BY DEF Init, SamplerInit
<1>2. HoleInv
  BY <1>1 DEF HoleInv, TakenTs, StartsAtOne
<1>3. \A c \in Clients : Answered(c) = <<>>
  BY DEF Init, SamplerInit, Idle, Answered
<1>4. fulHighWaterMark \in Nat \ {0}
  BY <1>1, SamplerAssumption DEF fulHighWaterMark
<1>5. BufferInv
  <2> DEFINE E == [ts : Nat, sent : SUBSET Parts]
  <2>1. tsBuffer \in Seq(E) /\ Len(tsBuffer) = 0 /\ DOMAIN tsBuffer = {}
    <3> HIDE DEF E
    <3> QED BY <1>1
  <2>2. IsBuffer(tsBuffer)
    BY <1>4, <2>1 DEF IsBuffer
  <2>3. Increasing(tsBuffer, srcNext) /\ SentGiven(tsBuffer)
    BY <2>1 DEF Increasing, SentGiven
  <2>4. AnsweredBehind
    BY <1>3 DEF AnsweredBehind
  <2> QED BY <1>1, <2>2, <2>3, <2>4 DEF BufferInv
<1>6. NewestInv
  BY <1>1, <1>4 DEF NewestInv, IsNewestOf
<1>7. OrderInv
  <2>1. Repeats = {}
    BY <1>3 DEF Repeats, RepeatsOf
  <2> QED BY <1>1, <1>3, <2>1, FS_EmptySet
          DEF OrderInv, AnsweredInOrder, RepeatsFit, UnsentAhead, LastIsLatest
<1> QED BY <1>2, <1>5, <1>6, <1>7 DEF Facts

\* In the split modes each client that wants one part gets it in the order of the
\* source, for any number of clients and any room of the buffer, and all the repeats
\* together are fewer than the TS it has room for.
THEOREM PartsComeInOrder == Spec => []PartsInOrder
<1>1. ClientsInv /\ HoleInv /\ SplitInv => PartsInOrder
  BY SplitInvIsEnough
<1> QED BY <1>1, InitSplitInv, ClientsInvariant, NextHoles, NextSplitInv, PTL DEF Spec

\* As long as the sampler goes on, a part of the last TS, as many as the buffer has
\* room for, was given to a client that wants it or is kept for the next that asks.
THEOREM OnlyOverflowLosesParts == Spec => []PartsLostByOverflowOnly
<1>1. ClientsInv /\ HoleInv /\ SplitInv => PartsLostByOverflowOnly
  BY SplitInvIsEnough
<1> QED BY <1>1, InitSplitInv, ClientsInvariant, NextHoles, NextSplitInv, PTL DEF Spec
=============================================================================
