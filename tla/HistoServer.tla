----------------------------- MODULE HistoServer -----------------------------
(***************************************************************************)
(* CbmMqHistoServer and the devices that feed it.  A device fills its      *)
(* histograms, publishes them from time to time and resets them once they  *)
(* were sent; the server adds up what it gets under each name, shows the   *)
(* histograms and canvases whose configuration it knows on an HTTP server  *)
(* with a thread of its own, and saves them when it leaves RUNNING.        *)
(*                                                                         *)
(* The devices of the 2022 chain put the configuration in front of their   *)
(* first data ("combined"); older ones send it before, on two channels of  *)
(* its own, which data may overtake ("separate").  The content of a        *)
(* histogram is its number of fills.                                       *)
(***************************************************************************)
EXTENDS Naturals, Sequences, FiniteSets, SequencesExt

CONSTANTS Senders, Names,
          HistType,    \* per sender: name |-> class, for its histograms
          HistoNames,  \* per sender: its names in the order of its array
          Canvases,    \* per sender: sequence of [name, objs]
          Styles,      \* what the devices may be: per device, see style
          NoHisto,
          MaxFills, MaxQueue, MaxRuns, MaxRestarts   \* bounds

HistoClasses == {"TH1", "TH2", "TProfile"}
CanvasNames == UNION {{Canvases[s][i].name : i \in DOMAIN Canvases[s]} : s \in Senders}
NamesOf(s) == {HistoNames[s][i] : i \in DOMAIN HistoNames[s]}

\* The histograms of a device have names of their own, and its canvases draw them.
ASSUME HistoServerAssumption ==
  /\ IsFiniteSet(Senders)
  /\ HistoNames \in [Senders -> Seq(Names)]
  /\ \A s \in Senders : \A i, j \in DOMAIN HistoNames[s] :
       HistoNames[s][i] = HistoNames[s][j] => i = j
  /\ \A s \in Senders : \A n \in NamesOf(s) : HistType[s][n] \in HistoClasses
  /\ Canvases \in [Senders -> Seq([name : CanvasNames, objs : SUBSET Names])]
  /\ \A s \in Senders : \A i \in DOMAIN Canvases[s] : Canvases[s][i].objs \subseteq NamesOf(s)
  /\ NoHisto \notin [type : HistoClasses, fills : Nat]
  /\ Styles \subseteq [Senders -> {"combined", "separate"}]
  /\ {MaxFills, MaxQueue, MaxRuns, MaxRestarts} \subseteq Nat

VARIABLES
  \* the devices
  style,        \* "combined" or "separate"
  content,      \* fills since the last reset
  fbConfigSent,
  histoIn, histoConf, canvasConf,   \* the channels of each device
  restarts,
  \* the server
  fArrayHisto,              \* name |-> [type, fills] or NoHisto
  fvpsHistosFolder,         \* with fvHistos and fvbHistoRegistered, in parallel:
                            \* sequence of [name, registered]
  fbAllHistosRegistered,
  fvpsCanvasConfig,         \* with fvCanvas, fvbCanvasReady: seq. of [name, objs, ready]
  main,                     \* "idle", "running", "leaving", "saved", "joining", "crashed"
  runs,
  mtx, http, fStopThread,   \* the mutex, the HTTP thread and its flag
  \* history
  owed,         \* fills per name that are not lost with a device or refused
  clash         \* some histogram was refused for its type

deviceVars == <<style, content, fbConfigSent, restarts>>
channels == <<histoIn, histoConf, canvasConf>>
mergedVars == <<fArrayHisto, fvpsHistosFolder, fbAllHistosRegistered, fvpsCanvasConfig>>
controlVars == <<main, runs, mtx, http, fStopThread>>
vars == <<deviceVars, channels, mergedVars, controlVars, owed, clash>>

Sum(f, S) == FoldFunctionOnSet(LAMBDA a, b : a + b, 0, f, S)

\* A device of the older kind has sent its configuration in InitTask.
Init ==
  /\ style \in Styles
  /\ content = [s \in Senders |-> [n \in NamesOf(s) |-> 0]]
  /\ fbConfigSent = [s \in Senders |-> FALSE]
  /\ histoIn = [s \in Senders |-> <<>>]
  /\ histoConf = [s \in Senders |-> IF style[s] = "separate" THEN HistoNames[s] ELSE <<>>]
  /\ canvasConf = [s \in Senders |-> IF style[s] = "separate" THEN Canvases[s] ELSE <<>>]
  /\ restarts = 0
  /\ fArrayHisto = [n \in Names |-> NoHisto]
  /\ fvpsHistosFolder = <<>> /\ fbAllHistosRegistered = FALSE
  /\ fvpsCanvasConfig = <<>>
  /\ main = "idle" /\ runs = 0
  /\ mtx = "free" /\ http = "none" /\ fStopThread = FALSE
  /\ owed = [n \in Names |-> 0] /\ clash = FALSE

-----------------------------------------------------------------------------
(* The devices.                                                            *)

Fill(s, n) ==
  /\ n \in NamesOf(s)
  /\ Sum(owed, Names) < MaxFills
  /\ content' = [content EXCEPT ![s][n] = @ + 1]
  /\ owed' = [owed EXCEPT ![n] = @ + 1]
  /\ UNCHANGED <<style, fbConfigSent, restarts, channels, mergedVars, controlVars, clash>>

\* Mutant: the reset does not depend on the result of the send.
ResetAnyway(s, sent) ==
  content' = [content EXCEPT ![s] = [n \in NamesOf(s) |-> 0]]

ResetHistograms(s, sent) ==
  content' = IF sent THEN [content EXCEPT ![s] = [n \in NamesOf(s) |-> 0]] ELSE content

\* The configuration goes with the first data that can be sent; without a
\* configuration to send (older devices) it is data only from the start.
Publish(s) ==
  /\ Len(histoIn[s]) < MaxQueue
  /\ \E sent \in BOOLEAN :
       LET first == style[s] = "combined" /\ ~fbConfigSent[s]
       IN  /\ histoIn' = IF sent
                         THEN [histoIn EXCEPT ![s] = Append(@, [conf |-> first,
                                                                fills |-> content[s]])]
                         ELSE histoIn
           /\ fbConfigSent' = [fbConfigSent EXCEPT ![s] = @ \/ (first /\ sent)]
           /\ ResetHistograms(s, sent)
  /\ UNCHANGED <<style, restarts, histoConf, canvasConf, mergedVars, controlVars, owed, clash>>

\* A device that starts anew has empty histograms and sends its configuration again.
Restart(s) ==
  /\ restarts < MaxRestarts
  /\ style[s] = "combined"
  /\ restarts' = restarts + 1
  /\ content' = [content EXCEPT ![s] = [n \in NamesOf(s) |-> 0]]
  /\ fbConfigSent' = [fbConfigSent EXCEPT ![s] = FALSE]
  /\ owed' = [n \in Names |-> IF n \in NamesOf(s) THEN owed[n] - content[s][n] ELSE owed[n]]
  /\ UNCHANGED <<style, channels, mergedVars, controlVars, clash>>

-----------------------------------------------------------------------------
(* The handlers of the server, as functions of what they change:           *)
(* m.array, m.folders, m.allReg, m.canvases.                               *)

Merged == [array |-> fArrayHisto, folders |-> fvpsHistosFolder,
           allReg |-> fbAllHistosRegistered, canvases |-> fvpsCanvasConfig,
           ok |-> TRUE, refused |-> [n \in Names |-> 0]]

\* A name that is known already is ignored.
AddHistoConfig(m, n) ==
  IF \E u \in DOMAIN m.folders : m.folders[u].name = n THEN m
  ELSE [m EXCEPT !.folders = Append(@, [name |-> n, registered |-> FALSE]),
                 !.allReg = FALSE]

AddCanvasConfig(m, c) ==
  IF \E u \in DOMAIN m.canvases : m.canvases[u].name = c.name THEN m
  ELSE [m EXCEPT !.canvases = Append(@, [name |-> c.name, objs |-> c.objs, ready |-> FALSE])]

\* The classes of ROOT: profiles and two-dimensional histograms are TH1.
IsA(type, class) == class = "TH1" \/ type = class

\* A new histogram is registered if its configuration is known.
Register(m, n) ==
  IF m.allReg THEN m
  ELSE LET folders == [u \in DOMAIN m.folders |->
                         IF m.folders[u].name = n THEN [m.folders[u] EXCEPT !.registered = TRUE]
                         ELSE m.folders[u]]
       IN  IF \E u \in DOMAIN m.folders : m.folders[u].name = n
           THEN [m EXCEPT !.folders = folders,
                          !.allReg = \A u \in DOMAIN folders : folders[u].registered]
           ELSE m

\* A known one must be of the class of the new one, and TH1::Add takes only
\* histograms of the same dimension.
ReadHistogram(m, h) ==
  LET old == m.array[h.name]
      refuse == [m EXCEPT !.refused[h.name] = @ + h.fills]
  IN  CASE ~m.ok -> refuse
        [] m.ok /\ old = NoHisto ->
             Register([m EXCEPT !.array[h.name] = [type |-> h.type, fills |-> h.fills]], h.name)
        [] m.ok /\ old # NoHisto /\ ~IsA(old.type, h.type) -> [refuse EXCEPT !.ok = FALSE]
        [] m.ok /\ old # NoHisto /\ IsA(old.type, h.type) /\ old.type # h.type -> refuse
        [] OTHER -> [m EXCEPT !.array[h.name].fills = @ + h.fills]

\* A canvas is prepared once all that it draws is there.
PrepareCanvases(m) ==
  LET there(c) == \A n \in c.objs : m.array[n] # NoHisto
  IN  IF m.ok
      THEN [m EXCEPT !.canvases =
              [u \in DOMAIN m.canvases |->
                 [m.canvases[u] EXCEPT !.ready = m.canvases[u].ready \/ there(m.canvases[u])]]]
      ELSE m

\* The array of histograms of one message; after a refusal the rest is dropped.
ReceiveData(m, s, fills) ==
  PrepareCanvases(FoldLeft(ReadHistogram, m,
    [i \in DOMAIN HistoNames[s] |->
       [name |-> HistoNames[s][i], type |-> HistType[s][HistoNames[s][i]],
        fills |-> fills[HistoNames[s][i]]]]))

\* Mutant: the data come first.
DataThenConfig(m, s, fills) ==
  FoldLeft(AddCanvasConfig,
           FoldLeft(AddHistoConfig, ReceiveData(m, s, fills), HistoNames[s]), Canvases[s])

ConfigThenData(m, s, fills) ==
  ReceiveData(FoldLeft(AddCanvasConfig, FoldLeft(AddHistoConfig, m, HistoNames[s]), Canvases[s]),
              s, fills)

SetMerged(m) ==
  /\ fArrayHisto' = m.array /\ fvpsHistosFolder' = m.folders
  /\ fbAllHistosRegistered' = m.allReg /\ fvpsCanvasConfig' = m.canvases

-----------------------------------------------------------------------------
(* The main thread.                                                        *)

\* Mutant: the mutex is not taken.
CanLockAlways == TRUE

CanLock == mtx = "free"

\* One part is data; several are configurations and data, whose result is ignored.
ReceiveConfigAndData(s) ==
  /\ main = "running"
  /\ histoIn[s] # <<>>
  /\ CanLock
  /\ LET msg == Head(histoIn[s])
         m == IF msg.conf THEN ConfigThenData(Merged, s, msg.fills)
                          ELSE ReceiveData(Merged, s, msg.fills)
     IN  /\ SetMerged(m)
         /\ main' = IF m.ok \/ msg.conf THEN main ELSE "leaving"
         /\ owed' = [n \in Names |-> owed[n] - m.refused[n]]
         /\ clash' = (clash \/ ~m.ok \/ \E n \in Names : m.refused[n] # 0)
  /\ histoIn' = [histoIn EXCEPT ![s] = Tail(@)]
  /\ UNCHANGED <<deviceVars, histoConf, canvasConf, runs, mtx, http, fStopThread>>

ReceiveHistoConfig(s) ==
  /\ main = "running"
  /\ histoConf[s] # <<>>
  /\ SetMerged(AddHistoConfig(Merged, Head(histoConf[s])))
  /\ histoConf' = [histoConf EXCEPT ![s] = Tail(@)]
  /\ UNCHANGED <<deviceVars, histoIn, canvasConf, controlVars, owed, clash>>

ReceiveCanvasConfig(s) ==
  /\ main = "running"
  /\ canvasConf[s] # <<>>
  /\ SetMerged(AddCanvasConfig(Merged, Head(canvasConf[s])))
  /\ canvasConf' = [canvasConf EXCEPT ![s] = Tail(@)]
  /\ UNCHANGED <<deviceVars, histoIn, histoConf, controlVars, owed, clash>>

PreRun ==
  /\ main = "idle" /\ runs < MaxRuns
  /\ main' = "running" /\ runs' = runs + 1
  /\ fStopThread' = FALSE /\ http' = "checking"
  /\ UNCHANGED <<deviceVars, channels, mergedVars, mtx, owed, clash>>

\* Histograms and canvases without an object yet are null pointers.
SaveHistograms(next) ==
  main' = IF \A u \in DOMAIN fvpsHistosFolder : fvpsHistosFolder[u].registered
             /\ \A v \in DOMAIN fvpsCanvasConfig : fvpsCanvasConfig[v].ready
          THEN next ELSE "crashed"

\* PostRun, when RUNNING is left by a command or by a handler's false.
PostRunSave ==
  /\ main \in {"running", "leaving"}
  /\ SaveHistograms("saved")
  /\ UNCHANGED <<deviceVars, channels, mergedVars, runs, mtx, http, fStopThread, owed, clash>>

\* Mutant: the thread is joined without having been told.
PostRunForgetsStop ==
  /\ main = "saved"
  /\ main' = "joining"
  /\ UNCHANGED <<deviceVars, channels, mergedVars, runs, mtx, http, fStopThread, owed, clash>>

PostRunStop ==
  /\ main = "saved"
  /\ fStopThread' = TRUE /\ main' = "joining"
  /\ UNCHANGED <<deviceVars, channels, mergedVars, runs, mtx, http, owed, clash>>

PostRunJoin ==
  /\ main = "joining" /\ http = "ended"
  /\ http' = "none"
  /\ SaveHistograms("idle")
  /\ UNCHANGED <<deviceVars, channels, mergedVars, runs, mtx, fStopThread, owed, clash>>

-----------------------------------------------------------------------------
(* UpdateHttpServer, the HTTP thread.                                      *)

httpUnchanged == <<deviceVars, channels, mergedVars, main, runs, fStopThread, owed, clash>>

HttpCheckStop ==
  /\ main # "crashed" /\ http = "checking"
  /\ http' = IF fStopThread THEN "ended" ELSE "sleeping"
  /\ UNCHANGED <<httpUnchanged, mtx>>

HttpLock ==
  /\ main # "crashed" /\ http = "sleeping" /\ mtx = "free"
  /\ mtx' = "http" /\ http' = "serving"
  /\ UNCHANGED httpUnchanged

HttpServed ==
  /\ main # "crashed" /\ http = "serving"
  /\ mtx' = "free" /\ http' = "checking"
  /\ UNCHANGED httpUnchanged

UpdateHttpServer == HttpCheckStop \/ HttpLock \/ HttpServed

-----------------------------------------------------------------------------
PostRun == PostRunSave \/ PostRunStop \/ PostRunJoin

Next ==
  \/ \E s \in Senders : \/ \E n \in Names : Fill(s, n)
                        \/ Publish(s) \/ Restart(s)
                        \/ ReceiveConfigAndData(s)
                        \/ ReceiveHistoConfig(s) \/ ReceiveCanvasConfig(s)
  \/ PreRun \/ PostRun \/ UpdateHttpServer

Spec == Init /\ [][Next]_vars

\* The HTTP thread and a PostRun that has begun are not held up.
FairSpec == Spec /\ WF_vars(UpdateHttpServer) /\ WF_vars(PostRunStop) /\ WF_vars(PostRunJoin)

-----------------------------------------------------------------------------
\* "Reset the histograms after sending them": what was filled is in the device,
\* on its way or in the server, once, whatever is sent, lost or sent again
\* (SendHistograms of the devices, ReadHistogram of the server).
EveryFillCountedOnce ==
  \A n \in Names :
    LET Held == Sum([s \in Senders |-> IF n \in NamesOf(s) THEN content[s][n] ELSE 0], Senders)
        Sent == Sum([s \in Senders |->
                       IF n \in NamesOf(s)
                       THEN Sum([i \in DOMAIN histoIn[s] |-> histoIn[s][i].fills[n]],
                                DOMAIN histoIn[s])
                       ELSE 0], Senders)
    IN  owed[n] = Held + Sent + IF fArrayHisto[n] = NoHisto THEN 0 ELSE fArrayHisto[n].fills

AllCombined == \A s \in Senders : style[s] = "combined"

\* With configurations in front of the data, and types that agree, all histograms
\* received are registered and all canvases are prepared whenever the server may
\* save: the null pointers of fvHistos and fvCanvas are not met.
ReceivedIsServed ==
  AllCombined /\ ~clash =>
    /\ \A n \in Names : fArrayHisto[n] # NoHisto =>
         \E u \in DOMAIN fvpsHistosFolder :
           fvpsHistosFolder[u].name = n /\ fvpsHistosFolder[u].registered
    /\ \A v \in DOMAIN fvpsCanvasConfig : fvpsCanvasConfig[v].ready
    /\ main # "crashed"

\* While the HTTP thread answers requests nothing that it shows is changed, though
\* the handlers of configurations do not take the mutex.
Shown == <<fArrayHisto, {u \in DOMAIN fvpsHistosFolder : fvpsHistosFolder[u].registered},
           {v \in DOMAIN fvpsCanvasConfig : fvpsCanvasConfig[v].ready}>>
ShownIsStable == [][http = "serving" => Shown' = Shown]_vars

\* PostRun comes to its end: the HTTP thread sees the flag and is joined.
PostRunEnds == main = "saved" ~> main \in {"idle", "crashed"}
=============================================================================
