-------------------------- MODULE DigiEventSelector --------------------------
(***************************************************************************)
(* DigiEventSelector: which events are kept.  A digi is [time, address,    *)
(* side]; an address stands for an STS module, a TOF strip or a BMON       *)
(* channel.  In a configuration 0 and {} stand for no entry.               *)
(***************************************************************************)
EXTENDS Integers, Sequences, FiniteSets

CONSTANTS Sts, Tof, Bmon,
          StationOf,       \* station of an address
          NoStation        \* TOF: not a tracking station (TofStationId < 0)

Detectors == {Sts, Tof, Bmon}

VARIABLE selector   \* fMinNumDigis, fMinNumLayers, fMaskedChannels

fMinNumDigis == selector.fMinNumDigis
fMinNumLayers == selector.fMinNumLayers
fMaskedChannels == selector.fMaskedChannels

\* Mutant: a side is compared with the one of the digi before.
DigiBefore(digis, i) == IF i = 1 THEN 1 ELSE i - 1

\* The loop notes the side of the first digi of each address.
FirstDigi(digis, i) ==
  CHOOSE j \in 1 .. i :
    /\ digis[j].address = digis[i].address
    /\ \A k \in 1 .. j - 1 : digis[k].address # digis[i].address

\* An address is active once a digi from its other side comes.
ActiveStations(digis) ==
  {StationOf[digis[i].address] :
     i \in {k \in DOMAIN digis : digis[k].side # digis[FirstDigi(digis, k)].side}}
    \ {NoStation}

EnoughDigis(event) ==
  \A det \in Detectors : Len(event.digis[det]) >= fMinNumDigis[det]

EnoughLayers(event) ==
  \A det \in {Sts, Tof} :
    Cardinality(ActiveStations(event.digis[det])) >= fMinNumLayers[det]

\* Not implemented for BMON: an exception, if the event comes that far.
LayersThrow(event) ==
  EnoughDigis(event) /\ EnoughLayers(event) /\ fMinNumLayers[Bmon] > 0

\* Mutant: the masked digis are the ones that count.
NumMasked(det, digis) ==
  Cardinality({i \in DOMAIN digis : digis[i].address \in fMaskedChannels[det]})

\* Digis are only counted for BMON; for the others the number stays 0.
nDigisAccepted(det, digis) ==
  IF det = Bmon
  THEN Cardinality({i \in DOMAIN digis : digis[i].address \notin fMaskedChannels[det]})
  ELSE 0

EnoughUnmasked(event) ==
  \A det \in Detectors :
    fMaskedChannels[det] # {} /\ fMinNumDigis[det] > 0
      => nDigisAccepted(det, event.digis[det]) >= fMinNumDigis[det]

IsSelected(event) ==
  EnoughDigis(event) /\ EnoughLayers(event) /\ EnoughUnmasked(event)

-----------------------------------------------------------------------------
\* What the comments of the selector ask for: enough digis in channels that are
\* not masked, and enough stations with an address hit on both sides.
Meets(event) ==
  /\ \A det \in Detectors :
       Cardinality({i \in DOMAIN event.digis[det] :
                      event.digis[det][i].address \notin fMaskedChannels[det]})
         >= fMinNumDigis[det]
  /\ \A det \in {Sts, Tof} :
       LET hit == {<<event.digis[det][i].address, event.digis[det][i].side>> :
                     i \in DOMAIN event.digis[det]}
           active == {a \in DOMAIN StationOf : \A side \in {0, 1} : <<a, side>> \in hit}
       IN  Cardinality({StationOf[a] : a \in active} \ {NoStation}) >= fMinNumLayers[det]
=============================================================================
