------------------------------- MODULE TsStream -------------------------------
(***************************************************************************)
(* What CbmMQTsSamplerRepReq::GetNewTs works out from the index of a new   *)
(* TS, the index of the last one and the number of TS so far: whether TS   *)
(* were missed in between, and which.                                      *)
(***************************************************************************)
EXTENDS Integers, Sequences

\* Indices increase; the first TS may be 0 or, wrongly seen as the successor
\* of the initial fulPrevTsIndex = 0, TS 1.
IsGap(prev, count, idx) ==
  /\ idx # prev + 1
  /\ ~ (prev = 0 /\ idx = 0 /\ count = 0)

\* Mutants: a run joined in the middle is not seen; the last TS is missed too.
FirstMissedNext(prev, count) == prev + 1
FirstMissedLast(prev, count) == prev

FirstMissed(prev, count) == IF prev = 0 /\ count = 0 THEN 0 ELSE prev + 1

\* The vector sent on the missed TS channel.
MissedIndices(prev, count, idx) ==
  [k \in 1 .. (idx - FirstMissed(prev, count)) |-> FirstMissed(prev, count) + k - 1]

\* Mutants: the count includes the missed TS; the last index is off by one.
EofOfIndex(prev, count) == [tag |-> "EOF", last |-> prev, total |-> prev + 1]
EofBeforeLast(prev, count) == [tag |-> "EOF", last |-> prev - 1, total |-> count]

Eof(prev, count) == [tag |-> "EOF", last |-> prev, total |-> count]
Stop == [tag |-> "STOP"]
=============================================================================
