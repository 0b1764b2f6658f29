------------------------------ MODULE TsArchive ------------------------------
(***************************************************************************)
(* What the online chain promises about its output file.  The timeslices   *)
(* taken from the source are accounted for in index order, without holes   *)
(* and without repetition: each one with a full entry, each index between  *)
(* them as missed.  The file is closed either complete, when everything    *)
(* that was taken is in it, or early after a failure.                      *)
(***************************************************************************)
EXTENDS Integers, Sequences

VARIABLES taken,    \* TS counted at the source
          archive,  \* sequence of [ts, full]
          closed    \* "no", "complete", "early"

archiveVars == <<taken, archive, closed>>

ArchiveInit == taken = {} /\ archive = <<>> /\ closed = "no"

\* The source delivers TS in index order.
Take ==
  /\ \E i \in taken' : taken' = taken \cup {i} /\ \A j \in taken : j < i
  /\ UNCHANGED <<archive, closed>>

IsPrefixOf(s, t) == Len(s) <= Len(t) /\ \A i \in 1 .. Len(s) : t[i] = s[i]

\* The entries added continue the sequence of indices.  A full entry is a TS
\* that was taken, a missed one was not and is behind one that was.
Extends ==
  /\ IsPrefixOf(archive, archive')
  /\ \A i \in (Len(archive) + 1) .. Len(archive') :
       /\ i > 1 => archive'[i].ts = archive'[i - 1].ts + 1
       /\ archive'[i].full = (archive'[i].ts \in taken)
       /\ \E j \in taken : archive'[i].ts <= j

Write ==
  /\ closed = "no"
  /\ Extends
  /\ closed' = "no" \/ closed' = "complete"
  /\ closed' = "complete" =>
       \A j \in taken : \E i \in DOMAIN archive' :
         archive'[i].full /\ archive'[i].ts = j
  /\ UNCHANGED taken

Abort ==
  /\ closed = "no"
  /\ closed' = "early"
  /\ UNCHANGED <<taken, archive>>

ArchiveNext == Take \/ Write \/ Abort

ArchiveSpec == ArchiveInit /\ [][ArchiveNext]_archiveVars
=============================================================================
