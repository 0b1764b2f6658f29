-------------------------- MODULE MCGnnCompetition --------------------------
(* A long track A, a beggar B that meets it in two strips, a beggar C that   *)
(* meets the second of these hits on its other side, D on the strip that B   *)
(* keeps, E with a hit between A and B, F that can be trimmed, G of seven,   *)
(* H that meets C although both are short, J on the strip A gave for C.      *)
EXTENDS GnnCompetition, TLC

\* front and back strip of each hit
StripTable == <<
  <<"f1", "b1">>, <<"f2", "b2">>, <<"f3", "b3">>, <<"f4", "b4">>, <<"f5", "b5">>, <<"f6", "b6">>,  \* 1-6: A
  <<"f1", "b7">>, <<"f2", "b8">>, <<"f9", "b9">>, <<"f10", "b10">>, <<"f11", "b11">>,              \* 7-11: B
  <<"f12", "b2">>, <<"f13", "b13">>, <<"f14", "b14">>, <<"f15", "b15">>,                           \* 12-15: C
  <<"f16", "b8">>, <<"f17", "b17">>, <<"f18", "b18">>, <<"f19", "b19">>,                           \* 16-19: D
  <<"f3", "b9">>, <<"f13", "b21">>, <<"f2", "b22">> >>                                             \* 20-22: E, H, J
Fronts == [h \in 1 .. 22 |-> StripTable[h][1]]
Backs == [h \in 1 .. 22 |-> StripTable[h][2]]

Candidates == {
  [hits |-> <<1, 2, 3, 4, 5, 6>>, score |-> 9],                \* A
  [hits |-> <<7, 8, 9, 10, 11>>, score |-> 5],                 \* B
  [hits |-> <<12, 13, 14, 15>>, score |-> 4],                  \* C
  [hits |-> <<16, 17, 18, 19>>, score |-> 3],                  \* D
  [hits |-> <<20, 13, 14, 19>>, score |-> 5],                  \* E
  [hits |-> <<7, 13, 17, 18, 19>>, score |-> 6],               \* F
  [hits |-> <<1, 8, 13, 14, 15, 18, 19>>, score |-> 9],        \* G
  [hits |-> <<21, 17, 18, 11>>, score |-> 4],                  \* H
  [hits |-> <<22, 17, 18, 19>>, score |-> 2] }                 \* J
=============================================================================
