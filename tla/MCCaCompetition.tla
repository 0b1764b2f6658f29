--------------------------- MODULE MCCaCompetition ---------------------------
(* Five stations; candidates of three and four hits that contend for hits   *)
(* and for single strips, with ties.  The last two can stop a dead one that *)
(* stops another.                                                           *)
EXTENDS CaCompetition, TLC

StationOf == <<0, 1, 2, 3, 4, 0, 2, 3, 1, 2, 0>>
Fronts == <<"f1", "f2", "f3", "f4", "f5", "f6", "f3", "f8", "f9", "f10", "f11">>
Backs == <<"b1", "b2", "b3", "b4", "b5", "b6", "b7", "b4", "b9", "b3", "b11">>

Found == {[hits |-> <<1, 2, 3, 4>>, chi2 |-> 2],
          [hits |-> <<6, 2, 7>>, chi2 |-> 1],
          [hits |-> <<1, 2, 7>>, chi2 |-> 1],
          [hits |-> <<1, 2, 3>>, chi2 |-> 2],
          [hits |-> <<3, 4, 5>>, chi2 |-> 1],
          [hits |-> <<6, 9, 8>>, chi2 |-> 1],
          [hits |-> <<6, 9, 10>>, chi2 |-> 2],
          [hits |-> <<1, 2, 10>>, chi2 |-> 0],
          [hits |-> <<11, 10, 5>>, chi2 |-> 0]}
=============================================================================
