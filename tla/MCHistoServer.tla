---------------------------- MODULE MCHistoServer ----------------------------
(* Two devices that share one histogram name, with a canvas each; the       *)
(* second has a histogram of its own, of which the first may have another   *)
(* class.                                                                   *)
EXTENDS HistoServer, TLC

CONSTANTS s1, s2, h1, h2

Types == (s1 :> (h1 :> "TH1" @@ h2 :> "TH2")) @@ (s2 :> (h1 :> "TH1" @@ h2 :> "TProfile"))
Arrays == (s1 :> <<h1, h2>>) @@ (s2 :> <<h2, h1>>)
OwnCanvases == (s1 :> <<[name |-> "c1", objs |-> {h1}]>>)
            @@ (s2 :> <<[name |-> "c2", objs |-> {h1, h2}]>>)
OneOlder == {(s1 :> "combined") @@ (s2 :> t) : t \in {"combined", "separate"}}
=============================================================================
