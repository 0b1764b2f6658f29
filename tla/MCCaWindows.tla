---------------------------- MODULE MCCaWindows ----------------------------
(* Four hits at two stations, in one or two streams: three of one particle  *)
(* and one of another, or two of each.  The intervals of event times are    *)
(* short, wide, bogus, or those of a station without time.                  *)
EXTENDS CaWindows, TLC

Before == -10
TwoStations == <<1, 2, 1, 2>>

Input(times, owners, starts) ==
  [min |-> [h \in 1 .. 4 |-> times[h][1]], max |-> [h \in 1 .. 4 |-> times[h][2]],
   particle |-> owners, starts |-> starts]

Long == {<<1, 3>>, <<5, 7>>, <<-20, 40>>, <<0, 0>>, <<60, 60>>}
Timeslices ==
  {Input(<<a, b, c, d>>, <<"p", "p", "p", "q">>, <<1, 3>>) :
     a \in Long, b \in {<<1, 3>>, <<5, 7>>}, c \in Long, d \in {<<0, 0>>, <<5, 7>>}}
  \cup
  {Input(<<a, b, c, d>>, <<"p", "q", "q", "p">>, <<1>>) :
     a \in {<<0, 0>>, <<1, 3>>, <<-20, 40>>}, b \in {<<1, 3>>, <<5, 7>>},
     c \in {<<3, 4>>, <<-20, 40>>}, d \in {<<0, 0>>, <<1, 3>>}}
=============================================================================
