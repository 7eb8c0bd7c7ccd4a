---------------------------- MODULE MCIvfSearch -----------------------------
(* Small datasets on a grid: five clusters, one of them empty in the       *)
(* second, with one, two and three vectors to a cluster.                   *)
EXTENDS IvfSearch, TLC

MCDatasets ==
  {[vec   |-> <<<<0,0>>, <<1,0>>, <<0,2>>, <<3,3>>, <<2,3>>, <<-3,1>>, <<-2,2>>, <<-1,-3>>, <<3,-2>>>>,
    label |-> <<1,0,1,1,0,1,0,1,0>>,
    cent  |-> <<<<0,1>>, <<3,3>>, <<-2,2>>, <<-1,-3>>, <<3,-2>>>>],
   [vec   |-> <<<<1,1>>, <<1,1>>, <<2,1>>, <<-1,0>>, <<-2,0>>, <<0,-3>>, <<3,-3>>>>,
    label |-> <<1,1,1,0,1,0,1>>,
    cent  |-> <<<<1,1>>, <<-1,0>>, <<3,3>>, <<0,-3>>, <<3,-3>>>>],
   [vec   |-> <<<<0,0>>, <<0,1>>, <<1,0>>, <<1,1>>, <<2,2>>, <<2,0>>, <<-3,-3>>, <<3,3>>>>,
    label |-> <<1,1,1,1,1,1,0,0>>,
    cent  |-> <<<<0,0>>, <<1,1>>, <<2,2>>, <<-3,-3>>, <<3,3>>>>]}

MCQueries == {<<x, y>> : x \in {-3, -2, 0, 1, 2}, y \in {-2, 0, 1, 3}}
MCEscalateN == [n \in 0 .. 5 |-> IF n = 3 THEN 3 ELSE 1]
MCThreshold == [n \in 0 .. 5 |-> IF n = 5 THEN 6 ELSE 0]

ASSUME MCDistancesFit == DistancesFit
ASSUME MCPaddingFar == PaddingFar

=============================================================================
