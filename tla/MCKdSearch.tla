---------------------------- MODULE MCKdSearch ------------------------------
(* Two datasets on a grid with three and two partitions; the largest tree  *)
(* is two levels deep, as deep as the stack has room for.                  *)
EXTENDS KdSearch, TLC

MCKeyTests == {[axis |-> 1, above |-> 1, weight |-> 1], [axis |-> 2, above |-> 2, weight |-> 2]}

MCDatasets ==
  {[vec   |-> <<<<0,0>>, <<1,0>>, <<0,2>>, <<3,3>>, <<2,3>>, <<-3,1>>, <<-2,2>>, <<-1,-3>>, <<-3,-2>>,
                <<0,-1>>>>,
    label |-> <<1,0,1,1,0,1,0,1,0,1>>],
   [vec   |-> <<<<1,1>>, <<1,1>>, <<-1,1>>, <<-1,0>>, <<-2,0>>, <<0,-3>>, <<1,-3>>, <<-3,3>>, <<3,-2>>>>,
    label |-> <<1,1,1,0,1,0,1,0,1>>]}

MCQueries == {<<-3,-2>>, <<-2,3>>, <<0,1>>, <<1,-2>>, <<2,-1>>, <<2,0>>, <<3,3>>}

ASSUME MCSizesFit == DistancesFit /\ TreesFit /\ PaddingFar

=============================================================================
