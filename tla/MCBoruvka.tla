----------------------------- MODULE MCBoruvka -----------------------------
(* Model-checking instances of Boruvka: the graphs behaviours start from,  *)
(* and as many sketches as the code gives a supernode.                     *)
EXTENDS Boruvka

AllGraphs == SUBSET Edges
(* On four nodes: a path, a cycle, a star, a triangle with a node apart. *)
Shapes == {{<<0, 2>>, <<1, 2>>, <<1, 3>>},
           {<<0, 1>>, <<1, 2>>, <<2, 3>>, <<0, 3>>},
           {<<0, 3>>, <<1, 3>>, <<2, 3>>},
           {<<0, 1>>, <<1, 3>>, <<0, 3>>}}
TwoPairs == {{<<0, 1>>, <<2, 3>>}}
CodeSketches == SketchCount(NumNodes)
=============================================================================
