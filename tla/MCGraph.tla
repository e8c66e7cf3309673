------------------------------ MODULE MCGraph ------------------------------
(* Model-checking instances of Graph: the edges the client may toggle are  *)
(* those of Nodes, workers and inserters are interchangeable model values. *)
EXTENDS Graph, TLC

Symmetry == Permutations(Workers) \cup Permutations(Inserters)
=============================================================================
