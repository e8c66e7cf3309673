------------------------------ MODULE MCSketch ------------------------------
(* Model-checking instances of Sketch: the indices 1, 2 and 3, which XOR   *)
(* to zero, checksums without collisions, and columns of hashes.           *)
EXTENDS Sketch, TLC

Words == SUBSET {0, 1}
Indices == Words \ {{}}
Checksums == ({} :> {3}) @@ ({0} :> {0}) @@ ({1} :> {1}) @@ ({0, 1} :> {2})
(* A column of every possible hash. *)
AnyColumns ==
  {h \in [0 .. NumBuckets - 1 -> [Words -> SUBSET (0 .. ColBits - 1)]] :
     \A i \in 0 .. NumBuckets - 1 : h[i][{}] = {}}
(* Two columns, with related but different hashes. *)
TwoColumns ==
  {h \in [0 .. 1 -> [Words -> Words]] :
     h[0][{}] = {} /\ h[1] = [x \in Words |-> SymDiff(h[0][x], x)]}
Symmetry == Permutations(Sketches)
=============================================================================
