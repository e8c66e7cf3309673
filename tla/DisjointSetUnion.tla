-------------------------- MODULE DisjointSetUnion --------------------------
(***************************************************************************)
(* The disjoint-set forest: DisjointSetUnion (dsu.h), and get_parent of    *)
(* Graph, which is the same function as find_set.                          *)
(***************************************************************************)
EXTENDS Naturals

CONSTANTS
  NumNodes,
  SizeRange  \* sizes are counted modulo SizeRange: 2^32 for node_id_t

Nodes == 0 .. NumNodes - 1

(* find_set(x): the nodes visited from x, the root they lead to, and the   *)
(* path compression of the calls for the nodes of X, which makes each node *)
(* visited point to its root.                                              *)
Visited(p, x) ==
  {y \in Nodes : \A S \in SUBSET Nodes :
      x \in S /\ (\A z \in S : p[z] \in S) => y \in S}
Root(p, x) == CHOOSE r \in Visited(p, x) : p[r] = r
Compress(p, X) ==
  [y \in Nodes |-> IF \E x \in X : y \in Visited(p, x) THEN Root(p, y) ELSE p[y]]

Identity == [v \in Nodes |-> v]
Ones == [v \in Nodes |-> 1]

(* A forest of its own: d.parent and d.size. *)
NewSets == [parent |-> Identity, size |-> Ones]

find_set(d, X) ==
  LET p == Compress(d.parent, X)
  IN  IF p = d.parent THEN d ELSE [d EXCEPT !.parent = p]

(* link tolerates i = j, which doubles the size. *)
link(d, i, j) ==
  LET a == IF d.size[i] < d.size[j] THEN j ELSE i
      b == IF d.size[i] < d.size[j] THEN i ELSE j
  IN  [d EXCEPT !.parent[b] = a, !.size[a] = (@ + d.size[b]) % SizeRange]

union_set(d, i, j) ==
  link(find_set(d, {i, j}), Root(d.parent, i), Root(d.parent, j))

(* temp[find_set(i)].insert(i) for every node i. *)
Partition(p) == {{v \in Nodes : Root(p, v) = Root(p, r)} : r \in Nodes}
=============================================================================
