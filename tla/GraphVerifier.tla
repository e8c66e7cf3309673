--------------------------- MODULE GraphVerifier ---------------------------
(***************************************************************************)
(* MatGraphVerifier: the plugin that tests of the graph run alongside      *)
(* boruvka_emulation (VERIFY_SAMPLES_F).  It keeps a forest and component  *)
(* sets of its own, and throws when the algorithm joins or completes       *)
(* components it should not.  Its adjacency matrix is the set E of edges.  *)
(***************************************************************************)
EXTENDS DisjointSetUnion, FiniteSetsExt

(* kruskal: union_set over the cells of the matrix, row by row. *)
kruskal(E) ==
  LET cells == NumNodes * NumNodes
      cell(c) == <<(c - 1) \div NumNodes, (c - 1) % NumNodes>>
      sets[c \in 0 .. cells] ==
        IF c = 0 THEN NewSets
        ELSE IF cell(c) \in E THEN union_set(sets[c - 1], cell(c)[1], cell(c)[2])
        ELSE sets[c - 1]
  IN  Partition(sets[cells].parent)

reset_cc_state(E) ==
  [kruskal_ref |-> kruskal(E), sets |-> NewSets,
   boruvka_cc |-> [v \in Nodes |-> {v}]]

(* verify_edge(e) throws BadEdgeException unless this holds ... *)
EdgeVerified(vf, E, e) ==
  /\ e[2] \notin vf.boruvka_cc[Root(vf.sets.parent, e[1])]
  /\ e[1] \notin vf.boruvka_cc[Root(vf.sets.parent, e[2])]
  /\ e \in E

(* Faulty: the component of the second endpoint always joins the first's. *)
verify_edge_unswapped(vf, e) ==
  LET f == Root(vf.sets.parent, e[1])
      s == Root(vf.sets.parent, e[2])
  IN  [vf EXCEPT !.sets = link(find_set(@, {e[1], e[2]}), f, s),
                 !.boruvka_cc[f] = @ \cup vf.boruvka_cc[s]]

(* ... and joins the two components, at the root that the link chose. *)
verify_edge(vf, e) ==
  LET f == Root(vf.sets.parent, e[1])
      s == Root(vf.sets.parent, e[2])
      linked == link(find_set(vf.sets, {e[1], e[2]}), f, s)
      to == IF linked.parent[s] = s THEN s ELSE f
      from == IF linked.parent[s] = s THEN f ELSE s
  IN  [vf EXCEPT !.sets = linked,
                 !.boruvka_cc[to] = @ \cup vf.boruvka_cc[from]]

(* verify_cc(v) throws NotCCException unless this holds. *)
ComponentVerified(vf, v) ==
  vf.boruvka_cc[Root(vf.sets.parent, v)] \in vf.kruskal_ref

verify_cc(vf, v) == [vf EXCEPT !.sets = find_set(@, {v})]
=============================================================================
