------------------------ MODULE ConnectedComponents ------------------------
(***************************************************************************)
(* What a Graph promises its client (graph.h:34-37, 122-128): it accepts   *)
(* updates while it is open, connected_components answers with exactly the *)
(* connected components of the updates so far or throws, and               *)
(* connected_components(false) freezes the graph for good.                 *)
(***************************************************************************)
EXTENDS Naturals

CONSTANT NumNodes

VARIABLES
  edges,   \* the graph described by the updates
  phase,   \* "open", "frozen", or inside connected_components(true / false)
  answer   \* the components last returned, {} after an exception

Nodes == 0 .. NumNodes - 1
Edges == {e \in Nodes \X Nodes : e[1] < e[2]}

(* x and y are connected: no set that edges never leave separates them.    *)
Closed(S) == \A e \in edges : e[1] \in S <=> e[2] \in S
Component(x) ==
  {y \in Nodes : \A S \in SUBSET Nodes : x \in S /\ Closed(S) => y \in S}
Components == {Component(x) : x \in Nodes}

Init == edges \subseteq Edges /\ phase = "open" /\ answer = {}

Update(e) ==
  /\ phase = "open"
  /\ edges' = IF e \in edges THEN edges \ {e} ELSE edges \cup {e}
  /\ UNCHANGED <<phase, answer>>

Begin(cont) ==
  /\ phase = "open" \/ (phase = "frozen" /\ ~cont)
  /\ phase' = IF cont THEN "querying" ELSE "freezing"
  /\ UNCHANGED <<edges, answer>>

End ==
  /\ \/ phase = "querying" /\ phase' = "open"
     \/ phase = "freezing" /\ phase' = "frozen"
  /\ answer' \in {Components, {}}
  /\ UNCHANGED edges

Next ==
  \/ \E e \in Edges : Update(e)
  \/ \E cont \in BOOLEAN : Begin(cont)
  \/ End

Spec == Init /\ [][Next]_<<edges, phase, answer>>
=============================================================================
