----------------------------- MODULE L0Sampler -----------------------------
(***************************************************************************)
(* What a Sketch promises (sketch.h): it stands for the set of the indices *)
(* updated an odd number of times, sketches add up, and one query samples  *)
(* an index of the set.  An empty set and a single index are always        *)
(* recognised; otherwise the query may fail.                               *)
(***************************************************************************)
CONSTANTS
  Ids,       \* the indices of the vector
  Sketches,  \* the sketches, all made with one seed
  NoIdx,     \* the index returned when there is none
  MayFail    \* whether a query may answer FAIL

VARIABLES content, queried, result

(* Adding up: what is in both cancels. *)
Xor(A, B) == (A \ B) \cup (B \ A)

Good(i) == [ret |-> "GOOD", idx |-> i]
Zero == [ret |-> "ZERO", idx |-> NoIdx]
Fail == [ret |-> "FAIL", idx |-> NoIdx]
Thrown == [ret |-> "MultipleQuery", idx |-> NoIdx]

Answers(S) ==
  IF S = {} THEN {Zero}
  ELSE {Good(i) : i \in S}
       \cup IF MayFail /\ (\E i, j \in S : i # j) THEN {Fail} ELSE {}

Init ==
  /\ content = [s \in Sketches |-> {}]
  /\ queried = [s \in Sketches |-> FALSE]
  /\ result = Zero

Update(s, i) ==
  /\ content' = [content EXCEPT ![s] = Xor(@, {i})]
  /\ UNCHANGED <<queried, result>>

Add(s, t) ==
  /\ content' = [content EXCEPT ![s] = Xor(@, content[t])]
  /\ queried' = [queried EXCEPT ![s] = @ \/ queried[t]]
  /\ UNCHANGED result

(* A copy, or what another sketch wrote to a file, may be queried anew. *)
Copy(s, t) ==
  /\ content' = [content EXCEPT ![s] = content[t]]
  /\ queried' = [queried EXCEPT ![s] = FALSE]
  /\ UNCHANGED result

Query(s) ==
  /\ IF queried[s] THEN result' = Thrown ELSE result' \in Answers(content[s])
  /\ queried' = [queried EXCEPT ![s] = TRUE]
  /\ UNCHANGED content

ResetQueried(s) ==
  /\ queried' = [queried EXCEPT ![s] = FALSE]
  /\ UNCHANGED <<content, result>>

Next ==
  \E s \in Sketches :
    \/ \E i \in Ids : Update(s, i)
    \/ \E t \in Sketches \ {s} : Add(s, t) \/ Copy(s, t)
    \/ Query(s) \/ ResetQueried(s)

Spec == Init /\ [][Next]_<<content, queried, result>>
=============================================================================
