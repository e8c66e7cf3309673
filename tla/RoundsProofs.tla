---------------------------- MODULE RoundsProofs ----------------------------
(***************************************************************************)
(* Proofs that connected_components is correct for every number of nodes   *)
(* and sketches, every graph and every outcome of the samplers: what       *)
(* follows from the invariant of the rounds.                               *)
(*                                                                         *)
(* Then that a supernode does not run out of sketches.  Every round at     *)
(* least doubles the nodes in a tree that is sampled again, and the number *)
(* of sketches exceeds the number of times that a tree can double.         *)
(***************************************************************************)
EXTENDS LinkProofs, ForestProofs, FiniteSetTheorems

CallInv == TypeInv /\ QueryInv /\ RoundsInv

(* Every step keeps the whole invariant; one step per action. *)
LEMMA RoundsStep == NoReuse /\ CallInv /\ [Next]_vars => CallInv'
<1> SUFFICES ASSUME NoReuse, CallInv, [Next]_vars PROVE CallInv'
  BY Zenon
<1>1. TypeInv /\ QueryInv /\ RoundsInv
  BY Zenon DEF CallInv
<1>2. TypeInv' /\ QueryInv'
  BY <1>1, TypeStep, QueryStep, Zenon
<1>3. CASE \E e \in Edges : Update(e)
  BY <1>1, <1>2, <1>3, UpdateRounds, Zenon DEF CallInv
<1>4. CASE \E c \in BOOLEAN : Start(c)
  BY <1>1, <1>2, <1>4, StartRounds, Zenon DEF CallInv
<1>5. CASE (\E r \in Nodes : Sample(r)) \/ SampleDone
  BY <1>1, <1>2, <1>5, SampleRounds, SampleDoneRounds, Zenon DEF CallInv
<1>6. CASE LinkFail \/ LinkZero \/ LinkGood \/ LinkDone
  BY <1>1, <1>2, <1>6, LinkFailRounds, LinkZeroRounds, LinkGoodRounds, LinkDoneRounds, Zenon
     DEF CallInv
<1>7. CASE \E a \in Nodes : Copy(a) \/ Merge(a)
  BY <1>1, <1>2, <1>7, CopyRounds, MergeRounds, Zenon DEF CallInv
<1>8. CASE InducedFailure \/ NextRound \/ LastRound
  BY <1>1, <1>2, <1>8, RoundOverRounds, Zenon DEF CallInv
<1>9. CASE Cleanup \/ Reset
  BY <1>1, <1>2, <1>9, CleanupRounds, ResetRounds, Zenon DEF CallInv
<1>10. CASE UNCHANGED vars
  BY <1>1, <1>2, <1>10, StutterRounds, Zenon DEF CallInv
<1> QED BY <1>3, <1>4, <1>5, <1>6, <1>7, <1>8, <1>9, <1>10, Zenon DEF Next, Step, Finished

(* The whole invariant holds in every reachable state. *)
LEMMA RoundsInvariant == NoReuse => (Spec => []CallInv)
<1> SUFFICES ASSUME NoReuse PROVE Spec => []CallInv
  BY Zenon
<1>1. Init => CallInv
  BY TypeInit, QueryInit, RoundsInit, Zenon DEF CallInv
<1>2. CallInv /\ [Next]_vars => CallInv'
  BY RoundsStep, Zenon
<1> QED BY <1>1, <1>2, PTL DEF Spec
(* connected_components returns exactly "the connected components in the   *)
(* graph" (graph.h:126): whenever the rounds end without an exception the  *)
(* trees of the forest are the components of the updates so far, on every  *)
(* graph, whatever was sampled, however often samplers failed, and after   *)
(* any earlier calls.                                                      *)
THEOREM ComponentsCorrect == NoReuse => (Spec => []CorrectForest)
<1>1. CallInv => CorrectForest
  BY RoundsCorrect, Zenon DEF CallInv
<1> QED BY <1>1, RoundsInvariant, PTL

(* Every parent in the forest is a node that the graph connects to its     *)
(* child, in the middle of a call as much as at its end.                   *)
THEOREM ForestSound == NoReuse => (Spec => []SoundForest)
<1>1. CallInv => SoundForest
  <2> SUFFICES ASSUME CallInv, NEW v \in Nodes PROVE parent[v] \in Component(v)
    BY Zenon DEF SoundForest
  <2>1. Sound /\ Forest(parent) /\ edges \in SUBSET Edges
    BY Typed, Zenon DEF CallInv, RoundsInv
  <2>2. parent[v] \in Nodes /\ Rt(parent[v]) = Rt(v)
    BY <2>1, RootOfParent, Zenon DEF Rt
  <2>3. Rt(v) \in Reach(edges, v) /\ Rt(v) \in Reach(edges, parent[v])
    BY <2>1, <2>2, ComponentReach, Zenon DEF Sound
  <2>4. Reach(edges, parent[v]) = Reach(edges, v)
    BY <2>1, <2>2, <2>3, ReachSame, Zenon
  <2> QED BY <2>1, <2>2, <2>4, ReachLeast, ComponentReach, Zenon
<1> QED BY <1>1, RoundsInvariant, PTL

(* verify_edge and verify_cc of the test's verifier never throw: its own   *)
(* forest, which picks other roots and wraps its sizes, keeps step with    *)
(* that of the graph.                                                      *)
THEOREM VerifierInStep == NoReuse => (Spec => []VerifierAgrees)
<1>1. CallInv => VerifierAgrees
  BY Zenon DEF CallInv, RoundsInv, Control
<1> QED BY <1>1, RoundsInvariant, PTL

(* After connected_components(true), with copies in memory or on disk, and *)
(* whether it returned or threw in any round, the sketches, the query      *)
(* state and the forest are as the updates left them.                      *)
THEOREM StreamCanGoOn == NoReuse => (Spec => []Restored)
<1>1. CallInv => Restored
  BY Zenon DEF CallInv, RoundsInv
<1> QED BY <1>1, RoundsInvariant, PTL

(* The parallel merges of a round never touch the same supernode.          *)
THEOREM MergesDisjoint == NoReuse => (Spec => []MergesIndependent)
<1>1. CallInv => MergesIndependent
  <2> SUFFICES ASSUME CallInv, pc = "merge"
               PROVE  /\ IsInjective(reps)
                      /\ \A a, c \in Nodes : to_merge[a] # <<>> =>
                           /\ a \in Range(reps) /\ a \notin Range(to_merge[c])
                           /\ a # c => Range(to_merge[a]) \cap Range(to_merge[c]) = {}
    BY Zenon DEF MergesIndependent
  <2>1. Control /\ Merged
    BY Zenon DEF CallInv, RoundsInv
  <2>2. PICK part \in [Nodes -> SUBSET Nodes] : Joined(part)
    BY <2>1, Zenon DEF Merged
  <2>3. ASSUME NEW c \in Nodes, NEW x \in Range(to_merge[c])
        PROVE  Rt(c) = c /\ Rt(x) = c /\ x # c
    <3>1. to_merge[c] # <<>>
      BY <2>3, SMTT(30) DEF Range
    <3>2. Rt(c) = c /\ Heaped(part, c)
      BY <2>2, <3>1, Zenon DEF Joined
    <3> QED BY <3>2, Zenon DEF Heaped, Heap
  <2>4. \A a \in Nodes : to_merge[a] # <<>> => Rt(a) = a
    BY <2>2, Zenon DEF Joined
  <2> QED BY <2>1, <2>3, <2>4, SMTT(30) DEF Control
<1> QED BY <1>1, RoundsInvariant, PTL

(* The steps within a call change nothing that the client sees. *)
LEMMA InnerSteps ==
  ASSUME Control,
         \/ (\E r \in Nodes : Sample(r)) \/ SampleDone
         \/ LinkFail \/ LinkZero \/ LinkGood \/ LinkDone
         \/ (\E a \in Nodes : Copy(a) \/ Merge(a))
         \/ InducedFailure \/ NextRound \/ LastRound \/ (Cleanup /\ cont)
  PROVE  UNCHANGED <<edges, Phase, answer>>
<1>1. /\ pc # "idle" /\ pc' # "idle" /\ UNCHANGED <<edges, update_locked, cont, answer>>
  <2>1. CASE (\E r \in Nodes : Sample(r)) \/ SampleDone
    BY <2>1, Zenon DEF Sample, SampleDone, callVars, resultVars
  <2>2. CASE LinkFail \/ LinkZero
    BY <2>2, Zenon DEF LinkFail, LinkZero, AtAnswer, callVars, resultVars
  <2>3. CASE LinkGood
    <3>1. PICK e, a, b, p : Linked(e, a, b, p)
      BY <2>3, LinkGoodCases, Zenon
    <3> QED BY <3>1, Zenon DEF Linked, callVars, resultVars
  <2>4. CASE LinkDone
    BY <2>4, Zenon DEF LinkDone, callVars, resultVars
  <2>5. CASE \E a \in Nodes : Copy(a) \/ Merge(a)
    BY <2>5, Zenon DEF Copy, Merge, callVars, resultVars
  <2>6. CASE InducedFailure \/ NextRound \/ LastRound
    BY <2>6, Zenon DEF InducedFailure, NextRound, LastRound, RoundOver, callVars, resultVars
  <2>7. CASE Cleanup /\ cont
    BY <2>7, Zenon DEF Cleanup, callVars
  <2> QED BY <2>1, <2>2, <2>3, <2>4, <2>5, <2>6, <2>7, Zenon
<1> QED BY <1>1, Zenon DEF Control, Phase

(* What the client sees of the other steps is what it was promised. *)
LEMMA OuterSteps ==
  ASSUME NoReuse, CallInv,
         \/ (\E e \in Edges : Update(e)) \/ (\E c \in BOOLEAN : Start(c))
         \/ (Cleanup /\ ~cont) \/ Reset
  PROVE  Promise!Next
<1>1. Control /\ Ready /\ CorrectForest
  BY RoundsCorrect, Zenon DEF CallInv, RoundsInv
<1>2. CASE \E e \in Edges : Update(e)
  <2>1. PICK e \in Edges : Update(e)
    BY <1>2, Zenon
  <2>2. /\ ~update_locked /\ edges' = SymDiff(edges, {e})
        /\ UNCHANGED <<update_locked, pc, cont, answer>>
    BY <2>1, Zenon DEF Update, resultVars
  <2>3. e \in Promise!Edges
    BY Zenon DEF Edges, Nodes, Promise!Edges, Promise!Nodes
  <2>4. Promise!Update(e)
    BY <2>2, Zenon DEF Promise!Update, Phase, SymDiff
  <2> QED BY <2>3, <2>4, Zenon DEF Promise!Next
<1>3. CASE \E c \in BOOLEAN : Start(c)
  <2>1. PICK c \in BOOLEAN : Start(c)
    BY <1>3, Zenon
  <2>2. /\ pc = "idle" /\ (c /\ update_locked => ReuseMerged) /\ pc' = "sample"
        /\ cont' = c /\ update_locked' = TRUE /\ UNCHANGED <<edges, answer>>
    BY <2>1, Zenon DEF Start
  <2>3. Promise!Begin(c)
    BY <2>2, Zenon DEF NoReuse, Promise!Begin, Phase
  <2> QED BY <2>3, Zenon DEF Promise!Next
<1>4. CASE Cleanup /\ ~cont
  <2>1. /\ pc = "cleanup" /\ pc' = "idle" /\ update_locked
        /\ answer' = IF thrown = "none" THEN Partition(parent) ELSE {}
        /\ UNCHANGED <<edges, update_locked, cont>>
    BY <1>1, <1>4, Zenon DEF Control, Cleanup, callVars
  <2>2. answer' \in {Components, {}}
    BY <1>1, <2>1, Zenon DEF CorrectForest
  <2>3. Phase = "freezing" /\ Phase' = "frozen"
    BY <1>4, <2>1, Zenon DEF Phase
  <2> QED BY <2>1, <2>2, <2>3, Zenon DEF Promise!Next, Promise!End, Components
<1>5. CASE Reset
  <2>1. /\ pc = "reset" /\ update_locked /\ cont /\ update_locked' = FALSE
        /\ answer' = found /\ edges' = edges
    BY <1>1, <1>5, Zenon DEF Control, Reset
  <2>2. answer' \in {Components, {}}
    BY <1>1, <2>1, Zenon DEF Ready
  <2>3. Phase = "querying" /\ Phase' = "open"
    BY <2>1, Zenon DEF Phase
  <2> QED BY <2>1, <2>2, <2>3, Zenon DEF Promise!Next, Promise!End, Components
<1> QED BY <1>2, <1>3, <1>4, <1>5, Zenon

(* The algorithm implements its promise to the client (module              *)
(* ConnectedComponents): updates while the graph is open, calls that       *)
(* answer with exactly the components or throw, and nothing else that the  *)
(* client could see.                                                       *)
THEOREM ImplementsPromise == NoReuse => (Spec => KeepsPromise)
<1> SUFFICES ASSUME NoReuse PROVE Spec => KeepsPromise
  BY Zenon
<1>1. Init => Promise!Init
  <2> SUFFICES ASSUME Init PROVE Promise!Init
    BY Zenon
  <2>1. edges \subseteq Promise!Edges
    BY BoruvkaAssumption, Zenon DEF Init, Edges, Nodes, Promise!Edges, Promise!Nodes
  <2> QED BY <2>1, Zenon DEF Init, Promise!Init, Phase
<1>2. CallInv /\ [Next]_vars => [Promise!Next]_<<edges, Phase, answer>>
  <2> SUFFICES ASSUME CallInv, [Next]_vars
               PROVE  Promise!Next \/ UNCHANGED <<edges, Phase, answer>>
    BY Zenon
  <2>1. Control
    BY Zenon DEF CallInv, RoundsInv
  <2>2. CASE UNCHANGED vars
    BY <2>2, Zenon DEF vars, callVars, resultVars, Phase
  <2>3. CASE \/ (\E e \in Edges : Update(e)) \/ (\E c \in BOOLEAN : Start(c))
             \/ (Cleanup /\ ~cont) \/ Reset
    BY <2>3, OuterSteps, Zenon
  <2>4. CASE \/ (\E r \in Nodes : Sample(r)) \/ SampleDone
             \/ LinkFail \/ LinkZero \/ LinkGood \/ LinkDone
             \/ (\E a \in Nodes : Copy(a) \/ Merge(a))
             \/ InducedFailure \/ NextRound \/ LastRound \/ (Cleanup /\ cont)
    BY <2>1, <2>4, InnerSteps, Zenon
  <2> QED BY <2>2, <2>3, <2>4, Zenon DEF Next, Step, Finished
<1> QED BY <1>1, <1>2, RoundsInvariant, PTL DEF Spec, KeepsPromise, Promise!Spec

(* The range of a function holds its values. *)
LEMMA InRange ==
  ASSUME NEW f, NEW i \in DOMAIN f
  PROVE  f[i] \in Range(f)
BY Zenon DEF Range

(* The empty sequence has none. *)
LEMMA EmptyRange == Range(<<>>) = {}
BY DEF Range

(* There are enough sketches for every round to use up one. *)
Plenty == NumNodes < Power(2)[NumSketches]

(* A call starts on supernodes that no call has merged for good. *)
FirstCall == pc = "idle" /\ pc' # "idle" => ~update_locked

(* Unless a sampler failed, n rounds have used up n sketches of every      *)
(* representative and each of them stands for 2^n nodes.                   *)
Wide(r, n) == Cardinality(Tree(r)) >= Power(2)[n]
Level(n) ==
  /\ thrown = "none"
  /\ pc = "sample" => \A r \in Range(reps) :
       /\ Rt(r) = r /\ Wide(r, n)
       /\ IF r \in todo THEN idx[r] = n ELSE idx[r] = n + 1 /\ query[r].ret # "FAIL"
  /\ pc = "link" =>
       /\ new_reps = <<>>
       /\ \A r \in Range(reps) : idx[r] = n + 1 /\ query[r].ret # "FAIL"
       /\ \A r \in Nodes : Live(r) => Wide(r, n)
       /\ \A a \in Nodes : to_merge[a] # <<>> =>
            Wide(a, n + 1) /\ Range(to_merge[a]) \subseteq Range(reps)
  /\ pc = "merge" => \A a \in Range(reps) :
       Rt(a) = a /\ Wide(a, n + 1) /\ \A b \in Heap(a) : idx[b] = n + 1
InRound == pc \in {"sample", "link", "merge"} /\ ~failed
Halving == EnoughSketches /\ (InRound => \E n \in Nat : Level(n))

(* A tree has at most as many nodes as there are. *)
LEMMA TreeSize ==
  ASSUME NEW r
  PROVE  /\ IsFiniteSet(Tree(r)) /\ Cardinality(Tree(r)) \in Nat
         /\ Cardinality(Tree(r)) <= NumNodes
<1>1. NumNodes \in Nat \ {0}
  BY BoruvkaAssumption, Zenon
<1>2. IsFiniteSet(0 .. NumNodes - 1) /\ Cardinality(0 .. NumNodes - 1) = NumNodes
  <2>1. 0 \in Int /\ NumNodes - 1 \in Int /\ ~(0 > NumNodes - 1)
    BY <1>1
  <2>2. /\ IsFiniteSet(0 .. NumNodes - 1)
        /\ Cardinality(0 .. NumNodes - 1) = (NumNodes - 1) - 0 + 1
    BY <2>1, FS_Interval, Zenon
  <2> QED BY <1>1, <2>2
<1>3. Tree(r) \subseteq 0 .. NumNodes - 1
  BY Zenon DEF Tree, Nodes
<1> QED BY <1>2, <1>3, FS_Subset, FS_CardinalityType, Zenon

(* Two trees, each with 2^n nodes, are joined. *)
LEMMA JoinWide ==
  ASSUME NEW w, NEW l, Join(w, l), NEW n \in Nat, Wide(w, n), Wide(l, n)
  PROVE  Wide(w, n + 1)'
<1>1. Tree(w)' = Tree(w) \cup Tree(l)
  BY JoinTrees, Zenon
<1>2. Tree(w) \cap Tree(l) = {}
  BY Zenon DEF Join, Tree
<1>3. /\ IsFiniteSet(Tree(w)) /\ Cardinality(Tree(w)) \in Nat
      /\ IsFiniteSet(Tree(l)) /\ Cardinality(Tree(l)) \in Nat
  BY TreeSize, Zenon
<1>4. Cardinality(Tree(w) \cup Tree(l))
        = Cardinality(Tree(w)) + Cardinality(Tree(l)) - Cardinality({})
  BY <1>2, <1>3, FS_Union, Zenon
<1>5. Cardinality({}) = 0
  BY FS_EmptySet, Zenon
<1>6. /\ Cardinality(Tree(w)) >= Power(2)[n] /\ Cardinality(Tree(l)) >= Power(2)[n]
      /\ Power(2)[n] \in Nat /\ Power(2)[n + 1] = 2 * Power(2)[n]
  BY PowerFacts, Zenon DEF Wide
<1>7. Cardinality(Tree(w) \cup Tree(l)) >= Power(2)[n + 1]
  BY <1>3, <1>4, <1>5, <1>6
<1> QED BY <1>1, <1>7, Zenon DEF Wide

(* A step that moves no root keeps the sizes of the trees. *)
LEMMA KeepWide ==
  ASSUME SameTrees, UNCHANGED edges, NEW r, NEW n, Wide(r, n)
  PROVE  Wide(r, n)'
BY KeepTrees, Zenon DEF Wide

(* What starts a call, and what leaves the rounds or keeps out of them. *)
LEMMA StartHalving ==
  ASSUME CallInv, NEW c, Start(c), ~update_locked
  PROVE  Halving'
<1>1. /\ pc = "idle" /\ pc' = "sample" /\ thrown' = "none" /\ todo' = Nodes
      /\ reps' = [i \in 1 .. NumNodes |-> i - 1] /\ UNCHANGED <<parent, idx>>
  BY Zenon DEF Start, supernodeVars
<1>2. parent = Identity /\ \A v \in Nodes : idx[v] = 0
  BY <1>1, Zenon DEF CallInv, RoundsInv, Restored
<1>3. \A v \in Nodes : Rt(v)' = v
  BY <1>1, <1>2, NewSetsForest, Zenon DEF Rt, NewSets
<1>4. Range(reps') \subseteq Nodes
  BY <1>1, BoruvkaAssumption DEF Range, Nodes
<1>5. ASSUME NEW v \in Nodes PROVE Wide(v, 0)'
  <2>1. Tree(v)' = {v}
    BY <1>3, Zenon DEF Tree
  <2>2. Cardinality({v}) = 1
    BY FS_Singleton, Zenon
  <2>3. Power(2)[0] = 1 /\ 1 >= 1
    BY PowerFacts
  <2> QED BY <2>1, <2>2, <2>3, Zenon DEF Wide
<1>6. Level(0)'
  BY <1>1, <1>2, <1>3, <1>4, <1>5, Zenon DEF Level
<1> QED BY <1>1, <1>6, Zenon DEF Halving, EnoughSketches

(* Until a sampler fails, a round is at some level. *)
LEMMA AtLevel ==
  ASSUME Halving, pc \in {"sample", "link", "merge"}, ~failed
  PROVE  \E n \in Nat : Level(n)
BY Zenon DEF Halving, InRound

(* Once a sampler has failed there is nothing to show. *)
LEMMA FailedHalving == failed' => Halving'
BY Zenon DEF Halving, EnoughSketches, InRound

(* A step to the level n. *)
LEMMA LevelHalving ==
  ASSUME NEW n \in Nat, Level(n)'
  PROVE  Halving'
<1>1. EnoughSketches'
  BY Zenon DEF Level, EnoughSketches
<1>2. (\E m \in Nat : Level(m))'
  BY Zenon
<1> QED BY <1>1, <1>2, Zenon DEF Halving

(* A sketch is left for every sample, since no tree is larger than the     *)
(* graph.                                                                  *)
LEMMA SampleHalving ==
  ASSUME Plenty, CallInv, QueryInv', Halving, NEW r \in Nodes, Sample(r)
  PROVE  Halving'
<1> SUFFICES ASSUME ~failed' PROVE Halving'
  BY FailedHalving, Zenon
<1> DEFINE out == idx[r] = NumSketches
           again == ~out /\ idx[r] \in queried[r]
<1>1. /\ pc = "sample" /\ r \in todo /\ todo' = todo \ {r}
      /\ thrown' = IF out THEN "OutOfQueries"
                   ELSE IF again THEN "MultipleQuery" ELSE thrown
      /\ idx' = [idx EXCEPT ![r] = IF out THEN @ ELSE @ + 1]
      /\ IF out \/ again THEN UNCHANGED <<query, failed>>
         ELSE \E a \in Sampler!Answers(sk[r][idx[r]]) :
                /\ query' = [query EXCEPT ![r] = a]
                /\ failed' = (failed \/ a.ret = "FAIL")
      /\ UNCHANGED <<pc, reps, edges, parent>>
  BY Zenon DEF Sample, callVars, forestVars
<1>2. /\ idx \in [Nodes -> Nat] /\ Range(reps) \subseteq Nodes
      /\ todo \subseteq Range(reps) /\ failed \in BOOLEAN
  BY Typed, Zenon DEF CallInv, TypeInv, TypeOK
<1>3. ~failed
  BY <1>1, <1>2, Zenon
<1>4. PICK n \in Nat : Level(n)
  BY <1>1, <1>3, AtLevel, Zenon
<1>5. Wide(r, n) /\ idx[r] = n /\ thrown = "none"
  BY <1>1, <1>2, <1>4, Zenon DEF Level
<1>6. ~out
  <2> SUFFICES ASSUME out PROVE FALSE
    BY Zenon
  <2>1. Cardinality(Tree(r)) >= Power(2)[NumSketches]
    BY <1>5, Zenon DEF Wide
  <2>2. NumNodes \in Nat /\ NumSketches \in Nat /\ Power(2)[NumSketches] \in Nat
    BY BoruvkaAssumption, PowerFacts, Zenon
  <2> QED BY <2>1, <2>2, TreeSize DEF Plenty
<1>7. thrown' # "MultipleQuery"
  BY Zenon DEF QueryInv, NeverRequeried
<1>8. ~again /\ thrown' = "none"
  BY <1>1, <1>5, <1>6, <1>7, Zenon
<1> HIDE DEF out, again
<1>9. PICK a : /\ query' = [query EXCEPT ![r] = a]
               /\ failed' = (failed \/ a.ret = "FAIL")
  BY <1>1, <1>6, <1>8, Zenon
<1>10. a.ret # "FAIL"
  BY <1>9, Zenon
<1>11. SameTrees
  BY <1>1, Zenon DEF SameTrees, Rt
<1>12. ASSUME NEW v \in Range(reps)
       PROVE  /\ Rt(v)' = v /\ Wide(v, n)'
              /\ IF v \in todo' THEN idx'[v] = n
                 ELSE idx'[v] = n + 1 /\ query'[v].ret # "FAIL"
  <2>1. /\ v \in Nodes /\ Rt(v) = v /\ Wide(v, n)
        /\ IF v \in todo THEN idx[v] = n ELSE idx[v] = n + 1 /\ query[v].ret # "FAIL"
    BY <1>1, <1>2, <1>4, Zenon DEF Level
  <2>2. Rt(v)' = v /\ Wide(v, n)'
    BY <1>1, <1>11, <2>1, KeepWide, Zenon DEF SameTrees
  <2>3. CASE v = r
    <3>1. v \notin todo' /\ idx'[v] = n + 1
      BY <1>1, <1>2, <1>5, <1>6, <2>3, Zenon
    <3>2. query'[v].ret # "FAIL"
      <4>1. DOMAIN query = Nodes
        BY Zenon DEF CallInv, TypeInv
      <4> QED BY <1>9, <1>10, <2>1, <2>3, <4>1, Zenon
    <3> QED BY <2>2, <3>1, <3>2, Zenon
  <2>4. CASE v # r
    <3>1. (v \in todo' <=> v \in todo) /\ idx'[v] = idx[v]
      BY <1>1, <1>2, <2>1, <2>4, Zenon
    <3>2. query'[v] = query[v]
      BY <1>9, <2>4
    <3> QED BY <2>1, <2>2, <3>1, <3>2, Zenon
  <2> QED BY <2>3, <2>4, Zenon
<1>13. Level(n)'
  BY <1>1, <1>8, <1>12, Zenon DEF Level
<1> QED BY <1>13, LevelHalving, Zenon

(* All representatives have been sampled. *)
LEMMA SampleDoneHalving ==
  ASSUME CallInv, Halving, SampleDone
  PROVE  Halving'
<1> SUFFICES ASSUME ~failed' PROVE Halving'
  BY FailedHalving, Zenon
<1>1. /\ pc = "sample" /\ todo = {} /\ new_reps' = <<>> /\ to_merge' = NoMerges
      /\ pc' = IF thrown = "none" THEN "link" ELSE "cleanup"
      /\ UNCHANGED <<edges, parent, reps, idx, query, thrown, failed>>
  BY Zenon DEF SampleDone, callVars, supernodeVars, forestVars, resultVars
<1>2. PICK n \in Nat : Level(n)
  BY <1>1, AtLevel, Zenon
<1>3. thrown = "none" /\ \A r \in Range(reps) :
        Wide(r, n) /\ idx[r] = n + 1 /\ query[r].ret # "FAIL"
  BY <1>1, <1>2, Zenon DEF Level
<1>4. SameTrees
  BY <1>1, Zenon DEF SameTrees, Rt
<1>5. ASSUME NEW r \in Nodes, Live(r)' PROVE Wide(r, n)'
  <2>1. Live(r)
    BY <1>1, <1>4, <1>5, KeepTrees, Zenon
  <2>2. r \in Range(reps)
    BY <1>1, <2>1, Zenon DEF CallInv, RoundsInv, Active
  <2> QED BY <1>1, <1>3, <1>4, <2>2, KeepWide, Zenon
<1>6. \A a \in Nodes : to_merge'[a] = <<>>
  BY <1>1, Zenon DEF NoMerges
<1>7. Level(n)'
  BY <1>1, <1>3, <1>5, <1>6, Zenon DEF Level
<1> QED BY <1>7, LevelHalving, Zenon

(* A step of supernodes_to_merge that joins no trees. *)
LEMMA LinkKeepsLevel ==
  ASSUME NEW n, Level(n), pc = "link", SameTrees,
         UNCHANGED <<edges, idx, pc, reps, query, new_reps, to_merge, thrown>>
  PROVE  Level(n)'
<1>1. /\ thrown = "none" /\ new_reps = <<>>
      /\ \A r \in Range(reps) : idx[r] = n + 1 /\ query[r].ret # "FAIL"
      /\ \A r \in Nodes : Live(r) => Wide(r, n)
      /\ \A a \in Nodes : to_merge[a] # <<>> =>
           Wide(a, n + 1) /\ Range(to_merge[a]) \subseteq Range(reps)
  BY Zenon DEF Level
<1>2. \A r \in Nodes : Live(r)' => Wide(r, n)'
  BY <1>1, KeepTrees, KeepWide, Zenon
<1>3. \A a \in Nodes : to_merge'[a] # <<>> =>
        Wide(a, n + 1)' /\ Range(to_merge'[a]) \subseteq Range(reps')
  BY <1>1, KeepWide, Zenon
<1> QED BY <1>1, <1>2, <1>3, Zenon DEF Level

(* A failed sample cannot come up, and a complete component changes        *)
(* nothing.                                                                *)
LEMMA LinkZeroHalving ==
  ASSUME CallInv, CallInv', Halving, LinkFail \/ LinkZero
  PROVE  Halving'
<1> SUFFICES ASSUME ~failed' PROVE Halving'
  BY FailedHalving, Zenon
<1>1. /\ pc = "link" /\ k <= Len(reps) /\ failed' = failed
      /\ query[reps[k]].ret = "FAIL" \/ LinkZero
  BY Zenon DEF LinkFail, LinkZero, AtAnswer, resultVars
<1>2. PICK n \in Nat : Level(n)
  BY <1>1, AtLevel, Zenon
<1>3. reps[k] \in Range(reps)
  <2>1. k \in Nat /\ k >= 1 /\ Len(reps) \in Nat /\ DOMAIN reps = 1 .. Len(reps)
    BY Typed DEF CallInv
  <2>2. k \in DOMAIN reps
    BY <1>1, <2>1
  <2> QED BY <2>2, InRange, Zenon
<1>4. LinkZero
  BY <1>1, <1>2, <1>3, Zenon DEF Level
<1>5. thrown' # "NotCC"
  BY Zenon DEF CallInv, RoundsInv, Control, VerifierAgrees
<1>6. UNCHANGED <<edges, parent, idx, pc, reps, query, new_reps, to_merge, thrown>>
  BY <1>4, <1>5, Zenon DEF LinkZero, callVars, supernodeVars
<1>7. SameTrees
  BY <1>6, Zenon DEF SameTrees, Rt
<1>8. Level(n)'
  BY <1>1, <1>2, <1>6, <1>7, LinkKeepsLevel, Zenon
<1> QED BY <1>8, LevelHalving, Zenon

(* The two trees that an edge joins have both been sampled in this round,  *)
(* so that together they have twice as many nodes.                         *)
LEMMA JoinHalving ==
  ASSUME CallInv, NEW n \in Nat, Level(n), pc = "link", NEW e \in edges,
         NEW w, NEW l, Join(w, l), {Rt(e[1]), Rt(e[2])} = {w, l},
         to_merge' = Pending(w, l), UNCHANGED <<pc, reps, query, new_reps, thrown>>
  PROVE  Level(n)'
<1>1. /\ w \in Nodes /\ l \in Nodes /\ w # l /\ Rt(w) = w /\ Rt(l) = l
      /\ UNCHANGED <<edges, idx>>
  BY Zenon DEF Join
<1>2. /\ \A r \in Nodes \ {w, l} : Tree(r)' = Tree(r) /\ (Live(r)' <=> Live(r))
      /\ Rt(w)' = w /\ Rt(l)' = w
  BY JoinTrees, Zenon
<1>3. /\ to_merge \in [Nodes -> Seq(Nodes)] /\ edges \in SUBSET Edges
      /\ k \in Nat /\ k >= 1 /\ Len(reps) \in Nat /\ DOMAIN reps = 1 .. Len(reps)
  BY Typed DEF CallInv
<1>4. /\ to_merge'[l] = <<>> /\ to_merge'[w] # <<>>
      /\ \A r \in Nodes \ {w, l} : to_merge'[r] = to_merge[r]
      /\ Range(to_merge'[w]) = Range(to_merge[w]) \cup {l} \cup Range(to_merge[l])
  BY <1>1, <1>3, PendingLists, Zenon
<1>5. /\ thrown = "none" /\ new_reps = <<>>
      /\ \A r \in Range(reps) : idx[r] = n + 1 /\ query[r].ret # "FAIL"
      /\ \A r \in Nodes : Live(r) => Wide(r, n)
      /\ \A a \in Nodes : to_merge[a] # <<>> =>
           Wide(a, n + 1) /\ Range(to_merge[a]) \subseteq Range(reps)
  BY Zenon DEF Level
<1>6. ASSUME NEW r \in {w, l}
      PROVE  /\ Wide(r, n) /\ r \in Range(reps)
             /\ Range(to_merge[r]) \subseteq Range(reps)
  <2>1. e[1] \in Nodes /\ e[2] \in Nodes
    BY <1>3, Zenon DEF Edges
  <2>2. e \in Cut(Tree(r))
    BY <1>1, <2>1, Zenon DEF Cut, Tree
  <2>3. Live(r)
    BY <1>1, <2>2, Zenon DEF Live
  <2>4. r \in Range(new_reps) \/ to_merge[r] # <<>> \/ Awaits(r)
    BY <1>1, <2>3, Zenon DEF CallInv, RoundsInv, Active
  <2>5. Range(new_reps) = {} /\ Range(<<>>) = {}
    BY <1>5, EmptyRange, Zenon
  <2>6. Awaits(r) => r \in Range(reps)
    <3> HAVE Awaits(r)
    <3>1. PICK i \in k .. Len(reps) : reps[i] = r
      BY Zenon DEF Awaits
    <3>2. i \in DOMAIN reps
      BY <1>3
    <3> QED BY <3>1, <3>2, InRange, Zenon
  <2>7. to_merge[r] # <<>> => r \in Range(reps)
    BY <1>1, Zenon DEF CallInv, RoundsInv, Control
  <2> QED BY <1>1, <1>5, <2>3, <2>4, <2>5, <2>6, <2>7, Zenon
<1>7. Wide(w, n)' /\ Wide(w, n + 1)'
  <2>1. Wide(w, n + 1)'
    BY <1>6, JoinWide, Zenon
  <2>2. Power(2)[n] \in Nat /\ Power(2)[n + 1] = 2 * Power(2)[n]
    BY PowerFacts, Zenon
  <2>3. Cardinality(Tree(w)') \in Nat
    <3>1. Tree(w)' = Tree(w) \cup Tree(l)
      BY JoinTrees, Zenon
    <3>2. IsFiniteSet(Tree(w) \cup Tree(l))
      BY TreeSize, FS_Union, Zenon
    <3> QED BY <3>1, <3>2, FS_CardinalityType, Zenon
  <2> QED BY <2>1, <2>2, <2>3 DEF Wide
<1>8. ASSUME NEW r \in Nodes, Live(r)' PROVE Wide(r, n)'
  <2>1. r # l
    BY <1>1, <1>2, <1>8, Zenon DEF Live
  <2>2. CASE r # w
    BY <1>2, <1>5, <1>8, <2>1, <2>2, Zenon DEF Wide
  <2> QED BY <1>7, <2>2, Zenon
<1>9. ASSUME NEW a \in Nodes, to_merge'[a] # <<>>
      PROVE  Wide(a, n + 1)' /\ Range(to_merge'[a]) \subseteq Range(reps)
  <2>1. CASE a = w
    BY <1>4, <1>6, <1>7, <2>1, Zenon
  <2>2. CASE a # w
    BY <1>2, <1>4, <1>5, <1>9, <2>2, Zenon DEF Wide
  <2> QED BY <2>1, <2>2, Zenon
<1> QED BY <1>1, <1>5, <1>8, <1>9, Zenon DEF Level

(* An edge whose ends are connected already joins nothing. *)
LEMMA LinkGoodHalving ==
  ASSUME CallInv, CallInv', Halving, LinkGood
  PROVE  Halving'
<1> SUFFICES ASSUME ~failed' PROVE Halving'
  BY FailedHalving, Zenon
<1>1. TypeInv /\ QueryInv /\ RoundsInv /\ Forest(parent)
  BY Typed, Zenon DEF CallInv
<1>2. PICK e, a, b, p : Linked(e, a, b, p)
  BY LinkGoodCases, Zenon
<1>3. /\ pc = "link" /\ a = Rt(e[1]) /\ b = Rt(e[2]) /\ p = Compress(parent, {e[1], e[2]})
      /\ UNCHANGED <<edges, sk, idx, reps, query, new_reps, failed>>
  BY <1>2, Zenon DEF Linked, Rt, callVars, supernodeVars, resultVars
<1>4. PICK n \in Nat : Level(n)
  BY <1>3, AtLevel, Zenon
<1>5. PICK part \in [Nodes -> SUBSET Nodes] : Parts(part) /\ Sampled(part)
  BY <1>1, <1>3, Zenon DEF RoundsInv, Merged
<1>6. e \in edges /\ e[1] \in Nodes /\ e[2] \in Nodes
  BY <1>1, <1>2, <1>5, GoodEdge, Zenon
<1>7. thrown' # "BadEdge"
  BY Zenon DEF CallInv, RoundsInv, Control, VerifierAgrees
<1>8. \/ a = b /\ parent' = p /\ UNCHANGED <<to_merge, pc, thrown>>
      \/ a # b /\ (Link(p, a, b) \/ Link(p, b, a)) /\ UNCHANGED <<pc, thrown>>
  BY <1>2, <1>7, Zenon DEF Linked
<1>9. CASE a = b
  <2>1. parent' = p /\ UNCHANGED <<to_merge, pc, thrown>>
    BY <1>8, <1>9, Zenon
  <2>2. SameTrees
    BY <1>1, <1>3, <1>6, <2>1, CompressRoot, SMTT(30) DEF SameTrees, Rt
  <2>3. Level(n)'
    BY <1>3, <1>4, <2>1, <2>2, LinkKeepsLevel, Zenon
  <2> QED BY <2>3, LevelHalving, Zenon
<1>10. CASE a # b
  <2>1. UNCHANGED <<pc, thrown>> /\ (Link(p, a, b) \/ Link(p, b, a))
    BY <1>8, <1>10, Zenon
  <2>2. a \in Nodes /\ b \in Nodes /\ Rt(a) = a /\ Rt(b) = b
    BY <1>1, <1>3, <1>6, Roots, Zenon
  <2>3. ASSUME NEW w \in Nodes, NEW l \in Nodes, {a, b} = {w, l}, Link(p, w, l)
        PROVE  Level(n)'
    <3>1. /\ parent' = [Compress(parent, {e[1], e[2]}) EXCEPT ![l] = w]
          /\ to_merge' = Pending(w, l)
      BY <1>3, <2>3, Zenon DEF Link
    <3>2. w # l /\ Rt(w) = w /\ Rt(l) = l
      BY <1>10, <2>2, <2>3
    <3>3. Join(w, l)
      BY <1>1, <1>3, <3>1, <3>2, LinkJoins, Zenon
    <3>4. {Rt(e[1]), Rt(e[2])} = {w, l}
      BY <1>3, <2>3, Zenon
    <3> QED BY <1>3, <1>4, <1>6, <2>1, <3>1, <3>3, <3>4, JoinHalving, Zenon
  <2>4. Level(n)'
    BY <2>1, <2>2, <2>3, Zenon
  <2> QED BY <2>4, LevelHalving, Zenon
<1> QED BY <1>9, <1>10, Zenon

(* Only supernodes that something is merged into stay. *)
LEMMA LinkDoneHalving ==
  ASSUME CallInv, Halving, LinkDone
  PROVE  Halving'
<1> SUFFICES ASSUME ~failed' PROVE Halving'
  BY FailedHalving, Zenon
<1>1. /\ pc = "link" /\ pc' = "merge" /\ reps' = NextReps
      /\ UNCHANGED <<edges, parent, idx, to_merge, thrown, failed>>
  BY Zenon DEF LinkDone, callVars, supernodeVars, forestVars, resultVars
<1>2. PICK n \in Nat : Level(n)
  BY <1>1, AtLevel, Zenon
<1>3. /\ thrown = "none" /\ new_reps = <<>>
      /\ \A r \in Range(reps) : idx[r] = n + 1
      /\ \A a \in Nodes : to_merge[a] # <<>> =>
           Wide(a, n + 1) /\ Range(to_merge[a]) \subseteq Range(reps)
  BY <1>1, <1>2, Zenon DEF Level
<1>4. Range(NextReps) = {a \in Nodes : to_merge[a] # <<>>}
  <2>1. Range(new_reps) = {}
    BY <1>3 DEF Range
  <2>2. Range(NextReps) = Range(new_reps) \cup {a \in Nodes : to_merge[a] # <<>>}
    BY Typed, NextRepsTyped, Zenon DEF CallInv
  <2> QED BY <2>1, <2>2, Zenon
<1>5. SameTrees
  BY <1>1, Zenon DEF SameTrees, Rt
<1>6. ASSUME NEW a \in Range(reps')
      PROVE  Rt(a)' = a /\ Wide(a, n + 1)' /\ \A b \in Heap(a)' : idx'[b] = n + 1
  <2>1. a \in Nodes /\ to_merge[a] # <<>> /\ Wide(a, n + 1)
        /\ Range(to_merge[a]) \subseteq Range(reps)
    BY <1>1, <1>3, <1>4, Zenon
  <2>2. a \in Range(reps)
    BY <2>1, Zenon DEF CallInv, RoundsInv, Control
  <2>3. Rt(a) = a
    <3>1. PICK part \in [Nodes -> SUBSET Nodes] : Joined(part)
      BY <1>1, Zenon DEF CallInv, RoundsInv, Merged
    <3> QED BY <2>1, <3>1, Zenon DEF Joined
  <2>4. Heap(a)' = {a} \cup Range(to_merge[a])
    BY <1>1, Zenon DEF Heap
  <2>5. Rt(a)' = a /\ Wide(a, n + 1)'
    BY <1>1, <1>5, <2>1, <2>3, KeepWide, Zenon DEF SameTrees
  <2> QED BY <1>1, <1>3, <2>1, <2>2, <2>4, <2>5, Zenon
<1>7. Level(n)'
  BY <1>1, <1>3, <1>6, Zenon DEF Level
<1> QED BY <1>7, LevelHalving, Zenon

(* Supernodes that are merged have used up the same number of sketches, so *)
(* that none is skipped.                                                   *)
LEMMA MergeHalving ==
  ASSUME CallInv, Halving, NEW a \in Nodes, Copy(a) \/ Merge(a)
  PROVE  Halving'
<1> SUFFICES ASSUME ~failed' PROVE Halving'
  BY FailedHalving, Zenon
<1>1. /\ pc = "merge" /\ UNCHANGED <<edges, parent, pc, reps, thrown, failed>>
      /\ a \in Range(reps)
  BY Zenon DEF Copy, Merge, callVars, forestVars, roundVars, loopVars, resultVars
<1>2. PICK n \in Nat : Level(n)
  BY <1>1, AtLevel, Zenon
<1>3. thrown = "none" /\ \A c \in Range(reps) :
        Rt(c) = c /\ Wide(c, n + 1) /\ \A b \in Heap(c) : idx[b] = n + 1
  BY <1>1, <1>2, Zenon DEF Level
<1>4. /\ idx \in [Nodes -> Nat] /\ to_merge \in [Nodes -> Seq(Nodes)]
      /\ Range(reps) \subseteq Nodes
  BY Typed, Zenon DEF CallInv
<1>5. idx' = idx /\ \A c \in Nodes : Heap(c)' \subseteq Heap(c)
  <2>1. CASE Copy(a)
    BY <2>1, Zenon DEF Copy, supernodeVars, roundVars, Heap
  <2>2. CASE Merge(a)
    <3> DEFINE b == Head(to_merge[a])
    <3>1. /\ to_merge[a] # <<>> /\ idx' = [idx EXCEPT ![a] = MergeFrom(a, b)]
          /\ to_merge' = [to_merge EXCEPT ![a] = Tail(@)]
      BY <2>2, Zenon DEF Merge
    <3>2. b \in Range(to_merge[a]) /\ Range(Tail(to_merge[a])) \subseteq Range(to_merge[a])
      <4>1. to_merge[a] \in Seq(Nodes)
        BY <1>4, Zenon
      <4> QED BY <3>1, <4>1, TailSet
    <3>3. a \in Heap(a) /\ b \in Heap(a)
      BY <3>2, Zenon DEF Heap
    <3> HIDE DEF b
    <3>4. idx[a] = n + 1 /\ idx[b] = n + 1
      BY <1>1, <1>3, <3>3, Zenon
    <3>5. MergeFrom(a, b) = idx[a]
      BY <3>4, Zenon DEF MergeFrom
    <3>6. idx' = idx
      BY <1>4, <3>1, <3>5, Zenon
    <3>7. ASSUME NEW c \in Nodes PROVE Range(to_merge'[c]) \subseteq Range(to_merge[c])
      BY <1>4, <3>1, <3>2, Zenon
    <3> QED BY <3>6, <3>7, Zenon DEF Heap
  <2> QED BY <2>1, <2>2, Zenon
<1>6. SameTrees
  BY <1>1, Zenon DEF SameTrees, Rt
<1>7. ASSUME NEW c \in Range(reps)
      PROVE  Rt(c)' = c /\ Wide(c, n + 1)' /\ \A b \in Heap(c)' : idx'[b] = n + 1
  <2>1. c \in Nodes /\ Rt(c) = c /\ Wide(c, n + 1) /\ \A b \in Heap(c) : idx[b] = n + 1
    BY <1>3, <1>4, Zenon
  <2>2. Rt(c)' = c /\ Wide(c, n + 1)'
    BY <1>1, <1>6, <2>1, KeepWide, Zenon DEF SameTrees
  <2> QED BY <1>5, <2>1, <2>2, Zenon
<1>8. Level(n)'
  BY <1>1, <1>3, <1>7, Zenon DEF Level
<1> QED BY <1>8, LevelHalving, Zenon

(* The next round samples the supernodes just merged. *)
LEMMA NextRoundHalving ==
  ASSUME CallInv, Halving, NextRound
  PROVE  Halving'
<1> SUFFICES ASSUME ~failed' PROVE Halving'
  BY FailedHalving, Zenon
<1>1. /\ pc = "merge" /\ pc' = "sample" /\ todo' = Range(reps)
      /\ UNCHANGED <<edges, parent, idx, reps, thrown, failed>>
  BY Zenon DEF NextRound, RoundOver, callVars, supernodeVars, forestVars, resultVars
<1>2. PICK n \in Nat : Level(n)
  BY <1>1, AtLevel, Zenon
<1>3. thrown = "none" /\ \A c \in Range(reps) :
        Rt(c) = c /\ Wide(c, n + 1) /\ idx[c] = n + 1
  BY <1>1, <1>2, Zenon DEF Level, Heap
<1>4. SameTrees /\ Range(reps) \subseteq Nodes
  BY <1>1, Typed, Zenon DEF SameTrees, Rt, CallInv
<1>5. \A c \in Range(reps) : Rt(c)' = c /\ Wide(c, n + 1)'
  BY <1>1, <1>3, <1>4, KeepWide, Zenon DEF SameTrees
<1>6. n + 1 \in Nat
  OBVIOUS
<1>7. Level(n + 1)'
  BY <1>1, <1>3, <1>5, Zenon DEF Level
<1> QED BY <1>6, <1>7, LevelHalving, Zenon

(* The steps outside the rounds, and those that leave them. *)
LEMMA OtherHalving ==
  ASSUME Halving,
         \/ (\E e \in Edges : Update(e)) \/ InducedFailure \/ LastRound
         \/ Cleanup \/ Reset
  PROVE  Halving'
<1>1. /\ pc' \notin {"sample", "link", "merge"} /\ UNCHANGED <<failed, fail_round_2>>
      /\ thrown' = thrown \/ fail_round_2
  <2>1. CASE \E e \in Edges : Update(e)
    BY <2>1, Zenon DEF Update, config, resultVars
  <2>2. CASE InducedFailure \/ LastRound
    BY <2>2, Zenon DEF InducedFailure, LastRound, callVars, config, resultVars
  <2>3. CASE Cleanup
    BY <2>3, Zenon DEF Cleanup, callVars, config
  <2>4. CASE Reset
    BY <2>4, Zenon DEF Reset, config
  <2> QED BY <2>1, <2>2, <2>3, <2>4, Zenon
<1> QED BY <1>1, Zenon DEF Halving, EnoughSketches, InRound

(* A step that changes nothing. *)
LEMMA StutterHalving ==
  ASSUME CallInv, Halving, UNCHANGED vars
  PROVE  Halving'
<1>1. UNCHANGED <<edges, idx, parent, pc, reps, todo, query, new_reps, to_merge,
                  thrown, failed, fail_round_2>>
  BY Zenon DEF vars, callVars, config, supernodeVars, forestVars, roundVars, loopVars, resultVars
<1>2. EnoughSketches'
  BY <1>1, Zenon DEF Halving, EnoughSketches
<1>3. ASSUME InRound' PROVE (\E n \in Nat : Level(n))'
  <2>1. PICK n \in Nat : Level(n)
    BY <1>1, <1>3, Zenon DEF InRound, Halving
  <2>2. Level(n)'
    BY <1>1, <2>1, Zenon DEF Level, Rt, Wide, Tree, Live, Cut, Heap
  <2> QED BY <2>2, Zenon
<1> QED BY <1>2, <1>3, Zenon DEF Halving

(* If 2^num_sketches exceeds the number of nodes, a supernode does not run *)
(* out of sketches unless a sampler fails.                                 *)
LEMMA PlentySuffices ==
  NoReuse /\ Plenty => (Spec /\ [][FirstCall]_vars => []EnoughSketches)
<1> SUFFICES ASSUME NoReuse, Plenty
             PROVE  Spec /\ [][FirstCall]_vars => []EnoughSketches
  BY Zenon
<1>1. Init => Halving
  BY Zenon DEF Init, Halving, EnoughSketches, InRound
<1>2. CallInv /\ CallInv' /\ Halving /\ [Next]_vars /\ [FirstCall]_vars => Halving'
  <2> SUFFICES ASSUME CallInv, CallInv', Halving, [Next]_vars, [FirstCall]_vars
               PROVE  Halving'
    BY Zenon
  <2>1. CASE UNCHANGED vars
    BY <2>1, StutterHalving, Zenon
  <2>2. CASE Next /\ FirstCall
    <3>1. ASSUME NEW c \in BOOLEAN, Start(c) PROVE Halving'
      <4>1. ~update_locked
        BY <2>2, <3>1, Zenon DEF FirstCall, Start
      <4> QED BY <3>1, <4>1, StartHalving, Zenon
    <3>2. ASSUME NEW r \in Nodes, Sample(r) PROVE Halving'
      BY <3>2, SampleHalving, Zenon DEF CallInv
    <3>3. CASE SampleDone \/ LinkDone \/ NextRound
      BY <3>3, SampleDoneHalving, LinkDoneHalving, NextRoundHalving, Zenon
    <3>4. CASE LinkFail \/ LinkZero \/ LinkGood
      BY <3>4, LinkZeroHalving, LinkGoodHalving, Zenon
    <3>5. CASE \E a \in Nodes : Copy(a) \/ Merge(a)
      BY <3>5, MergeHalving, Zenon
    <3>6. CASE \/ (\E e \in Edges : Update(e)) \/ InducedFailure \/ LastRound
               \/ Cleanup \/ Reset
      BY <3>6, OtherHalving, Zenon
    <3>7. CASE Finished
      BY <3>7, StutterHalving, Zenon DEF Finished
    <3> QED BY <2>2, <3>1, <3>2, <3>3, <3>4, <3>5, <3>6, <3>7, Zenon DEF Next, Step
  <2> QED BY <2>1, <2>2, Zenon
<1>3. Halving => EnoughSketches
  BY Zenon DEF Halving
<1> QED BY <1>1, <1>2, <1>3, RoundsInvariant, PTL DEF Spec

(* Unless a sampler fails, the num_sketches of supernode.cpp:8 are enough: *)
(* with three nodes or more, no call on supernodes that are not merged yet *)
(* throws OutOfQueriesException, except the one the tests induce.          *)
THEOREM SketchesSuffice ==
  NoReuse /\ NumNodes >= 3 /\ NumSketches = SketchCount(NumNodes) =>
    (Spec /\ [][FirstCall]_vars => []EnoughSketches)
<1>1. NumNodes >= 3 /\ NumSketches = SketchCount(NumNodes) => Plenty
  BY BoruvkaAssumption, SketchCountPlenty, Zenon DEF Plenty
<1> QED BY <1>1, PlentySuffices, Zenon

(* Only the first round samples before there is a backup file, and there   *)
(* no supernode has used a sketch yet.                                     *)
FirstSamples ==
  cont /\ pc = "sample" /\ first_round =>
    thrown = "none" /\ \A r \in todo : idx[r] = 0
AfterBackup ==
  pc \in {"merge", "cleanup"} \/ (pc \in {"sample", "link"} /\ ~first_round)
Saved ==
  /\ ProcessSurvives /\ FirstSamples
  /\ cont /\ ~copy_in_mem /\ AfterBackup => disk.exists

(* A query that must restore starts on supernodes not queried yet. *)
LEMMA StartSaved ==
  ASSUME NoReuse, CallInv, NEW c \in BOOLEAN, Start(c)
  PROVE  Saved'
<1>1. /\ pc = "idle" /\ pc' = "sample" /\ first_round' /\ thrown' = "none"
      /\ cont' = c /\ todo' = Nodes /\ idx' = idx
  BY Zenon DEF Start, supernodeVars
<1>2. c => ~update_locked
  BY Zenon DEF Start, NoReuse
<1>3. c => \A r \in Nodes : idx[r] = 0
  BY <1>1, <1>2, Zenon DEF CallInv, RoundsInv, Restored
<1> QED BY <1>1, <1>3, Zenon DEF Saved, ProcessSurvives, FirstSamples, AfterBackup

(* In the first round nothing is thrown while sampling. *)
LEMMA SampleSaved ==
  ASSUME NumSketches >= 1, CallInv, CallInv', Saved, NEW r \in Nodes, Sample(r)
  PROVE  Saved'
<1>1. /\ pc = "sample" /\ r \in todo /\ todo' = todo \ {r}
      /\ UNCHANGED <<pc, cont, copy_in_mem, first_round, disk>>
  BY Zenon DEF Sample, callVars, config, backupVars
<1>2. cont /\ first_round => thrown = "none" /\ \A s \in todo : idx[s] = 0
  BY <1>1, Zenon DEF Saved, FirstSamples
<1>3. NumSketches # 0
  BY BoruvkaAssumption
<1>4. thrown' # "MultipleQuery"
  BY Zenon DEF CallInv, QueryInv, NeverRequeried
<1>5. cont /\ first_round => thrown' = "none"
  BY <1>1, <1>2, <1>3, <1>4, Zenon DEF Sample
<1>6. \A s \in todo \ {r} : idx'[s] = idx[s]
  <2>1. idx \in [Nodes -> Nat] /\ todo \subseteq Nodes
    BY Typed, Zenon DEF CallInv, TypeInv, TypeOK
  <2> QED BY <2>1, Zenon DEF Sample
<1> QED BY <1>1, <1>2, <1>5, <1>6, Zenon DEF Saved, ProcessSurvives, FirstSamples, AfterBackup

(* The steps between the samples and the end of a round: the first round   *)
(* writes the file before it merges, and the verifier does not throw.      *)
LEMMA LinkSaved ==
  ASSUME CallInv, CallInv', Saved,
         SampleDone \/ LinkFail \/ LinkZero \/ LinkGood \/ LinkDone
  PROVE  Saved'
<1>1. UNCHANGED <<cont, copy_in_mem, first_round>>
  BY Zenon DEF SampleDone, LinkFail, LinkZero, LinkGood, LinkDone, callVars, config
<1>2. CASE SampleDone
  <2>1. pc = "sample" /\ pc' = (IF thrown = "none" THEN "link" ELSE "cleanup") /\ disk' = disk
    BY <1>2, Zenon DEF SampleDone, backupVars
  <2> QED BY <1>1, <2>1, Zenon DEF Saved, ProcessSurvives, FirstSamples, AfterBackup
<1>3. CASE LinkFail \/ LinkZero \/ LinkGood
  <2>1. pc = "link" /\ disk' = disk
    BY <1>3, Zenon DEF LinkFail, LinkZero, LinkGood, AtAnswer, backupVars
  <2>2. pc' = "link" \/ (pc' = "cleanup" /\ thrown' \in {"NotCC", "BadEdge"})
    BY <1>3, <2>1, Zenon DEF LinkFail, LinkZero, LinkGood
  <2>3. thrown' \notin {"NotCC", "BadEdge"}
    BY Zenon DEF CallInv, RoundsInv, Control, VerifierAgrees
  <2> QED BY <1>1, <2>1, <2>2, <2>3, Zenon DEF Saved, ProcessSurvives, FirstSamples, AfterBackup
<1>4. CASE LinkDone
  <2>1. pc = "link" /\ pc' = "merge"
    BY <1>4, Zenon DEF LinkDone
  <2>2. backup_to_disk(BackUp).exists
    BY Zenon DEF backup_to_disk
  <2>3. cont /\ ~copy_in_mem => disk'.exists
    BY <1>4, <2>1, <2>2, Zenon DEF LinkDone, Saved, AfterBackup
  <2> QED BY <1>1, <2>1, <2>3, Zenon DEF Saved, ProcessSurvives, FirstSamples, AfterBackup
<1> QED BY <1>2, <1>3, <1>4, Zenon

(* The other steps keep the file, and cleanup_copy finds it. *)
LEMMA OtherSaved ==
  ASSUME Saved,
         \/ (\E e \in Edges : Update(e)) \/ (\E a \in Nodes : Copy(a) \/ Merge(a))
         \/ InducedFailure \/ NextRound \/ LastRound \/ Cleanup \/ Reset
         \/ UNCHANGED vars
  PROVE  Saved'
<1>1. CASE (\E e \in Edges : Update(e)) \/ Reset
  <2>1. pc' = "idle"
    BY <1>1, Zenon DEF Update, Reset
  <2> QED BY <2>1, Zenon DEF Saved, ProcessSurvives, FirstSamples, AfterBackup
<1>2. CASE \/ (\E a \in Nodes : Copy(a) \/ Merge(a))
           \/ InducedFailure \/ NextRound \/ LastRound
  <2>1. pc = "merge" /\ UNCHANGED <<cont, copy_in_mem, disk>>
    BY <1>2, Zenon DEF Copy, Merge, InducedFailure, NextRound, LastRound, RoundOver,
       callVars, config, backupVars
  <2>2. pc' \in {"merge", "cleanup"} \/ (pc' = "sample" /\ ~first_round')
    BY <1>2, <2>1, Zenon DEF Copy, Merge, InducedFailure, NextRound, LastRound
  <2> QED BY <2>1, <2>2, Zenon DEF Saved, ProcessSurvives, FirstSamples, AfterBackup
<1>3. CASE Cleanup
  <2>1. pc = "cleanup" /\ (cont /\ ~copy_in_mem => disk.exists)
    BY <1>3, Zenon DEF Cleanup, Saved, AfterBackup
  <2>2. pc' \in {"idle", "reset"}
    BY <1>3, <2>1, Zenon DEF Cleanup
  <2> QED BY <2>2, Zenon DEF Saved, ProcessSurvives, FirstSamples, AfterBackup
<1>4. CASE UNCHANGED vars
  BY <1>4, Zenon DEF vars, callVars, config, supernodeVars, roundVars, loopVars,
     backupVars, Saved, ProcessSurvives, FirstSamples, AfterBackup
<1> QED BY <1>1, <1>2, <1>3, <1>4, Zenon

(* A query that must restore the graph finds its backup file, in whichever *)
(* round it ends or throws: with at least one sketch per supernode, no     *)
(* call throws before the first round has written it.                      *)
THEOREM BackupFileFound ==
  NoReuse /\ NumSketches >= 1 => (Spec => []ProcessSurvives)
<1> SUFFICES ASSUME NoReuse, NumSketches >= 1 PROVE Spec => []ProcessSurvives
  BY Zenon
<1>1. Init => Saved
  BY Zenon DEF Init, Saved, ProcessSurvives, FirstSamples, AfterBackup
<1>2. CallInv /\ CallInv' /\ Saved /\ [Next]_vars => Saved'
  <2> SUFFICES ASSUME CallInv, CallInv', Saved, [Next]_vars PROVE Saved'
    BY Zenon
  <2> QED
    BY StartSaved, SampleSaved, LinkSaved, OtherSaved, Zenon DEF Next, Step, Finished
<1>3. Saved => ProcessSurvives
  BY Zenon DEF Saved
<1> QED BY <1>1, <1>2, <1>3, RoundsInvariant, PTL DEF Spec
=============================================================================
