--------------------------- MODULE BoruvkaProofs ----------------------------
(***************************************************************************)
(* Proofs about Boruvka for every number of nodes and sketches, every      *)
(* graph and every outcome of the samplers: sketches are queried once,     *)
(* backups are complete, the parents are a forest.                         *)
(*                                                                         *)
(* Then facts about the parts that Boruvka is built from: sequences, the   *)
(* disjoint-set forest, connected components; the types of a call; and the *)
(* invariant of its rounds, with the steps between calls.                  *)
(***************************************************************************)
EXTENDS Boruvka, TLAPS

(* The flags of a supernode are set below its idx only, so that the next   *)
(* sketch to query has none; and every supernode that cleanup_copy will    *)
(* restore from memory has its copy or is about to get it.                 *)
UsedBelow ==
  /\ idx \in [Nodes -> Nat]
  /\ DOMAIN queried = Nodes
  /\ \A v \in Nodes : \A j \in queried[v] : j \in Nat /\ j < idx[v]

CopiesKept ==
  /\ DOMAIN copies = Nodes
  /\ \A v \in Nodes : copies[v] = NoCopy \/ copies[v].idx \in Nat

CopiesTaken ==
  cont /\ copy_in_mem =>
    \A v \in Range(backed_up) :
      IF pc = "merge" /\ first_round THEN v \in Range(reps)
      ELSE copies[v] # NoCopy

(* A forest: every node leads to a root. *)
Forest(p) ==
  /\ p \in [Nodes -> Nodes]
  /\ \A x \in Nodes : \E r \in Visited(p, x) : p[r] = r

(* The forest and the lists of nodes to merge stay within Nodes. *)
NodesOnly == Forest(parent) /\ to_merge \in [Nodes -> Seq(Nodes)]

QueryInv ==
  UsedBelow /\ CopiesKept /\ CopiesTaken /\ NodesOnly /\ NeverRequeried

USE DEF NeverRequeried
(* get_parent: the nodes it visits are the least set that contains x and   *)
(* the parent of each of its nodes.                                        *)
LEMMA VisitedLeast ==
  ASSUME NEW p \in [Nodes -> Nodes], NEW x \in Nodes
  PROVE  /\ Visited(p, x) \in SUBSET Nodes /\ x \in Visited(p, x)
         /\ \A z \in Visited(p, x) : p[z] \in Visited(p, x)
         /\ \A S \in SUBSET Nodes :
              x \in S /\ (\A z \in S : p[z] \in S) => Visited(p, x) \subseteq S
  BY Zenon DEF Visited

(* get_parent returns a root. *)
LEMMA RootIsRoot ==
  ASSUME NEW p, Forest(p), NEW x
  PROVE  /\ Root(p, x) \in Nodes /\ Root(p, x) \in Visited(p, x)
         /\ p[Root(p, x)] = Root(p, x)
  <1>1. \E r \in Visited(p, x) : p[r] = r
    <2>1. CASE x \in Nodes
      BY <2>1, Zenon DEF Forest
    <2>2. CASE x \notin Nodes
      <3>1. Visited(p, x) = Nodes
        BY <2>2, Zenon DEF Visited
      <3>2. 0 \in Nodes
        BY BoruvkaAssumption DEF Nodes
      <3>3. PICK r \in Visited(p, 0) : p[r] = r
        BY <3>2, Zenon DEF Forest
      <3>4. r \in Nodes
        BY <3>3, Zenon DEF Visited
      <3> QED BY <3>1, <3>3, <3>4, Zenon
    <2> QED BY <2>1, <2>2, Zenon
  <1>2. Root(p, x) \in Visited(p, x) /\ p[Root(p, x)] = Root(p, x)
    BY <1>1, Zenon DEF Root
  <1> QED BY <1>2, Zenon DEF Visited

(* A root is its own root. *)
LEMMA RootOfRoot ==
  ASSUME NEW p, Forest(p), NEW r \in Nodes, p[r] = r
  PROVE  Root(p, r) = r
  <1>1. Visited(p, r) \subseteq {r}
    <2>1. {r} \in SUBSET Nodes /\ \A z \in {r} : p[z] \in {r}
      BY Zenon
    <2> QED BY <2>1, VisitedLeast, Zenon DEF Forest
  <1> QED BY <1>1, RootIsRoot, Zenon

(* Path compression keeps the forest and its roots. *)
LEMMA CompressForest ==
  ASSUME NEW p, Forest(p), NEW X
  PROVE  /\ Forest(Compress(p, X))
         /\ \A r \in Nodes : p[r] = r => Compress(p, X)[r] = r
  <1> DEFINE C == {y \in Nodes : \E x \in X : y \in Visited(p, x)}
             q == Compress(p, X)
  <1>2. q = [y \in Nodes |-> IF y \in C THEN Root(p, y) ELSE p[y]]
    BY Zenon DEF Compress
  <1> HIDE DEF C, q
  <1>3. q \in [Nodes -> Nodes]
    BY <1>2, RootIsRoot, Zenon DEF Forest
  <1>4. \A r \in Nodes : p[r] = r => q[r] = r
    BY <1>2, RootOfRoot, Zenon
  <1>5. ASSUME NEW x \in Nodes
        PROVE  \E r \in Visited(q, x) : q[r] = r
    <2> DEFINE S == Visited(q, x)
    <2>1. /\ S \in SUBSET Nodes /\ x \in S
          /\ \A z \in S : q[z] \in S
      BY <1>3, VisitedLeast, Zenon
    <2> HIDE DEF S
    <2>2. CASE \E y \in S : y \in C
      <3>1. PICK y \in S : y \in C
        BY <2>2, Zenon
      <3>2. q[y] = Root(p, y) /\ q[y] \in S
        BY <1>2, <2>1, <3>1, Zenon
      <3>3. q[Root(p, y)] = Root(p, y)
        BY <1>4, RootIsRoot, Zenon
      <3> QED BY <3>2, <3>3, Zenon DEF S
    <2>3. CASE \A y \in S : y \notin C
      <3>1. \A z \in S : p[z] \in S
        BY <1>2, <2>1, <2>3, Zenon
      <3>2. Visited(p, x) \subseteq S
        BY <2>1, <3>1, VisitedLeast, Zenon DEF Forest
      <3>3. PICK r \in Visited(p, x) : p[r] = r
        BY Zenon DEF Forest
      <3> QED BY <1>4, <2>1, <3>2, <3>3, Zenon DEF S
    <2> QED BY <2>2, <2>3, Zenon
  <1> QED BY <1>3, <1>4, <1>5, Zenon DEF q, Forest

(* So does making the root a the parent of b. *)
LEMMA LinkForest ==
  ASSUME NEW p, Forest(p), NEW a \in Nodes, NEW b \in Nodes,
         a # b, p[a] = a
  PROVE  Forest([p EXCEPT ![b] = a])
  <1> DEFINE q == [p EXCEPT ![b] = a]
  <1>1. /\ q \in [Nodes -> Nodes] /\ q[b] = a /\ q[a] = a
        /\ \A z \in Nodes : z # b => q[z] = p[z]
    BY Zenon DEF Forest
  <1> HIDE DEF q
  <1>2. ASSUME NEW x \in Nodes
        PROVE  \E r \in Visited(q, x) : q[r] = r
    <2> DEFINE S == Visited(q, x)
    <2>1. /\ S \in SUBSET Nodes /\ x \in S
          /\ \A z \in S : q[z] \in S
      BY <1>1, VisitedLeast, Zenon
    <2> HIDE DEF S
    <2>2. CASE b \in S
      BY <1>1, <2>1, <2>2, Zenon DEF S
    <2>3. CASE b \notin S
      <3>1. \A z \in S : p[z] \in S
        BY <1>1, <2>1, <2>3, Zenon
      <3>2. Visited(p, x) \subseteq S
        BY <2>1, <3>1, VisitedLeast, Zenon DEF Forest
      <3>3. PICK r \in Visited(p, x) : p[r] = r
        BY Zenon DEF Forest
      <3>4. r \in S /\ r # b /\ r \in Nodes
        BY <2>1, <2>3, <3>2, <3>3, Zenon
      <3> QED BY <1>1, <3>3, <3>4, Zenon DEF S
    <2> QED BY <2>2, <2>3, Zenon
  <1> QED BY <1>1, <1>2, Zenon DEF q, Forest
(* A new graph has queried no sketch and copied no supernode. *)
LEMMA QueryInit == Init => QueryInv
  <1> SUFFICES ASSUME Init PROVE QueryInv
    BY Zenon
  <1>1. UsedBelow /\ CopiesKept /\ NeverRequeried
    BY Zenon DEF Init, UsedBelow, CopiesKept
  <1>2. CopiesTaken
    BY Zenon DEF Init, CopiesTaken
  <1>3. to_merge \in [Nodes -> Seq(Nodes)]
    BY DEF Init, NoMerges
  <1>4. Forest(Identity)
    BY VisitedLeast, Zenon DEF Forest, Identity
  <1> QED BY <1>1, <1>2, <1>3, <1>4, Zenon DEF Init, QueryInv, NodesOnly

(* A sketch's flag is raised as idx moves past it. *)
LEMMA SampleStep ==
  ASSUME QueryInv, NEW r \in Nodes, Sample(r)
  PROVE  QueryInv'
  <1>1. idx[r] \notin queried[r]
    BY DEF QueryInv, UsedBelow
  <1>2. NeverRequeried'
    BY <1>1, Zenon DEF QueryInv, Sample
  <1>3. UsedBelow'
    BY DEF QueryInv, UsedBelow, Sample
  <1>4. CopiesKept' /\ CopiesTaken'
    BY Zenon DEF QueryInv, CopiesKept, CopiesTaken, Sample, backupVars, callVars, config
  <1>5. NodesOnly'
    BY Zenon DEF QueryInv, NodesOnly, Sample, forestVars
  <1> QED BY <1>2, <1>3, <1>4, <1>5, Zenon DEF QueryInv

(* Joining two trees. *)
LEMMA LinkGoodStep ==
  ASSUME QueryInv, LinkGood
  PROVE  QueryInv'
  <1> DEFINE e == query[reps[k]].idx
             a == Root(parent, e[1])
             b == Root(parent, e[2])
             p == Compress(parent, {e[1], e[2]})
  <1>1. Forest(parent) /\ to_merge \in [Nodes -> Seq(Nodes)]
    BY Zenon DEF QueryInv, NodesOnly
  <1>2. /\ a \in Nodes /\ parent[a] = a
        /\ b \in Nodes /\ parent[b] = b
    BY <1>1, RootIsRoot, Zenon
  <1>3. Forest(p) /\ p[a] = a /\ p[b] = b
    <2>1. Forest(p) /\ \A r \in Nodes : parent[r] = r => p[r] = r
      <3> HIDE DEF e
      <3> QED BY ONLY <1>1, CompressForest DEF p
    <2> HIDE DEF a, b, p
    <2> QED BY ONLY <1>2, <2>1, Zenon
  <1>4. \/ parent' = p /\ to_merge' = to_merge
        \/ a # b /\ (Link(p, b, a) \/ Link(p, a, b))
    BY Zenon DEF LinkGood
  <1> HIDE DEF e, a, b, p
  <1>5. ASSUME NEW c \in Nodes, NEW d \in Nodes
        PROVE  Pending(c, d) \in [Nodes -> Seq(Nodes)]
    <2> DEFINE l == to_merge[c] \o <<d>> \o to_merge[d]
               first == [to_merge EXCEPT ![c] = l]
    <2>1. <<d>> \in Seq(Nodes) /\ <<>> \in Seq(Nodes)
      OBVIOUS
    <2>2. l \in Seq(Nodes)
      BY <1>1, <2>1
    <2> HIDE DEF l
    <2>3. first \in [Nodes -> Seq(Nodes)]
      BY <1>1, <2>2, Zenon
    <2>4. Pending(c, d) = [first EXCEPT ![d] = <<>>]
      BY Zenon DEF Pending, l
    <2> HIDE DEF first
    <2> QED BY <2>1, <2>3, <2>4, Zenon
  <1>6. NodesOnly'
    <2>1. CASE parent' = p /\ to_merge' = to_merge
      BY <1>1, <1>3, <2>1, Zenon DEF NodesOnly
    <2>2. CASE a # b /\ Link(p, b, a)
      BY <1>2, <1>3, <1>5, <2>2, LinkForest, Zenon DEF NodesOnly, Link
    <2>3. CASE a # b /\ Link(p, a, b)
      BY <1>2, <1>3, <1>5, <2>3, LinkForest, Zenon DEF NodesOnly, Link
    <2> QED BY <1>4, <2>1, <2>2, <2>3, Zenon
  <1>7. UsedBelow' /\ CopiesKept' /\ NeverRequeried'
    BY Zenon DEF QueryInv, UsedBelow, CopiesKept, LinkGood, supernodeVars, backupVars
  <1>8. CopiesTaken'
    BY Zenon DEF QueryInv, CopiesTaken, LinkGood, AtAnswer, backupVars, callVars, config
  <1> QED BY <1>6, <1>7, <1>8, Zenon DEF QueryInv

(* Merging brings in no flag: those of b are below its idx. *)
LEMMA MergeStep ==
  ASSUME QueryInv, NEW a \in Nodes, Merge(a)
  PROVE  QueryInv'
  <1> DEFINE b == Head(to_merge[a])
             from == MergeFrom(a, b)
  <1>1. b \in Nodes /\ Tail(to_merge[a]) \in Seq(Nodes)
    BY DEF QueryInv, NodesOnly, Merge
  <1>2. from \in Nat /\ from >= idx[a] /\ from >= idx[b]
    BY <1>1 DEF QueryInv, UsedBelow, MergeFrom
  <1>3. {j \in queried[b] : j >= from} = {}
    BY <1>1, <1>2 DEF QueryInv, UsedBelow
  <1>4. queried' = [queried EXCEPT ![a] = @ \cup {j \in queried[b] : j >= from}]
    BY Zenon DEF Merge
  <1>5. idx' = [idx EXCEPT ![a] = from]
    BY Zenon DEF Merge
  <1>6. NodesOnly'
    BY <1>1, Zenon DEF QueryInv, NodesOnly, Merge, forestVars
  <1> HIDE DEF from, b
  <1>7. UsedBelow'
    BY <1>1, <1>2, <1>3, <1>4, <1>5 DEF QueryInv, UsedBelow
  <1>8. CopiesKept' /\ CopiesTaken' /\ NeverRequeried'
    BY Zenon DEF QueryInv, CopiesKept, CopiesTaken, Merge, backupVars, callVars,
           config, loopVars
  <1> QED BY <1>6, <1>7, <1>8, Zenon DEF QueryInv

(* Restored supernodes start with no flag set. *)
LEMMA CleanupStep ==
  ASSUME QueryInv, Cleanup
  PROVE  QueryInv'
  <1>1. \A v \in Range(backed_up) : cont /\ copy_in_mem => copies[v] # NoCopy
    BY Zenon DEF QueryInv, CopiesTaken, Cleanup
  <1>2. UsedBelow'
    BY <1>1, Zenon DEF QueryInv, UsedBelow, CopiesKept, Cleanup
  <1>3. CopiesKept'
    BY Zenon DEF Cleanup, CopiesKept
  <1>4. backed_up' = <<>>
    BY Zenon DEF Cleanup
  <1>5. CopiesTaken'
    BY <1>4 DEF CopiesTaken, Range
  <1>6. to_merge' \in [Nodes -> Seq(Nodes)]
    <2>1. to_merge' = NoMerges
      BY Zenon DEF Cleanup
    <2> QED BY <2>1 DEF NoMerges
  <1>7. NodesOnly' /\ NeverRequeried'
    BY <1>6, Zenon DEF QueryInv, NodesOnly, Cleanup, forestVars
  <1> QED BY <1>2, <1>3, <1>5, <1>7, Zenon DEF QueryInv
(* The steps that touch neither flags, nor copies, nor trees. *)
LEMMA OtherSteps ==
  ASSUME QueryInv,
         \/ SampleDone \/ LinkFail \/ LinkZero \/ LinkDone
         \/ InducedFailure \/ NextRound \/ Reset
         \/ (\E e \in Edges : Update(e)) \/ (\E c \in BOOLEAN : Start(c))
         \/ (\E a \in Nodes : Copy(a)) \/ LastRound
         \/ UNCHANGED vars
  PROVE  QueryInv'
  <1> USE DEF QueryInv
  <1>1. CASE SampleDone
    <2>1. to_merge' \in [Nodes -> Seq(Nodes)]
      BY <1>1 DEF SampleDone, NoMerges
    <2> QED BY <1>1, <2>1, Zenon DEF SampleDone, UsedBelow, CopiesKept, CopiesTaken,
          NodesOnly, callVars, config, supernodeVars, forestVars, backupVars
  <1>2. CASE LinkFail
    BY <1>2, Zenon DEF LinkFail, AtAnswer, UsedBelow, CopiesKept, CopiesTaken,
       NodesOnly, callVars, config, supernodeVars, forestVars, backupVars
  <1>3. CASE LinkZero
    BY <1>3, Zenon DEF LinkZero, AtAnswer, UsedBelow, CopiesKept, CopiesTaken,
       NodesOnly, callVars, config, supernodeVars, forestVars, backupVars
  <1>4. CASE LinkDone
    <2>1. UsedBelow' /\ CopiesKept' /\ NodesOnly' /\ NeverRequeried'
      BY <1>4, Zenon DEF LinkDone, UsedBelow, CopiesKept, NodesOnly, supernodeVars,
         forestVars
    <2>2. CopiesTaken'
      BY <1>4, Zenon DEF LinkDone, CopiesTaken, BackUp, callVars, config
    <2> QED BY <2>1, <2>2, Zenon
  <1>5. CASE InducedFailure
    <2>1. CopiesTaken'
      BY <1>5, Zenon DEF InducedFailure, CopiesTaken, callVars, config, backupVars
    <2> QED BY <1>5, <2>1, Zenon DEF InducedFailure, UsedBelow, CopiesKept,
          NodesOnly, supernodeVars, forestVars, backupVars, roundVars
  <1>6. CASE NextRound
    <2>1. CopiesTaken'
      BY <1>6, Zenon DEF NextRound, RoundOver, MustCopy, CopiesTaken, callVars,
         config, backupVars
    <2> QED BY <1>6, <2>1, Zenon DEF NextRound, UsedBelow, CopiesKept, NodesOnly,
          supernodeVars, forestVars, backupVars
  <1>7. CASE Reset
    <2>1. UsedBelow'
      <3>1. /\ queried' = [v \in Nodes |-> QueriedAfterReset(v)]
            /\ idx' = [v \in Nodes |-> 0]
        BY <1>7, Zenon DEF Reset
      <3>2. \A v \in Nodes : QueriedAfterReset(v) = {}
        BY ONLY UsedBelow DEF QueriedAfterReset, UsedBelow
      <3> QED BY ONLY <3>1, <3>2, Zenon DEF UsedBelow
    <2>2. Forest(Identity)
      BY VisitedLeast, Zenon DEF Forest, Identity
    <2>3. NodesOnly'
      BY <1>7, <2>2, Zenon DEF Reset, ClearForest, NodesOnly, roundVars
    <2> QED BY <1>7, <2>1, <2>3, Zenon DEF Reset, CopiesKept, CopiesTaken,
          config, backupVars
  <1>8. CASE \E e \in Edges : Update(e)
    <2>1. UNCHANGED <<idx, queried, parent, to_merge, copies, backed_up, cont,
                      copy_in_mem, pc, first_round, reps, thrown>>
      BY <1>8, Zenon DEF Update, forestVars, config, backupVars, roundVars, loopVars
    <2>2. UsedBelow' /\ CopiesKept' /\ CopiesTaken'
      BY ONLY QueryInv, <2>1, Zenon DEF UsedBelow, CopiesKept, CopiesTaken
    <2> QED BY ONLY QueryInv, <2>1, <2>2, Zenon DEF NodesOnly
  <1>9. CASE \E c \in BOOLEAN : Start(c)
    <2>1. CopiesKept' /\ CopiesTaken'
      <3>1. backed_up' = <<>> /\ copies' = [v \in Nodes |-> NoCopy]
        BY <1>9, Zenon DEF Start
      <3> QED BY ONLY <3>1 DEF CopiesKept, CopiesTaken, Range
    <2> QED BY <1>9, <2>1, Zenon DEF Start, UsedBelow, NodesOnly, supernodeVars
  <1>10. CASE \E a \in Nodes : Copy(a)
    <2>1. PICK a \in Nodes : Copy(a)
      BY <1>10, Zenon
    <2>2. CopiesKept'
      BY <2>1, Zenon DEF Copy, CopiesKept, UsedBelow
    <2>3. CopiesTaken'
      <3>1. /\ pc = "merge" /\ first_round
            /\ UNCHANGED <<cont, copy_in_mem, backed_up, pc, first_round, reps>>
        BY <2>1, Zenon DEF Copy, MustCopy, callVars, config, roundVars, loopVars
      <3> QED BY ONLY CopiesTaken, <3>1, Zenon DEF CopiesTaken
    <2> QED BY <2>1, <2>2, <2>3, Zenon DEF Copy, UsedBelow, NodesOnly,
          supernodeVars, forestVars, roundVars
  <1>11. CASE LastRound
    <2>1. Forest(parent')
      BY <1>11, CompressForest, Zenon DEF LastRound, NodesOnly
    <2>2. CopiesTaken'
      BY <1>11, Zenon DEF LastRound, RoundOver, MustCopy, CopiesTaken, callVars,
         config, backupVars
    <2> QED BY <1>11, <2>1, <2>2, Zenon DEF LastRound, UsedBelow, CopiesKept,
          NodesOnly, supernodeVars, backupVars, roundVars
  <1>12. CASE UNCHANGED vars
    BY <1>12, Zenon DEF vars, UsedBelow, CopiesKept, CopiesTaken, NodesOnly,
       callVars, config, supernodeVars, forestVars, backupVars, roundVars,
       loopVars
  <1> QED BY <1>1, <1>2, <1>3, <1>4, <1>5, <1>6, <1>7, <1>8, <1>9, <1>10,
             <1>11, <1>12, Zenon

(* Every step keeps the invariant. *)
LEMMA QueryStep == QueryInv /\ [Next]_vars => QueryInv'
  <1> SUFFICES ASSUME QueryInv, [Next]_vars PROVE QueryInv'
    BY Zenon
  <1>1. CASE \E r \in Nodes : Sample(r)
    BY <1>1, SampleStep, Zenon
  <1>2. CASE LinkGood
    BY <1>2, LinkGoodStep, Zenon
  <1>3. CASE \E a \in Nodes : Merge(a)
    BY <1>3, MergeStep, Zenon
  <1>4. CASE Cleanup
    BY <1>4, CleanupStep, Zenon
  <1> QED BY <1>1, <1>2, <1>3, <1>4, OtherSteps, Zenon DEF Next, Step, Finished

(* The invariant holds throughout. *)
LEMMA QueryInvariant == Spec => []QueryInv
  BY QueryInit, QueryStep, PTL DEF Spec

(* "we can't query from one sketch more than once" (supernode.h:35): no    *)
(* call of connected_components, on any graph, with any failures, merges,  *)
(* restores and earlier calls, queries a sketch whose flag is set, so      *)
(* MultipleQueryException is never thrown.                                 *)
THEOREM SketchesQueriedOnce == Spec => []NeverRequeried
  <1>1. QueryInv => NeverRequeried
    BY Zenon DEF QueryInv
  <1> QED BY <1>1, QueryInvariant, PTL

(* cleanup_copy never puts a null pointer in place of a supernode: what    *)
(* backed_up lists was copied, in whichever round the query ends or fails. *)
THEOREM CopiesAvailable == Spec => []BackupsComplete
  <1>1. QueryInv => BackupsComplete
    BY Zenon DEF QueryInv, CopiesTaken, BackupsComplete
  <1> QED BY <1>1, QueryInvariant, PTL

(* get_parent ends: from every node the parents lead to a root, however    *)
(* joins and path compression interleave.                                  *)
THEOREM GetParentEnds ==
  Spec => [](\A x \in Nodes : \E r \in Visited(parent, x) : parent[r] = r)
  <1>1. QueryInv => \A x \in Nodes : \E r \in Visited(parent, x) : parent[r] = r
    BY Zenon DEF QueryInv, NodesOnly, Forest
  <1> QED BY <1>1, QueryInvariant, PTL

(* The elements of a concatenation. *)
LEMMA ConcatSet ==
  ASSUME NEW N, NEW s \in Seq(N), NEW t \in Seq(N)
  PROVE  /\ s \o t \in Seq(N)
         /\ Range(s \o t) = Range(s) \cup Range(t)
         /\ IsInjective(s) /\ IsInjective(t) /\ Range(s) \cap Range(t) = {}
              => IsInjective(s \o t)
<1>1. /\ Len(s) \in Nat /\ Len(t) \in Nat /\ s \o t \in Seq(N)
      /\ DOMAIN s = 1 .. Len(s) /\ DOMAIN t = 1 .. Len(t)
      /\ DOMAIN (s \o t) = 1 .. Len(s) + Len(t)
      /\ \A i \in 1 .. Len(s) : (s \o t)[i] = s[i]
      /\ \A i \in Len(s) + 1 .. Len(s) + Len(t) : (s \o t)[i] = t[i - Len(s)]
  OBVIOUS
<1> DEFINE u == s \o t
<1> HIDE DEF u
<1>2. \A j \in 1 .. Len(t) :
        Len(s) + j \in DOMAIN u /\ u[Len(s) + j] = t[j]
  BY <1>1 DEF u
<1>3. Range(u) = Range(s) \cup Range(t)
  <2>1. ASSUME NEW i \in DOMAIN u PROVE u[i] \in Range(s) \cup Range(t)
    <3>1. CASE i <= Len(s)
      BY <1>1, <3>1, SMTT(30) DEF u, Range
    <3>2. CASE i > Len(s)
      <4>1. i - Len(s) \in DOMAIN t /\ u[i] = t[i - Len(s)]
        BY <1>1, <3>2 DEF u
      <4> QED BY <4>1, Zenon DEF Range
    <3> QED BY <1>1, <3>1, <3>2, SMTT(30) DEF u
  <2>2. Range(s) \subseteq Range(u)
    BY <1>1 DEF u, Range
  <2>3. Range(t) \subseteq Range(u)
    BY <1>1, <1>2 DEF Range
  <2> QED BY <2>1, <2>2, <2>3, Zenon DEF Range
<1>4. ASSUME IsInjective(s), IsInjective(t), Range(s) \cap Range(t) = {}
      PROVE  IsInjective(u)
  <2> SUFFICES ASSUME NEW i \in DOMAIN u, NEW j \in DOMAIN u, u[i] = u[j]
               PROVE  i = j
    BY Zenon DEF IsInjective
  <2>1. ASSUME NEW h \in DOMAIN u
        PROVE  \/ h \in DOMAIN s /\ u[h] = s[h] /\ u[h] \in Range(s)
               \/ /\ h - Len(s) \in DOMAIN t /\ u[h] = t[h - Len(s)]
                  /\ u[h] \in Range(t)
    BY <1>1, SMTT(30) DEF u, Range
  <2>2. i \in Nat /\ j \in Nat
    BY <1>1 DEF u
  <2> QED BY <1>1, <1>4, <2>1, <2>2, SMTT(30) DEF IsInjective
<1> QED BY <1>1, <1>3, <1>4, Zenon DEF u

(* The head of a list, and what the tail leaves. *)
LEMMA TailSet ==
  ASSUME NEW N, NEW s \in Seq(N), s # <<>>
  PROVE  /\ Head(s) \in Range(s) /\ Tail(s) \in Seq(N)
         /\ Range(s) = {Head(s)} \cup Range(Tail(s))
         /\ IsInjective(s) => IsInjective(Tail(s)) /\ Head(s) \notin Range(Tail(s))
<1>1. /\ Len(s) \in Nat /\ Len(s) > 0 /\ DOMAIN s = 1 .. Len(s)
      /\ Head(s) = s[1] /\ Tail(s) \in Seq(N)
      /\ DOMAIN Tail(s) = 1 .. Len(s) - 1
      /\ \A i \in 1 .. Len(s) - 1 : Tail(s)[i] = s[i + 1]
  OBVIOUS
<1> DEFINE t == Tail(s)
<1> HIDE DEF t
<1>2. \A i \in DOMAIN s : i = 1 \/ (i - 1 \in DOMAIN t /\ t[i - 1] = s[i])
  BY <1>1 DEF t
<1>3. \A i \in DOMAIN t : i + 1 \in DOMAIN s /\ i + 1 # 1 /\ t[i] = s[i + 1]
  BY <1>1 DEF t
<1>4. Range(s) = {s[1]} \cup Range(t)
  BY <1>1, <1>2, <1>3 DEF Range
<1>5. ASSUME IsInjective(s) PROVE IsInjective(t) /\ s[1] \notin Range(t)
  <2>1. \A i \in DOMAIN t : i \in Nat
    BY <1>1 DEF t
  <2> QED BY <1>1, <1>3, <1>5, <2>1 DEF IsInjective, Range
<1> QED BY <1>1, <1>4, <1>5, Zenon DEF t, Range
(* get_parent: one root only can be reached from a node ... *)
LEMMA RootUnique ==
  ASSUME NEW p, Forest(p), NEW x \in Nodes, NEW r \in Visited(p, x), p[r] = r
  PROVE  Root(p, x) = r
<1>1. p \in [Nodes -> Nodes]
  BY Zenon DEF Forest
<1> DEFINE S == {z \in Visited(p, x) : r \in Visited(p, z)}
<1>2. /\ Visited(p, x) \in SUBSET Nodes /\ x \in Visited(p, x)
      /\ \A z \in Visited(p, x) : p[z] \in Visited(p, x)
      /\ \A U \in SUBSET Nodes :
           x \in U /\ (\A z \in U : p[z] \in U) => Visited(p, x) \subseteq U
  BY <1>1, VisitedLeast, Zenon
<1>3. ASSUME NEW z \in S PROVE p[z] \in S
  <2>1. z \in Nodes /\ p[z] \in Nodes /\ r \in Visited(p, z)
    BY <1>1, <1>2, Zenon
  <2>2. /\ Visited(p, p[z]) \in SUBSET Nodes /\ p[z] \in Visited(p, p[z])
        /\ \A y \in Visited(p, p[z]) : p[y] \in Visited(p, p[z])
    BY <1>1, <2>1, VisitedLeast
  <2>3. Visited(p, z) \subseteq {z} \cup Visited(p, p[z])
    <3> DEFINE U == {z} \cup Visited(p, p[z])
    <3>1. U \in SUBSET Nodes /\ z \in U /\ \A y \in U : p[y] \in U
      BY <2>1, <2>2, Zenon
    <3> HIDE DEF U
    <3>2. Visited(p, z) \subseteq U
      BY <1>1, <2>1, <3>1, VisitedLeast, Zenon
    <3> QED BY <3>2, Zenon DEF U
  <2>4. r \in Visited(p, p[z])
    BY <2>1, <2>2, <2>3, Zenon
  <2> QED BY <1>2, <2>4, Zenon
<1>4. Visited(p, x) \subseteq S
  <2>1. x \in S /\ S \in SUBSET Nodes
    BY <1>2, Zenon
  <2> HIDE DEF S
  <2> QED BY <1>2, <1>3, <2>1, Zenon
<1> DEFINE s == Root(p, x)
<1>5. s \in Nodes /\ s \in Visited(p, x) /\ p[s] = s
  BY RootIsRoot, Zenon
<1>6. r \in Visited(p, s)
  BY <1>4, <1>5, Zenon
<1> HIDE DEF s
<1>7. Visited(p, s) \subseteq {s}
  <2>1. {s} \in SUBSET Nodes /\ s \in {s} /\ \A z \in {s} : p[z] \in {s}
    BY <1>5, Zenon
  <2> QED BY <1>1, <1>5, <2>1, VisitedLeast, Zenon
<1> QED BY <1>6, <1>7, Zenon DEF s

(* ... which a node shares with its parent. *)
LEMMA RootOfParent ==
  ASSUME NEW p, Forest(p), NEW x \in Nodes
  PROVE  p[x] \in Nodes /\ Root(p, p[x]) = Root(p, x)
<1>1. p \in [Nodes -> Nodes] /\ p[x] \in Nodes
  BY Zenon DEF Forest
<1>2. p[x] \in Visited(p, x) /\ \A z \in Visited(p, x) : p[z] \in Visited(p, x)
  BY <1>1, VisitedLeast, Zenon
<1>3. Visited(p, p[x]) \subseteq Visited(p, x)
  <2>1. Visited(p, x) \in SUBSET Nodes
    BY <1>1, VisitedLeast, Zenon
  <2> QED BY <1>1, <1>2, <2>1, VisitedLeast, Zenon
<1>4. Root(p, p[x]) \in Visited(p, p[x]) /\ p[Root(p, p[x])] = Root(p, p[x])
  BY RootIsRoot, Zenon
<1>5. Root(p, p[x]) \in Visited(p, x)
  BY <1>3, <1>4, Zenon
<1>6. Root(p, x) = Root(p, p[x])
  BY <1>4, <1>5, RootUnique, Zenon
<1> QED BY <1>1, <1>6, Zenon

(* A map that is constant on the trees and fixes the roots is get_parent. *)
LEMMA RootOnly ==
  ASSUME NEW p, Forest(p), NEW f,
         \A x \in Nodes : f[p[x]] = f[x],
         \A r \in Nodes : p[r] = r => f[r] = r,
         NEW x \in Nodes
  PROVE  Root(p, x) = f[x]
<1> DEFINE S == {z \in Nodes : f[z] = f[x]}
           r == Root(p, x)
<1>1. p \in [Nodes -> Nodes]
  BY Zenon DEF Forest
<1>2. S \in SUBSET Nodes /\ x \in S /\ \A z \in S : p[z] \in S
  BY <1>1, Zenon
<1>3. Visited(p, x) \subseteq S
  <2> HIDE DEF S
  <2> QED BY <1>1, <1>2, VisitedLeast, Zenon
<1>4. r \in Visited(p, x) /\ p[r] = r
  BY RootIsRoot, Zenon
<1> HIDE DEF r
<1>5. r \in Nodes /\ f[r] = f[x]
  BY <1>3, <1>4, Zenon
<1>6. f[r] = r
  BY <1>4, <1>5, Zenon
<1>7. r = f[x]
  BY <1>5, <1>6, Zenon
<1> QED BY <1>7, Zenon DEF r

(* Path compression changes no root. *)
LEMMA CompressRoot ==
  ASSUME NEW p, Forest(p), NEW X, NEW x \in Nodes
  PROVE  Root(Compress(p, X), x) = Root(p, x)
<1> DEFINE f == [y \in Nodes |-> Root(p, y)]
           q == Compress(p, X)
<1>1. Forest(q)
  BY CompressForest, Zenon
<1>2. \A y \in Nodes : q[y] = Root(p, y) \/ q[y] = p[y]
  BY Zenon DEF Compress
<1>3. \A y \in Nodes : /\ Root(p, y) \in Nodes /\ p[y] \in Nodes
                       /\ Root(p, Root(p, y)) = Root(p, y)
                       /\ Root(p, p[y]) = Root(p, y)
  BY RootIsRoot, RootOfRoot, RootOfParent, Zenon
<1>4. \A y \in Nodes : f[y] = Root(p, y)
  BY Zenon
<1> HIDE DEF f, q
<1>5. \A y \in Nodes : f[q[y]] = f[y]
  BY <1>2, <1>3, <1>4, Zenon
<1>6. \A r \in Nodes : q[r] = r => f[r] = r
  BY <1>2, <1>4, RootOfRoot, SMTT(30)
<1>7. Root(q, x) = f[x]
  BY <1>1, <1>5, <1>6, RootOnly, SMTT(30)
<1> QED BY <1>4, <1>7, Zenon DEF q

(* Linking the root b to the root a moves the tree of b to a. *)
LEMMA LinkRoot ==
  ASSUME NEW p, Forest(p), NEW a \in Nodes, NEW b \in Nodes,
         a # b, p[a] = a, p[b] = b, NEW x \in Nodes
  PROVE  Root([p EXCEPT ![b] = a], x) = IF Root(p, x) = b THEN a ELSE Root(p, x)
<1> DEFINE f == [y \in Nodes |-> IF Root(p, y) = b THEN a ELSE Root(p, y)]
           q == [p EXCEPT ![b] = a]
<1>1. Forest(q)
  BY LinkForest, Zenon
<1>2. q[b] = a /\ \A y \in Nodes : y # b => q[y] = p[y]
  BY Zenon DEF Forest
<1>3. \A y \in Nodes : p[y] \in Nodes /\ Root(p, p[y]) = Root(p, y)
  BY RootOfParent, Zenon
<1>4. Root(p, a) = a /\ Root(p, b) = b
  BY RootOfRoot, Zenon
<1>5. \A y \in Nodes : f[y] = IF Root(p, y) = b THEN a ELSE Root(p, y)
  BY Zenon
<1> HIDE DEF f, q
<1>6. \A y \in Nodes : f[q[y]] = f[y]
  BY <1>2, <1>3, <1>4, <1>5, SMTT(30)
<1>7. \A r \in Nodes : q[r] = r => f[r] = r
  BY <1>2, <1>5, RootOfRoot, SMTT(30)
<1>8. Root(q, x) = f[x]
  BY <1>1, <1>6, <1>7, RootOnly, SMTT(30)
<1> QED BY <1>5, <1>8, Zenon DEF q
(* The nodes connected to x in the graph E. *)
Reach(E, x) ==
  {y \in Nodes : \A S \in SUBSET Nodes :
     x \in S /\ (\A e \in E : e[1] \in S <=> e[2] \in S) => y \in S}

(* Reach(E, x) is the least set of nodes that holds x and is closed under E. *)
LEMMA ReachLeast ==
  ASSUME NEW E \in SUBSET Edges, NEW x \in Nodes
  PROVE  /\ Reach(E, x) \in SUBSET Nodes /\ x \in Reach(E, x)
         /\ \A e \in E : e[1] \in Reach(E, x) <=> e[2] \in Reach(E, x)
         /\ \A S \in SUBSET Nodes :
              x \in S /\ (\A e \in E : e[1] \in S <=> e[2] \in S)
                => Reach(E, x) \subseteq S
<1>1. \A e \in E : e[1] \in Nodes /\ e[2] \in Nodes
  BY Zenon DEF Edges
<1> QED BY <1>1, Zenon DEF Reach

(* Being connected is symmetric and transitive. *)
LEMMA ReachSame ==
  ASSUME NEW E \in SUBSET Edges, NEW x \in Nodes, NEW y \in Reach(E, x)
  PROVE  Reach(E, y) = Reach(E, x) /\ y \in Nodes
<1>1. y \in Nodes
  BY Zenon DEF Reach
<1>2. /\ Reach(E, x) \in SUBSET Nodes /\ x \in Reach(E, x)
      /\ \A e \in E : e[1] \in Reach(E, x) <=> e[2] \in Reach(E, x)
  BY ReachLeast, Zenon
<1>3. /\ Reach(E, y) \in SUBSET Nodes /\ y \in Reach(E, y)
      /\ \A e \in E : e[1] \in Reach(E, y) <=> e[2] \in Reach(E, y)
  BY <1>1, ReachLeast, Zenon
<1>4. Reach(E, y) \subseteq Reach(E, x)
  BY <1>1, <1>2, ReachLeast, Zenon
<1>5. x \in Reach(E, y)
  <2> SUFFICES ASSUME x \notin Reach(E, y) PROVE FALSE
    BY Zenon
  <2> DEFINE S == Nodes \ Reach(E, y)
  <2>1. \A e \in E : e[1] \in Nodes /\ e[2] \in Nodes
    BY Zenon DEF Edges
  <2>2. S \in SUBSET Nodes /\ x \in S /\ y \notin S
    BY <1>3, Zenon
  <2>3. \A e \in E : e[1] \in S <=> e[2] \in S
    BY <1>3, <2>1, Zenon
  <2> HIDE DEF S
  <2> QED BY <2>2, <2>3, ReachLeast, Zenon
<1>6. Reach(E, x) \subseteq Reach(E, y)
  BY <1>3, <1>5, ReachLeast, Zenon
<1> QED BY <1>1, <1>4, <1>6, Zenon

(* The trees of a forest are the components when it joins connected nodes  *)
(* only, and no edge leaves a tree.                                        *)
LEMMA PartitionReach ==
  ASSUME NEW E \in SUBSET Edges, NEW p, Forest(p),
         \A v \in Nodes : Root(p, v) \in Reach(E, v),
         \A e \in E : Root(p, e[1]) = Root(p, e[2])
  PROVE  /\ \A r \in Nodes : {v \in Nodes : Root(p, v) = Root(p, r)} = Reach(E, r)
         /\ Partition(p) = {Reach(E, r) : r \in Nodes}
<1>1. ASSUME NEW r \in Nodes
      PROVE  {v \in Nodes : Root(p, v) = Root(p, r)} = Reach(E, r)
  <2> DEFINE S == {v \in Nodes : Root(p, v) = Root(p, r)}
  <2>1. \A e \in E : e[1] \in Nodes /\ e[2] \in Nodes
    BY Zenon DEF Edges
  <2>2. S \in SUBSET Nodes /\ r \in S /\ \A e \in E : e[1] \in S <=> e[2] \in S
    BY <2>1, Zenon
  <2>3. Reach(E, r) \subseteq S
    <3> HIDE DEF S
    <3> QED BY <2>2, ReachLeast, Zenon
  <2>4. ASSUME NEW v \in S PROVE v \in Reach(E, r)
    <3>1. Root(p, v) \in Reach(E, v) /\ Root(p, v) \in Reach(E, r)
      BY <2>4, Zenon
    <3>2. Reach(E, Root(p, v)) = Reach(E, v) /\ Reach(E, Root(p, v)) = Reach(E, r)
      BY <3>1, ReachSame, Zenon
    <3> QED BY <3>2, ReachLeast, Zenon
  <2> QED BY <2>3, <2>4, Zenon
<1> QED BY <1>1, Zenon DEF Partition

(* The components of the specification that Boruvka implements. *)
LEMMA ComponentReach ==
  /\ \A x : Component(x) = Reach(edges, x)
  /\ Components = {Reach(edges, x) : x \in Nodes}
<1>1. \A x : Component(x) = Reach(edges, x)
  BY Zenon DEF Component, Promise!Component, Promise!Closed, Promise!Nodes, Nodes, Reach
<1>2. Components = {Component(x) : x \in Nodes}
  BY Zenon DEF Components, Promise!Components, Component, Promise!Nodes, Nodes
<1> QED BY <1>1, <1>2, Zenon
(* The states of a DisjointSetUnion. *)
Sets == {d \in [parent : [Nodes -> Nodes], size : [Nodes -> Nat]] : Forest(d.parent)}

(* A new DisjointSetUnion is a forest in which every node is its own root. *)
LEMMA NewSetsForest ==
  NewSets \in Sets /\ \A x \in Nodes : Root(NewSets.parent, x) = x
<1>1. Identity \in [Nodes -> Nodes] /\ Ones \in [Nodes -> Nat]
      /\ \A x \in Nodes : Identity[x] = x
  BY Zenon DEF Identity, Ones
<1>2. Forest(Identity)
  BY <1>1, VisitedLeast, Zenon DEF Forest
<1>3. NewSets.parent = Identity
  BY Zenon DEF NewSets
<1>4. NewSets \in Sets
  BY <1>1, <1>2, Zenon DEF NewSets, Sets
<1> QED BY <1>1, <1>2, <1>3, <1>4, RootOfRoot, Zenon

(* Path compression keeps a forest a forest, and every node its root. *)
LEMMA FindSet ==
  ASSUME NEW d \in Sets, NEW X
  PROVE  /\ find_set(d, X) \in Sets
         /\ \A x \in Nodes : Root(find_set(d, X).parent, x) = Root(d.parent, x)
         /\ \A r \in Nodes : d.parent[r] = r => find_set(d, X).parent[r] = r
<1> DEFINE p == Compress(d.parent, X)
           c == find_set(d, X)
<1>1. d \in [parent : [Nodes -> Nodes], size : [Nodes -> Nat]] /\ Forest(d.parent)
  BY Zenon DEF Sets
<1>2. Forest(p) /\ (\A r \in Nodes : d.parent[r] = r => p[r] = r)
      /\ \A x \in Nodes : Root(p, x) = Root(d.parent, x)
  BY <1>1, CompressForest, CompressRoot, Zenon
<1>3. p \in [Nodes -> Nodes]
  BY <1>2, Zenon DEF Forest
<1>4. c = IF p = d.parent THEN d ELSE [d EXCEPT !.parent = p]
  BY Zenon DEF find_set
<1> HIDE DEF p, c
<1>5. c \in [parent : [Nodes -> Nodes], size : [Nodes -> Nat]] /\ c.parent = p
  BY <1>1, <1>3, <1>4, Zenon
<1>6. c \in Sets
  BY <1>2, <1>5, Zenon DEF Sets
<1> QED BY <1>2, <1>5, <1>6, Zenon DEF c

(* link makes one of two roots the parent of the other, or changes nothing *)
(* in the forest when they are the same.                                   *)
LEMMA LinkSets ==
  ASSUME NEW d \in Sets, NEW i \in Nodes, NEW j \in Nodes,
         d.parent[i] = i, d.parent[j] = j
  PROVE  /\ link(d, i, j) \in Sets
         /\ \E w \in {i, j} :
              /\ \A x \in {i, j} : link(d, i, j).parent[x] = w
              /\ \A x \in Nodes : Root(link(d, i, j).parent, x) =
                   IF Root(d.parent, x) \in {i, j} THEN w ELSE Root(d.parent, x)
<1> DEFINE a == IF d.size[i] < d.size[j] THEN j ELSE i
           b == IF d.size[i] < d.size[j] THEN i ELSE j
           p == [d.parent EXCEPT ![b] = a]
           z == [d.size EXCEPT ![a] = (@ + d.size[b]) % SizeRange]
           l == link(d, i, j)
<1>1. /\ d.parent \in [Nodes -> Nodes] /\ d.size \in [Nodes -> Nat]
      /\ Forest(d.parent) /\ d \in [parent : [Nodes -> Nodes], size : [Nodes -> Nat]]
  BY Zenon DEF Sets
<1>2. {a, b} = {i, j} /\ a \in Nodes /\ b \in Nodes
      /\ d.parent[a] = a /\ d.parent[b] = b
  BY Zenon
<1>3. l = [d EXCEPT !.parent = p, !.size = z]
  BY Zenon DEF link
<1> HIDE DEF a, b, l
<1>4. z \in [Nodes -> Nat]
  <2>1. \A m, n \in Nat : (m + n) % SizeRange \in Nat
    BY BoruvkaAssumption
  <2>2. d.size[a] \in Nat /\ d.size[b] \in Nat
    BY <1>1, <1>2, Zenon
  <2>3. (d.size[a] + d.size[b]) % SizeRange \in Nat
    BY <2>1, <2>2, Zenon
  <2> QED BY <1>1, <1>2, <2>3, Zenon
<1>5. p \in [Nodes -> Nodes] /\ p[b] = a /\ p[a] = a
  BY <1>1, <1>2, Zenon
<1>6. Forest(p) /\ \A x \in Nodes : Root(p, x) =
                IF Root(d.parent, x) \in {a, b} THEN a ELSE Root(d.parent, x)
  <2>1. CASE a = b
    <3>1. p = d.parent
      BY <1>1, <1>2, <2>1, Zenon
    <3> QED BY <1>1, <2>1, <3>1, Zenon
  <2>2. CASE a # b
    <3>1. Forest(p)
      BY <1>1, <1>2, <2>2, LinkForest, Zenon
    <3>2. \A x \in Nodes : Root(p, x) =
            IF Root(d.parent, x) = b THEN a ELSE Root(d.parent, x)
      BY <1>1, <1>2, <2>2, LinkRoot
    <3> QED BY <3>1, <3>2, Zenon
  <2> QED BY <2>1, <2>2, Zenon
<1> HIDE DEF p, z
<1>7. l \in [parent : [Nodes -> Nodes], size : [Nodes -> Nat]] /\ l.parent = p
  BY <1>1, <1>3, <1>4, <1>5, Zenon
<1>8. l \in Sets
  BY <1>6, <1>7, Zenon DEF Sets
<1>9. /\ \A x \in {i, j} : l.parent[x] = a
      /\ \A x \in Nodes : Root(l.parent, x) =
           IF Root(d.parent, x) \in {i, j} THEN a ELSE Root(d.parent, x)
  BY <1>2, <1>5, <1>6, <1>7, Zenon
<1>10. a \in {i, j}
  BY <1>2, Zenon
<1> QED BY <1>8, <1>9, <1>10, Zenon DEF l

(* The file holds as many supernodes as backed_up lists, and samples are   *)
(* awaited in sample_supernodes only.                                      *)
DiskFits == cont /\ ~copy_in_mem => DOMAIN backed_up \subseteq DOMAIN disk.data
TypeInv ==
  /\ TypeOK /\ DOMAIN query = Nodes /\ DiskFits
  /\ pc # "sample" => todo = {}

(* What a sampler may answer about edges. *)
LEMMA AnswersTyped ==
  ASSUME NEW S \in SUBSET Edges
  PROVE  Sampler!Answers(S) \subseteq Sampler!Answers(Edges) \cup Sampler!Answers({})
<1>1. CASE S = {}
  BY <1>1, Zenon
<1>2. CASE S # {}
  BY <1>2, Zenon DEF Sampler!Answers, Sampler!Good, Sampler!Zero, Sampler!Fail
<1> QED BY <1>1, <1>2, Zenon

(* What an answer can be. *)
LEMMA AnswerKinds ==
  ASSUME NEW S, NEW a \in Sampler!Answers(S)
  PROVE  /\ a.ret = "ZERO" <=> S = {}
         /\ a.ret = "GOOD" => a.idx \in S
         /\ a.ret \in {"ZERO", "GOOD", "FAIL"}
  BY DEF Sampler!Answers, Sampler!Good, Sampler!Zero, Sampler!Fail

(* A new graph is well typed. *)
LEMMA TypeInit == Init => TypeInv
<1> SUFFICES ASSUME Init PROVE TypeInv
  BY Zenon
<1>1. edges \subseteq Edges
  BY BoruvkaAssumption, Zenon DEF Init
<1>2. /\ sk \in [Nodes -> [Sketches -> SUBSET Edges]]
      /\ idx \in [Nodes -> 0 .. NumSketches] /\ queried \in [Nodes -> SUBSET Sketches]
  BY <1>1, BoruvkaAssumption DEF Init, Incident
<1>3. parent \in [Nodes -> Nodes] /\ size \in [Nodes -> Nat]
  BY Zenon DEF Init, Identity, Ones
<1>4. {update_locked, copy_in_mem, fail_round_2, cont, modified, first_round,
       failed} \subseteq BOOLEAN
  BY Zenon DEF Init
<1>5. {reps, new_reps, backed_up} \subseteq Seq(Nodes)
  BY DEF Init
<1>6. k \in 1 .. Len(reps) + 1 /\ todo \subseteq Range(reps)
  BY DEF Init
<1>7. DOMAIN query = Nodes /\ \A v \in Nodes : query[v] \in Sampler!Answers({})
  BY Zenon DEF Init, Sampler!Answers
<1>8. to_merge \in [Nodes -> Seq(Nodes)]
  BY DEF Init, NoMerges
<1>9. copies \in [Nodes -> [sk : [Sketches -> SUBSET Edges],
                            idx : 0 .. NumSketches] \cup {NoCopy}]
  BY Zenon DEF Init
<1>10. disk \in [exists : BOOLEAN, data : Seq([Sketches -> SUBSET Edges])]
  BY DEF Init, NoDisk
<1>11. DiskFits
  BY Zenon DEF Init, DiskFits
<1> QED BY <1>1, <1>2, <1>3, <1>4, <1>5, <1>6, <1>7, <1>8, <1>9, <1>10, <1>11, Zenon
        DEF Init, TypeInv, TypeOK

(* sample_supernodes: idx stays within the sketches, and what is sampled   *)
(* are edges.                                                              *)
LEMMA SampleTyped ==
  ASSUME TypeInv, NEW r \in Nodes, Sample(r)
  PROVE  TypeInv'
<1> USE DEF TypeInv, TypeOK
<1>1. idx[r] \in 0 .. NumSketches /\ NumSketches \in Nat
  BY BoruvkaAssumption, Zenon
<1>2. idx' \in [Nodes -> 0 .. NumSketches] /\ queried' \in [Nodes -> SUBSET Sketches]
  <2> DEFINE i == IF idx[r] = NumSketches THEN idx[r] ELSE idx[r] + 1
             q == IF idx[r] = NumSketches THEN queried[r] ELSE queried[r] \cup {idx[r]}
  <2>1. idx' = [idx EXCEPT ![r] = i] /\ queried' = [queried EXCEPT ![r] = q]
    BY Zenon DEF Sample
  <2>2. i \in 0 .. NumSketches
    BY <1>1, SMTT(30)
  <2>3. q \in SUBSET Sketches
    BY <1>1 DEF Sketches
  <2> HIDE DEF i, q
  <2> QED BY <2>1, <2>2, <2>3, Zenon
<1>3. failed' \in BOOLEAN /\ DOMAIN query' = Nodes
      /\ \A v \in Nodes : query'[v] \in Sampler!Answers(Edges) \cup Sampler!Answers({})
  <2>1. CASE UNCHANGED <<query, failed>>
    BY <2>1, Zenon
  <2>2. CASE idx[r] # NumSketches /\ \E a \in Sampler!Answers(sk[r][idx[r]]) :
                /\ query' = [query EXCEPT ![r] = a]
                /\ failed' = (failed \/ a.ret = "FAIL")
    <3>1. PICK a \in Sampler!Answers(sk[r][idx[r]]) :
                /\ query' = [query EXCEPT ![r] = a]
                /\ failed' = (failed \/ a.ret = "FAIL")
      BY <2>2, Zenon
    <3>2. idx[r] \in Sketches
      BY <1>1, <2>2 DEF Sketches
    <3>3. sk[r][idx[r]] \in SUBSET Edges
      BY <3>2
    <3>4. a \in Sampler!Answers(Edges) \cup Sampler!Answers({})
      BY <3>1, <3>3, AnswersTyped, Zenon
    <3> QED BY <3>1, <3>4, Zenon
  <2> QED BY <2>1, <2>2, Zenon DEF Sample
<1>4. /\ thrown' \in {"none", "OutOfQueries", "MultipleQuery", "BadEdge", "NotCC"}
      /\ todo' \subseteq Range(reps)
  BY Zenon DEF Sample
<1>5. UNCHANGED <<callVars, sk, forestVars, pc, reps, k, new_reps, to_merge,
                  modified, first_round, backupVars, found, answer>> /\ pc = "sample"
  BY Zenon DEF Sample
<1> QED BY <1>2, <1>3, <1>4, <1>5, Zenon
        DEF callVars, config, forestVars, backupVars, DiskFits

(* What a step of supernodes_to_merge can do with a sampled edge e between *)
(* the trees of a and b, where path compression leaves the forest p.       *)
Linked(e, a, b, p) ==
    /\ e = query[reps[k]].idx /\ query[reps[k]].ret = "GOOD"
    /\ pc = "link" /\ k <= Len(reps)
    /\ a = Root(parent, e[1]) /\ b = Root(parent, e[2])
    /\ p = Compress(parent, {e[1], e[2]})
    /\ UNCHANGED <<callVars, supernodeVars, reps, todo, query, new_reps,
                   first_round, backupVars, resultVars>>
    /\ \/ /\ a = b /\ parent' = p /\ k' = k + 1
          /\ UNCHANGED <<size, to_merge, modified, verifier, pc, thrown>>
       \/ /\ a # b /\ ~EdgeVerified(verifier, edges, e) /\ parent' = p
          /\ UNCHANGED <<size, to_merge, modified, verifier, k>>
          /\ pc' = "cleanup" /\ thrown' = "BadEdge"
       \/ /\ a # b /\ EdgeVerified(verifier, edges, e) /\ k' = k + 1
          /\ verifier' = verify_edge(verifier, e) /\ UNCHANGED <<pc, thrown>>
          /\ Link(p, a, b) \/ Link(p, b, a)

(* A LinkGood step is a union of two roots, or finds both ends in one tree. *)
LEMMA LinkGoodCases ==
  ASSUME LinkGood
  PROVE  \E e, a, b, p : Linked(e, a, b, p)
<1> DEFINE e == query[reps[k]].idx
           a == Root(parent, e[1])
           b == Root(parent, e[2])
           p == Compress(parent, {e[1], e[2]})
           V == EdgeVerified(verifier, edges, e)
<1>1. /\ query[reps[k]].ret = "GOOD" /\ pc = "link" /\ k <= Len(reps)
      /\ UNCHANGED <<callVars, supernodeVars, reps, todo, query, new_reps,
                     first_round, backupVars, resultVars>>
  BY Zenon DEF LinkGood, AtAnswer
<1>2. /\ IF a = b \/ ~(a = b \/ V)
         THEN parent' = p /\ UNCHANGED <<size, to_merge, modified, verifier>>
         ELSE /\ verifier' = verify_edge(verifier, e)
              /\ IF size[a] < size[b] THEN Link(p, b, a) ELSE Link(p, a, b)
      /\ k' = IF a = b \/ V THEN k + 1 ELSE k
      /\ pc' = IF a = b \/ V THEN pc ELSE "cleanup"
      /\ thrown' = IF a = b \/ V THEN thrown ELSE "BadEdge"
  BY Zenon DEF LinkGood
<1>3. e = query[reps[k]].idx /\ a = Root(parent, e[1]) /\ b = Root(parent, e[2])
      /\ p = Compress(parent, {e[1], e[2]}) /\ (V <=> EdgeVerified(verifier, edges, e))
  BY Zenon
<1> HIDE DEF e, a, b, p, V
<1>4. \/ /\ a = b /\ parent' = p /\ k' = k + 1
         /\ UNCHANGED <<size, to_merge, modified, verifier, pc, thrown>>
      \/ /\ a # b /\ ~V /\ parent' = p
         /\ UNCHANGED <<size, to_merge, modified, verifier, k>>
         /\ pc' = "cleanup" /\ thrown' = "BadEdge"
      \/ /\ a # b /\ V /\ k' = k + 1
         /\ verifier' = verify_edge(verifier, e) /\ UNCHANGED <<pc, thrown>>
         /\ Link(p, a, b) \/ Link(p, b, a)
  BY <1>2, Zenon
<1>5. Linked(e, a, b, p)
  BY <1>1, <1>3, <1>4, Zenon DEF Linked
<1> QED BY <1>5, Zenon

(* The reducing pass keeps the types: one step per result of a query. *)
LEMMA LinkTyped ==
  ASSUME TypeInv, QueryInv, QueryInv', LinkFail \/ LinkZero \/ LinkGood
  PROVE  TypeInv'
<1>1. /\ k \in Nat /\ k >= 1 /\ k <= Len(reps) + 1 /\ reps \in Seq(Nodes)
      /\ new_reps \in Seq(Nodes) /\ modified \in BOOLEAN
      /\ size \in [Nodes -> Nat] /\ Forest(parent)
      /\ thrown \in {"none", "OutOfQueries", "MultipleQuery", "BadEdge", "NotCC"}
  BY SMTT(30) DEF TypeInv, TypeOK, QueryInv, NodesOnly
<1>2. /\ k <= Len(reps) /\ pc = "link"
      /\ UNCHANGED <<callVars, supernodeVars, reps, todo, query, first_round,
                     backupVars, resultVars>>
  BY Zenon DEF LinkFail, LinkZero, LinkGood, AtAnswer
<1>3. /\ k' \in 1 .. Len(reps) + 1 /\ new_reps' \in Seq(Nodes)
      /\ modified' \in BOOLEAN /\ size' \in [Nodes -> Nat]
      /\ pc' \in {"link", "cleanup"}
      /\ thrown' \in {"none", "OutOfQueries", "MultipleQuery", "BadEdge", "NotCC"}
  <2>1. CASE LinkFail
    <3>1. /\ k' = k + 1 /\ new_reps' = Append(new_reps, reps[k]) /\ modified'
          /\ UNCHANGED <<pc, size, thrown>>
      BY <2>1, Zenon DEF LinkFail, FailNoticed, forestVars
    <3> QED BY <1>1, <1>2, <3>1
  <2>2. CASE LinkZero
    <3>1. /\ UNCHANGED <<new_reps, modified, size>>
          /\ \/ k' = k + 1 /\ UNCHANGED <<pc, thrown>>
             \/ k' = k /\ pc' = "cleanup" /\ thrown' = "NotCC"
      BY <2>2, Zenon DEF LinkZero
    <3> QED BY <1>1, <1>2, <3>1
  <2>3. CASE LinkGood
    <3>1. PICK e, a, b, p : Linked(e, a, b, p)
      BY <2>3, LinkGoodCases, Zenon
    <3>2. /\ \/ UNCHANGED <<size, modified>>
             \/ Link(p, a, b) \/ Link(p, b, a)
          /\ new_reps' = new_reps
          /\ \/ k' = k + 1 /\ UNCHANGED <<pc, thrown>>
             \/ k' = k /\ pc' = "cleanup" /\ thrown' = "BadEdge"
      BY <3>1, Zenon DEF Linked
    <3>3. size' \in [Nodes -> Nat] /\ modified' \in BOOLEAN
      <4>1. a \in Nodes /\ b \in Nodes
        BY <1>1, <3>1, RootIsRoot, Zenon DEF Linked
      <4>2. ASSUME NEW c \in Nodes, NEW d \in Nodes, Link(p, c, d)
            PROVE  size' \in [Nodes -> Nat] /\ modified' \in BOOLEAN
        BY <1>1, <4>2 DEF Link
      <4> QED BY <1>1, <3>2, <4>1, <4>2, Zenon
    <3> QED BY <1>1, <1>2, <3>2, <3>3
  <2> QED BY <2>1, <2>2, <2>3, Zenon
<1>4. parent' \in [Nodes -> Nodes] /\ to_merge' \in [Nodes -> Seq(Nodes)]
  BY Zenon DEF QueryInv, NodesOnly, Forest
<1> QED BY <1>2, <1>3, <1>4, Zenon DEF TypeInv, TypeOK, callVars, config,
           supernodeVars, backupVars, resultVars, DiskFits

(* An update keeps the types. *)
LEMMA UpdateTyped ==
  ASSUME TypeInv, NEW e \in Edges, Update(e)
  PROVE  TypeInv'
<1>1. /\ edges \subseteq Edges /\ sk \in [Nodes -> [Sketches -> SUBSET Edges]]
      /\ updates \in Nat
  BY Zenon DEF TypeInv, TypeOK
<1>2. edges' \subseteq Edges /\ updates' \in Nat
  BY <1>1 DEF Update, SymDiff
<1>3. sk' \in [Nodes -> [Sketches -> SUBSET Edges]]
  <2>1. \A v \in Nodes, j \in Sketches :
          /\ SymDiff(sk[v][j], {e}) \in SUBSET Edges /\ sk[v][j] \in SUBSET Edges
    BY <1>1, Zenon DEF SymDiff
  <2> QED BY <2>1, Zenon DEF Update
<1> QED BY <1>2, <1>3, Zenon DEF Update, TypeInv, TypeOK, DiskFits, forestVars, config,
           roundVars, loopVars, backupVars, resultVars

(* The start of a connected-components call keeps the types. *)
LEMMA StartTyped ==
  ASSUME TypeInv, NEW c \in BOOLEAN, Start(c)
  PROVE  TypeInv'
<1>1. /\ reps' \in Seq(Nodes) /\ k' \in 1 .. Len(reps') + 1
      /\ todo' \subseteq Range(reps')
  <2>1. NumNodes \in Nat
    BY BoruvkaAssumption, Zenon
  <2>2. reps' = [i \in 1 .. NumNodes |-> i - 1] /\ k' = 1 /\ todo' = Nodes
    BY Zenon DEF Start
  <2>3. reps' \in Seq(Nodes) /\ Len(reps') = NumNodes
    BY <2>1, <2>2 DEF Nodes
  <2>4. \A v \in Nodes : v + 1 \in DOMAIN reps' /\ reps'[v + 1] = v
    BY <2>1, <2>2 DEF Nodes
  <2> QED BY <2>1, <2>2, <2>3, <2>4 DEF Range
<1>2. /\ size' \in [Nodes -> Nat] /\ backed_up' = <<>> /\ pc' = "sample"
      /\ cont' \in BOOLEAN /\ update_locked' = TRUE /\ first_round' = TRUE
      /\ modified' = FALSE /\ failed' = FALSE /\ thrown' = "none"
      /\ copies' = [v \in Nodes |-> NoCopy] /\ queries' = queries + 1
      /\ UNCHANGED <<edges, supernodeVars, parent, config, query, new_reps,
                     to_merge, disk, found, answer, updates>>
  BY Zenon DEF Start, Ones, ClearModified
<1>3. copies' \in [Nodes -> [sk : [Sketches -> SUBSET Edges],
                             idx : 0 .. NumSketches] \cup {NoCopy}]
  BY <1>2, Zenon
<1>4. {update_locked', copy_in_mem', fail_round_2', cont', modified', first_round',
       failed'} \subseteq BOOLEAN
  BY <1>2, Zenon DEF TypeInv, TypeOK, config
<1>5. /\ pc' = "sample" /\ backed_up' \in Seq(Nodes) /\ queries' \in Nat
      /\ DOMAIN backed_up' = {}
  BY <1>2, SMTT(30) DEF TypeInv, TypeOK
<1>6. DiskFits'
  BY <1>5, Zenon DEF DiskFits
<1> QED BY <1>1, <1>2, <1>3, <1>4, <1>5, <1>6, Zenon
        DEF TypeInv, TypeOK, supernodeVars, config

(* A merge of one supernode into another keeps the types. *)
LEMMA MergeTyped ==
  ASSUME TypeInv, NEW a \in Nodes, Merge(a)
  PROVE  TypeInv'
<1> DEFINE b == Head(to_merge[a])
           from == MergeFrom(a, b)
<1>1. /\ to_merge \in [Nodes -> Seq(Nodes)] /\ to_merge[a] # <<>>
      /\ sk \in [Nodes -> [Sketches -> SUBSET Edges]]
      /\ idx \in [Nodes -> 0 .. NumSketches]
      /\ queried \in [Nodes -> SUBSET Sketches]
  BY Zenon DEF TypeInv, TypeOK, Merge
<1>2. b \in Nodes /\ Tail(to_merge[a]) \in Seq(Nodes)
  BY <1>1
<1>3. from \in 0 .. NumSketches
  BY <1>1, <1>2, Zenon DEF MergeFrom
<1>4. /\ idx' = [idx EXCEPT ![a] = from]
      /\ sk' = [sk EXCEPT ![a] = [j \in Sketches |->
                  IF j >= from THEN SymDiff(sk[a][j], sk[b][j]) ELSE sk[a][j]]]
      /\ queried' = [queried EXCEPT ![a] = @ \cup {j \in queried[b] : j >= from}]
      /\ to_merge' = [to_merge EXCEPT ![a] = Tail(@)]
      /\ UNCHANGED <<callVars, forestVars, pc, loopVars, modified, first_round,
                     backupVars, thrown, resultVars>>
  BY Zenon DEF Merge
<1> HIDE DEF b, from
<1>5. idx' \in [Nodes -> 0 .. NumSketches] /\ queried' \in [Nodes -> SUBSET Sketches]
      /\ to_merge' \in [Nodes -> Seq(Nodes)]
  BY <1>1, <1>2, <1>3, <1>4, Zenon
<1>6. sk' \in [Nodes -> [Sketches -> SUBSET Edges]]
  <2>1. \A j \in Sketches : SymDiff(sk[a][j], sk[b][j]) \in SUBSET Edges
                            /\ sk[a][j] \in SUBSET Edges
    BY <1>1, <1>2, Zenon DEF SymDiff
  <2> QED BY <1>1, <1>4, <2>1, Zenon
<1> QED BY <1>4, <1>5, <1>6, Zenon DEF TypeInv, TypeOK, DiskFits, callVars, config,
           forestVars, loopVars, backupVars, resultVars

(* What cleanup_copy puts back has the type of a supernode. *)
LEMMA CleanupTyped ==
  ASSUME TypeInv, QueryInv, Cleanup
  PROVE  TypeInv'
<1> DEFINE B == IF cont THEN Range(backed_up) ELSE {}
           saved(v) == IF copy_in_mem THEN copies[v]
                       ELSE [sk |-> disk.data[Position(v)], idx |-> 0]
           S == [Sketches -> SUBSET Edges]
<1>1. /\ sk \in [Nodes -> S] /\ idx \in [Nodes -> 0 .. NumSketches]
      /\ queried \in [Nodes -> SUBSET Sketches]
      /\ backed_up \in Seq(Nodes) /\ disk.data \in Seq(S) /\ NumSketches \in Nat
      /\ copies \in [Nodes -> [sk : S, idx : 0 .. NumSketches] \cup {NoCopy}]
      /\ pc = "cleanup" /\ todo = {} /\ DiskFits /\ copy_in_mem \in BOOLEAN
      /\ answer \subseteq SUBSET Nodes
  BY BoruvkaAssumption, Zenon DEF TypeInv, TypeOK, Cleanup
<1> HIDE DEF S
<1>2. ASSUME NEW v \in Nodes, v \in B
      PROVE  saved(v).sk \in S /\ saved(v).idx \in 0 .. NumSketches
  <2>1. v \in Range(backed_up) /\ cont
    BY <1>2, Zenon
  <2>2. CASE copy_in_mem
    <3>1. copies[v] # NoCopy
      BY <1>1, <2>1, <2>2, Zenon DEF QueryInv, CopiesTaken
    <3>2. copies[v] \in [sk : S, idx : 0 .. NumSketches]
      BY <1>1, <3>1, Zenon
    <3> QED BY <2>2, <3>2, Zenon
  <2>3. CASE ~copy_in_mem
    <3>1. Position(v) \in DOMAIN backed_up
      BY <2>1, Zenon DEF Position, Range
    <3>2. Position(v) \in DOMAIN disk.data
      BY <1>1, <2>1, <2>3, <3>1, Zenon DEF DiskFits
    <3>3. disk.data[Position(v)] \in S
      BY <1>1, <3>2
    <3> QED BY <1>1, <2>3, <3>3
  <2> QED BY <2>2, <2>3, Zenon
<1>3. /\ sk' = [v \in Nodes |-> IF v \in B THEN saved(v).sk ELSE sk[v]]
      /\ idx' = [v \in Nodes |-> IF v \in B THEN saved(v).idx ELSE idx[v]]
      /\ queried' = [v \in Nodes |-> IF v \in B THEN {} ELSE queried[v]]
  BY Zenon DEF Cleanup
<1> HIDE DEF B, saved
<1>4. /\ sk' \in [Nodes -> S] /\ idx' \in [Nodes -> 0 .. NumSketches]
      /\ queried' \in [Nodes -> SUBSET Sketches]
  BY <1>1, <1>2, <1>3, Zenon
<1>5. /\ found' = (IF thrown = "none" THEN Partition(parent) ELSE {})
      /\ answer' = (IF cont THEN answer ELSE found')
      /\ pc' \in {"idle", "exited", "reset"}
      /\ reps' = <<>> /\ k' = 1 /\ new_reps' = <<>>
      /\ query' = [v \in Nodes |-> Sampler!Zero]
      /\ backed_up' = <<>> /\ to_merge' = NoMerges
      /\ copies' = [v \in Nodes |-> NoCopy]
      /\ first_round' = TRUE
      /\ UNCHANGED <<callVars, forestVars, todo, modified, disk, thrown, failed>>
  BY Zenon DEF Cleanup
<1>6. found' \subseteq SUBSET Nodes /\ answer' \subseteq SUBSET Nodes
  BY <1>1, <1>5 DEF Partition
<1>7. DOMAIN query' = Nodes /\ \A v \in Nodes : query'[v] \in Sampler!Answers({})
  BY <1>5, Zenon DEF Sampler!Answers
<1>8. /\ reps' \in Seq(Nodes) /\ new_reps' \in Seq(Nodes) /\ backed_up' \in Seq(Nodes)
      /\ k' \in 1 .. Len(reps') + 1 /\ todo' = {}
      /\ to_merge' \in [Nodes -> Seq(Nodes)] /\ DOMAIN backed_up' = {}
  BY <1>1, <1>5 DEF NoMerges
<1>9. copies' \in [Nodes -> [sk : S, idx : 0 .. NumSketches] \cup {NoCopy}]
  BY <1>5, Zenon
<1>10. DiskFits'
  BY <1>8, Zenon DEF DiskFits
<1> QED BY <1>4, <1>5, <1>6, <1>7, <1>8, <1>9, <1>10, Zenon
        DEF TypeInv, TypeOK, S, callVars, config, forestVars

(* The remaining steps keep the types. *)
LEMMA OtherTyped ==
  ASSUME TypeInv, QueryInv',
         \/ SampleDone \/ InducedFailure \/ NextRound \/ LastRound \/ Reset
         \/ (\E a \in Nodes : Copy(a)) \/ UNCHANGED vars
  PROVE  TypeInv'
<1>1. CASE SampleDone
  <2>1. to_merge' \in [Nodes -> Seq(Nodes)]
    BY <1>1 DEF SampleDone, NoMerges
  <2>2. /\ pc' \in {"link", "cleanup"} /\ k' = 1 /\ new_reps' = <<>> /\ todo = {}
        /\ UNCHANGED <<callVars, supernodeVars, forestVars, reps, todo, query,
                       modified, first_round, backupVars, thrown, resultVars>>
    BY <1>1, Zenon DEF SampleDone
  <2>3. k' \in 1 .. Len(reps) + 1 /\ new_reps' \in Seq(Nodes)
    BY <2>2, SMTT(30) DEF TypeInv, TypeOK
  <2> QED BY <2>1, <2>2, <2>3, Zenon DEF TypeInv, TypeOK, DiskFits, callVars, config,
             supernodeVars, forestVars, backupVars, resultVars
<1>2. CASE InducedFailure
  BY <1>2, Zenon DEF InducedFailure, RoundOver, TypeInv, TypeOK, DiskFits, callVars,
     config, supernodeVars, forestVars, roundVars, loopVars, backupVars, resultVars
<1>3. CASE NextRound
  <2>1. /\ first_round' = FALSE /\ modified' = FALSE /\ pc' = "sample"
        /\ todo' = Range(reps)
        /\ UNCHANGED <<callVars, supernodeVars, forestVars, reps, k, query, new_reps,
                       to_merge, backupVars, thrown, resultVars>>
    BY <1>3, Zenon DEF NextRound, ClearModified
  <2> QED BY <2>1, Zenon DEF TypeInv, TypeOK, DiskFits, callVars,
     config, supernodeVars, forestVars, backupVars, resultVars
<1>4. CASE LastRound
  <2>1. parent' \in [Nodes -> Nodes]
    BY Zenon DEF QueryInv, NodesOnly, Forest
  <2> QED BY <1>4, <2>1, Zenon DEF LastRound, RoundOver, TypeInv, TypeOK, DiskFits,
             callVars, config, supernodeVars, roundVars, loopVars, backupVars,
             resultVars
<1>5. CASE Reset
  <2>1. /\ queried' \in [Nodes -> SUBSET Sketches]
        /\ idx' \in [Nodes -> 0 .. NumSketches]
    BY <1>5, BoruvkaAssumption, SMTT(30) DEF Reset, TypeInv, TypeOK, QueriedAfterReset
  <2>2. size' \in [Nodes -> Nat] /\ parent' \in [Nodes -> Nodes]
    BY <1>5, Zenon DEF Reset, ClearForest, Ones, Identity
  <2>3. /\ update_locked' = FALSE /\ answer' = found /\ pc' = "idle" /\ pc = "reset"
        /\ UNCHANGED <<edges, sk, verifier, config, cont, roundVars, backupVars,
                       thrown, failed, found, updates, queries>>
    BY <1>5, Zenon DEF Reset
  <2> QED BY <2>1, <2>2, <2>3, Zenon DEF TypeInv, TypeOK, DiskFits, config, roundVars,
             loopVars, backupVars
<1>6. CASE \E a \in Nodes : Copy(a)
  <2>1. PICK a \in Nodes : Copy(a)
    BY <1>6, Zenon
  <2>2. /\ copies' = [copies EXCEPT ![a] = [sk |-> sk[a], idx |-> idx[a]]]
        /\ UNCHANGED <<callVars, supernodeVars, forestVars, pc, roundVars,
                       backed_up, disk, thrown, resultVars>>
    BY <2>1, Zenon DEF Copy
  <2>3. copies' \in [Nodes -> [sk : [Sketches -> SUBSET Edges],
                               idx : 0 .. NumSketches] \cup {NoCopy}]
    BY <2>2, Zenon DEF TypeInv, TypeOK
  <2> QED BY <2>2, <2>3, Zenon DEF TypeInv, TypeOK, DiskFits, callVars, config,
             supernodeVars, forestVars, roundVars, loopVars, resultVars
<1>7. CASE UNCHANGED vars
  BY <1>7, Zenon DEF vars, TypeInv, TypeOK, DiskFits, callVars, config, supernodeVars,
     forestVars, roundVars, loopVars, backupVars, resultVars
<1> QED BY <1>1, <1>2, <1>3, <1>4, <1>5, <1>6, <1>7, Zenon

(* The forest, seen through get_parent only: path compression changes      *)
(* nothing here.                                                           *)
Rt(v) == Root(parent, v)
Tree(r) == {v \in Nodes : Rt(v) = r}
Cut(S) == {e \in edges : ~(e[1] \in S <=> e[2] \in S)}

(* part[v] is the set of nodes whose sketches have been added up in those  *)
(* of v: they sample the edges that leave part[v].                         *)
Parts(part) ==
  \A v \in Nodes :
    /\ v \in part[v] /\ part[v] \subseteq Tree(Rt(v))
    /\ \A j \in Sketches : j >= idx[v] => sk[v][j] = Cut(part[v])

(* The parts of a root and of those still to be merged into it make up its *)
(* tree, each once.                                                        *)
Heap(r) == {r} \cup Range(to_merge[r])
Heaped(part, r) ==
  /\ \A b \in Heap(r) : Rt(b) = r
  /\ \A v \in Tree(r) : \E b \in Heap(r) : v \in part[b]
  /\ \A b, c \in Heap(r) : b # c => part[b] \cap part[c] = {}
  /\ r \notin Range(to_merge[r]) /\ IsInjective(to_merge[r])
Joined(part) ==
  \A r \in Nodes : IF Rt(r) = r THEN Heaped(part, r) ELSE to_merge[r] = <<>>

(* The answers of this round are about the parts as they are. *)
Sampled(part) ==
  pc \in {"sample", "link"} /\ thrown = "none" =>
    \A r \in Range(reps) \ todo : query[r] \in Sampler!Answers(Cut(part[r]))

Merged ==
  pc \notin {"reset", "exited"} =>
    \E part \in [Nodes -> SUBSET Nodes] :
      Parts(part) /\ Joined(part) /\ Sampled(part)

(* A tree that an edge leaves is not forgotten: it is sampled again, or    *)
(* the call throws.                                                        *)
Live(r) == Rt(r) = r /\ Cut(Tree(r)) # {}
Awaits(r) == \E i \in k .. Len(reps) : reps[i] = r
Active ==
  \A r \in Nodes : Live(r) =>
    /\ pc = "sample" => r \in Range(reps)
    /\ pc = "link" => r \in Range(new_reps) \/ to_merge[r] # <<>> \/ Awaits(r)
    /\ pc = "merge" => r \in Range(reps) /\ modified
    /\ pc = "cleanup" => thrown # "none"

(* Where the call stands, and what its lists hold there. *)
Chosen ==
  /\ IsInjective(new_reps)
  /\ \A r \in Range(new_reps) : \E i \in 1 .. k - 1 : reps[i] = r
  /\ ~modified => new_reps = <<>> /\ to_merge = NoMerges
Control ==
  /\ pc # "idle" => update_locked
  /\ pc \in {"reset", "exited"} => cont
  /\ pc \in {"link", "merge"} => thrown = "none"
  /\ pc \notin {"link", "merge"} => to_merge = NoMerges
  /\ \A a \in Nodes : to_merge[a] # <<>> => a \in Range(reps)
  /\ IsInjective(reps)
  /\ pc = "link" => Chosen
  /\ VerifierAgrees

(* The verifier's forest has the same trees, under other roots. *)
VRt(v) == Root(verifier.sets.parent, v)
Verifiers ==
  [kruskal_ref : {Components}, sets : Sets, boruvka_cc : [Nodes -> SUBSET Nodes]]
SameSets ==
  /\ \A x, y \in Nodes : VRt(x) = VRt(y) <=> Rt(x) = Rt(y)
  /\ \A x \in Nodes : verifier.boruvka_cc[VRt(x)] = Tree(Rt(x))
InStep ==
  update_locked /\ pc \notin {"reset", "exited"} =>
    verifier \in Verifiers /\ SameSets

(* What connected_components(true) has to restore is intact, or there is a *)
(* backup of it.                                                           *)
Intact(v) == \A j \in Sketches : sk[v][j] = Incident(v)
Backups ==
  /\ \A v \in Nodes \ Range(backed_up) : Intact(v)
  /\ copy_in_mem => \A v \in Nodes :
       IF copies[v] = NoCopy THEN Intact(v)
       ELSE \A j \in Sketches : copies[v].sk[j] = Incident(v)
  /\ ~copy_in_mem => \A i \in DOMAIN backed_up : \A j \in Sketches :
       disk.data[i][j] = Incident(backed_up[i])
Listed ==
  IF first_round /\ pc \in {"sample", "link"} THEN backed_up = <<>>
  ELSE pc # "cleanup" => Range(reps) \subseteq Range(backed_up)
Backed ==
  cont /\ pc \in {"sample", "link", "merge", "cleanup"} => Backups /\ Listed
Ready ==
  pc = "reset" => (\A v \in Nodes : Intact(v)) /\ found \in {Components, {}}

(* Only connected nodes are joined. *)
Sound == \A v \in Nodes : Rt(v) \in Component(v)

RoundsInv ==
  Merged /\ Active /\ Control /\ InStep /\ Backed /\ Ready /\ Restored /\ Sound

(* A state of the graph as the updates left it. *)
Fresh == parent = Identity /\ to_merge = NoMerges /\ \A v \in Nodes : Intact(v)
(* get_parent, and the trees it tells apart. *)
LEMMA Roots ==
  ASSUME Forest(parent)
  PROVE  \A v \in Nodes : Rt(v) \in Nodes /\ Rt(Rt(v)) = Rt(v)
                          /\ (parent[v] = v <=> Rt(v) = v)
<1> SUFFICES ASSUME NEW v \in Nodes
             PROVE  Rt(v) \in Nodes /\ Rt(Rt(v)) = Rt(v)
                    /\ (parent[v] = v <=> Rt(v) = v)
  BY Zenon
<1>1. Root(parent, v) \in Nodes /\ parent[Root(parent, v)] = Root(parent, v)
  BY RootIsRoot, Zenon
<1>2. Root(parent, Root(parent, v)) = Root(parent, v)
  BY <1>1, RootOfRoot, Zenon
<1>3. parent[v] = v => Root(parent, v) = v
  BY RootOfRoot, Zenon
<1> QED BY <1>1, <1>2, <1>3, Zenon DEF Rt

(* The edges that leave a single node. *)
LEMMA CutSingle ==
  ASSUME edges \subseteq Edges, NEW v \in Nodes
  PROVE  Cut({v}) = Incident(v)
<1>1. \A e \in edges : e[1] \in Nat /\ e[2] \in Nat /\ e[1] # e[2]
  BY BoruvkaAssumption DEF Edges, Nodes
<1> QED BY <1>1, Zenon DEF Cut, Incident

(* Adding up sketches of disjoint parts: an edge between them cancels. *)
LEMMA CutUnion ==
  ASSUME NEW A, NEW B, A \cap B = {}
  PROVE  SymDiff(Cut(A), Cut(B)) = Cut(A \cup B)
  BY Zenon DEF SymDiff, Cut

(* Between calls, an unmerged graph has one live supernode per node. *)
LEMMA FreshMerged == TypeInv /\ Fresh /\ pc = "idle" => Merged /\ Sound /\ Active
<1> SUFFICES ASSUME TypeInv, Fresh, pc = "idle" PROVE Merged /\ Sound /\ Active
  BY Zenon
<1>1. edges \subseteq Edges /\ edges \in SUBSET Edges
  BY Zenon DEF TypeInv, TypeOK
<1>2. \A v \in Nodes : Rt(v) = v
  BY NewSetsForest, Zenon DEF Fresh, Rt, NewSets
<1> DEFINE part == [v \in Nodes |-> {v}]
<1>3. part \in [Nodes -> SUBSET Nodes] /\ \A v \in Nodes : part[v] = {v}
  BY Zenon
<1> HIDE DEF part
<1>4. \A v \in Nodes : Tree(v) = {v}
  BY <1>2, Zenon DEF Tree
<1>5. Parts(part)
  BY <1>1, <1>2, <1>3, <1>4, CutSingle, Zenon DEF Parts, Fresh, Intact
<1>6. Joined(part)
  <2>1. \A r \in Nodes : to_merge[r] = <<>>
    BY Zenon DEF Fresh, NoMerges
  <2>2. \A r \in Nodes : Heap(r) = {r} /\ Range(to_merge[r]) = {} /\ IsInjective(to_merge[r])
    BY <2>1 DEF Heap, Range, IsInjective
  <2> QED BY <1>2, <1>3, <1>4, <2>2, SMTT(30) DEF Joined, Heaped
<1>7. Sampled(part)
  BY Zenon DEF Sampled
<1>8. Merged
  BY <1>3, <1>5, <1>6, <1>7, Zenon DEF Merged
<1>9. Sound
  BY <1>1, <1>2, ComponentReach, ReachLeast, Zenon DEF Sound
<1> QED BY <1>8, <1>9, Zenon DEF Active

(* The same of the next state. *)
LEMMA FreshNext ==
  TypeInv' /\ Fresh' /\ (pc = "idle")' => Merged' /\ Sound' /\ Active'
  BY FreshMerged, PTL
(* Steps that leave the trees and what is known of them alone. *)
SameTrees == \A v \in Nodes : Rt(v)' = Rt(v)

(* A step that moves no root keeps the trees, the cuts and the components. *)
LEMMA KeepTrees ==
  ASSUME SameTrees, UNCHANGED edges
  PROVE  /\ \A r : Tree(r)' = Tree(r)
         /\ \A S : Cut(S)' = Cut(S)
         /\ \A r \in Nodes : Live(r)' <=> Live(r)
         /\ Sound => Sound'
         /\ Components' = Components
<1>1. /\ \A r : Tree(r)' = Tree(r)
      /\ \A S : Cut(S)' = Cut(S)
  BY Zenon DEF SameTrees, Tree, Cut, Rt
<1>2. \A r \in Nodes : Live(r)' <=> Live(r)
  <2>1. \A r : Cut(Tree(r))' = Cut(Tree(r))
    BY Zenon DEF SameTrees, Tree, Cut, Rt
  <2> QED BY <2>1, Zenon DEF SameTrees, Live, Rt
<1>3. /\ \A x : Component(x)' = Component(x)
      /\ Components' = Components
  BY DEF Component, Promise!Component, Promise!Closed, Components,
     Promise!Components
<1>4. Sound => Sound'
  BY <1>3, Zenon DEF Sound, SameTrees, Rt
<1> QED BY <1>1, <1>2, <1>3, <1>4, Zenon

(* A step that touches no sketch keeps what each one covers. *)
LEMMA KeepParts ==
  ASSUME SameTrees, UNCHANGED edges, UNCHANGED sk,
         idx \in [Nodes -> Nat], idx' \in [Nodes -> Nat],
         \A v \in Nodes : idx'[v] >= idx[v],
         NEW part, Parts(part)
  PROVE  Parts(part)'
<1>1. \A j \in Sketches : j \in Nat
  BY BoruvkaAssumption DEF Sketches
<1>2. ASSUME NEW v \in Nodes, NEW j \in Sketches, j >= idx'[v]
      PROVE  sk'[v][j] = Cut(part[v])'
  <2>1. j >= idx[v]
    BY <1>1, <1>2
  <2>2. sk[v][j] = Cut(part[v])
    BY <2>1, Zenon DEF Parts
  <2> QED BY <2>2, KeepTrees, Zenon
<1>3. \A v \in Nodes : v \in part[v] /\ part[v] \subseteq Tree(Rt(v))'
  BY Zenon DEF Parts, SameTrees, Tree, Rt
<1> QED BY <1>2, <1>3, Zenon DEF Parts

(* A step that touches no merge list keeps what the lists owe. *)
LEMMA KeepJoined ==
  ASSUME to_merge \in [Nodes -> Seq(Nodes)], SameTrees, UNCHANGED to_merge,
         NEW part, Joined(part)
  PROVE  Joined(part)'
<1>1. ASSUME NEW r \in Nodes, Heaped(part, r) PROVE Heaped(part, r)'
  <2>1. Heap(r)' = Heap(r) /\ Heap(r) \subseteq Nodes
    BY SMTT(30) DEF Heap, Range
  <2>2. Tree(r)' = Tree(r) /\ \A b \in Nodes : Rt(b)' = Rt(b)
    BY Zenon DEF SameTrees, Tree, Rt
  <2> QED BY <1>1, <2>1, <2>2, Zenon DEF Heaped
<1>2. \A r \in Nodes : Rt(r)' = Rt(r)
  BY Zenon DEF SameTrees
<1> QED BY <1>1, <1>2, Zenon DEF Joined

(* A step that touches no query result keeps what the results say. *)
LEMMA KeepSampled ==
  ASSUME UNCHANGED <<edges, pc, thrown, reps, todo, query>>, NEW part, Sampled(part)
  PROVE  Sampled(part)'
  BY Zenon DEF Sampled, Cut

(* A step that changes no sketch, no tree and no list of nodes to merge,   *)
(* and brings no new answers.                                              *)
LEMMA KeepMerged ==
  ASSUME Merged, SameTrees, UNCHANGED <<edges, sk, to_merge>>,
         to_merge \in [Nodes -> Seq(Nodes)],
         idx \in [Nodes -> Nat], idx' \in [Nodes -> Nat],
         \A v \in Nodes : idx'[v] >= idx[v],
         pc \notin {"reset", "exited"},
         \A part : Sampled(part) => Sampled(part)'
  PROVE  Merged'
<1>1. PICK part \in [Nodes -> SUBSET Nodes] :
        Parts(part) /\ Joined(part) /\ Sampled(part)
  BY Zenon DEF Merged
<1>2. Parts(part)' /\ Joined(part)'
  BY <1>1, KeepParts, KeepJoined, Zenon
<1>3. Sampled(part)'
  BY <1>1, Zenon
<1> QED BY <1>1, <1>2, <1>3, Zenon DEF Merged

(* A step that moves neither roots nor verifier keeps the two in step. *)
LEMMA KeepInStep ==
  ASSUME InStep, SameTrees, UNCHANGED <<edges, verifier, update_locked>>,
         pc \notin {"reset", "exited"}
  PROVE  InStep'
<1>1. Components' = Components
  BY KeepTrees, Zenon
<1>2. SameSets => SameSets'
  BY SMTT(30) DEF SameSets, SameTrees, Tree, VRt, Rt
<1> QED BY <1>1, <1>2, Zenon DEF InStep, Verifiers

(* A step that touches no sketch or copy keeps the backups intact. *)
LEMMA KeepBackups ==
  ASSUME Backups, UNCHANGED <<edges, sk, copy_in_mem, backed_up, copies, disk>>
  PROVE  Backups'
  BY SMTT(30) DEF Backups, Intact, Incident
(* A new graph satisfies the invariant of the rounds. *)
LEMMA RoundsInit == Init => RoundsInv
<1> SUFFICES ASSUME Init PROVE RoundsInv
  BY Zenon
<1>1. TypeInv
  BY TypeInit, Zenon
<1>2. Fresh /\ pc = "idle"
  BY Zenon DEF Init, Fresh, Intact
<1>3. Merged /\ Sound /\ Active
  BY <1>1, <1>2, FreshMerged, Zenon
<1>4. Control
  <2>1. \A a \in Nodes : to_merge[a] = <<>>
    BY Zenon DEF Init, NoMerges
  <2> QED BY <2>1, SMTT(30) DEF Init, Control, IsInjective, VerifierAgrees
<1>5. InStep /\ Backed /\ Ready
  BY Zenon DEF Init, InStep, Backed, Ready
<1>6. Restored
  BY Zenon DEF Init, Restored
<1> QED BY <1>3, <1>4, <1>5, <1>6, Zenon DEF RoundsInv

(* An update reaches both its ends, in every sketch. *)
LEMMA UpdateRounds ==
  ASSUME TypeInv', RoundsInv, NEW e \in Edges, Update(e)
  PROVE  RoundsInv'
<1>1. /\ pc = "idle" /\ ~update_locked
      /\ edges' = SymDiff(edges, {e})
      /\ sk' = [v \in Nodes |-> [j \in Sketches |->
              IF v \in {e[1], e[2]} THEN SymDiff(sk[v][j], {e}) ELSE sk[v][j]]]
      /\ UNCHANGED <<idx, queried, parent, update_locked, cont, pc, to_merge,
                     reps, thrown>>
  BY Zenon DEF Update, forestVars, roundVars, loopVars
<1>2. Restored /\ Control
  BY Zenon DEF RoundsInv
<1>3. \A v \in Nodes : \A j \in Sketches : sk'[v][j] = Incident(v)'
  <2>1. \A v \in Nodes, j \in Sketches : sk[v][j] = Incident(v)
    BY <1>1, <1>2, Zenon DEF Restored
  <2>2. \A v \in Nodes : Incident(v)' =
          IF v \in {e[1], e[2]} THEN SymDiff(Incident(v), {e}) ELSE Incident(v)
    BY <1>1, Zenon DEF Incident, SymDiff
  <2> QED BY <1>1, <2>1, <2>2, Zenon
<1>4. Restored' /\ Fresh'
  BY <1>1, <1>2, <1>3, Zenon DEF Restored, Fresh, Intact, Control
<1>5. Merged' /\ Sound' /\ Active'
  BY <1>1, <1>4, FreshNext, Zenon
<1>6. Control'
  BY <1>1, <1>2, Zenon DEF Control, VerifierAgrees
<1>7. InStep' /\ Backed' /\ Ready'
  BY <1>1, Zenon DEF InStep, Backed, Ready
<1> QED BY <1>4, <1>5, <1>6, <1>7, Zenon DEF RoundsInv

(* Facts about types that the steps below rely on. *)
LEMMA Typed ==
  ASSUME TypeInv, QueryInv
  PROVE  /\ Forest(parent) /\ edges \in SUBSET Edges
         /\ idx \in [Nodes -> Nat] /\ to_merge \in [Nodes -> Seq(Nodes)]
         /\ reps \in Seq(Nodes) /\ new_reps \in Seq(Nodes) /\ backed_up \in Seq(Nodes)
         /\ Range(reps) \subseteq Nodes
         /\ k \in Nat /\ k >= 1 /\ k <= Len(reps) + 1
         /\ \A a \in Nodes : Range(to_merge[a]) \subseteq Nodes
  BY SMTT(30) DEF TypeInv, TypeOK, QueryInv, NodesOnly, UsedBelow, Range

(* reset_cc_state puts every node back in a tree of its own. *)
LEMMA ResetRounds ==
  ASSUME TypeInv', QueryInv, RoundsInv, Reset
  PROVE  RoundsInv'
<1>1. /\ pc = "reset" /\ pc' = "idle" /\ update_locked' = FALSE /\ parent' = Identity
      /\ queried' = [v \in Nodes |-> {j \in queried[v] : j >= idx[v]}]
      /\ idx' = [v \in Nodes |-> 0]
      /\ UNCHANGED <<edges, sk, cont, reps, to_merge, thrown>>
  BY Zenon DEF Reset, QueriedAfterReset, ClearForest, roundVars, loopVars
<1>2. Control /\ Ready
  BY Zenon DEF RoundsInv
<1>3. to_merge' = NoMerges /\ \A v \in Nodes : Intact(v)'
  BY <1>1, <1>2, Zenon DEF Control, Ready, Intact, Incident
<1>4. Merged' /\ Sound' /\ Active'
  BY <1>1, <1>3, FreshNext, Zenon DEF Fresh
<1>5. Restored'
  <2>1. \A v \in Nodes : queried'[v] = {}
    <3>1. \A v \in Nodes : \A j \in queried[v] : ~(j >= idx[v])
      BY DEF QueryInv, UsedBelow
    <3> QED BY <1>1, <3>1, Zenon
  <2>2. \A v \in Nodes : idx'[v] = 0
    BY <1>1, Zenon
  <2>3. \A v \in Nodes, j \in Sketches : sk'[v][j] = Incident(v)'
    BY <1>3, Zenon DEF Intact
  <2> QED BY <1>1, <2>1, <2>2, <2>3, Zenon DEF Restored
<1>6. Control'
  BY <1>1, <1>2, Zenon DEF Control, VerifierAgrees
<1>7. InStep' /\ Backed' /\ Ready'
  BY <1>1, Zenon DEF InStep, Backed, Ready
<1> QED BY <1>4, <1>5, <1>6, <1>7, Zenon DEF RoundsInv

(* A stuttering step keeps the invariant. *)
LEMMA StutterRounds ==
  ASSUME TypeInv, QueryInv, RoundsInv, UNCHANGED vars
  PROVE  RoundsInv'
<1>1. UNCHANGED <<edges, update_locked, copy_in_mem, cont, sk, idx, queried, parent,
                  verifier, pc, reps, k, todo, query, new_reps, to_merge, modified,
                  first_round, backed_up, copies, disk, thrown, found>>
  BY Zenon DEF vars, callVars, config, supernodeVars, forestVars, roundVars, loopVars,
     backupVars, resultVars
<1>2. Merged /\ Active /\ Control /\ InStep /\ Backed /\ Ready /\ Restored /\ Sound
  BY Zenon DEF RoundsInv
<1>3. SameTrees
  BY <1>1, Zenon DEF SameTrees, Rt
<1>4. Merged'
  <2>1. CASE pc \in {"reset", "exited"}
    BY <1>1, <2>1, Zenon DEF Merged
  <2>2. CASE pc \notin {"reset", "exited"}
    <3>1. \A part : Sampled(part) => Sampled(part)'
      BY <1>1, KeepSampled, Zenon
    <3>2. idx' \in [Nodes -> Nat] /\ \A v \in Nodes : idx'[v] >= idx[v]
      BY <1>1, Typed, SMTT(30)
    <3> QED BY <1>1, <1>2, <1>3, <2>2, <3>1, <3>2, Typed, KeepMerged, Zenon
  <2> QED BY <2>1, <2>2, Zenon
<1>5. Active'
  <2>1. \A r \in Nodes : Live(r)' <=> Live(r)
    BY <1>1, <1>3, KeepTrees, Zenon
  <2> QED BY <1>1, <1>2, <2>1, Zenon DEF Active, Awaits
<1>6. Control'
  BY <1>1, <1>2, Zenon DEF Control, Chosen, VerifierAgrees
<1>7. InStep'
  <2>1. CASE pc \in {"reset", "exited"}
    BY <1>1, <2>1, Zenon DEF InStep
  <2> QED BY <1>1, <1>2, <1>3, <2>1, KeepInStep, Zenon
<1>8. Backed'
  BY <1>1, <1>2, KeepBackups, Zenon DEF Backed, Listed
<1>9. Ready' /\ Restored' /\ Sound'
  <2>1. Components' = Components /\ Sound'
    BY <1>1, <1>2, <1>3, KeepTrees, Zenon
  <2> QED BY <1>1, <1>2, <2>1, Zenon DEF Ready, Restored, Intact, Incident
<1> QED BY <1>4, <1>5, <1>6, <1>7, <1>8, <1>9, Zenon DEF RoundsInv
=============================================================================
