------------------------------ MODULE Boruvka ------------------------------
(***************************************************************************)
(* boruvka_emulation and connected_components (graph.cpp): rounds that     *)
(* sample an edge leaving each supernode, join supernodes in a disjoint-   *)
(* set forest and add up the sketches of those joined, with the backup and *)
(* restore that lets the stream go on after a query.                       *)
(*                                                                         *)
(* The caller runs while every worker is paused (module Graph), so updates *)
(* are atomic here.  sk[v][j] is the set of edges XORed into sketch j of   *)
(* supernode v: symmetric difference, as edges cancel in pairs.  A sketch  *)
(* answers what an l0-sampler promises (module L0Sampler, implemented by   *)
(* module Sketch).  The verifier of the tests runs alongside.              *)
(***************************************************************************)
EXTENDS GraphVerifier, Sequences, FiniteSets

CONSTANTS
  NumSketches,    \* num_sketches of a supernode
  MayFail,        \* whether an l0-sampler may answer FAIL
  ReuseMerged,    \* whether the client calls connected_components(true)
                  \* after connected_components(false)
  InitialGraphs,  \* the graphs behaviours start from
  MaxUpdates,     \* bound: updates
  MaxQueries      \* bound: calls of connected_components

Sketches == 0 .. NumSketches - 1
Edges == {e \in Nodes \X Nodes : e[1] < e[2]}

ASSUME BoruvkaAssumption ==
  /\ NumNodes \in Nat \ {0} /\ SizeRange \in Nat /\ NumNodes < SizeRange
  /\ NumSketches \in Nat
  /\ MayFail \in BOOLEAN /\ ReuseMerged \in BOOLEAN
  /\ InitialGraphs \subseteq SUBSET Edges
  /\ MaxUpdates \in Nat /\ MaxQueries \in Nat

(* Power(b)[n] is b to the power n. *)
Power(b) == LET f[n \in Nat] == IF n = 0 THEN 1 ELSE b * f[n - 1] IN f

(* Faulty: one sketch too few. *)
SketchCountShort(n) == Max({j \in 0 .. 2 * n : Power(3)[j] <= n * Power(2)[j]}) - 1

(* num_sketches(log2(n)/(log2(3)-1)), truncated: the largest j with        *)
(* (3/2)^j <= n.                                                           *)
SketchCount(n) == Max({j \in 0 .. 2 * n : Power(3)[j] <= n * Power(2)[j]})

VARIABLES
  edges,                     \* history: the graph the updates describe
  sk, idx, queried,          \* the supernodes: sketches, next one, and the
                             \* set of those whose already_queried is set
  parent, size,              \* the disjoint-set forest
  verifier,
  update_locked,
  copy_in_mem, fail_round_2, \* configuration, fixed
  pc, cont,                  \* where connected_components(cont) stands
  reps, k,                   \* representatives, and the loop over them
  todo,                      \* representatives whose sample is to come
  query,                     \* query[r]: the answer sampled for r
  new_reps, to_merge, modified, first_round,
  backed_up, copies, disk,   \* which supernodes have a backup, and where
  thrown,                    \* the exception under way
  failed,                    \* history: a sampler failed in this call
  found,                     \* the components computed, {} on an exception
  answer,                    \* what connected_components last returned
  updates, queries           \* counters for the bounds

supernodeVars == <<sk, idx, queried>>
config == <<copy_in_mem, fail_round_2>>
callVars == <<edges, update_locked, config, cont, updates, queries>>
forestVars == <<parent, size, verifier>>
loopVars == <<reps, k, todo, query, new_reps>>
roundVars == <<loopVars, to_merge, modified, first_round>>
backupVars == <<backed_up, copies, disk>>
resultVars == <<failed, found, answer>>
vars == <<callVars, supernodeVars, forestVars, pc, roundVars, backupVars,
          thrown, resultVars>>

NoEdge == <<0, 0>>
NoCopy == <<>>   \* nullptr
NoDisk == [exists |-> FALSE, data |-> <<>>]  \* no backup file
NoMerges == [v \in Nodes |-> <<>>]
Incident(v) == {e \in edges : v \in {e[1], e[2]}}

(* What a sketch promises. *)
Sampler == INSTANCE L0Sampler WITH
  Ids <- Edges, NoIdx <- NoEdge, Sketches <- Nodes \X Sketches,
  content <- [s \in Nodes \X Sketches |-> sk[s[1]][s[2]]],
  queried <- [s \in Nodes \X Sketches |-> s[2] \in queried[s[1]]],
  result <- query

(* The promise to the client, which this module implements. *)
Phase == IF ~update_locked THEN "open"
         ELSE IF pc = "idle" THEN "frozen"
         ELSE IF cont THEN "querying" ELSE "freezing"
Promise == INSTANCE ConnectedComponents WITH phase <- Phase
Component(x) == Promise!Component(x)
Components == Promise!Components
-----------------------------------------------------------------------------
Init ==
  /\ edges \in InitialGraphs
  /\ sk = [v \in Nodes |-> [j \in Sketches |-> Incident(v)]]
  /\ idx = [v \in Nodes |-> 0]
  /\ queried = [v \in Nodes |-> {}]
  /\ parent = Identity /\ size = Ones
  /\ verifier = reset_cc_state({})
  /\ update_locked = FALSE
  /\ copy_in_mem \in BOOLEAN /\ fail_round_2 \in BOOLEAN
  /\ pc = "idle" /\ cont = FALSE
  /\ reps = <<>> /\ k = 1 /\ todo = {}
  /\ query = [v \in Nodes |-> Sampler!Zero]
  /\ new_reps = <<>> /\ to_merge = NoMerges
  /\ modified = FALSE /\ first_round = TRUE
  /\ backed_up = <<>> /\ copies = [v \in Nodes |-> NoCopy] /\ disk = NoDisk
  /\ thrown = "none" /\ failed = FALSE /\ found = {} /\ answer = {}
  /\ updates = 0 /\ queries = 0

(* An update applied to both its endpoints. *)
Update(e) ==
  /\ pc = "idle" /\ ~update_locked /\ updates < MaxUpdates
  /\ edges' = SymDiff(edges, {e})
  /\ sk' = [v \in Nodes |-> [j \in Sketches |->
              IF v \in {e[1], e[2]} THEN SymDiff(sk[v][j], {e}) ELSE sk[v][j]]]
  /\ updates' = updates + 1
  /\ UNCHANGED <<idx, queried, forestVars, update_locked, config, pc, cont,
                 roundVars, backupVars, thrown, resultVars, queries>>

(* Faulty: modified is set once and never cleared. *)
KeepModified == UNCHANGED modified

(* What each iteration of the rounds' loop does first. *)
ClearModified == modified' = FALSE

(* connected_components(c), up to the first round of boruvka_emulation:    *)
(* size is reset but parent is not.  The tests give the graph a verifier   *)
(* in a new state before they query it.                                    *)
Start(c) ==
  /\ pc = "idle" /\ queries < MaxQueries
  /\ c /\ update_locked => ReuseMerged
  /\ cont' = c /\ update_locked' = TRUE
  /\ verifier' = IF update_locked THEN verifier ELSE reset_cc_state(edges)
  /\ size' = Ones
  /\ reps' = [i \in 1 .. NumNodes |-> i - 1] /\ todo' = Nodes
  /\ first_round' = TRUE /\ ClearModified
  /\ backed_up' = <<>> /\ copies' = [v \in Nodes |-> NoCopy]
  /\ k' = 1 /\ thrown' = "none" /\ failed' = FALSE /\ pc' = "sample"
  /\ queries' = queries + 1
  /\ UNCHANGED <<edges, supernodeVars, parent, config, query, new_reps,
                 to_merge, disk, found, answer, updates>>

(* sample_supernodes, parallel over the representatives.  An exception is  *)
(* remembered and the other iterations still run.                          *)
Sample(r) ==
  LET out == idx[r] = NumSketches
      again == ~out /\ idx[r] \in queried[r]
  IN  /\ pc = "sample" /\ r \in todo
      /\ thrown' = IF out THEN "OutOfQueries"
                   ELSE IF again THEN "MultipleQuery" ELSE thrown
      /\ idx' = [idx EXCEPT ![r] = IF out THEN @ ELSE @ + 1]
      /\ queried' = [queried EXCEPT ![r] = IF out THEN @ ELSE @ \cup {idx[r]}]
      /\ IF out \/ again THEN UNCHANGED <<query, failed>>
         ELSE \E a \in Sampler!Answers(sk[r][idx[r]]) :
                /\ query' = [query EXCEPT ![r] = a]
                /\ failed' = (failed \/ a.ret = "FAIL")
      /\ todo' = todo \ {r}
      /\ UNCHANGED <<callVars, sk, forestVars, pc, reps, k, new_reps, to_merge,
                     modified, first_round, backupVars, found, answer>>

SampleDone ==
  /\ pc = "sample" /\ todo = {}
  /\ pc' = IF thrown = "none" THEN "link" ELSE "cleanup"
  /\ k' = 1 /\ new_reps' = <<>> /\ to_merge' = NoMerges
  /\ UNCHANGED <<callVars, supernodeVars, forestVars, reps, todo, query,
                 modified, first_round, backupVars, thrown, resultVars>>
-----------------------------------------------------------------------------
(* supernodes_to_merge: one step per representative, in order. *)

(* The representative whose answer is next, and is of kind ret. *)
AtAnswer(ret) == pc = "link" /\ k <= Len(reps) /\ query[reps[k]].ret = ret

(* Faulty: a failed sample does not ask for another round. *)
FailUnnoticed == UNCHANGED modified

(* try this query again next round as it failed this round *)
FailNoticed == modified' = TRUE

LinkFail ==
  /\ AtAnswer("FAIL")
  /\ FailNoticed
  /\ new_reps' = Append(new_reps, reps[k])
  /\ k' = k + 1
  /\ UNCHANGED <<callVars, supernodeVars, forestVars, pc, reps, todo, query,
                 to_merge, first_round, backupVars, thrown, resultVars>>

LinkZero ==
  /\ AtAnswer("ZERO")
  /\ verifier' = verify_cc(verifier, reps[k])
  /\ IF ComponentVerified(verifier, reps[k])
     THEN k' = k + 1 /\ UNCHANGED <<pc, thrown>>
     ELSE k' = k /\ pc' = "cleanup" /\ thrown' = "NotCC"
  /\ UNCHANGED <<callVars, supernodeVars, parent, size, reps, todo, query,
                 new_reps, to_merge, modified, first_round, backupVars,
                 resultVars>>

(* Faulty: b keeps its pending merges. *)
PendingKept(a, b) == [to_merge EXCEPT ![a] = @ \o <<b>> \o to_merge[b]]

(* add b and any of the nodes to merge with it to a's vector *)
Pending(a, b) ==
  [to_merge EXCEPT ![a] = @ \o <<b>> \o to_merge[b], ![b] = <<>>]

(* make a the parent of b *)
Link(p, a, b) ==
  /\ parent' = [p EXCEPT ![b] = a]
  /\ size' = [size EXCEPT ![a] = @ + size[b]]
  /\ to_merge' = Pending(a, b)
  /\ modified' = TRUE

LinkGood ==
  LET e == query[reps[k]].idx
      a == Root(parent, e[1])
      b == Root(parent, e[2])
      p == Compress(parent, {e[1], e[2]})
      ok == a = b \/ EdgeVerified(verifier, edges, e)
  IN  /\ AtAnswer("GOOD")
      /\ IF a = b \/ ~ok
         THEN parent' = p /\ UNCHANGED <<size, to_merge, modified, verifier>>
         ELSE /\ verifier' = verify_edge(verifier, e)
              /\ IF size[a] < size[b] THEN Link(p, b, a) ELSE Link(p, a, b)
      /\ k' = IF ok THEN k + 1 ELSE k
      /\ pc' = IF ok THEN pc ELSE "cleanup"
      /\ thrown' = IF ok THEN thrown ELSE "BadEdge"
      /\ UNCHANGED <<callVars, supernodeVars, reps, todo, query, new_reps,
                     first_round, backupVars, resultVars>>

(* The elements of s that are in D, in order. *)
Among(s, D) ==
  LET sel[n \in 0 .. Len(s)] ==
        IF n = 0 THEN <<>>
        ELSE IF s[n] \in D THEN Append(sel[n - 1], s[n]) ELSE sel[n - 1]
  IN  sel[Len(s)]

(* The next representatives: the failed ones nothing merges into, then in  *)
(* ascending order those something does.                                   *)
NextReps ==
  LET targets == {a \in Nodes : to_merge[a] # <<>>}
  IN  Among(new_reps, Nodes \ targets)
      \o Among([i \in 1 .. NumNodes |-> i - 1], targets)

(* Faulty: the failed supernodes, not merged into yet, are not backed up.  *)
BackUpTargets == Among(NextReps, {a \in Nodes : to_merge[a] # <<>>})

(* backed_up = reps *)
BackUp == NextReps

(* Faulty: no file is written when there is nothing to back up. *)
backup_if_any(ids) ==
  IF ids = <<>> THEN disk
  ELSE [exists |-> TRUE, data |-> [i \in DOMAIN ids |-> sk[ids[i]]]]

(* The file: the sketches of the supernodes listed, one after the other. *)
backup_to_disk(ids) ==
  [exists |-> TRUE, data |-> [i \in DOMAIN ids |-> sk[ids[i]]]]

(* ... followed, in the first round of a query that must restore, by the   *)
(* choice of the supernodes to back up, and by backup_to_disk.             *)
LinkDone ==
  /\ pc = "link" /\ k > Len(reps)
  /\ reps' = NextReps
  /\ IF cont /\ first_round
     THEN /\ backed_up' = BackUp
          /\ disk' = IF copy_in_mem THEN disk ELSE backup_to_disk(BackUp)
     ELSE UNCHANGED <<backed_up, disk>>
  /\ pc' = "merge"
  /\ k' = 1 /\ new_reps' = <<>> /\ query' = [v \in Nodes |-> Sampler!Zero]
  /\ UNCHANGED <<callVars, supernodeVars, forestVars, todo, to_merge, modified,
                 first_round, copies, thrown, resultVars>>
-----------------------------------------------------------------------------
(* merge_supernodes: parallel over the representatives. *)

(* Faulty: only supernodes that others are merged into are copied. *)
MustCopyTargets(a) ==
  /\ cont /\ first_round /\ copy_in_mem /\ copies[a] = NoCopy
  /\ to_merge[a] # <<>>

MustCopy(a) == cont /\ first_round /\ copy_in_mem /\ copies[a] = NoCopy

(* The copy constructor of Supernode keeps idx; that of Sketch leaves      *)
(* already_queried at its initial false.                                   *)
Copy(a) ==
  /\ pc = "merge" /\ a \in Range(reps) /\ MustCopy(a)
  /\ copies' = [copies EXCEPT ![a] = [sk |-> sk[a], idx |-> idx[a]]]
  /\ UNCHANGED <<callVars, supernodeVars, forestVars, pc, roundVars, backed_up,
                 disk, thrown, resultVars>>

(* Faulty: the merged supernode skips one sketch. *)
MergeFromNext(a, b) == 1 + (IF idx[a] >= idx[b] THEN idx[a] ELSE idx[b])

(* std::max(idx, other.idx) *)
MergeFrom(a, b) == IF idx[a] >= idx[b] THEN idx[a] ELSE idx[b]

(* Supernode::merge of the next b into a: only the sketches both have left. *)
Merge(a) ==
  LET b == Head(to_merge[a])
      from == MergeFrom(a, b)
  IN  /\ pc = "merge" /\ a \in Range(reps) /\ ~MustCopy(a)
      /\ to_merge[a] # <<>>
      /\ idx' = [idx EXCEPT ![a] = from]
      /\ sk' = [sk EXCEPT ![a] = [j \in Sketches |->
                  IF j >= from THEN SymDiff(sk[a][j], sk[b][j]) ELSE sk[a][j]]]
      /\ queried' = [queried EXCEPT ![a] =
                       @ \cup {j \in queried[b] : j >= from}]
      /\ to_merge' = [to_merge EXCEPT ![a] = Tail(@)]
      /\ UNCHANGED <<callVars, forestVars, pc, loopVars, modified, first_round,
                     backupVars, thrown, resultVars>>

RoundOver ==
  /\ pc = "merge"
  /\ \A a \in Range(reps) : to_merge[a] = <<>> /\ ~MustCopy(a)

(* fail_round_2 is the test hook of should_fail_CC. *)
InducedFailure ==
  /\ RoundOver /\ ~first_round /\ fail_round_2
  /\ thrown' = "OutOfQueries" /\ pc' = "cleanup"
  /\ UNCHANGED <<callVars, supernodeVars, forestVars, roundVars, backupVars,
                 resultVars>>

NextRound ==
  /\ RoundOver /\ (first_round \/ ~fail_round_2) /\ modified
  /\ first_round' = FALSE /\ ClearModified
  /\ pc' = "sample" /\ todo' = Range(reps)
  /\ UNCHANGED <<callVars, supernodeVars, forestVars, reps, k, query, new_reps,
                 to_merge, backupVars, thrown, resultVars>>

(* Nothing changed: get_parent(i) of every i makes the forest flat. *)
LastRound ==
  /\ RoundOver /\ (first_round \/ ~fail_round_2) /\ ~modified
  /\ parent' = Compress(parent, Nodes)
  /\ pc' = "cleanup"
  /\ UNCHANGED <<callVars, supernodeVars, size, verifier, roundVars,
                 backupVars, thrown, resultVars>>
-----------------------------------------------------------------------------
Position(v) == CHOOSE i \in DOMAIN backed_up : backed_up[i] = v

(* cleanup_copy, then the return or rethrow, where the locals of           *)
(* boruvka_emulation end.  restore_from_disk exits the process when there  *)
(* is no backup file.                                                      *)
Cleanup ==
  LET B == IF cont THEN Range(backed_up) ELSE {}
      saved(v) == IF copy_in_mem THEN copies[v]
                  ELSE [sk |-> disk.data[Position(v)], idx |-> 0]
  IN  /\ pc = "cleanup"
      /\ sk' = [v \in Nodes |-> IF v \in B THEN saved(v).sk ELSE sk[v]]
      /\ idx' = [v \in Nodes |-> IF v \in B THEN saved(v).idx ELSE idx[v]]
      /\ queried' = [v \in Nodes |-> IF v \in B THEN {} ELSE queried[v]]
      /\ found' = IF thrown = "none" THEN Partition(parent) ELSE {}
      /\ answer' = IF cont THEN answer ELSE found'
      /\ pc' = IF ~cont THEN "idle"
               ELSE IF ~copy_in_mem /\ ~disk.exists THEN "exited" ELSE "reset"
      /\ reps' = <<>> /\ k' = 1 /\ new_reps' = <<>>
      /\ query' = [v \in Nodes |-> Sampler!Zero]
      /\ backed_up' = <<>> /\ to_merge' = NoMerges
      /\ copies' = [v \in Nodes |-> NoCopy]
      /\ first_round' = TRUE
      /\ UNCHANGED <<callVars, forestVars, todo, modified, disk, thrown, failed>>

(* Faulty: the forest of the last query stays. *)
KeepForest == UNCHANGED <<parent, size>>

(* parent[i] = i and size[i] = 1 *)
ClearForest == parent' = Identity /\ size' = Ones

(* Faulty: reset_query_state rewinds idx and leaves the flags. *)
QueriedKept(v) == queried[v]

(* reset_query_state clears the flags of the sketches below idx only. *)
QueriedAfterReset(v) == {j \in queried[v] : j >= idx[v]}

(* connected_components(true): get ready for more of the stream. *)
Reset ==
  /\ pc = "reset"
  /\ queried' = [v \in Nodes |-> QueriedAfterReset(v)]
  /\ idx' = [v \in Nodes |-> 0]
  /\ ClearForest
  /\ update_locked' = FALSE
  /\ answer' = found
  /\ pc' = "idle"
  /\ UNCHANGED <<edges, sk, verifier, config, cont, roundVars, backupVars,
                 thrown, failed, found, updates, queries>>

Finished ==
  /\ pc = "exited" \/ (pc = "idle" /\ queries = MaxQueries)
  /\ UNCHANGED vars

Step ==
  \/ \E r \in Nodes : Sample(r)
  \/ SampleDone \/ LinkFail \/ LinkZero \/ LinkGood \/ LinkDone
  \/ \E a \in Nodes : Copy(a) \/ Merge(a)
  \/ InducedFailure \/ NextRound \/ LastRound \/ Cleanup \/ Reset

Next ==
  \/ \E e \in Edges : Update(e)
  \/ \E c \in BOOLEAN : Start(c)
  \/ Step
  \/ Finished

Spec == Init /\ [][Next]_vars

(* The thread inside connected_components keeps running. *)
FairSpec == Spec /\ WF_vars(Step)
-----------------------------------------------------------------------------
TypeOK ==
  /\ edges \subseteq Edges
  /\ sk \in [Nodes -> [Sketches -> SUBSET Edges]]
  /\ idx \in [Nodes -> 0 .. NumSketches]
  /\ queried \in [Nodes -> SUBSET Sketches]
  /\ parent \in [Nodes -> Nodes] /\ size \in [Nodes -> Nat]
  /\ {update_locked, copy_in_mem, fail_round_2, cont, modified, first_round,
      failed} \subseteq BOOLEAN
  /\ pc \in {"idle", "sample", "link", "merge", "cleanup", "reset", "exited"}
  /\ {reps, new_reps, backed_up} \subseteq Seq(Nodes)
  /\ k \in 1 .. Len(reps) + 1 /\ todo \subseteq Range(reps)
  /\ \A v \in Nodes : query[v] \in Sampler!Answers(Edges) \cup Sampler!Answers({})
  /\ to_merge \in [Nodes -> Seq(Nodes)]
  /\ copies \in [Nodes -> [sk : [Sketches -> SUBSET Edges],
                           idx : 0 .. NumSketches] \cup {NoCopy}]
  /\ disk \in [exists : BOOLEAN, data : Seq([Sketches -> SUBSET Edges])]
  /\ thrown \in {"none", "OutOfQueries", "MultipleQuery", "BadEdge", "NotCC"}
  /\ answer \subseteq SUBSET Nodes /\ found \subseteq SUBSET Nodes
  /\ updates \in Nat /\ queries \in Nat

(* The forest only ever joins nodes that the graph connects, whatever the  *)
(* samples, failures and rounds.                                           *)
SoundForest == \A v \in Nodes : parent[v] \in Component(v)

(* connected_components returns "a vector of the connected components in   *)
(* the graph" (graph.h:126): when the rounds end without an exception the  *)
(* forest's trees are exactly the components.                              *)
CorrectForest ==
  pc = "cleanup" /\ thrown = "none" => Partition(parent) = Components

(* The verifier, whose forest takes other roots and whose reference counts *)
(* sizes past their range, never rejects a join or a finished component.   *)
VerifierAgrees == thrown \notin {"BadEdge", "NotCC"}

(* When cleanup_copy runs, in whichever round, every supernode it restores *)
(* from memory has been copied: none of them becomes a null pointer.       *)
BackupsComplete ==
  pc = "cleanup" /\ cont /\ copy_in_mem =>
    \A v \in Range(backed_up) : copies[v] # NoCopy

(* connected_components(true) with its backup on disk never ends the       *)
(* process in restore_from_disk ("Failed to open file for reading backup", *)
(* graph.cpp:321): a round that throws comes after one that wrote the      *)
(* file, and the file is written when there is nothing to back up, too.    *)
ProcessSurvives == pc # "exited"

(* After connected_components(true), whether it returned or threw in any   *)
(* round, and with either kind of backup, the graph is as the updates left *)
(* it: every sketch of every supernode, the query state and the forest.    *)
Restored ==
  pc = "idle" /\ ~update_locked =>
    /\ \A v \in Nodes, j \in Sketches : sk[v][j] = Incident(v)
    /\ \A v \in Nodes : idx[v] = 0 /\ queried[v] = {}
    /\ parent = Identity

(* No sketch is queried twice ("we can't query from one sketch more than   *)
(* once", supernode.h:35), although merging mixes supernodes that have     *)
(* used up different numbers of sketches.                                  *)
NeverRequeried == thrown # "MultipleQuery"

(* The parallel merges of a round are independent: no supernode is merged  *)
(* into twice, or read by one iteration while another one writes it.       *)
MergesIndependent ==
  pc = "merge" =>
    /\ IsInjective(reps)
    /\ \A a, c \in Nodes : to_merge[a] # <<>> =>
         /\ a \in Range(reps) /\ a \notin Range(to_merge[c])
         /\ a # c => Range(to_merge[a]) \cap Range(to_merge[c]) = {}

(* Unless a sampler fails, num_sketches queries are enough: the first call *)
(* ends before a supernode runs out of sketches (the halving argument      *)
(* behind log_{3/2} n in the constructor of Supernode).                    *)
EnoughSketches == thrown = "OutOfQueries" /\ ~fail_round_2 => failed

(* Failed samples are retried, but not for ever: every call ends.          *)
Terminates == (pc \notin {"idle", "exited"}) ~> (pc \in {"idle", "exited"})

(* The algorithm implements the promise to the client. *)
KeepsPromise == Promise!Spec
=============================================================================
