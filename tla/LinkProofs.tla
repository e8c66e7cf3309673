----------------------------- MODULE LinkProofs -----------------------------
(***************************************************************************)
(* The steps of sample_supernodes, supernodes_to_merge, merge_supernodes   *)
(* and of the end of a call keep the invariant of the rounds.              *)
(***************************************************************************)
EXTENDS BoruvkaProofs

(* A sample is taken of the edges that leave the supernode's part. *)
LEMMA SampleRounds ==
  ASSUME TypeInv, QueryInv, QueryInv', RoundsInv, NEW r \in Nodes, Sample(r)
  PROVE  RoundsInv'
<1>1. /\ pc = "sample" /\ todo' = todo \ {r}
      /\ \/ thrown' = "OutOfQueries" \/ thrown' = "MultipleQuery"
         \/ /\ thrown' = thrown /\ idx[r] # NumSketches
            /\ \E a \in Sampler!Answers(sk[r][idx[r]]) : query' = [query EXCEPT ![r] = a]
      /\ idx' = [idx EXCEPT ![r] = IF idx[r] = NumSketches THEN @ ELSE @ + 1]
      /\ UNCHANGED <<edges, update_locked, copy_in_mem, cont, sk, parent, verifier,
                     pc, reps, to_merge, modified, first_round, backed_up, copies, disk>>
  BY Zenon DEF Sample, callVars, config, forestVars, backupVars
<1>2. Merged /\ Active /\ Control /\ InStep /\ Backed /\ Sound
  BY Zenon DEF RoundsInv
<1>3. SameTrees
  BY <1>1, Zenon DEF SameTrees, Rt
<1>4. idx \in [Nodes -> Nat] /\ idx' \in [Nodes -> Nat] /\ \A v \in Nodes : idx'[v] >= idx[v]
  BY <1>1, Typed
<1>5. Merged'
  <2>1. PICK part \in [Nodes -> SUBSET Nodes] :
          Parts(part) /\ Joined(part) /\ Sampled(part)
    BY <1>1, <1>2, Zenon DEF Merged
  <2>2. Parts(part)' /\ Joined(part)'
    BY <1>1, <1>3, <1>4, <2>1, Typed, KeepParts, KeepJoined, Zenon
  <2>3. Sampled(part)'
    <3> SUFFICES ASSUME thrown' = "none", NEW q \in Range(reps) \ todo'
                 PROVE  query'[q] \in Sampler!Answers(Cut(part[q]))
      BY <1>1, <1>3, KeepTrees, Zenon DEF Sampled
    <3>1. /\ thrown = "none" /\ idx[r] # NumSketches
          /\ \E a \in Sampler!Answers(sk[r][idx[r]]) : query' = [query EXCEPT ![r] = a]
      BY <1>1, Zenon
    <3>2. PICK a \in Sampler!Answers(sk[r][idx[r]]) : query' = [query EXCEPT ![r] = a]
      BY <3>1, Zenon
    <3>3. DOMAIN query = Nodes /\ q \in Nodes
      BY Typed, Zenon DEF TypeInv
    <3>4. CASE q = r
      <4>1. idx[r] \in Sketches /\ idx[r] >= idx[r]
        BY <3>1, BoruvkaAssumption DEF TypeInv, TypeOK, Sketches
      <4>2. sk[r][idx[r]] = Cut(part[r])
        BY <2>1, <4>1, Zenon DEF Parts
      <4> QED BY <3>2, <3>3, <3>4, <4>2, Zenon
    <3>5. CASE q # r
      <4>1. q \in Range(reps) \ todo
        BY <1>1, <3>5, Zenon
      <4>2. query[q] \in Sampler!Answers(Cut(part[q]))
        BY <1>1, <2>1, <3>1, <4>1, Zenon DEF Sampled
      <4> QED BY <3>2, <3>3, <3>5, <4>2, Zenon
    <3> QED BY <3>4, <3>5, Zenon
  <2> QED BY <2>1, <2>2, <2>3, Zenon DEF Merged
<1>6. Active'
  BY <1>1, <1>2, <1>3, KeepTrees, Zenon DEF Active
<1>7. Control'
  BY <1>1, <1>2, Zenon DEF Control, VerifierAgrees
<1>8. InStep'
  BY <1>1, <1>2, <1>3, KeepInStep, Zenon
<1>9. Backed'
  BY <1>1, <1>2, KeepBackups, Zenon DEF Backed, Listed
<1>10. Ready' /\ Restored' /\ Sound'
  BY <1>1, <1>2, <1>3, KeepTrees, Zenon DEF Ready, Restored
<1> QED BY <1>5, <1>6, <1>7, <1>8, <1>9, <1>10, Zenon DEF RoundsInv

(* The end of the sampling loop, or the exception it rethrows. *)
LEMMA SampleDoneRounds ==
  ASSUME TypeInv, QueryInv, RoundsInv, SampleDone
  PROVE  RoundsInv'
<1>1. /\ pc = "sample" /\ todo = {}
      /\ pc' = (IF thrown = "none" THEN "link" ELSE "cleanup")
      /\ k' = 1 /\ new_reps' = <<>> /\ to_merge' = NoMerges
      /\ UNCHANGED <<edges, update_locked, copy_in_mem, cont, sk, idx, parent, verifier,
                     todo, query, reps, modified, first_round, backed_up, copies, disk,
                     thrown>>
  BY Zenon DEF SampleDone, callVars, config, supernodeVars, forestVars, backupVars
<1>2. Merged /\ Active /\ Control /\ InStep /\ Backed /\ Sound
  BY Zenon DEF RoundsInv
<1>3. SameTrees
  BY <1>1, Zenon DEF SameTrees, Rt
<1>4. to_merge' = to_merge
  BY <1>1, <1>2, Zenon DEF Control
<1>5. Merged'
  <2>1. \A part : Sampled(part) => Sampled(part)'
    BY <1>1, Zenon DEF Sampled, Cut
  <2>2. idx' \in [Nodes -> Nat] /\ \A v \in Nodes : idx'[v] >= idx[v]
    BY <1>1, Typed
  <2> QED BY <1>1, <1>2, <1>3, <1>4, <2>1, <2>2, Typed, KeepMerged, Zenon
<1>6. Active'
  <2> SUFFICES ASSUME NEW r \in Nodes, Live(r)', thrown = "none" PROVE Awaits(r)'
    BY <1>1, Zenon DEF Active
  <2>1. r \in Range(reps)
    BY <1>1, <1>2, <1>3, KeepTrees, Zenon DEF Active
  <2>2. \E i \in 1 .. Len(reps) : reps[i] = r
    BY <2>1, Typed DEF Range
  <2> QED BY <1>1, <2>2, Zenon DEF Awaits
<1>7. Control'
  <2>1. Chosen'
    BY <1>1 DEF Chosen, IsInjective, Range
  <2>2. \A a \in Nodes : to_merge'[a] = <<>>
    BY <1>1, Zenon DEF NoMerges
  <2> QED BY <1>1, <1>2, <2>1, <2>2, Zenon DEF Control, VerifierAgrees
<1>8. InStep'
  BY <1>1, <1>2, <1>3, KeepInStep, Zenon
<1>9. Backed'
  BY <1>1, <1>2, KeepBackups, Zenon DEF Backed, Listed
<1>10. Ready' /\ Restored' /\ Sound'
  BY <1>1, <1>2, <1>3, KeepTrees, Zenon DEF Ready, Restored
<1> QED BY <1>5, <1>6, <1>7, <1>8, <1>9, <1>10, Zenon DEF RoundsInv

(* A failed supernode is kept for the next round. *)
LEMMA LinkFailRounds ==
  ASSUME TypeInv, QueryInv, RoundsInv, LinkFail
  PROVE  RoundsInv'
<1>1. /\ pc = "link" /\ k <= Len(reps) /\ modified' = TRUE
      /\ new_reps' = Append(new_reps, reps[k]) /\ k' = k + 1
      /\ UNCHANGED <<edges, update_locked, copy_in_mem, cont, sk, idx, parent, verifier,
                     pc, reps, todo, query, to_merge, first_round, backed_up, copies,
                     disk, thrown>>
  BY Zenon DEF LinkFail, AtAnswer, FailNoticed, callVars, config, supernodeVars, forestVars,
     backupVars
<1>2. Merged /\ Active /\ Control /\ InStep /\ Backed /\ Sound
  BY Zenon DEF RoundsInv
<1>3. SameTrees
  BY <1>1, Zenon DEF SameTrees, Rt
<1>4. /\ k \in Nat /\ k >= 1 /\ reps \in Seq(Nodes) /\ new_reps \in Seq(Nodes)
      /\ reps[k] \in Nodes
  BY <1>1, Typed
<1>5. /\ Len(new_reps') = Len(new_reps) + 1 /\ Len(new_reps) \in Nat
      /\ DOMAIN new_reps = 1 .. Len(new_reps) /\ DOMAIN new_reps' = 1 .. Len(new_reps) + 1
      /\ new_reps'[Len(new_reps) + 1] = reps[k]
      /\ \A i \in 1 .. Len(new_reps) : new_reps'[i] = new_reps[i]
      /\ Range(new_reps') = Range(new_reps) \cup {reps[k]}
  <2>1. /\ Len(new_reps') = Len(new_reps) + 1 /\ Len(new_reps) \in Nat
        /\ DOMAIN new_reps = 1 .. Len(new_reps)
        /\ DOMAIN new_reps' = 1 .. Len(new_reps) + 1
        /\ new_reps'[Len(new_reps) + 1] = reps[k]
        /\ \A i \in 1 .. Len(new_reps) : new_reps'[i] = new_reps[i]
    BY <1>1, <1>4
  <2> QED BY <2>1 DEF Range
<1>6. Merged'
  <2>1. \A part : Sampled(part) => Sampled(part)'
    BY <1>1, KeepSampled, Zenon
  <2>2. idx' \in [Nodes -> Nat] /\ \A v \in Nodes : idx'[v] >= idx[v]
    BY <1>1, Typed
  <2> QED BY <1>1, <1>2, <1>3, <2>1, <2>2, Typed, KeepMerged, Zenon
<1>7. Active'
  <2> SUFFICES ASSUME NEW r \in Nodes, Live(r)'
               PROVE  r \in Range(new_reps') \/ to_merge'[r] # <<>> \/ Awaits(r)'
    BY <1>1, Zenon DEF Active
  <2>1. r \in Range(new_reps) \/ to_merge[r] # <<>> \/ Awaits(r)
    BY <1>1, <1>2, <1>3, KeepTrees, Zenon DEF Active
  <2>2. Awaits(r) => r = reps[k] \/ Awaits(r)'
    BY <1>1, <1>4 DEF Awaits
  <2> QED BY <1>1, <1>5, <2>1, <2>2, Zenon
<1>8. Control'
  <2>1. Chosen /\ IsInjective(reps)
    BY <1>1, <1>2, Zenon DEF Control
  <2>2. DOMAIN reps = 1 .. Len(reps) /\ Len(reps) \in Nat
    BY <1>4
  <2>3. reps[k] \notin Range(new_reps)
    <3>1. \A i \in 1 .. k - 1 : reps[i] # reps[k]
      BY <1>1, <1>4, <2>1, <2>2 DEF IsInjective
    <3> QED BY <2>1, <3>1, Zenon DEF Chosen
  <2>4. IsInjective(new_reps')
    <3>1. IsInjective(new_reps) /\ \A i \in 1 .. Len(new_reps) : new_reps[i] # reps[k]
      BY <1>5, <2>1, <2>3, Zenon DEF Chosen, Range
    <3> QED BY <1>5, <3>1 DEF IsInjective
  <2>5. \A r \in Range(new_reps') : \E i \in 1 .. k' - 1 : reps[i] = r
    BY <1>1, <1>4, <1>5, <2>1 DEF Chosen
  <2>6. Chosen'
    BY <1>1, <2>4, <2>5, Zenon DEF Chosen
  <2> QED BY <1>1, <1>2, <2>6, Zenon DEF Control, VerifierAgrees
<1>9. InStep'
  BY <1>1, <1>2, <1>3, KeepInStep, Zenon
<1>10. Backed'
  BY <1>1, <1>2, KeepBackups, Zenon DEF Backed, Listed
<1>11. Ready' /\ Restored' /\ Sound'
  BY <1>1, <1>2, <1>3, KeepTrees, Zenon DEF Ready, Restored
<1> QED BY <1>6, <1>7, <1>8, <1>9, <1>10, <1>11, Zenon DEF RoundsInv

(* A part that no edge leaves is a whole component, and its tree. *)
LEMMA ClosedPart ==
  ASSUME edges \in SUBSET Edges, Forest(parent), Sound,
         NEW v \in Nodes, NEW S \in SUBSET Nodes, v \in S,
         S \subseteq Tree(Rt(v)), Cut(S) = {}
  PROVE  S = Tree(Rt(v)) /\ Tree(Rt(v)) = Component(v)
<1>1. \A e \in edges : e[1] \in S <=> e[2] \in S
  BY Zenon DEF Cut
<1>2. Reach(edges, v) \subseteq S
  BY <1>1, ReachLeast, Zenon
<1>3. ASSUME NEW w \in Nodes, Rt(w) = Rt(v) PROVE w \in Reach(edges, v)
  <2>1. Rt(v) \in Reach(edges, v) /\ Rt(w) \in Reach(edges, w)
    BY ComponentReach, Zenon DEF Sound
  <2>2. Reach(edges, Rt(v)) = Reach(edges, v) /\ Reach(edges, Rt(w)) = Reach(edges, w)
    BY <2>1, ReachSame, Zenon
  <2> QED BY <1>3, <2>2, ReachLeast, Zenon
<1>4. Tree(Rt(v)) \subseteq Reach(edges, v)
  BY <1>3, Zenon DEF Tree
<1> QED BY <1>2, <1>4, ComponentReach, Zenon

(* A supernode that no edge leaves: the verifier finds it complete. *)
LEMMA LinkZeroRounds ==
  ASSUME TypeInv, QueryInv, RoundsInv, LinkZero
  PROVE  RoundsInv'
<1> DEFINE v == reps[k]
<1>1. /\ pc = "link" /\ k <= Len(reps) /\ query[v].ret = "ZERO"
      /\ verifier' = verify_cc(verifier, v)
      /\ \/ ~ComponentVerified(verifier, v)
         \/ k' = k + 1 /\ UNCHANGED <<pc, thrown>>
      /\ UNCHANGED <<edges, update_locked, copy_in_mem, cont, sk, idx, parent, reps, todo,
                     query, new_reps, to_merge, modified, first_round, backed_up, copies,
                     disk>>
  BY Zenon DEF LinkZero, AtAnswer, callVars, config, supernodeVars, backupVars
<1>2. Merged /\ Active /\ Control /\ InStep /\ Backed /\ Sound
  BY Zenon DEF RoundsInv
<1>3. SameTrees
  BY <1>1, Zenon DEF SameTrees, Rt
<1>4. k \in Nat /\ k >= 1 /\ reps \in Seq(Nodes) /\ v \in Nodes /\ v \in Range(reps) \ todo
  BY <1>1, Typed, SMTT(30) DEF Range, TypeInv
<1> HIDE DEF v
<1>5. Tree(Rt(v)) = Component(v) /\ (Rt(v) = v => ~Live(v))
  <2>1. PICK part \in [Nodes -> SUBSET Nodes] :
          Parts(part) /\ Joined(part) /\ Sampled(part)
    BY <1>1, <1>2, Zenon DEF Merged
  <2>2. query[v] \in Sampler!Answers(Cut(part[v]))
    BY <1>1, <1>2, <1>4, <2>1, Zenon DEF Sampled, Control
  <2>3. Cut(part[v]) = {}
    BY <1>1, <2>2, AnswerKinds, Zenon
  <2>4. part[v] \in SUBSET Nodes /\ v \in part[v] /\ part[v] \subseteq Tree(Rt(v))
    BY <1>4, <2>1, Zenon DEF Parts
  <2>5. part[v] = Tree(Rt(v)) /\ Tree(Rt(v)) = Component(v)
    BY <1>2, <1>4, <2>3, <2>4, Typed, ClosedPart, Zenon
  <2> QED BY <2>3, <2>5, Zenon DEF Live
<1>6. verifier \in Verifiers /\ SameSets
  BY <1>1, <1>2, Zenon DEF InStep, Control
<1>7. ComponentVerified(verifier, v)
  <2>1. verifier.boruvka_cc[VRt(v)] = Component(v)
    BY <1>4, <1>5, <1>6, Zenon DEF SameSets
  <2>2. verifier.kruskal_ref = Components
    BY <1>6, Zenon DEF Verifiers
  <2>3. Component(v) \in Components
    BY <1>4, ComponentReach, Zenon
  <2> QED BY <2>1, <2>2, <2>3, Zenon DEF ComponentVerified, VRt
<1>8. k' = k + 1 /\ UNCHANGED <<pc, thrown>>
  BY <1>1, <1>7, Zenon
<1>9. Merged'
  <2>1. \A part : Sampled(part) => Sampled(part)'
    BY <1>1, <1>8, KeepSampled, Zenon
  <2>2. idx' \in [Nodes -> Nat] /\ \A x \in Nodes : idx'[x] >= idx[x]
    BY <1>1, Typed, SMTT(30)
  <2> QED BY <1>1, <1>2, <1>3, <2>1, <2>2, Typed, KeepMerged, Zenon
<1>10. Active'
  <2> SUFFICES ASSUME NEW r \in Nodes, Live(r)'
               PROVE  r \in Range(new_reps') \/ to_merge'[r] # <<>> \/ Awaits(r)'
    BY <1>1, <1>8, Zenon DEF Active
  <2>1. Live(r)
    BY <1>1, <1>3, KeepTrees, Zenon
  <2>2. r \in Range(new_reps) \/ to_merge[r] # <<>> \/ Awaits(r)
    BY <1>1, <1>2, <2>1, Zenon DEF Active
  <2>3. r # v
    BY <1>5, <2>1, Zenon DEF Live
  <2>4. Awaits(r) => Awaits(r)'
    BY <1>1, <1>4, <1>8, <2>3, SMTT(30) DEF Awaits, v
  <2> QED BY <1>1, <2>2, <2>4, Zenon
<1>11. Control'
  <2>1. Chosen
    BY <1>1, <1>2, Zenon DEF Control
  <2>2. Chosen'
    BY <1>1, <1>4, <1>8, <2>1 DEF Chosen
  <2> QED BY <1>1, <1>2, <1>8, <2>2, Zenon DEF Control, VerifierAgrees
<1>12. InStep'
  <2> DEFINE d == find_set(verifier.sets, {v})
  <2>1. /\ verifier' = [verifier EXCEPT !.sets = d] /\ verifier.sets \in Sets
    BY <1>1, <1>6, Zenon DEF verify_cc, Verifiers
  <2>2. d \in Sets /\ \A x \in Nodes : Root(d.parent, x) = VRt(x)
    BY <2>1, FindSet, Zenon DEF VRt
  <2> HIDE DEF d
  <2>3. /\ verifier' \in Verifiers /\ verifier'.sets = d
        /\ verifier'.boruvka_cc = verifier.boruvka_cc
    BY <1>6, <2>1, <2>2, Zenon DEF Verifiers
  <2>4. \A x \in Nodes : VRt(x)' = VRt(x) /\ Rt(x)' = Rt(x)
    BY <1>3, <2>2, <2>3, Zenon DEF VRt, SameTrees
  <2>5. SameSets'
    BY <1>6, <2>3, <2>4 DEF SameSets, Tree
  <2>6. Verifiers' = Verifiers
    BY <1>1, <1>3, KeepTrees, Zenon DEF Verifiers
  <2> QED BY <2>3, <2>5, <2>6, Zenon DEF InStep
<1>13. Backed'
  BY <1>1, <1>2, <1>8, KeepBackups, Zenon DEF Backed, Listed
<1>14. Ready' /\ Restored' /\ Sound'
  BY <1>1, <1>2, <1>3, <1>8, KeepTrees, Zenon DEF Ready, Restored
<1> QED BY <1>9, <1>10, <1>11, <1>12, <1>13, <1>14, Zenon DEF RoundsInv
(* The tree of l is joined to that of w. *)
Join(w, l) ==
  /\ w \in Nodes /\ l \in Nodes /\ w # l /\ Rt(w) = w /\ Rt(l) = l
  /\ \A x \in Nodes : Rt(x)' = IF Rt(x) = l THEN w ELSE Rt(x)
  /\ UNCHANGED <<edges, sk, idx>>

(* What a union does to the trees: the loser's nodes go to the winner's. *)
LEMMA JoinTrees ==
  ASSUME NEW w, NEW l, Join(w, l)
  PROVE  /\ Tree(w)' = Tree(w) \cup Tree(l)
         /\ \A r \in Nodes \ {w, l} : Tree(r)' = Tree(r) /\ (Live(r)' <=> Live(r))
         /\ Rt(w)' = w /\ Rt(l)' = w
         /\ \A S : Cut(S)' = Cut(S)
<1>1. /\ Tree(w)' = Tree(w) \cup Tree(l) /\ Rt(w)' = w /\ Rt(l)' = w
      /\ \A S : Cut(S)' = Cut(S)
  BY Zenon DEF Join, Tree, Cut
<1>2. ASSUME NEW r \in Nodes \ {w, l}
      PROVE  Tree(r)' = Tree(r) /\ (Live(r)' <=> Live(r))
  <2>1. Tree(r)' = Tree(r) /\ (Rt(r)' = r <=> Rt(r) = r)
    BY Zenon DEF Join, Tree
  <2>2. Cut(Tree(r))' = {e \in edges' : ~(e[1] \in Tree(r)' <=> e[2] \in Tree(r)')}
    BY Zenon DEF Cut
  <2>3. Cut(Tree(r)) = {e \in edges : ~(e[1] \in Tree(r) <=> e[2] \in Tree(r))}
    BY Zenon DEF Cut
  <2>4. Cut(Tree(r))' = Cut(Tree(r))
    BY <2>1, <2>2, <2>3, Zenon DEF Join
  <2> QED BY <2>1, <2>4, Zenon DEF Live
<1> QED BY <1>1, <1>2, Zenon

(* What a union does to the merge lists: the winner's takes in the loser's. *)
LEMMA PendingLists ==
  ASSUME NEW w \in Nodes, NEW l \in Nodes, w # l,
         to_merge \in [Nodes -> Seq(Nodes)], to_merge' = Pending(w, l)
  PROVE  /\ to_merge'[l] = <<>> /\ to_merge'[w] # <<>>
         /\ \A r \in Nodes \ {w, l} : to_merge'[r] = to_merge[r]
         /\ Range(to_merge'[w]) = Range(to_merge[w]) \cup {l} \cup Range(to_merge[l])
         /\ IsInjective(to_merge[w]) /\ IsInjective(to_merge[l])
              /\ l \notin Range(to_merge[w]) /\ l \notin Range(to_merge[l])
              /\ Range(to_merge[w]) \cap Range(to_merge[l]) = {}
              => IsInjective(to_merge'[w])
<1> DEFINE s == to_merge[w]
           t == to_merge[l]
           one == <<l>>
<1>1. s \in Seq(Nodes) /\ t \in Seq(Nodes) /\ one \in Seq(Nodes)
  OBVIOUS
<1>2. /\ to_merge'[w] = s \o one \o t /\ to_merge'[l] = <<>>
      /\ \A r \in Nodes \ {w, l} : to_merge'[r] = to_merge[r]
  BY Zenon DEF Pending
<1>3. Range(one) = {l} /\ IsInjective(one)
  BY DEF Range, IsInjective
<1> HIDE DEF s, t, one
<1>4. /\ s \o one \in Seq(Nodes) /\ Range(s \o one) = Range(s) \cup {l}
      /\ IsInjective(s) /\ l \notin Range(s) => IsInjective(s \o one)
  <2>1. /\ s \o one \in Seq(Nodes) /\ Range(s \o one) = Range(s) \cup Range(one)
        /\ IsInjective(s) /\ IsInjective(one) /\ Range(s) \cap Range(one) = {}
             => IsInjective(s \o one)
    BY <1>1, ConcatSet
  <2> QED BY <1>3, <2>1, Zenon
<1>5. /\ (s \o one) \o t \in Seq(Nodes)
      /\ Range((s \o one) \o t) = Range(s \o one) \cup Range(t)
      /\ IsInjective(s \o one) /\ IsInjective(t) /\ Range(s \o one) \cap Range(t) = {}
             => IsInjective((s \o one) \o t)
  BY <1>1, <1>4, ConcatSet, Zenon
<1>6. to_merge'[w] # <<>>
  <2>1. Range(to_merge'[w]) # {}
    BY <1>2, <1>4, <1>5, Zenon
  <2>2. Range(<<>>) = {}
    BY DEF Range
  <2> QED BY <2>1, <2>2, Zenon
<1> QED BY <1>2, <1>4, <1>5, <1>6, Zenon DEF s, t

(* The list of w and the list of l, with l, become one. *)
LEMMA JoinMerged ==
  ASSUME NEW w, NEW l, Join(w, l), Forest(parent), to_merge \in [Nodes -> Seq(Nodes)],
         to_merge' = Pending(w, l), NEW part \in [Nodes -> SUBSET Nodes],
         Parts(part), Joined(part)
  PROVE  Parts(part)' /\ Joined(part)'
<1>1. /\ w \in Nodes /\ l \in Nodes /\ w # l /\ Rt(w) = w /\ Rt(l) = l
      /\ \A x \in Nodes : Rt(x)' = IF Rt(x) = l THEN w ELSE Rt(x)
      /\ UNCHANGED <<edges, sk, idx>>
  BY Zenon DEF Join
<1>2. /\ Tree(w)' = Tree(w) \cup Tree(l)
      /\ \A r \in Nodes \ {w, l} : Tree(r)' = Tree(r)
      /\ Rt(w)' = w /\ Rt(l)' = w
      /\ \A S : Cut(S)' = Cut(S)
  BY JoinTrees, Zenon
<1>3. /\ to_merge'[l] = <<>> /\ to_merge'[w] # <<>>
      /\ \A r \in Nodes \ {w, l} : to_merge'[r] = to_merge[r]
      /\ Range(to_merge'[w]) = Range(to_merge[w]) \cup {l} \cup Range(to_merge[l])
      /\ IsInjective(to_merge[w]) /\ IsInjective(to_merge[l])
              /\ l \notin Range(to_merge[w]) /\ l \notin Range(to_merge[l])
              /\ Range(to_merge[w]) \cap Range(to_merge[l]) = {}
              => IsInjective(to_merge'[w])
  BY <1>1, PendingLists, Zenon
<1>4. Parts(part)'
  <2>1. ASSUME NEW v \in Nodes PROVE part[v] \subseteq Tree(Rt(v))'
    <3>1. part[v] \subseteq Nodes /\ \A x \in part[v] : Rt(x) = Rt(v)
      BY Zenon DEF Parts, Tree
    <3>2. \A x \in part[v] : Rt(x)' = Rt(v)'
      BY <1>1, <3>1, Zenon
    <3> QED BY <3>1, <3>2, Zenon DEF Tree
  <2>2. \A v \in Nodes : \A j \in Sketches : j >= idx'[v] => sk'[v][j] = Cut(part[v])'
    BY <1>1, <1>2, Zenon DEF Parts
  <2> QED BY <2>1, <2>2, Zenon DEF Parts
<1>5. Heaped(part, w) /\ Heaped(part, l)
  BY <1>1, Zenon DEF Joined
<1>6. Heap(w) \subseteq Nodes /\ Heap(l) \subseteq Nodes /\ Heap(w)' = Heap(w) \cup Heap(l)
  <2>1. Range(to_merge[w]) \subseteq Nodes /\ Range(to_merge[l]) \subseteq Nodes
    BY <1>1, SMTT(30) DEF Range
  <2> QED BY <1>1, <1>3, <2>1, Zenon DEF Heap
<1>7. (\A x \in Heap(w) : Rt(x) = w) /\ (\A x \in Heap(l) : Rt(x) = l)
  BY <1>5, Zenon DEF Heaped
<1>8. Heaped(part, w)'
  <2>1. \A x \in Heap(w)' : Rt(x)' = w
    BY <1>1, <1>6, <1>7, Zenon
  <2>2. \A v \in Tree(w)' : \E x \in Heap(w)' : v \in part[x]
    BY <1>2, <1>5, <1>6, Zenon DEF Heaped
  <2>3. ASSUME NEW x \in Heap(w)', NEW y \in Heap(w)', x # y
        PROVE  part[x] \cap part[y] = {}
    <3>1. CASE Rt(x) = Rt(y)
      BY <1>1, <1>5, <1>6, <1>7, <2>3, <3>1, Zenon DEF Heaped
    <3>2. CASE Rt(x) # Rt(y)
      <4>1. part[x] \subseteq Tree(Rt(x)) /\ part[y] \subseteq Tree(Rt(y))
        BY <1>6, Zenon DEF Parts
      <4> QED BY <3>2, <4>1 DEF Tree
    <3> QED BY <3>1, <3>2, Zenon
  <2>4. w \notin Range(to_merge'[w])
    BY <1>1, <1>3, <1>5, <1>7, Zenon DEF Heaped, Heap
  <2>5. IsInjective(to_merge'[w])
    <3>1. /\ IsInjective(to_merge[w]) /\ IsInjective(to_merge[l])
          /\ l \notin Range(to_merge[l])
      BY <1>5, Zenon DEF Heaped
    <3>2. \A x \in Range(to_merge[w]) : Rt(x) = w
      BY <1>7, Zenon DEF Heap
    <3>3. \A x \in Range(to_merge[l]) : Rt(x) = l
      BY <1>7, Zenon DEF Heap
    <3>4. l \notin Range(to_merge[w]) /\ Range(to_merge[w]) \cap Range(to_merge[l]) = {}
      BY <1>1, <3>2, <3>3, Zenon
    <3> QED BY <1>3, <3>1, <3>4, Zenon
  <2> QED BY <2>1, <2>2, <2>3, <2>4, <2>5, Zenon DEF Heaped
<1>9. ASSUME NEW r \in Nodes \ {w, l}
      PROVE  IF Rt(r)' = r THEN Heaped(part, r)' ELSE to_merge'[r] = <<>>
  <2>1. Rt(r)' = r <=> Rt(r) = r
    BY <1>1, Zenon
  <2>2. IF Rt(r) = r THEN Heaped(part, r) ELSE to_merge[r] = <<>>
    BY Zenon DEF Joined
  <2>3. ASSUME Rt(r) = r PROVE Heaped(part, r)'
    <3>1. Heaped(part, r)
      BY <2>2, <2>3, Zenon
    <3>2. Heap(r)' = Heap(r) /\ Heap(r) \subseteq Nodes /\ Tree(r)' = Tree(r)
      BY <1>2, <1>3, SMTT(30) DEF Heap, Range
    <3>3. \A x \in Heap(r) : Rt(x)' = r
      BY <1>1, <2>3, <3>1, <3>2, Zenon DEF Heaped
    <3> QED BY <1>3, <3>1, <3>2, <3>3, SMTT(30) DEF Heaped
  <2> QED BY <1>3, <2>1, <2>2, <2>3, Zenon
<1>10. Joined(part)'
  BY <1>1, <1>2, <1>3, <1>8, <1>9, Zenon DEF Joined
<1> QED BY <1>4, <1>10, Zenon

(* Joining the ends of an edge joins connected nodes. *)
LEMMA JoinSound ==
  ASSUME NEW w, NEW l, Join(w, l), edges \in SUBSET Edges, Forest(parent), Sound,
         NEW e \in edges, {Rt(e[1]), Rt(e[2])} = {w, l}
  PROVE  Sound'
<1>1. /\ w \in Nodes /\ l \in Nodes
      /\ \A x \in Nodes : Rt(x)' = IF Rt(x) = l THEN w ELSE Rt(x)
      /\ edges' = edges
  BY Zenon DEF Join
<1>2. e[1] \in Nodes /\ e[2] \in Nodes
  BY Zenon DEF Edges
<1>3. \A x \in Nodes : Rt(x) \in Reach(edges, x)
  BY ComponentReach, Zenon DEF Sound
<1>4. \A x \in Nodes : Reach(edges, Rt(x)) = Reach(edges, x)
  BY <1>3, ReachSame, Zenon
<1>5. Reach(edges, e[1]) = Reach(edges, e[2])
  <2>1. e[2] \in Reach(edges, e[1])
    BY <1>2, ReachLeast, Zenon
  <2> QED BY <1>2, <2>1, ReachSame, Zenon
<1>6. Reach(edges, w) = Reach(edges, l)
  BY <1>2, <1>4, <1>5, Zenon
<1>7. w \in Reach(edges, w)
  BY <1>1, ReachLeast, Zenon
<1>8. \A x \in Nodes : Rt(x)' \in Reach(edges, x)
  BY <1>1, <1>3, <1>4, <1>6, <1>7, Zenon
<1>9. \A x : Component(x)' = Component(x)
  BY <1>1, Zenon DEF Component, Promise!Component, Promise!Closed
<1> QED BY <1>8, <1>9, ComponentReach, Zenon DEF Sound

(* The verifier joins the two trees too, whichever of its own roots it     *)
(* chooses.                                                                *)
LEMMA JoinInStep ==
  ASSUME NEW w, NEW l, Join(w, l), edges \in SUBSET Edges, verifier \in Verifiers,
         SameSets, NEW e \in edges, {Rt(e[1]), Rt(e[2])} = {w, l},
         verifier' = verify_edge(verifier, e)
  PROVE  InStep'
<1> DEFINE f == VRt(e[1])
           s == VRt(e[2])
           cc == verifier.boruvka_cc
           d == find_set(verifier.sets, {e[1], e[2]})
           linked == link(d, f, s)
           to == IF linked.parent[s] = s THEN s ELSE f
           from == IF linked.parent[s] = s THEN f ELSE s
<1>1. /\ w \in Nodes /\ l \in Nodes /\ w # l
      /\ \A x \in Nodes : Rt(x)' = IF Rt(x) = l THEN w ELSE Rt(x)
      /\ edges' = edges
  BY Zenon DEF Join
<1>2. e[1] \in Nodes /\ e[2] \in Nodes /\ Rt(e[1]) # Rt(e[2])
  BY <1>1, Zenon DEF Edges
<1>3. /\ verifier.sets \in Sets /\ cc \in [Nodes -> SUBSET Nodes]
      /\ verifier.kruskal_ref = Components
  BY Zenon DEF Verifiers
<1>4. Forest(verifier.sets.parent)
  BY <1>3, Zenon DEF Sets
<1>5. /\ \A x \in Nodes : VRt(x) \in Nodes
      /\ verifier.sets.parent[f] = f /\ verifier.sets.parent[s] = s
  BY <1>4, RootIsRoot, Zenon DEF VRt
<1>6. /\ \A x \in Nodes : VRt(x) = f <=> Rt(x) = Rt(e[1])
      /\ \A x \in Nodes : VRt(x) = s <=> Rt(x) = Rt(e[2])
      /\ f # s /\ \A x \in Nodes : cc[VRt(x)] = Tree(Rt(x))
  BY <1>2, Zenon DEF SameSets
<1>7. /\ d \in Sets /\ \A x \in Nodes : Root(d.parent, x) = VRt(x)
      /\ d.parent[f] = f /\ d.parent[s] = s
  BY <1>2, <1>3, <1>5, FindSet, SMTT(30) DEF VRt
<1>8. verifier' = [verifier EXCEPT !.sets = linked, !.boruvka_cc[to] = @ \cup cc[from]]
  BY Zenon DEF verify_edge, VRt
<1>9. f \in Nodes /\ s \in Nodes
  BY <1>2, <1>5, Zenon
<1> HIDE DEF f, s, d, cc
<1>10. linked \in Sets
  BY <1>7, <1>9, LinkSets, Zenon
<1>11. PICK u \in {f, s} :
        /\ \A x \in {f, s} : linked.parent[x] = u
        /\ \A x \in Nodes : Root(linked.parent, x) =
             IF Root(d.parent, x) \in {f, s} THEN u ELSE Root(d.parent, x)
  BY <1>7, <1>9, LinkSets, SMTT(30)
<1>12. to = u /\ {to, from} = {f, s}
  BY <1>6, <1>11, Zenon
<1> HIDE DEF linked, to, from
<1>13. /\ verifier' \in Verifiers /\ verifier'.sets = linked
      /\ verifier'.boruvka_cc = [cc EXCEPT ![u] = @ \cup cc[from]]
  <2>1. to \in Nodes /\ from \in Nodes
    BY <1>9, <1>12, Zenon
  <2>2. [cc EXCEPT ![u] = @ \cup cc[from]] \in [Nodes -> SUBSET Nodes]
    BY <1>3, <1>12, <2>1, Zenon
  <2>3. /\ DOMAIN verifier = {"kruskal_ref", "sets", "boruvka_cc"}
        /\ verifier.boruvka_cc = cc
    BY Zenon DEF Verifiers, cc
  <2>4. verifier' = [kruskal_ref |-> verifier.kruskal_ref, sets |-> linked,
                     boruvka_cc |-> [cc EXCEPT ![u] = @ \cup cc[from]]]
    BY <1>8, <1>12, <2>3, Zenon DEF Verifiers
  <2> QED BY <1>3, <1>10, <2>2, <2>4, SMTT(30) DEF Verifiers
<1>14. \A x \in Nodes : VRt(x)' = IF VRt(x) \in {f, s} THEN u ELSE VRt(x)
  BY <1>7, <1>11, <1>13, Zenon DEF VRt
<1>15. verifier'.boruvka_cc[u] = Tree(w)'
  <2>1. cc[f] = Tree(Rt(e[1])) /\ cc[s] = Tree(Rt(e[2]))
    BY <1>2, <1>6, Zenon DEF f, s
  <2>2. cc[f] \cup cc[s] = Tree(w) \cup Tree(l)
    BY <2>1, Zenon
  <2>3. verifier'.boruvka_cc[u] = cc[f] \cup cc[s]
    BY <1>3, <1>9, <1>12, <1>13, SMTT(30)
  <2> QED BY <2>2, <2>3, JoinTrees, Zenon
<1>16. ASSUME NEW x \in Nodes
       PROVE  /\ VRt(x) \in {f, s} => Rt(x)' = w /\ VRt(x)' = u
              /\ VRt(x) \notin {f, s} =>
                   /\ Rt(x)' = Rt(x) /\ VRt(x)' = VRt(x) /\ Rt(x) \notin {w, l}
                   /\ verifier'.boruvka_cc[VRt(x)] = Tree(Rt(x))
  <2>1. VRt(x) \in {f, s} <=> Rt(x) \in {w, l}
    BY <1>6, Zenon
  <2>2. VRt(x) \notin {f, s} => verifier'.boruvka_cc[VRt(x)] = cc[VRt(x)]
    BY <1>3, <1>5, <1>11, <1>13, Zenon
  <2> QED BY <1>1, <1>6, <1>14, <2>1, <2>2, Zenon
<1>17. SameSets'
  <2>1. ASSUME NEW x \in Nodes, NEW y \in Nodes
        PROVE  VRt(x)' = VRt(y)' <=> Rt(x)' = Rt(y)'
    <3>1. VRt(x) = VRt(y) <=> Rt(x) = Rt(y)
      BY Zenon DEF SameSets
    <3> QED BY <1>11, <1>16, <3>1, Zenon
  <2>2. ASSUME NEW x \in Nodes PROVE verifier'.boruvka_cc[VRt(x)'] = Tree(Rt(x))'
    <3>1. CASE VRt(x) \in {f, s}
      <4>1. Rt(x)' = w /\ VRt(x)' = u
        BY <1>16, <3>1, Zenon
      <4>2. Tree(Rt(x))' = {y \in Nodes : Rt(y)' = Rt(x)'} /\
            Tree(w)' = {y \in Nodes : Rt(y)' = w}
        BY <1>1, Zenon DEF Tree
      <4> QED BY <1>15, <4>1, <4>2, Zenon
    <3>2. CASE VRt(x) \notin {f, s}
      <4>1. /\ Rt(x)' = Rt(x) /\ VRt(x)' = VRt(x) /\ Rt(x) \notin {w, l}
            /\ verifier'.boruvka_cc[VRt(x)] = Tree(Rt(x))
        BY <1>16, <3>2, Zenon
      <4>2. Tree(Rt(x))' = {y \in Nodes : Rt(y)' = Rt(x)'}
        BY Zenon DEF Tree
      <4>3. Tree(Rt(x)) = {y \in Nodes : Rt(y) = Rt(x)}
        BY Zenon DEF Tree
      <4>4. Tree(Rt(x))' = Tree(Rt(x))
        BY <1>1, <4>1, <4>2, <4>3, SMTT(30)
      <4> QED BY <4>1, <4>4, Zenon
    <3> QED BY <3>1, <3>2, Zenon
  <2> QED BY <2>1, <2>2, Zenon DEF SameSets
<1>18. Verifiers' = Verifiers
  BY <1>1, SMTT(30) DEF Verifiers, Components, Promise!Components, Promise!Component,
     Promise!Closed
<1> QED BY <1>13, <1>17, <1>18, Zenon DEF InStep

(* What link does to the forest. *)
LEMMA LinkJoins ==
  ASSUME Forest(parent), NEW X, NEW w \in Nodes, NEW l \in Nodes, w # l,
         Rt(w) = w, Rt(l) = l, UNCHANGED <<edges, sk, idx>>,
         parent' = [Compress(parent, X) EXCEPT ![l] = w]
  PROVE  Join(w, l)
<1> DEFINE p == Compress(parent, X)
<1>1. parent[w] = w /\ parent[l] = l
  BY Roots, Zenon
<1>2. /\ Forest(p) /\ p[w] = w /\ p[l] = l
      /\ \A x \in Nodes : Root(p, x) = Rt(x)
  BY <1>1, CompressForest, CompressRoot DEF Rt
<1> HIDE DEF p
<1>3. \A x \in Nodes : Root([p EXCEPT ![l] = w], x) = IF Rt(x) = l THEN w ELSE Rt(x)
  BY <1>2, LinkRoot
<1>4. \A x \in Nodes : Rt(x)' = IF Rt(x) = l THEN w ELSE Rt(x)
  BY <1>3, Zenon DEF Rt, p
<1> QED BY <1>4, Zenon DEF Join

(* The trees of w and l are joined for the edge that the next              *)
(* representative sampled.                                                 *)
LEMMA LinkRounds ==
  ASSUME TypeInv, QueryInv, RoundsInv, NEW e \in edges, NEW w, NEW l, Join(w, l),
         {Rt(e[1]), Rt(e[2])} = {w, l}, Rt(reps[k]) \in {w, l},
         pc = "link", k <= Len(reps), k' = k + 1, to_merge' = Pending(w, l),
         modified' = TRUE, verifier' = verify_edge(verifier, e),
         UNCHANGED <<update_locked, copy_in_mem, cont, pc, reps, todo, query, new_reps,
                     first_round, backed_up, copies, disk, thrown>>
  PROVE  RoundsInv'
<1>1. Merged /\ Active /\ Control /\ InStep /\ Backed /\ Sound
  BY Zenon DEF RoundsInv
<1>2. /\ w \in Nodes /\ l \in Nodes /\ w # l /\ Rt(w) = w /\ Rt(l) = l
      /\ UNCHANGED <<edges, sk, idx>>
  BY Zenon DEF Join
<1>3. /\ Tree(w)' = Tree(w) \cup Tree(l)
      /\ \A r \in Nodes \ {w, l} : Live(r)' <=> Live(r)
      /\ Rt(w)' = w /\ Rt(l)' = w
      /\ \A S : Cut(S)' = Cut(S)
  BY JoinTrees, Zenon
<1>4. /\ to_merge'[l] = <<>> /\ to_merge'[w] # <<>>
      /\ \A r \in Nodes \ {w, l} : to_merge'[r] = to_merge[r]
  BY <1>2, Typed, PendingLists, Zenon
<1>5. /\ k \in Nat /\ k >= 1 /\ Len(reps) \in Nat /\ DOMAIN reps = 1 .. Len(reps)
      /\ e[1] \in Nodes /\ e[2] \in Nodes
  BY Typed, SMTT(30) DEF Edges
<1>6. Merged'
  <2>1. PICK part \in [Nodes -> SUBSET Nodes] :
          Parts(part) /\ Joined(part) /\ Sampled(part)
    BY <1>1, Zenon DEF Merged
  <2>2. Parts(part)' /\ Joined(part)'
    BY <2>1, Typed, JoinMerged, Zenon
  <2>3. Sampled(part)'
    BY <1>2, <2>1, KeepSampled, Zenon
  <2> QED BY <2>1, <2>2, <2>3, Zenon DEF Merged
<1>7. Active'
  <2> SUFFICES ASSUME NEW r \in Nodes, Live(r)'
               PROVE  r \in Range(new_reps') \/ to_merge'[r] # <<>> \/ Awaits(r)'
    BY Zenon DEF Active
  <2>1. CASE r = w
    BY <1>4, <2>1, Zenon
  <2>2. CASE r = l
    <3>1. Rt(r)' = r
      BY Zenon DEF Live
    <3> QED BY <1>2, <1>3, <2>2, <3>1, Zenon
  <2>3. CASE r \notin {w, l}
    <3>1. Live(r)
      BY <1>3, <2>3, Zenon
    <3>2. r \in Range(new_reps) \/ to_merge[r] # <<>> \/ Awaits(r)
      BY <1>1, <3>1, Zenon DEF Active
    <3>3. r # reps[k]
      BY <2>3, <3>1, Zenon DEF Live
    <3>4. Awaits(r) => Awaits(r)'
      BY <1>5, <3>3, SMTT(30) DEF Awaits
    <3> QED BY <1>4, <2>3, <3>2, <3>4, Zenon
  <2> QED BY <2>1, <2>2, <2>3, Zenon
<1>8. w \in Range(reps)
  <2>1. e \in Cut(Tree(w))
    BY <1>2, <1>5, Zenon DEF Cut, Tree
  <2>2. w \in Range(new_reps) \/ to_merge[w] # <<>> \/ Awaits(w)
    BY <1>1, <1>2, <2>1, Zenon DEF Active, Live
  <2>3. w \in Range(new_reps) => w \in Range(reps)
    <3>1. w \in Range(new_reps) => \E i \in 1 .. k - 1 : reps[i] = w
      BY <1>1, Zenon DEF Control, Chosen
    <3> QED BY <1>5, <3>1, SMTT(30) DEF Range
  <2>4. Awaits(w) => w \in Range(reps)
    BY <1>5, SMTT(30) DEF Awaits, Range
  <2> QED BY <1>1, <1>2, <2>2, <2>3, <2>4, Zenon DEF Control
<1>9. Control'
  <2>1. Chosen
    BY <1>1, Zenon DEF Control
  <2>2. Chosen'
    BY <1>5, <2>1, SMTT(30) DEF Chosen
  <2>3. \A a \in Nodes : to_merge'[a] # <<>> => a \in Range(reps)
    BY <1>1, <1>4, <1>8, Zenon DEF Control
  <2> QED BY <1>1, <2>2, <2>3, Zenon DEF Control, VerifierAgrees
<1>10. InStep'
  <2>1. verifier \in Verifiers /\ SameSets
    BY <1>1, Zenon DEF InStep, Control
  <2> QED BY <2>1, Typed, JoinInStep, Zenon
<1>11. Backed'
  BY <1>1, <1>2, KeepBackups, Zenon DEF Backed, Listed
<1>12. Sound'
  BY <1>1, Typed, JoinSound, Zenon
<1>13. Ready' /\ Restored'
  BY Zenon DEF Ready, Restored
<1> QED BY <1>6, <1>7, <1>9, <1>10, <1>11, <1>12, <1>13, Zenon DEF RoundsInv

(* The edge that a representative sampled leaves its part, hence one of    *)
(* its ends is in the representative's tree.                               *)
LEMMA GoodEdge ==
  ASSUME TypeInv, QueryInv, RoundsInv, NEW e, NEW a, NEW b, NEW p, Linked(e, a, b, p),
         NEW part \in [Nodes -> SUBSET Nodes], Parts(part), Sampled(part)
  PROVE  /\ e \in edges /\ e[1] \in Nodes /\ e[2] \in Nodes
         /\ Rt(reps[k]) \in {a, b}
         /\ ~(e[1] \in part[reps[k]] <=> e[2] \in part[reps[k]])
<1> DEFINE v == reps[k]
<1>1. /\ e = query[v].idx /\ query[v].ret = "GOOD" /\ pc = "link" /\ k <= Len(reps)
      /\ a = Rt(e[1]) /\ b = Rt(e[2])
  BY Zenon DEF Linked, Rt
<1>2. edges \in SUBSET Edges /\ v \in Nodes /\ v \in Range(reps) \ todo
  BY <1>1, Typed, SMTT(30) DEF Range, TypeInv
<1> HIDE DEF v
<1>3. query[v] \in Sampler!Answers(Cut(part[v]))
  BY <1>1, <1>2, Zenon DEF Sampled, Control, RoundsInv
<1>4. e \in Cut(part[v])
  BY <1>1, <1>3, AnswerKinds, Zenon
<1>5. e \in edges /\ ~(e[1] \in part[v] <=> e[2] \in part[v])
  BY <1>4, Zenon DEF Cut
<1>6. e[1] \in Nodes /\ e[2] \in Nodes
  BY <1>2, <1>5, Zenon DEF Edges
<1>7. \A x \in part[v] : Rt(x) = Rt(v)
  BY <1>2, Zenon DEF Parts, Tree
<1>8. Rt(v) \in {a, b}
  BY <1>1, <1>5, <1>6, <1>7, Zenon
<1> QED BY <1>5, <1>6, <1>8, Zenon DEF v

(* A sampled edge is linked, or is found to be inside one tree. *)
LEMMA LinkGoodRounds ==
  ASSUME TypeInv, QueryInv, RoundsInv, LinkGood
  PROVE  RoundsInv'
<1> DEFINE v == reps[k]
<1>1. PICK e, a, b, p : Linked(e, a, b, p)
  BY LinkGoodCases, Zenon
<1>2. /\ e = query[v].idx /\ query[v].ret = "GOOD" /\ pc = "link" /\ k <= Len(reps)
      /\ a = Rt(e[1]) /\ b = Rt(e[2]) /\ p = Compress(parent, {e[1], e[2]})
      /\ UNCHANGED <<edges, sk, idx, update_locked, copy_in_mem, cont, reps, todo, query,
                     new_reps, first_round, backed_up, copies, disk>>
  BY <1>1, Zenon DEF Linked, Rt, callVars, config, supernodeVars, backupVars
<1>3. \/ /\ a = b /\ parent' = p /\ k' = k + 1
         /\ UNCHANGED <<size, to_merge, modified, verifier, pc, thrown>>
      \/ a # b /\ ~EdgeVerified(verifier, edges, e)
      \/ /\ a # b /\ k' = k + 1
         /\ verifier' = verify_edge(verifier, e) /\ UNCHANGED <<pc, thrown>>
         /\ Link(p, a, b) \/ Link(p, b, a)
  BY <1>1, Zenon DEF Linked
<1>4. Merged /\ Active /\ Control /\ InStep /\ Backed /\ Sound
  BY Zenon DEF RoundsInv
<1>5. /\ Forest(parent) /\ edges \in SUBSET Edges /\ k \in Nat /\ k >= 1
      /\ v \in Nodes /\ v \in Range(reps) \ todo
  BY <1>2, Typed, SMTT(30) DEF Range, TypeInv
<1> HIDE DEF v
<1>6. PICK part \in [Nodes -> SUBSET Nodes] : Parts(part) /\ Joined(part) /\ Sampled(part)
  BY <1>2, <1>4, Zenon DEF Merged
<1>8. /\ e \in edges /\ e[1] \in Nodes /\ e[2] \in Nodes /\ Rt(v) \in {a, b}
      /\ ~(e[1] \in part[v] <=> e[2] \in part[v])
  BY <1>1, <1>6, GoodEdge, Zenon DEF v
<1>9. CASE a = b
  <2>1. parent' = p /\ k' = k + 1 /\ UNCHANGED <<to_merge, modified, verifier, pc, thrown>>
    BY <1>3, <1>9, Zenon
  <2>2. SameTrees
    BY <1>2, <1>5, <2>1, CompressRoot, SMTT(30) DEF SameTrees, Rt
  <2>3. Merged'
    <3>1. \A q : Sampled(q) => Sampled(q)'
      BY <1>2, <2>1, KeepSampled, Zenon
    <3>2. idx' \in [Nodes -> Nat] /\ \A x \in Nodes : idx'[x] >= idx[x]
      <4>1. idx \in [Nodes -> Nat] /\ idx' = idx
        BY <1>2, Typed, Zenon
      <4> QED BY <4>1
    <3> QED BY <1>2, <1>4, <2>1, <2>2, <3>1, <3>2, Typed, KeepMerged, Zenon
  <2>4. Rt(v) = v => to_merge[v] # <<>>
    <3> SUFFICES ASSUME Rt(v) = v, to_merge[v] = <<>> PROVE FALSE
      BY Zenon
    <3>1. Heap(v) = {v}
      BY SMTT(30) DEF Heap, Range
    <3>2. Heaped(part, v)
      BY <1>5, <1>6, Zenon DEF Joined
    <3>3. \A x \in Nodes : Rt(x) = v => x \in part[v]
      BY <3>1, <3>2, Zenon DEF Heaped, Tree
    <3>4. Rt(e[1]) = v /\ Rt(e[2]) = v
      BY <1>2, <1>8, <1>9, Zenon
    <3> QED BY <1>8, <3>3, <3>4, Zenon
  <2>5. Active'
    <3> SUFFICES ASSUME NEW r \in Nodes, Live(r)'
                 PROVE  r \in Range(new_reps') \/ to_merge'[r] # <<>> \/ Awaits(r)'
      BY <1>2, <2>1, Zenon DEF Active
    <3>1. Live(r)
      BY <1>2, <2>2, KeepTrees, Zenon
    <3>2. r \in Range(new_reps) \/ to_merge[r] # <<>> \/ Awaits(r)
      BY <1>2, <1>4, <3>1, Zenon DEF Active
    <3>3. r = v => to_merge[r] # <<>>
      BY <2>4, <3>1, Zenon DEF Live
    <3>4. Awaits(r) => r = v \/ Awaits(r)'
      BY <1>2, <1>5, <2>1, SMTT(30) DEF Awaits, v
    <3> QED BY <1>2, <2>1, <3>2, <3>3, <3>4, Zenon
  <2>6. Control'
    <3>1. Chosen
      BY <1>2, <1>4, Zenon DEF Control
    <3>2. Chosen'
      BY <1>2, <1>5, <2>1, <3>1, SMTT(30) DEF Chosen
    <3> QED BY <1>2, <1>4, <2>1, <3>2, Zenon DEF Control, VerifierAgrees
  <2>7. InStep'
    BY <1>2, <1>4, <2>1, <2>2, KeepInStep, Zenon
  <2>8. Backed'
    BY <1>2, <1>4, <2>1, KeepBackups, Zenon DEF Backed, Listed
  <2>9. Ready' /\ Restored' /\ Sound'
    BY <1>2, <1>4, <2>1, <2>2, KeepTrees, Zenon DEF Ready, Restored
  <2> QED BY <2>3, <2>5, <2>6, <2>7, <2>8, <2>9, Zenon DEF RoundsInv
<1>10. CASE a # b
  <2>1. a \in Nodes /\ b \in Nodes /\ Rt(a) = a /\ Rt(b) = b
    BY <1>2, <1>5, <1>8, Roots, Zenon
  <2>2. EdgeVerified(verifier, edges, e)
    <3>1. verifier \in Verifiers /\ SameSets
      BY <1>2, <1>4, Zenon DEF InStep, Control
    <3>2. /\ VRt(e[1]) # VRt(e[2])
          /\ verifier.boruvka_cc[VRt(e[1])] = Tree(a)
          /\ verifier.boruvka_cc[VRt(e[2])] = Tree(b)
      BY <1>2, <1>8, <1>10, <3>1, Zenon DEF SameSets
    <3> QED BY <1>2, <1>8, <1>10, <3>2, Zenon DEF EdgeVerified, VRt, Tree
  <2>3. /\ k' = k + 1 /\ verifier' = verify_edge(verifier, e) /\ UNCHANGED <<pc, thrown>>
        /\ Link(p, a, b) \/ Link(p, b, a)
    BY <1>3, <1>10, <2>2, Zenon
  <2>4. ASSUME NEW w \in Nodes, NEW l \in Nodes, {a, b} = {w, l}, Link(p, w, l)
        PROVE  RoundsInv'
    <3>1. /\ parent' = [Compress(parent, {e[1], e[2]}) EXCEPT ![l] = w]
          /\ to_merge' = Pending(w, l) /\ modified' = TRUE
      BY <1>2, <2>4, Zenon DEF Link
    <3>2. w # l /\ Rt(w) = w /\ Rt(l) = l
      BY <1>10, <2>1, <2>4
    <3>3. Join(w, l)
      BY <1>2, <1>5, <3>1, <3>2, LinkJoins, Zenon
    <3>4. {Rt(e[1]), Rt(e[2])} = {w, l} /\ Rt(reps[k]) \in {w, l}
      BY <1>2, <1>8, <2>4, Zenon DEF v
    <3> QED BY <1>2, <1>8, <2>3, <3>1, <3>3, <3>4, LinkRounds, Zenon
  <2> QED BY <2>1, <2>3, <2>4, Zenon
<1> QED BY <1>9, <1>10, Zenon

(* A copy is made before the supernode changes. *)
LEMMA CopyRounds ==
  ASSUME TypeInv, QueryInv, RoundsInv, NEW a \in Nodes, Copy(a)
  PROVE  RoundsInv'
<1>1. /\ pc = "merge" /\ cont /\ copy_in_mem /\ copies[a] = NoCopy
      /\ copies' = [copies EXCEPT ![a] = [sk |-> sk[a], idx |-> idx[a]]]
      /\ UNCHANGED <<edges, update_locked, copy_in_mem, cont, sk, idx, parent, verifier,
                     pc, reps, k, todo, query, new_reps, to_merge, modified, first_round,
                     backed_up, disk, thrown>>
  BY Zenon DEF Copy, MustCopy, callVars, config, supernodeVars, forestVars, roundVars, loopVars
<1>2. Merged /\ Active /\ Control /\ InStep /\ Backed /\ Sound
  BY Zenon DEF RoundsInv
<1>3. SameTrees
  BY <1>1, Zenon DEF SameTrees, Rt
<1>4. Merged'
  <2>1. \A part : Sampled(part)'
    BY <1>1, Zenon DEF Sampled
  <2>2. idx' \in [Nodes -> Nat] /\ \A v \in Nodes : idx'[v] >= idx[v]
    BY <1>1, Typed
  <2> QED BY <1>1, <1>2, <1>3, <2>1, <2>2, Typed, KeepMerged, Zenon
<1>5. Active'
  BY <1>1, <1>2, <1>3, KeepTrees, Zenon DEF Active
<1>6. Control'
  BY <1>1, <1>2, Zenon DEF Control, VerifierAgrees
<1>7. InStep'
  BY <1>1, <1>2, <1>3, KeepInStep, Zenon
<1>8. Backed'
  <2>1. Backups /\ Listed
    BY <1>1, <1>2, Zenon DEF Backed
  <2>2. \A v : Incident(v)' = Incident(v)
    BY <1>1, Zenon DEF Incident
  <2>3. \A v \in Nodes : Intact(v)' <=> Intact(v)
    BY <1>1, <2>2, Zenon DEF Intact
  <2>4. DOMAIN copies = Nodes
    BY Zenon DEF TypeInv, TypeOK
  <2>5. ASSUME NEW v \in Nodes
        PROVE  IF copies'[v] = NoCopy THEN Intact(v)
               ELSE \A j \in Sketches : copies'[v].sk[j] = Incident(v)
    <3>1. CASE v = a
      <4>1. Intact(a)
        BY <1>1, <2>1, Zenon DEF Backups
      <4>2. copies'[a].sk = sk[a]
        BY <1>1, <2>4, Zenon
      <4> QED BY <3>1, <4>1, <4>2, Zenon DEF Intact
    <3>2. CASE v # a
      BY <1>1, <2>1, <2>4, <3>2, Zenon DEF Backups
    <3> QED BY <3>1, <3>2, Zenon
  <2>6. Backups'
    BY <1>1, <2>1, <2>2, <2>3, <2>5, Zenon DEF Backups
  <2> QED BY <1>1, <2>1, <2>6, Zenon DEF Backed, Listed
<1>9. Ready' /\ Restored' /\ Sound'
  BY <1>1, <1>2, <1>3, KeepTrees, Zenon DEF Ready, Restored
<1> QED BY <1>4, <1>5, <1>6, <1>7, <1>8, <1>9, Zenon DEF RoundsInv

(* Supernode::merge adds up the sketches of disjoint parts. *)
LEMMA MergeParts ==
  ASSUME TypeInv, QueryInv, NEW a \in Nodes, Merge(a),
         NEW part \in [Nodes -> SUBSET Nodes], Parts(part), Joined(part)
  PROVE  \E q \in [Nodes -> SUBSET Nodes] : Parts(q)' /\ Joined(q)'
<1> DEFINE b == Head(to_merge[a])
           from == MergeFrom(a, b)
           t == Tail(to_merge[a])
<1>1. /\ to_merge[a] # <<>> /\ idx' = [idx EXCEPT ![a] = from]
      /\ sk' = [sk EXCEPT ![a] = [j \in Sketches |->
                  IF j >= from THEN SymDiff(sk[a][j], sk[b][j]) ELSE sk[a][j]]]
      /\ to_merge' = [to_merge EXCEPT ![a] = t]
      /\ UNCHANGED <<edges, parent>>
  BY Zenon DEF Merge, callVars, forestVars
<1>2. /\ to_merge \in [Nodes -> Seq(Nodes)] /\ idx \in [Nodes -> Nat] /\ DOMAIN sk = Nodes
  BY Typed, Zenon DEF TypeInv, TypeOK
<1>3. /\ b \in Range(to_merge[a]) /\ b \in Nodes /\ t \in Seq(Nodes)
      /\ Range(to_merge[a]) = {b} \cup Range(t)
      /\ IsInjective(to_merge[a]) => IsInjective(t) /\ b \notin Range(t)
  <2>1. to_merge[a] \in Seq(Nodes)
    BY <1>2, Zenon
  <2>2. Range(to_merge[a]) \subseteq Nodes
    BY <2>1 DEF Range
  <2> QED BY <1>1, <2>1, <2>2, TailSet, Zenon
<1>4. from \in Nat /\ from >= idx[a] /\ from >= idx[b]
  BY <1>2, <1>3 DEF MergeFrom
<1>5. Rt(a) = a /\ Heaped(part, a)
  BY <1>1, Zenon DEF Joined
<1> HIDE DEF b, from, t
<1>6. /\ Rt(b) = a /\ a # b /\ part[a] \cap part[b] = {} /\ b \notin Range(t)
      /\ IsInjective(t) /\ a \notin Range(t)
  BY <1>3, <1>5, Zenon DEF Heaped, Heap
<1>7. SameTrees
  BY <1>1, Zenon DEF SameTrees, Rt
<1>8. PICK q \in [Nodes -> SUBSET Nodes] :
        /\ q[a] = part[a] \cup part[b]
        /\ \A v \in Nodes : v # a => q[v] = part[v]
  <2> DEFINE f == [part EXCEPT ![a] = part[a] \cup part[b]]
  <2>1. /\ f \in [Nodes -> SUBSET Nodes] /\ f[a] = part[a] \cup part[b]
        /\ \A v \in Nodes : v # a => f[v] = part[v]
    BY <1>3, Zenon
  <2> QED BY <2>1, Zenon
<1>9. Parts(q)'
  <2>1. /\ \A x \in Nodes : Tree(Rt(x))' = Tree(Rt(x))
        /\ \A S : Cut(S)' = Cut(S)
    BY <1>1, Zenon DEF Tree, Rt, Cut
  <2>2. ASSUME NEW v \in Nodes PROVE v \in q[v] /\ q[v] \subseteq Tree(Rt(v))
    <3>1. part[b] \subseteq Tree(a) /\ \A x \in Nodes : x \in part[x] /\ part[x] \subseteq Tree(Rt(x))
      BY <1>3, <1>6, Zenon DEF Parts
    <3> QED BY <1>5, <1>8, <3>1, Zenon
  <2>3. ASSUME NEW v \in Nodes, NEW j \in Sketches, j >= idx'[v]
        PROVE  sk'[v][j] = Cut(q[v])
    <3>1. CASE v = a
      <4>1. j \in Nat /\ idx'[a] = from
        BY <1>1, <1>2, BoruvkaAssumption DEF Sketches
      <4>2. j >= from /\ j >= idx[a] /\ j >= idx[b]
        BY <1>2, <1>3, <1>4, <2>3, <3>1, <4>1
      <4>3. sk[a][j] = Cut(part[a]) /\ sk[b][j] = Cut(part[b])
        BY <1>3, <4>2, Zenon DEF Parts
      <4>4. sk'[a][j] = SymDiff(sk[a][j], sk[b][j])
        BY <1>1, <1>2, <4>2, Zenon
      <4> QED BY <1>6, <1>8, <3>1, <4>3, <4>4, CutUnion, SMTT(30)
    <3>2. CASE v # a
      <4>1. sk'[v] = sk[v] /\ idx'[v] = idx[v]
        BY <1>1, <1>2, <3>2, Zenon
      <4> QED BY <1>8, <2>3, <3>2, <4>1, Zenon DEF Parts
    <3> QED BY <3>1, <3>2, Zenon
  <2> QED BY <2>1, <2>2, <2>3, Zenon DEF Parts
<1>10. ASSUME NEW r \in Nodes
       PROVE  IF Rt(r)' = r THEN Heaped(q, r)' ELSE to_merge'[r] = <<>>
  <2>1. Rt(r)' = Rt(r) /\ Tree(r)' = Tree(r) /\ \A x \in Nodes : Rt(x)' = Rt(x)
    BY <1>1, Zenon DEF Rt, Tree
  <2>2. IF Rt(r) = r THEN Heaped(part, r) ELSE to_merge[r] = <<>>
    BY Zenon DEF Joined
  <2>3. CASE r = a
    <3>1. to_merge'[a] = t /\ Heap(a)' = {a} \cup Range(t) /\ Heap(a) = Heap(a)' \cup {b}
          /\ Heap(a)' \subseteq Nodes
      <4>1. to_merge'[a] = t /\ Range(t) \subseteq Nodes
        BY <1>1, <1>2, <1>3, SMTT(30) DEF Range
      <4> QED BY <1>3, <4>1, Zenon DEF Heap
    <3>2. \A x \in Heap(a)' : Rt(x)' = a
      BY <1>5, <2>1, <3>1, Zenon DEF Heaped
    <3>3. ASSUME NEW v \in Tree(a) PROVE \E x \in Heap(a)' : v \in q[x]
      <4>1. PICK x \in Heap(a) : v \in part[x]
        BY <1>5, Zenon DEF Heaped
      <4> QED BY <1>8, <3>1, <4>1, Zenon
    <3>4. ASSUME NEW x \in Heap(a)', NEW y \in Heap(a)', x # y
          PROVE  q[x] \cap q[y] = {}
      <4>1. x # b /\ y # b
        BY <1>6, <3>1, Zenon
      <4>2. \A c, d \in Heap(a) : c # d => part[c] \cap part[d] = {}
        BY <1>5, Zenon DEF Heaped
      <4>3. part[x] \cap part[y] = {} /\ part[b] \cap part[y] = {} /\ part[x] \cap part[b] = {}
        BY <3>1, <3>4, <4>1, <4>2, Zenon
      <4> QED BY <1>8, <3>1, <3>4, <4>3, Zenon
    <3> QED BY <1>6, <2>1, <2>3, <3>1, <3>2, <3>3, <3>4, SMTT(30) DEF Heaped
  <2>4. CASE r # a
    <3>1. to_merge'[r] = to_merge[r]
      BY <1>1, <1>2, <2>4, Zenon
    <3>2. ASSUME Rt(r) = r PROVE Heaped(q, r)'
      <4>1. Heaped(part, r)
        BY <2>2, <3>2, Zenon
      <4>2. Heap(r)' = Heap(r) /\ Heap(r) \subseteq Nodes
        BY <1>2, <3>1, SMTT(30) DEF Heap, Range
      <4>3. \A x \in Heap(r) : Rt(x) = r /\ x # a /\ q[x] = part[x]
        BY <1>5, <1>8, <2>4, <4>1, <4>2, Zenon DEF Heaped
      <4> QED BY <2>1, <3>1, <4>1, <4>2, <4>3, SMTT(30) DEF Heaped
    <3> QED BY <2>1, <2>2, <3>1, <3>2, Zenon
  <2> QED BY <2>3, <2>4, Zenon
<1>11. Joined(q)'
  BY <1>10, Zenon DEF Joined
<1> QED BY <1>8, <1>9, <1>11, Zenon

(* A merge: the winner's sketches now cover the merged node as well. *)
LEMMA MergeRounds ==
  ASSUME TypeInv, QueryInv, RoundsInv, NEW a \in Nodes, Merge(a)
  PROVE  RoundsInv'
<1>1. /\ pc = "merge" /\ a \in Range(reps) /\ ~MustCopy(a)
      /\ to_merge' = [to_merge EXCEPT ![a] = Tail(@)] /\ to_merge[a] # <<>>
      /\ \A v \in Nodes : v # a => sk'[v] = sk[v]
      /\ UNCHANGED <<edges, update_locked, copy_in_mem, cont, parent, verifier, pc, reps,
                     modified, first_round, backed_up, copies, disk, thrown>>
  BY Zenon DEF Merge, callVars, config, forestVars, loopVars, backupVars, TypeInv, TypeOK
<1>2. Merged /\ Active /\ Control /\ InStep /\ Backed /\ Sound
  BY Zenon DEF RoundsInv
<1>3. SameTrees
  BY <1>1, Zenon DEF SameTrees, Rt
<1>4. Merged'
  <2>1. PICK part \in [Nodes -> SUBSET Nodes] :
          Parts(part) /\ Joined(part) /\ Sampled(part)
    BY <1>1, <1>2, Zenon DEF Merged
  <2>2. PICK q \in [Nodes -> SUBSET Nodes] : Parts(q)' /\ Joined(q)'
    BY <2>1, MergeParts, Zenon
  <2>3. Sampled(q)'
    BY <1>1, Zenon DEF Sampled
  <2> QED BY <2>2, <2>3, Zenon DEF Merged
<1>5. Active'
  BY <1>1, <1>2, <1>3, KeepTrees, Zenon DEF Active
<1>6. Control'
  <2>1. \A c \in Nodes : to_merge'[c] # <<>> => c \in Range(reps)
    BY <1>1, <1>2, Typed, Zenon DEF Control
  <2> QED BY <1>1, <1>2, <2>1, Zenon DEF Control, VerifierAgrees
<1>7. InStep'
  BY <1>1, <1>2, <1>3, KeepInStep, Zenon
<1>8. Backed'
  <2> SUFFICES ASSUME cont PROVE Backups' /\ Listed'
    BY <1>1, Zenon DEF Backed
  <2>1. Backups /\ Listed
    BY <1>1, <1>2, Zenon DEF Backed
  <2>2. a \in Range(backed_up)
    BY <1>1, <2>1, Zenon DEF Listed
  <2>3. copy_in_mem => copies[a] # NoCopy
    BY <1>1, <2>2, Zenon DEF MustCopy, QueryInv, CopiesTaken
  <2>4. \A v : Incident(v)' = Incident(v)
    BY <1>1, Zenon DEF Incident
  <2>5. \A v \in Nodes : v # a => (Intact(v)' <=> Intact(v))
    BY <1>1, <2>4, Zenon DEF Intact
  <2>6. copy_in_mem => \A v \in Nodes :
          IF copies[v] = NoCopy THEN Intact(v)'
          ELSE \A j \in Sketches : copies[v].sk[j] = Incident(v)
    BY <2>1, <2>3, <2>5, Zenon DEF Backups
  <2>7. \A v \in Nodes \ Range(backed_up) : Intact(v)'
    BY <2>1, <2>2, <2>5, Zenon DEF Backups
  <2>8. Backups'
    BY <1>1, <2>1, <2>4, <2>6, <2>7, Zenon DEF Backups
  <2> QED BY <1>1, <2>1, <2>8, Zenon DEF Listed
<1>9. Ready' /\ Restored' /\ Sound'
  BY <1>1, <1>2, <1>3, KeepTrees, Zenon DEF Ready, Restored
<1> QED BY <1>4, <1>5, <1>6, <1>7, <1>8, <1>9, Zenon DEF RoundsInv

(* A round ends: the call fails, goes on, or has found the components. *)
LEMMA RoundOverRounds ==
  ASSUME TypeInv, QueryInv, RoundsInv, InducedFailure \/ NextRound \/ LastRound
  PROVE  RoundsInv'
<1>1. /\ pc = "merge" /\ \A a \in Range(reps) : to_merge[a] = <<>>
      /\ UNCHANGED <<edges, update_locked, copy_in_mem, cont, sk, idx, verifier, reps,
                     to_merge, backed_up, copies, disk>>
  BY Zenon DEF InducedFailure, NextRound, LastRound, RoundOver, callVars, config, supernodeVars,
     forestVars, roundVars, loopVars, backupVars
<1>2. \/ pc' = "cleanup" /\ thrown' = "OutOfQueries"
      \/ pc' = "sample" /\ todo' = Range(reps) /\ first_round' = FALSE /\ thrown' = thrown
      \/ pc' = "cleanup" /\ ~modified /\ thrown' = thrown
  BY Zenon DEF InducedFailure, NextRound, LastRound
<1>3. Merged /\ Active /\ Control /\ InStep /\ Backed /\ Sound
  BY Zenon DEF RoundsInv
<1>4. SameTrees
  <2>1. parent' = parent \/ parent' = Compress(parent, Nodes)
    BY Zenon DEF InducedFailure, NextRound, LastRound, forestVars
  <2> QED BY <2>1, Typed, CompressRoot, Zenon DEF SameTrees, Rt
<1>5. to_merge = NoMerges /\ \A a \in Nodes : to_merge[a] = <<>>
  <2>1. \A a \in Nodes : to_merge[a] = <<>>
    BY <1>1, <1>3, Zenon DEF Control
  <2> QED BY <2>1, Typed, Zenon DEF NoMerges
<1>6. Merged'
  <2>1. \A part : Sampled(part)'
    BY <1>1, <1>2, Zenon DEF Sampled
  <2>2. idx' \in [Nodes -> Nat] /\ \A v \in Nodes : idx'[v] >= idx[v]
    BY <1>1, Typed
  <2> QED BY <1>1, <1>3, <1>4, <2>1, <2>2, Typed, KeepMerged, Zenon
<1>7. Active'
  BY <1>1, <1>2, <1>3, <1>4, KeepTrees, Zenon DEF Active, TypeInv, TypeOK
<1>8. Control'
  BY <1>1, <1>2, <1>3, <1>5, Zenon DEF Control, VerifierAgrees
<1>9. InStep'
  BY <1>1, <1>3, <1>4, KeepInStep, Zenon
<1>10. Backed'
  BY <1>1, <1>2, <1>3, KeepBackups, Zenon DEF Backed, Listed
<1>11. Ready' /\ Restored' /\ Sound'
  BY <1>1, <1>2, <1>3, <1>4, KeepTrees, Zenon DEF Ready, Restored
<1> QED BY <1>6, <1>7, <1>8, <1>9, <1>10, <1>11, Zenon DEF RoundsInv

(* Without a live tree every edge is within a tree. *)
LEMMA RoundsCorrect == TypeInv /\ QueryInv /\ RoundsInv => CorrectForest
<1> SUFFICES ASSUME TypeInv, QueryInv, RoundsInv, pc = "cleanup", thrown = "none"
             PROVE  Partition(parent) = Components
  BY Zenon DEF CorrectForest
<1>1. Active /\ Sound /\ Forest(parent) /\ edges \in SUBSET Edges
  BY Typed, Zenon DEF RoundsInv
<1>2. ASSUME NEW e \in edges PROVE Root(parent, e[1]) = Root(parent, e[2])
  <2>1. e[1] \in Nodes /\ e[2] \in Nodes
    BY <1>1, Zenon DEF Edges
  <2>2. Rt(e[1]) \in Nodes /\ Rt(Rt(e[1])) = Rt(e[1])
    BY <1>1, <2>1, Roots, Zenon
  <2>3. Cut(Tree(Rt(e[1]))) = {}
    BY <1>1, <2>2, Zenon DEF Active, Live
  <2>4. e[2] \in Tree(Rt(e[1]))
    BY <2>1, <2>3, Zenon DEF Cut, Tree
  <2> QED BY <2>4, Zenon DEF Tree, Rt
<1>3. \A v \in Nodes : Root(parent, v) \in Reach(edges, v)
  BY <1>1, ComponentReach, Zenon DEF Sound, Rt
<1>4. Partition(parent) = {Reach(edges, r) : r \in Nodes}
  BY <1>1, <1>2, <1>3, PartitionReach, Zenon
<1> QED BY <1>4, ComponentReach, Zenon

(* cleanup_copy: what was changed is restored. *)
LEMMA CleanupRounds ==
  ASSUME TypeInv, QueryInv, RoundsInv, Cleanup
  PROVE  RoundsInv'
<1>1. /\ pc = "cleanup" /\ reps' = <<>> /\ to_merge' = NoMerges
      /\ found' = IF thrown = "none" THEN Partition(parent) ELSE {}
      /\ IF cont THEN pc' \in {"reset", "exited"} ELSE pc' = "idle"
      /\ UNCHANGED <<edges, update_locked, cont, parent, verifier, thrown>>
  BY Zenon DEF Cleanup, callVars, forestVars
<1>2. Merged /\ Control /\ InStep /\ Backed /\ Sound
  BY Zenon DEF RoundsInv
<1>3. SameTrees
  BY <1>1, Zenon DEF SameTrees, Rt
<1>4. to_merge' = to_merge /\ \A a \in Nodes : to_merge'[a] = <<>>
  BY <1>1, <1>2, Zenon DEF Control, NoMerges
<1>5. Control'
  <2>1. IsInjective(<<>>)
    BY DEF IsInjective
  <2> QED BY <1>1, <1>2, <1>4, <2>1, Zenon DEF Control, VerifierAgrees
<1>6. Merged'
  <2> SUFFICES ASSUME ~cont PROVE Merged'
    BY <1>1, Zenon DEF Merged
  <2>1. DOMAIN sk = Nodes /\ idx \in [Nodes -> Nat]
    BY Typed, Zenon DEF TypeInv, TypeOK
  <2>2. sk' = [v \in Nodes |-> sk[v]] /\ idx' = [v \in Nodes |-> idx[v]]
    BY Zenon DEF Cleanup
  <2>3. sk' = sk /\ idx' = idx
    BY <2>1, <2>2, Zenon DEF TypeInv, TypeOK
  <2>4. \A part : Sampled(part)'
    BY <1>1, Zenon DEF Sampled
  <2>5. idx' \in [Nodes -> Nat] /\ \A v \in Nodes : idx'[v] >= idx[v]
    BY <2>1, <2>3
  <2> QED BY <1>1, <1>2, <1>3, <1>4, <2>3, <2>4, <2>5, Typed, KeepMerged, Zenon
<1>7. Ready'
  <2> SUFFICES ASSUME cont PROVE (\A v \in Nodes : Intact(v)') /\ found' \in {Components', {}}
    BY <1>1, Zenon DEF Ready
  <2>1. Backups
    BY <1>1, <1>2, Zenon DEF Backed
  <2>2. \A v : Incident(v)' = Incident(v)
    BY <1>1, Zenon DEF Incident
  <2>3. ASSUME NEW v \in Nodes, NEW j \in Sketches PROVE sk'[v][j] = Incident(v)
    <3>1. CASE v \notin Range(backed_up)
      <4>1. sk'[v] = sk[v]
        BY <3>1, Zenon DEF Cleanup
      <4> QED BY <2>1, <3>1, <4>1, Zenon DEF Backups, Intact
    <3>2. CASE v \in Range(backed_up) /\ copy_in_mem
      <4>1. sk'[v] = copies[v].sk
        BY <3>2, Zenon DEF Cleanup
      <4>2. copies[v] # NoCopy
        BY <1>1, <3>2, Zenon DEF QueryInv, CopiesTaken
      <4> QED BY <2>1, <3>2, <4>1, <4>2, Zenon DEF Backups
    <3>3. CASE v \in Range(backed_up) /\ ~copy_in_mem
      <4>1. sk'[v] = disk.data[Position(v)]
        BY <3>3, Zenon DEF Cleanup
      <4>2. Position(v) \in DOMAIN backed_up /\ backed_up[Position(v)] = v
        <5>1. \E i \in DOMAIN backed_up : backed_up[i] = v
          BY <3>3, Zenon DEF Range
        <5> QED BY <5>1, Zenon DEF Position
      <4>3. disk.data[Position(v)][j] = Incident(backed_up[Position(v)])
        BY <2>1, <3>3, <4>2, Zenon DEF Backups
      <4> QED BY <4>1, <4>2, <4>3, Zenon
    <3> QED BY <3>1, <3>2, <3>3, Zenon
  <2>4. found' \in {Components, {}}
    BY <1>1, RoundsCorrect, Zenon DEF CorrectForest
  <2>5. Components' = Components
    BY <1>1, <1>3, KeepTrees, Zenon
  <2> QED BY <2>2, <2>3, <2>4, <2>5, Zenon DEF Intact
<1>8. InStep'
  BY <1>1, <1>2, <1>3, KeepInStep, Zenon
<1>9. Sound'
  BY <1>1, <1>2, <1>3, KeepTrees, Zenon
<1>10. Active' /\ Backed' /\ Restored'
  BY <1>1, <1>2, Zenon DEF Active, Backed, Restored, Control
<1> QED BY <1>5, <1>6, <1>7, <1>8, <1>9, <1>10, Zenon DEF RoundsInv
=============================================================================
