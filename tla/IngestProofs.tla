---------------------------- MODULE IngestProofs ----------------------------
(***************************************************************************)
(* Proofs that ingestion neither loses nor repeats an update: for any      *)
(* number of nodes, workers, inserters and updates, any size of gutters    *)
(* and queue, and any Graphs one after the other, a query finds in the     *)
(* supernodes exactly the stream that the client's updates describe.       *)
(*                                                                         *)
(* update(u, v) makes two inserts, the directions <<u, v>> and <<v, u>>.   *)
(* On its way to the supernode u a direction <<u, v>> waits in an          *)
(* inserter's hands, in a gutter, in the queue and in a worker's hands.    *)
(* Waiting(L, P) counts the directions of the set P that wait, those of    *)
(* the workers at the labels L included.  First come facts about the       *)
(* cardinality of finite sets, then what each step does to the count, then *)
(* the two invariants Counted and Summed.                                  *)
(***************************************************************************)
EXTENDS GraphProofs, FiniteSetTheorems, SequenceTheorems

(* The positions of s at which a member of D stands. *)
Places(s, D) == {i \in DOMAIN s : s[i] \in D}

(* The pairs of a member x of X and a member of F[x], a set of numbers. *)
Tot(X, F) == {t \in X \X Nat : t[2] \in F[t[1]]}

(* A one-to-one map onto T. *)
LEMMA SameCount ==
  ASSUME NEW S, NEW T, NEW f \in [S -> T], IsFiniteSet(S),
         \A a, b \in S : f[a] = f[b] => a = b,
         \A t \in T : \E s \in S : f[s] = t
  PROVE  IsFiniteSet(T) /\ Cardinality(T) = Cardinality(S)
<1>1. f \in Bijection(S, T)
  BY Zenon DEF Bijection, Injection, Surjection, IsInjective
<1>2. ExistsBijection(S, T)
  BY <1>1, Zenon DEF ExistsBijection
<1> QED
  BY <1>2, FS_Bijection, Zenon

(* Two sets with nothing in common. *)
LEMMA DisjointCount ==
  ASSUME NEW S, NEW T, IsFiniteSet(S), IsFiniteSet(T), S \cap T = {}
  PROVE  /\ IsFiniteSet(S \cup T)
         /\ Cardinality(S \cup T) = Cardinality(S) + Cardinality(T)
<1>1. Cardinality(S \cap T) = 0
  BY FS_EmptySet, Zenon
<1>2. /\ IsFiniteSet(S \cup T)
      /\ Cardinality(S \cup T)
           = Cardinality(S) + Cardinality(T) - Cardinality(S \cap T)
  BY FS_Union, Zenon
<1>3. Cardinality(S) \in Nat /\ Cardinality(T) \in Nat
  BY FS_CardinalityType, Zenon
<1> QED
  BY <1>1, <1>2, <1>3

(* A set and its copy tagged with x. *)
LEMMA TagCount ==
  ASSUME NEW x, NEW S, IsFiniteSet(S)
  PROVE  IsFiniteSet({x} \X S) /\ Cardinality({x} \X S) = Cardinality(S)
<1> DEFINE f == [i \in S |-> <<x, i>>]
<1>1. f \in [S -> {x} \X S]
  BY Zenon
<1>2. \A a, b \in S : f[a] = f[b] => a = b
  BY Zenon
<1>3. \A t \in {x} \X S : \E s \in S : f[s] = t
  OBVIOUS
<1> HIDE DEF f
<1> QED
  BY <1>1, <1>2, <1>3, SameCount

(* A change of what F gives to x changes the total by as much. *)
LEMMA TotChange ==
  ASSUME NEW X, NEW x \in X, NEW F, NEW G,
         \A y \in X : y # x => F[y] = G[y],
         F[x] \in SUBSET Nat, G[x] \in SUBSET Nat,
         IsFiniteSet(F[x]), IsFiniteSet(G[x]), IsFiniteSet(Tot(X, F))
  PROVE  /\ IsFiniteSet(Tot(X, G))
         /\ Cardinality(Tot(X, G)) + Cardinality(F[x])
              = Cardinality(Tot(X, F)) + Cardinality(G[x])
<1> DEFINE R == {t \in X \X Nat : t[1] # x /\ t[2] \in F[t[1]]}
           A == {x} \X F[x]
           B == {x} \X G[x]
<1>1. Tot(X, F) = R \cup A /\ R \cap A = {}
  BY Zenon DEF Tot
<1>2. Tot(X, G) = R \cup B /\ R \cap B = {}
  BY Zenon DEF Tot
<1>3. /\ IsFiniteSet(A) /\ Cardinality(A) = Cardinality(F[x])
      /\ IsFiniteSet(B) /\ Cardinality(B) = Cardinality(G[x])
  BY TagCount, Zenon
<1> HIDE DEF R, A, B
<1>4. IsFiniteSet(R)
  BY <1>1, FS_Subset, Zenon
<1>5. /\ IsFiniteSet(Tot(X, G))
      /\ Cardinality(Tot(X, F)) = Cardinality(R) + Cardinality(A)
      /\ Cardinality(Tot(X, G)) = Cardinality(R) + Cardinality(B)
  BY <1>1, <1>2, <1>3, <1>4, DisjointCount
<1>6. /\ Cardinality(R) \in Nat
      /\ Cardinality(A) \in Nat /\ Cardinality(B) \in Nat
  BY <1>3, <1>4, FS_CardinalityType, Zenon
<1> QED
  BY <1>3, <1>5, <1>6

(* One more member of X. *)
LEMMA TotAdd ==
  ASSUME NEW X, NEW x, x \notin X, NEW F, NEW G,
         \A y \in X : F[y] = G[y],
         G[x] \in SUBSET Nat, IsFiniteSet(G[x]), IsFiniteSet(Tot(X, F))
  PROVE  /\ IsFiniteSet(Tot(X \cup {x}, G))
         /\ Cardinality(Tot(X \cup {x}, G))
              = Cardinality(Tot(X, F)) + Cardinality(G[x])
<1> DEFINE B == {x} \X G[x]
<1>1. Tot(X \cup {x}, G) = Tot(X, F) \cup B /\ Tot(X, F) \cap B = {}
  BY Zenon DEF Tot
<1>2. IsFiniteSet(B) /\ Cardinality(B) = Cardinality(G[x])
  BY TagCount, Zenon
<1> HIDE DEF B
<1>3. /\ IsFiniteSet(Tot(X, F) \cup B)
      /\ Cardinality(Tot(X, F) \cup B) = Cardinality(Tot(X, F)) + Cardinality(B)
  BY <1>1, <1>2, DisjointCount, Zenon
<1> QED
  BY <1>1, <1>2, <1>3, Zenon

(* The first of n members leaves and the others move down by one. *)
LEMMA TotShift ==
  ASSUME NEW n \in Nat \ {0}, NEW F, NEW G,
         \A i \in 1 .. n - 1 : G[i] = F[i + 1],
         F[1] \in SUBSET Nat, IsFiniteSet(F[1]), IsFiniteSet(Tot(1 .. n, F))
  PROVE  /\ IsFiniteSet(Tot(1 .. n - 1, G))
         /\ Cardinality(Tot(1 .. n, F))
              = Cardinality(Tot(1 .. n - 1, G)) + Cardinality(F[1])
<1> DEFINE R == {t \in (2 .. n) \X Nat : t[2] \in F[t[1]]}
           A == {1} \X F[1]
           f == [t \in R |-> <<t[1] - 1, t[2]>>]
           T == Tot(1 .. n - 1, G)
<1>1. Tot(1 .. n, F) = R \cup A /\ R \cap A = {}
  BY DEF Tot
<1>2. IsFiniteSet(A) /\ Cardinality(A) = Cardinality(F[1])
  BY TagCount, Zenon
<1>3. IsFiniteSet(R)
  BY <1>1, FS_Subset, Zenon
<1>4. f \in [R -> T]
  BY DEF Tot
<1>5. \A a, b \in R : f[a] = f[b] => a = b
  OBVIOUS
<1>6. ASSUME NEW t \in T PROVE \E s \in R : f[s] = t
  <2>1. t[1] \in 1 .. n - 1 /\ t[2] \in Nat /\ t = <<t[1], t[2]>>
        /\ t[2] \in F[t[1] + 1]
    BY DEF Tot
  <2>2. <<t[1] + 1, t[2]>> \in R
    BY <2>1
  <2> QED
    BY <2>1, <2>2
<1> HIDE DEF f, R, A, T
<1>7. IsFiniteSet(T) /\ Cardinality(T) = Cardinality(R)
  BY <1>3, <1>4, <1>5, <1>6, SameCount
<1> QED
  BY <1>1, <1>2, <1>3, <1>7, DisjointCount DEF T

(* The places of a sequence are finitely many numbers. *)
LEMMA PlacesFinite ==
  ASSUME NEW T, NEW s \in Seq(T), NEW D
  PROVE  /\ Places(s, D) \in SUBSET Nat /\ IsFiniteSet(Places(s, D))
         /\ Cardinality(Places(s, D)) \in Nat
<1>1. DOMAIN s = 1 .. Len(s) /\ Len(s) \in Nat
  BY LenProperties, Zenon
<1>2. IsFiniteSet(1 .. Len(s))
  BY <1>1, FS_Interval
<1>3. Places(s, D) \in SUBSET (1 .. Len(s))
  BY <1>1, Zenon DEF Places
<1> QED
  BY <1>2, <1>3, FS_Subset, FS_CardinalityType

(* Nothing stands in an empty sequence. *)
LEMMA PlacesEmpty ==
  ASSUME NEW D
  PROVE  Places(<<>>, D) = {} /\ Cardinality(Places(<<>>, D)) = 0
<1>1. Places(<<>>, D) = {}
  BY DEF Places
<1> QED
  BY <1>1, FS_EmptySet, Zenon

(* Where every member of s is in D, all places count. *)
LEMMA PlacesAll ==
  ASSUME NEW T, NEW s \in Seq(T), NEW D, \A i \in DOMAIN s : s[i] \in D
  PROVE  Cardinality(Places(s, D)) = Len(s)
<1>1. Places(s, D) = 1 .. Len(s) /\ Len(s) \in Nat
  BY LenProperties, Zenon DEF Places
<1> QED
  BY <1>1, FS_Interval, SMTT(30)

(* A member appended. *)
LEMMA PlacesAppend ==
  ASSUME NEW T, NEW s \in Seq(T), NEW d \in T, NEW D
  PROVE  Cardinality(Places(Append(s, d), D))
           = Cardinality(Places(s, D)) + (IF d \in D THEN 1 ELSE 0)
<1>1. DOMAIN s = 1 .. Len(s) /\ Len(s) \in Nat
  BY LenProperties, Zenon
<1>2. /\ DOMAIN Append(s, d) = 1 .. (Len(s) + 1)
      /\ \A i \in 1 .. Len(s) : Append(s, d)[i] = s[i]
      /\ Append(s, d)[Len(s) + 1] = d
  BY AppendProperties, LenProperties
<1>3. Places(Append(s, d), D)
        = IF d \in D THEN Places(s, D) \cup {Len(s) + 1} ELSE Places(s, D)
  BY <1>1, <1>2 DEF Places
<1>4. Len(s) + 1 \notin Places(s, D)
  BY <1>1 DEF Places
<1>5. IsFiniteSet(Places(s, D)) /\ Cardinality(Places(s, D)) \in Nat
  BY PlacesFinite, Zenon
<1>6. Cardinality(Places(s, D) \cup {Len(s) + 1}) = Cardinality(Places(s, D)) + 1
  BY <1>4, <1>5, FS_AddElement, Zenon
<1> QED
  BY <1>3, <1>5, <1>6

(* The first member removed. *)
LEMMA PlacesTail ==
  ASSUME NEW T, NEW s \in Seq(T), s # <<>>, NEW D
  PROVE  Cardinality(Places(s, D))
           = Cardinality(Places(Tail(s), D)) + (IF Head(s) \in D THEN 1 ELSE 0)
<1>1. DOMAIN s = 1 .. Len(s) /\ Len(s) \in Nat \ {0} /\ Head(s) = s[1]
  BY LenProperties, EmptySeq
<1>2. /\ Tail(s) \in Seq(T) /\ DOMAIN Tail(s) = 1 .. (Len(s) - 1)
      /\ \A i \in 1 .. (Len(s) - 1) : Tail(s)[i] = s[i + 1]
  BY HeadTailProperties, LenProperties, Zenon
<1> DEFINE R == Places(s, D) \ {1}
           Q == Places(Tail(s), D)
           f == [i \in R |-> i - 1]
<1>3. IsFiniteSet(R)
      /\ Cardinality(Places(s, D)) = Cardinality(R) + (IF s[1] \in D THEN 1 ELSE 0)
  <2>1. 1 \in Places(s, D) <=> s[1] \in D
    BY <1>1 DEF Places
  <2>2. IsFiniteSet(Places(s, D)) /\ Cardinality(Places(s, D)) \in Nat
    BY PlacesFinite, Zenon
  <2>3. /\ IsFiniteSet(R)
        /\ Cardinality(R) = IF 1 \in Places(s, D) THEN Cardinality(Places(s, D)) - 1
                            ELSE Cardinality(Places(s, D))
    BY <2>2, FS_RemoveElement, Zenon
  <2> HIDE DEF R
  <2> QED
    BY <2>1, <2>2, <2>3
<1>4. f \in [R -> Q]
  BY <1>1, <1>2 DEF Places
<1>5. \A a, b \in R : f[a] = f[b] => a = b
  BY <1>1 DEF Places
<1>6. ASSUME NEW j \in Q PROVE \E i \in R : f[i] = j
  <2>1. j \in 1 .. (Len(s) - 1) /\ s[j + 1] \in D
    BY <1>2, Zenon DEF Places
  <2>2. j + 1 \in R
    BY <1>1, <2>1 DEF Places
  <2> QED
    BY <2>1, <2>2
<1> HIDE DEF f, R, Q
<1>7. Cardinality(Q) = Cardinality(R)
  BY <1>3, <1>4, <1>5, <1>6, SameCount, Zenon
<1> QED
  BY <1>1, <1>3, <1>7, Zenon DEF Q

(* Two members. *)
LEMMA PlacesTwo ==
  ASSUME NEW T, NEW a \in T, NEW b \in T, NEW D
  PROVE  /\ <<a, b>> \in Seq(T)
         /\ Cardinality(Places(<<a, b>>, D))
              = (IF a \in D THEN 1 ELSE 0) + (IF b \in D THEN 1 ELSE 0)
<1>1. <<a, b>> \in Seq(T)
  OBVIOUS
<1>2. /\ DOMAIN <<a, b>> = {1, 2}
      /\ <<a, b>>[1] = a /\ <<a, b>>[2] = b
  OBVIOUS
<1>3. Places(<<a, b>>, D)
        = (IF a \in D THEN {1} ELSE {}) \cup (IF b \in D THEN {2} ELSE {})
  BY <1>2, Zenon DEF Places
<1>4. /\ IsFiniteSet({}) /\ Cardinality({}) = 0
      /\ IsFiniteSet({1}) /\ Cardinality({1}) = 1
      /\ IsFiniteSet({2}) /\ Cardinality({2}) = 1
  BY FS_EmptySet, FS_Singleton, Zenon
<1>5. Cardinality({1} \cup {2}) = 2
  BY <1>4, DisjointCount
<1>6. {1} \cup {} = {1} /\ {} \cup {2} = {2} /\ {} \cup {} = {}
  BY Zenon
<1> QED
  BY <1>1, <1>3, <1>4, <1>5, <1>6
-----------------------------------------------------------------------------
Directions == Nodes \X Nodes
Ends(n, P) == {d \in Nodes : <<n, d>> \in P}
InBatch(b, P) == Places(b.dests, Ends(b.node, P))

InUpdates(P) == Tot(Inserters, [i \in Inserters |-> Places(pend[i], P)])
InGutters(P) == Tot(Nodes, [n \in Nodes |-> Places(gutter[n], Ends(n, P))])
InQueue(P) == Tot(DOMAIN queue, [j \in DOMAIN queue |-> InBatch(queue[j], P)])
InHands(L, P) ==
  Tot(Workers, [w \in Workers |-> IF wpc[w] \in L THEN InBatch(data[w], P) ELSE {}])

Finite(L, P) ==
  /\ IsFiniteSet(InUpdates(P)) /\ IsFiniteSet(InGutters(P))
  /\ IsFiniteSet(InQueue(P)) /\ IsFiniteSet(InHands(L, P))
Waiting(L, P) ==
  Cardinality(InUpdates(P)) + Cardinality(InGutters(P))
    + Cardinality(InQueue(P)) + Cardinality(InHands(L, P))
Odd(n) == n % 2 = 1

(* The counts of finite sets are numbers. *)
LEMMA FiniteCounts ==
  ASSUME NEW L, NEW P, Finite(L, P)
  PROVE  /\ Cardinality(InUpdates(P)) \in Nat /\ Cardinality(InGutters(P)) \in Nat
         /\ Cardinality(InQueue(P)) \in Nat /\ Cardinality(InHands(L, P)) \in Nat
         /\ Waiting(L, P) \in Nat
<1>1. /\ Cardinality(InUpdates(P)) \in Nat /\ Cardinality(InGutters(P)) \in Nat
      /\ Cardinality(InQueue(P)) \in Nat /\ Cardinality(InHands(L, P)) \in Nat
  BY FS_CardinalityType, Zenon DEF Finite
<1> QED
  BY <1>1 DEF Waiting

(* The directions of P in a batch. *)
LEMMA BatchFinite ==
  ASSUME NEW b \in Batch, NEW P
  PROVE  /\ InBatch(b, P) \in SUBSET Nat /\ IsFiniteSet(InBatch(b, P))
         /\ Cardinality(InBatch(b, P)) \in Nat
<1>1. b.dests \in Seq(Nodes)
  BY Zenon DEF Batch
<1> QED
  BY <1>1, PlacesFinite, Zenon DEF InBatch

(* A batch, from a full or flushed gutter, enters the queue. *)
LEMMA PushCount ==
  ASSUME TypeOK, NEW n \in Nodes, NEW s \in Seq(Nodes), Push(n, s), NEW P,
         IsFiniteSet(InGutters(P)), IsFiniteSet(InQueue(P))
  PROVE  /\ IsFiniteSet(InGutters(P)') /\ IsFiniteSet(InQueue(P)')
         /\ Cardinality(InGutters(P)') + Cardinality(Places(gutter[n], Ends(n, P)))
              = Cardinality(InGutters(P))
         /\ Cardinality(InQueue(P)')
              = Cardinality(InQueue(P)) + Cardinality(Places(s, Ends(n, P)))
<1> DEFINE F == [m \in Nodes |-> Places(gutter[m], Ends(m, P))]
           G == [m \in Nodes |-> Places(gutter'[m], Ends(m, P))]
           b == [node |-> n, dests |-> s]
           Q == [j \in DOMAIN queue |-> InBatch(queue[j], P)]
           R == [j \in DOMAIN queue' |-> InBatch(queue'[j], P)]
<1>1. /\ gutter \in [Nodes -> Seq(Nodes)] /\ queue \in Seq(Batch)
      /\ gutter' = [gutter EXCEPT ![n] = <<>>] /\ queue' = Append(queue, b)
  BY Zenon DEF TypeOK, GtsTypeOK, Push
<1>2. InGutters(P) = Tot(Nodes, F) /\ InGutters(P)' = Tot(Nodes, G)
  BY Zenon DEF InGutters, Ends
<1>3. InQueue(P) = Tot(DOMAIN queue, Q) /\ InQueue(P)' = Tot(DOMAIN queue', R)
  BY Zenon DEF InQueue, InBatch, Ends
<1>4. IsFiniteSet(Tot(Nodes, G))
      /\ Cardinality(Tot(Nodes, G)) + Cardinality(F[n])
           = Cardinality(Tot(Nodes, F)) + Cardinality(G[n])
  <2>1. \A m \in Nodes : m # n => F[m] = G[m]
    BY <1>1, Zenon
  <2>2. F[n] \in SUBSET Nat /\ IsFiniteSet(F[n])
    BY <1>1, PlacesFinite, Zenon
  <2>3. G[n] = {}
    BY <1>1, PlacesEmpty, Zenon
  <2>4. G[n] \in SUBSET Nat /\ IsFiniteSet(G[n])
    BY Zenon, <2>3, FS_EmptySet
  <2> HIDE DEF F, G
  <2> QED
    BY <1>2, <2>1, <2>2, <2>4, TotChange
<1>5. Cardinality(G[n]) = 0
  BY <1>1, PlacesEmpty, Zenon
<1>6. IsFiniteSet(Tot(DOMAIN queue', R))
      /\ Cardinality(Tot(DOMAIN queue', R))
           = Cardinality(Tot(DOMAIN queue, Q)) + Cardinality(Places(s, Ends(n, P)))
  <2>1. b \in Batch
    BY Zenon DEF Batch
  <2>2. /\ Len(queue) \in Nat /\ DOMAIN queue = 1 .. Len(queue)
        /\ DOMAIN queue' = 1 .. (Len(queue) + 1)
        /\ \A j \in 1 .. Len(queue) : queue'[j] = queue[j]
        /\ queue'[Len(queue) + 1] = b
    BY <1>1, <2>1, AppendProperties, LenProperties
  <2>3. DOMAIN queue' = DOMAIN queue \cup {Len(queue) + 1}
        /\ Len(queue) + 1 \notin DOMAIN queue
    BY <2>2
  <2>4. R[Len(queue) + 1] = Places(s, Ends(n, P))
    BY <2>2, <2>3 DEF InBatch
  <2>5. R[Len(queue) + 1] \in SUBSET Nat /\ IsFiniteSet(R[Len(queue) + 1])
    BY <2>4, PlacesFinite, Zenon
  <2>6. \A j \in DOMAIN queue : Q[j] = R[j]
    BY <2>2, <2>3, Zenon
  <2> HIDE DEF Q, R
  <2> QED
    BY <1>3, <2>3, <2>4, <2>5, <2>6, TotAdd, SMTT(30)
<1>7. Cardinality(Tot(Nodes, F)) \in Nat /\ Cardinality(Tot(Nodes, G)) \in Nat
      /\ Cardinality(F[n]) \in Nat
  <2>1. Cardinality(F[n]) \in Nat
    BY <1>1, PlacesFinite, Zenon
  <2> QED
    BY <1>2, <1>4, <2>1, FS_CardinalityType, Zenon
<1>8. F[n] = Places(gutter[n], Ends(n, P))
  BY Zenon
<1> HIDE DEF F, G, Q, R
<1> QED
  BY <1>2, <1>3, <1>4, <1>5, <1>6, <1>7, <1>8, SMTT(30)

(* A direction of an update goes to a gutter, or with it to the queue. *)
LEMMA InsertCount ==
  ASSUME TypeOK, NEW i \in Inserters, InsertNext(i), NEW L, NEW P, Finite(L, P)
  PROVE  Finite(L, P)' /\ Waiting(L, P)' = Waiting(L, P)
<1> DEFINE u == Head(pend[i])[1]
           v == Head(pend[i])[2]
           one == IF v \in Ends(u, P) THEN 1 ELSE 0
           filled == Append(gutter[u], v)
<1>1. /\ pend \in [Inserters -> Seq(Directions)] /\ pend[i] # <<>>
      /\ pend' = [pend EXCEPT ![i] = Tail(@)] /\ UNCHANGED <<wpc, data>>
  BY Zenon DEF TypeOK, CallTypeOK, Directions, InsertNext, poolVars, buffers
<1>2. /\ Head(pend[i]) \in Directions /\ u \in Nodes /\ v \in Nodes
      /\ Head(pend[i]) = <<u, v>> /\ Tail(pend[i]) \in Seq(Directions)
  <2>1. Head(pend[i]) \in Directions /\ Tail(pend[i]) \in Seq(Directions)
    BY <1>1, HeadTailType, Zenon
  <2> QED
    BY <2>1 DEF Directions
<1>3. InHands(L, P)' = InHands(L, P)
  BY <1>1, Zenon DEF InHands, InBatch, Ends
<1>4. IsFiniteSet(InUpdates(P)') /\ Cardinality(InUpdates(P)) = Cardinality(InUpdates(P)') + one
  <2> DEFINE F == [m \in Inserters |-> Places(pend[m], P)]
             G == [m \in Inserters |-> Places(pend'[m], P)]
  <2>1. InUpdates(P) = Tot(Inserters, F) /\ InUpdates(P)' = Tot(Inserters, G)
    BY Zenon DEF InUpdates
  <2>2. \A m \in Inserters : m # i => F[m] = G[m]
    BY <1>1, Zenon
  <2>3. F[i] = Places(pend[i], P) /\ G[i] = Places(Tail(pend[i]), P)
    BY <1>1, Zenon
  <2>4. /\ F[i] \in SUBSET Nat /\ IsFiniteSet(F[i]) /\ Cardinality(F[i]) \in Nat
        /\ G[i] \in SUBSET Nat /\ IsFiniteSet(G[i]) /\ Cardinality(G[i]) \in Nat
    BY Zenon, <1>1, <1>2, <2>3, PlacesFinite
  <2>5. Head(pend[i]) \in P <=> v \in Ends(u, P)
    BY Zenon, <1>2 DEF Ends
  <2>6. Cardinality(F[i]) = Cardinality(G[i]) + one
    <3>1. Cardinality(F[i])
            = Cardinality(G[i]) + (IF Head(pend[i]) \in P THEN 1 ELSE 0)
      BY <1>1, <2>3, PlacesTail
    <3> QED
      BY <2>5, <3>1, Zenon
  <2> HIDE DEF F, G, one
  <2>7. /\ IsFiniteSet(Tot(Inserters, G))
        /\ Cardinality(Tot(Inserters, G)) + Cardinality(F[i])
             = Cardinality(Tot(Inserters, F)) + Cardinality(G[i])
    BY <2>1, <2>2, <2>4, TotChange, SMTT(30) DEF Finite
  <2>8. Cardinality(Tot(Inserters, G)) \in Nat /\ Cardinality(Tot(Inserters, F)) \in Nat
    BY <2>1, <2>7, FS_CardinalityType, Zenon DEF Finite
  <2> QED
    BY <2>1, <2>4, <2>6, <2>7, <2>8, SMTT(30) DEF one
<1>5. gutter \in [Nodes -> Seq(Nodes)] /\ filled \in Seq(Nodes)
  BY <1>2 DEF TypeOK, GtsTypeOK
<1>6. Cardinality(Places(filled, Ends(u, P)))
        = Cardinality(Places(gutter[u], Ends(u, P))) + one
  BY <1>2, <1>5, PlacesAppend, SMTT(30)
<1>7. \/ gutter' = [gutter EXCEPT ![u] = filled] /\ queue' = queue
      \/ Push(u, filled)
  BY Zenon DEF InsertNext, Insert
<1> HIDE DEF u, v, one, filled
<1>8. CASE gutter' = [gutter EXCEPT ![u] = filled] /\ queue' = queue
  <2>1. InQueue(P)' = InQueue(P)
    BY <1>8, Zenon DEF InQueue, InBatch, Ends
  <2> DEFINE F == [m \in Nodes |-> Places(gutter[m], Ends(m, P))]
             G == [m \in Nodes |-> Places(gutter'[m], Ends(m, P))]
  <2>2. InGutters(P) = Tot(Nodes, F) /\ InGutters(P)' = Tot(Nodes, G)
    BY Zenon DEF InGutters, Ends
  <2>3. \A m \in Nodes : m # u => F[m] = G[m]
    BY <1>5, <1>8, Zenon
  <2>4. F[u] = Places(gutter[u], Ends(u, P)) /\ G[u] = Places(filled, Ends(u, P))
    BY <1>2, <1>5, <1>8, Zenon
  <2>5. /\ F[u] \in SUBSET Nat /\ IsFiniteSet(F[u]) /\ Cardinality(F[u]) \in Nat
        /\ G[u] \in SUBSET Nat /\ IsFiniteSet(G[u]) /\ Cardinality(G[u]) \in Nat
    BY <1>2, <1>5, <2>4, PlacesFinite, Zenon
  <2> HIDE DEF F, G
  <2>6. /\ IsFiniteSet(Tot(Nodes, G))
        /\ Cardinality(Tot(Nodes, G)) + Cardinality(F[u])
             = Cardinality(Tot(Nodes, F)) + Cardinality(G[u])
    BY <1>2, <2>2, <2>3, <2>5, TotChange, SMTT(30) DEF Finite
  <2>7. Finite(L, P)'
    BY <1>3, <1>4, <2>1, <2>2, <2>6, Zenon DEF Finite
  <2>8. Cardinality(InGutters(P)') \in Nat /\ Cardinality(InUpdates(P)') \in Nat
    BY <1>4, <2>2, <2>6, FS_CardinalityType, Zenon
  <2>9. Cardinality(InGutters(P)') = Cardinality(InGutters(P)) + one
    BY <1>6, <2>2, <2>4, <2>5, <2>6, <2>8, FiniteCounts, SMTT(30) DEF one
  <2>10. one \in Nat
    BY Zenon DEF one
  <2> QED
    BY <1>3, <1>4, <2>1, <2>7, <2>8, <2>9, <2>10, FiniteCounts DEF Waiting
<1>9. CASE Push(u, filled)
  <2>1. /\ IsFiniteSet(InGutters(P)') /\ IsFiniteSet(InQueue(P)')
        /\ Cardinality(InGutters(P)') + Cardinality(Places(gutter[u], Ends(u, P)))
             = Cardinality(InGutters(P))
        /\ Cardinality(InQueue(P)')
             = Cardinality(InQueue(P)) + Cardinality(Places(filled, Ends(u, P)))
    BY <1>2, <1>5, <1>9, PushCount, Zenon DEF Finite
  <2>2. Finite(L, P)'
    BY <1>3, <1>4, <2>1, Zenon DEF Finite
  <2>3. /\ Cardinality(InGutters(P)') \in Nat /\ Cardinality(InUpdates(P)') \in Nat
        /\ Cardinality(InQueue(P)') \in Nat
    BY <1>4, <2>1, FS_CardinalityType, Zenon
  <2>4. Cardinality(Places(gutter[u], Ends(u, P))) \in Nat /\ one \in Nat
    BY <1>2, <1>5, PlacesFinite, Zenon DEF one
  <2> QED
    BY <1>3, <1>4, <1>6, <2>1, <2>2, <2>3, <2>4, FiniteCounts, SMTT(30) DEF Waiting
<1> QED
  BY <1>7, <1>8, <1>9, Zenon

(* force_flush moves a gutter's directions to the queue. *)
LEMMA FlushCount ==
  ASSUME TypeOK, NEW n \in Nodes, ForceFlush(n), NEW L, NEW P, Finite(L, P)
  PROVE  Finite(L, P)' /\ Waiting(L, P)' = Waiting(L, P)
<1>1. /\ gutter[n] \in Seq(Nodes) /\ Push(n, gutter[n])
      /\ UNCHANGED <<wpc, data, pend>>
  BY Zenon DEF TypeOK, GtsTypeOK, ForceFlush, FlushGutter, poolVars, buffers, callVars
<1>2. InUpdates(P)' = InUpdates(P) /\ InHands(L, P)' = InHands(L, P)
  BY <1>1, Zenon DEF InUpdates, InHands, InBatch, Ends
<1>3. /\ IsFiniteSet(InGutters(P)') /\ IsFiniteSet(InQueue(P)')
      /\ Cardinality(InGutters(P)') + Cardinality(Places(gutter[n], Ends(n, P)))
           = Cardinality(InGutters(P))
      /\ Cardinality(InQueue(P)')
           = Cardinality(InQueue(P)) + Cardinality(Places(gutter[n], Ends(n, P)))
  BY <1>1, PushCount, Zenon DEF Finite
<1>4. Finite(L, P)'
  BY <1>2, <1>3, Zenon DEF Finite
<1>5. /\ Cardinality(InGutters(P)') \in Nat
      /\ Cardinality(Places(gutter[n], Ends(n, P))) \in Nat
  BY <1>1, <1>3, FS_CardinalityType, PlacesFinite, Zenon
<1> QED
  BY <1>2, <1>3, <1>4, <1>5, FiniteCounts, SMTT(30) DEF Waiting

(* One worker's step, whatever it does to its batch. *)
LEMMA HandCount ==
  ASSUME NEW L, NEW P, IsFiniteSet(InHands(L, P)), NEW w \in Workers,
         wpc \in [Workers -> WorkerPC], data \in [Workers -> Batch \cup {<<>>}],
         \A v \in Workers : v # w => wpc'[v] = wpc[v] /\ data'[v] = data[v],
         wpc[w] \in L => data[w] \in Batch, wpc'[w] \in L => data'[w] \in Batch
  PROVE  LET before == IF wpc[w] \in L THEN Cardinality(InBatch(data[w], P)) ELSE 0
             after == IF wpc'[w] \in L THEN Cardinality(InBatch(data'[w], P)) ELSE 0
         IN  /\ IsFiniteSet(InHands(L, P)')
             /\ Cardinality(InHands(L, P)') + before
                  = Cardinality(InHands(L, P)) + after
<1> DEFINE F == [v \in Workers |-> IF wpc[v] \in L THEN InBatch(data[v], P) ELSE {}]
           G == [v \in Workers |-> IF wpc'[v] \in L THEN InBatch(data'[v], P) ELSE {}]
<1>1. InHands(L, P) = Tot(Workers, F) /\ InHands(L, P)' = Tot(Workers, G)
  BY Zenon DEF InHands, InBatch, Ends
<1>2. \A v \in Workers : v # w => F[v] = G[v]
  BY Zenon
<1>3. F[w] = IF wpc[w] \in L THEN InBatch(data[w], P) ELSE {}
  BY Zenon
<1>4. G[w] = IF wpc'[w] \in L THEN InBatch(data'[w], P) ELSE {}
  BY Zenon
<1>5. F[w] \in SUBSET Nat /\ IsFiniteSet(F[w])
  BY <1>3, BatchFinite, FS_EmptySet, Zenon
<1>6. G[w] \in SUBSET Nat /\ IsFiniteSet(G[w])
  BY <1>4, BatchFinite, FS_EmptySet, Zenon
<1> HIDE DEF F, G
<1>7. /\ IsFiniteSet(Tot(Workers, G))
      /\ Cardinality(Tot(Workers, G)) + Cardinality(F[w])
           = Cardinality(Tot(Workers, F)) + Cardinality(G[w])
  BY <1>1, <1>2, <1>5, <1>6, TotChange, SMTT(30)
<1>8. Cardinality({}) = 0
  BY FS_EmptySet, Zenon
<1> QED
  BY <1>1, <1>3, <1>4, <1>7, <1>8, Zenon

(* get_data moves a batch from the queue to a worker's hands. *)
LEMMA TakeCount ==
  ASSUME TypeOK, DataHeld, NEW w \in Workers, TakeBatch(w) /\ Rest,
         NEW L \in SUBSET HoldsData, "update" \in L, NEW P, Finite(L, P)
  PROVE  Finite(L, P)' /\ Waiting(L, P)' = Waiting(L, P)
<1> DEFINE b == Head(queue)
<1>1. /\ wpc[w] = "get" /\ queue # <<>> /\ queue' = Tail(queue)
      /\ data' = [data EXCEPT ![w] = b] /\ wpc' = [wpc EXCEPT ![w] = "update"]
      /\ UNCHANGED <<gutter, pend>>
  BY Zenon DEF TakeBatch, GetData, WGoto, Rest, callVars
<1>2. /\ queue \in Seq(Batch) /\ wpc \in [Workers -> WorkerPC]
      /\ data \in [Workers -> Batch \cup {<<>>}]
  BY Zenon DEF TypeOK, GtsTypeOK, PoolTypeOK
<1>3. b \in Batch
  BY <1>1, <1>2, HeadTailType, Zenon
<1>4. wpc[w] \notin L
  BY <1>1, Zenon DEF HoldsData, Updating
<1>5. /\ IsFiniteSet(InHands(L, P)')
      /\ Cardinality(InHands(L, P)')
           = Cardinality(InHands(L, P)) + Cardinality(InBatch(b, P))
  <2> HIDE DEF b
  <2>1. /\ \A v \in Workers : v # w => wpc'[v] = wpc[v] /\ data'[v] = data[v]
        /\ wpc'[w] = "update" /\ data'[w] = b
    BY <1>1, <1>2, Zenon
  <2>2. /\ IsFiniteSet(InHands(L, P)')
        /\ Cardinality(InHands(L, P)') + 0
             = Cardinality(InHands(L, P)) + Cardinality(InBatch(b, P))
    BY <1>2, <1>3, <1>4, <2>1, HandCount, SMTT(30) DEF Finite
  <2>3. Cardinality(InHands(L, P)') \in Nat
    BY <2>2, FS_CardinalityType, Zenon
  <2> QED
    BY <2>2, <2>3
<1>6. /\ IsFiniteSet(InQueue(P)')
      /\ Cardinality(InQueue(P)) = Cardinality(InQueue(P)') + Cardinality(InBatch(b, P))
  <2> DEFINE Q == [j \in DOMAIN queue |-> InBatch(queue[j], P)]
             R == [j \in DOMAIN queue' |-> InBatch(queue'[j], P)]
  <2>1. InQueue(P) = Tot(DOMAIN queue, Q) /\ InQueue(P)' = Tot(DOMAIN queue', R)
    BY Zenon DEF InQueue, InBatch, Ends
  <2>2. /\ Len(queue) \in Nat \ {0} /\ DOMAIN queue = 1 .. Len(queue)
        /\ DOMAIN queue' = 1 .. Len(queue) - 1 /\ queue[1] = b
        /\ \A j \in 1 .. Len(queue) - 1 : queue'[j] = queue[j + 1]
    BY <1>1, <1>2, HeadTailProperties, LenProperties, EmptySeq
  <2>3. Q[1] = InBatch(b, P) /\ \A j \in 1 .. Len(queue) - 1 : R[j] = Q[j + 1]
    BY <2>2, SMTT(30)
  <2>4. Q[1] \in SUBSET Nat /\ IsFiniteSet(Q[1])
    BY <1>3, <2>3, BatchFinite, SMTT(30)
  <2> HIDE DEF Q, R, b
  <2>5. IsFiniteSet(Tot(1 .. Len(queue), Q))
    BY <2>1, <2>2, Zenon DEF Finite
  <2>6. /\ IsFiniteSet(Tot(1 .. Len(queue) - 1, R))
        /\ Cardinality(Tot(1 .. Len(queue), Q))
             = Cardinality(Tot(1 .. Len(queue) - 1, R)) + Cardinality(Q[1])
    BY <2>2, <2>3, <2>4, <2>5, TotShift, SMTT(30)
  <2> QED
    BY <2>1, <2>2, <2>3, <2>6, Zenon
<1>7. InUpdates(P)' = InUpdates(P) /\ InGutters(P)' = InGutters(P)
  BY <1>1, Zenon DEF InUpdates, InGutters, Ends
<1> HIDE DEF b
<1>8. Finite(L, P)'
  BY <1>5, <1>6, <1>7, Zenon DEF Finite
<1>9. /\ Cardinality(InQueue(P)') \in Nat /\ Cardinality(InHands(L, P)') \in Nat
      /\ Cardinality(InBatch(b, P)) \in Nat
  BY <1>3, <1>5, <1>6, BatchFinite, FS_CardinalityType, Zenon
<1> QED
  BY <1>5, <1>6, <1>7, <1>8, <1>9, FiniteCounts, SMTT(30) DEF Waiting

(* A step of batch_update or do_work that leaves the queue alone. *)
LEMMA WorkCount ==
  ASSUME TypeOK, NEW w \in Workers, NEW L \in SUBSET HoldsData, NEW P, Finite(L, P),
         DataHeld, DataHeld', UNCHANGED <<gutter, queue, pend>>,
         \A v \in Workers : v # w => wpc'[v] = wpc[v] /\ data'[v] = data[v],
         wpc'[w] \in L => wpc[w] \in L /\ data'[w] = data[w]
  PROVE  /\ Finite(L, P)'
         /\ Waiting(L, P)' = Waiting(L, P)
              - (IF wpc[w] \in L /\ wpc'[w] \notin L
                 THEN Cardinality(InBatch(data[w], P)) ELSE 0)
<1>1. /\ InUpdates(P)' = InUpdates(P) /\ InGutters(P)' = InGutters(P)
      /\ InQueue(P)' = InQueue(P)
  BY Zenon DEF InUpdates, InGutters, InQueue, InBatch, Ends
<1> DEFINE before == IF wpc[w] \in L THEN Cardinality(InBatch(data[w], P)) ELSE 0
           after == IF wpc'[w] \in L THEN Cardinality(InBatch(data'[w], P)) ELSE 0
<1>2. wpc[w] \in L => data[w] \in Batch
  BY Zenon DEF DataHeld
<1>3. wpc'[w] \in L => data'[w] \in Batch
  BY <1>2, Zenon
<1>4. /\ IsFiniteSet(InHands(L, P)')
      /\ Cardinality(InHands(L, P)') + before = Cardinality(InHands(L, P)) + after
  BY <1>2, <1>3, HandCount, Zenon DEF Finite, TypeOK, PoolTypeOK
<1>5. Finite(L, P)'
  BY Zenon, <1>1, <1>4 DEF Finite
<1>6. before \in Nat /\ after \in Nat /\ Cardinality(InHands(L, P)') \in Nat
  BY <1>2, <1>3, <1>4, BatchFinite, FS_CardinalityType, Zenon
<1>7. before - after = IF wpc[w] \in L /\ wpc'[w] \notin L
                       THEN Cardinality(InBatch(data[w], P)) ELSE 0
  BY <1>2, BatchFinite, SMTT(30)
<1> HIDE DEF before, after
<1>8. Waiting(L, P)' = Waiting(L, P) - (before - after)
  BY <1>1, <1>4, <1>6, FiniteCounts, SMTT(30) DEF Waiting
<1> QED
  BY <1>5, <1>7, <1>8, Zenon

(* update(u, v) makes two directions wait. *)
LEMMA UpdateCount ==
  ASSUME TypeOK, NEW i \in Inserters, NEW u \in Nodes, NEW v \in Nodes,
         Update(i, u, v), NEW L, NEW P, Finite(L, P)
  PROVE  /\ Finite(L, P)'
         /\ Waiting(L, P)' = Waiting(L, P) + (IF <<u, v>> \in P THEN 1 ELSE 0)
                                           + (IF <<v, u>> \in P THEN 1 ELSE 0)
<1> DEFINE new == (IF <<u, v>> \in P THEN 1 ELSE 0) + (IF <<v, u>> \in P THEN 1 ELSE 0)
           s == <<<<u, v>>, <<v, u>>>>
<1>1. /\ pend \in [Inserters -> Seq(Directions)] /\ pend[i] = <<>>
      /\ pend' = [pend EXCEPT ![i] = s]
      /\ UNCHANGED <<wpc, data, gutter, queue>>
  BY Zenon DEF TypeOK, CallTypeOK, Directions, Update, poolVars, buffers, gtsVars
<1>2. /\ InGutters(P)' = InGutters(P) /\ InQueue(P)' = InQueue(P)
      /\ InHands(L, P)' = InHands(L, P)
  BY Zenon, <1>1 DEF InGutters, InQueue, InHands, InBatch, Ends
<1>3. Cardinality(Places(s, P)) = new /\ s \in Seq(Directions)
  <2>1. <<u, v>> \in Directions /\ <<v, u>> \in Directions
    BY Zenon DEF Directions
  <2> QED
    BY <2>1, PlacesTwo
<1> DEFINE F == [m \in Inserters |-> Places(pend[m], P)]
           G == [m \in Inserters |-> Places(pend'[m], P)]
<1>4. InUpdates(P) = Tot(Inserters, F) /\ InUpdates(P)' = Tot(Inserters, G)
  BY Zenon DEF InUpdates
<1>5. \A m \in Inserters : m # i => F[m] = G[m]
  BY <1>1, Zenon
<1>6. F[i] = Places(<<>>, P) /\ G[i] = Places(s, P)
  BY <1>1, Zenon
<1>7. /\ F[i] \in SUBSET Nat /\ IsFiniteSet(F[i]) /\ Cardinality(F[i]) = 0
      /\ G[i] \in SUBSET Nat /\ IsFiniteSet(G[i]) /\ Cardinality(G[i]) = new
  <2>1. <<>> \in Seq(Directions)
    OBVIOUS
  <2> HIDE DEF s, new, F, G
  <2> QED
    BY Zenon, <1>3, <1>6, <2>1, PlacesFinite, PlacesEmpty
<1>8. new \in Nat
  OBVIOUS
<1> HIDE DEF s, new, F, G
<1>9. /\ IsFiniteSet(Tot(Inserters, G))
      /\ Cardinality(Tot(Inserters, G)) + 0 = Cardinality(Tot(Inserters, F)) + new
  BY <1>4, <1>5, <1>7, TotChange, SMTT(30) DEF Finite
<1>10. Finite(L, P)'
  BY <1>2, <1>4, <1>9, Zenon DEF Finite
<1>11. Cardinality(Tot(Inserters, G)) \in Nat
  BY <1>9, FS_CardinalityType, Zenon
<1>12. Waiting(L, P)' = Waiting(L, P) + new
  BY <1>2, <1>4, <1>8, <1>9, <1>11, FiniteCounts, SMTT(30) DEF Waiting
<1>13. Waiting(L, P) \in Nat
  BY FiniteCounts, Zenon
<1> QED
  BY <1>10, <1>12, <1>13 DEF new

(* Nothing waits in a drained graph. *)
LEMMA DrainedCount ==
  ASSUME TypeOK, Drained, NEW L \in SUBSET HoldsData, NEW P
  PROVE  Finite(L, P) /\ Waiting(L, P) = 0
<1>1. \A D : Places(<<>>, D) = {}
  BY PlacesEmpty, Zenon
<1>2. InUpdates(P) = {} /\ InGutters(P) = {}
  BY <1>1, Zenon DEF InUpdates, InGutters, Tot, Drained
<1>3. InQueue(P) = {}
  BY DEF InQueue, Tot, Drained
<1>4. InHands(L, P) = {}
  BY Zenon DEF InHands, Tot, Drained
<1> QED
  BY <1>2, <1>3, <1>4, FS_EmptySet DEF Finite, Waiting

(* What the other steps leave alone. *)
LEMMA SameCounts ==
  ASSUME UNCHANGED <<gutter, queue, pend, data>>, NEW L, NEW P,
         \A w \in Workers : wpc'[w] \in L <=> wpc[w] \in L
  PROVE  (Finite(L, P)' <=> Finite(L, P)) /\ Waiting(L, P)' = Waiting(L, P)
<1>1. /\ InUpdates(P)' = InUpdates(P) /\ InGutters(P)' = InGutters(P)
      /\ InQueue(P)' = InQueue(P) /\ InHands(L, P)' = InHands(L, P)
  BY Zenon DEF InUpdates, InGutters, InQueue, InHands, InBatch, Ends
<1> QED
  BY <1>1, Zenon DEF Finite, Waiting
-----------------------------------------------------------------------------
(* num_updates lacks exactly the directions that no worker has counted.    *)
Counted ==
  /\ Finite({"update"}, Directions)
  /\ num_updates + Waiting({"update"}, Directions) = 2 * accepted

(* A supernode agrees with the stream on the edges of which an even number *)
(* of directions wait, and on no others.                                   *)
Summed ==
  \A n, d \in Nodes :
    /\ Finite(Updating, {<<n, d>>})
    /\ ({n, d} \in supernodes[n] <=> {n, d} \in stream)
         <=> ~Odd(Waiting(Updating, {<<n, d>>}))

(* A supernode holds edges of its own node only. *)
OwnEdges == \A n \in Nodes : \A e \in supernodes[n] : \E d \in Nodes : e = {n, d}

(* What a worker has computed under the supernode's mutex stays valid. *)
SumHeld ==
  \A w \in Workers : wpc[w] = "store" =>
    /\ w \in node_mt[data[w].node]
    /\ sum[w] = SymDiff(supernodes[data[w].node], Delta(data[w]))

(* A file holds a graph with all its updates applied. *)
FileWhole ==
  \A n \in Nodes : file.supernodes[n] = {e \in file.edges : n \in e}

IngestInv == Counted /\ Summed /\ OwnEdges /\ SumHeld /\ FileWhole
-----------------------------------------------------------------------------
(* The steps that move, apply or accept nothing. *)
LEMMA QuietStep ==
  ASSUME IngestInv,
         \A P : /\ Finite({"update"}, P)' <=> Finite({"update"}, P)
                /\ Waiting({"update"}, P)' = Waiting({"update"}, P),
         \A P : /\ Finite(Updating, P)' <=> Finite(Updating, P)
                /\ Waiting(Updating, P)' = Waiting(Updating, P),
         UNCHANGED <<num_updates, accepted, stream, supernodes, file>>,
         SumHeld'
  PROVE  IngestInv'
<1>1. Counted'
  <2>1. Finite({"update"}, Directions)' /\ Waiting({"update"}, Directions)' = Waiting({"update"}, Directions)
    BY Zenon DEF IngestInv, Counted
  <2>2. Directions' = Directions
    BY Zenon DEF Directions
  <2> QED
    BY <2>1, <2>2, Zenon DEF IngestInv, Counted
<1>2. Summed'
  BY Zenon DEF IngestInv, Summed
<1>3. OwnEdges' /\ FileWhole'
  BY Zenon DEF IngestInv, OwnEdges, FileWhole
<1> QED
  BY <1>1, <1>2, <1>3, Zenon DEF IngestInv

(* generate_delta_node keeps the destinations that occur an odd number of  *)
(* times in the batch.                                                     *)
LEMMA DeltaOdd ==
  ASSUME NEW b \in Batch, NEW n \in Nodes, NEW d \in Nodes
  PROVE  /\ b.node = n =>
              ({n, d} \in Delta(b) <=> Odd(Cardinality(InBatch(b, {<<n, d>>}))))
         /\ b.node # n => Cardinality(InBatch(b, {<<n, d>>})) = 0
<1>1. CASE b.node = n
  <2>1. Ends(n, {<<n, d>>}) = {d}
    BY Zenon DEF Ends
  <2>2. InBatch(b, {<<n, d>>}) = {i \in DOMAIN b.dests : b.dests[i] = d}
    BY <1>1, <2>1, Zenon DEF InBatch, Places
  <2>3. ASSUME NEW c \in Nodes, {n, d} = {n, c} PROVE c = d
    BY <2>3
  <2>4. {n, d} \in Delta(b) <=>
          Cardinality({i \in DOMAIN b.dests : b.dests[i] = d}) % 2 = 1
    BY Zenon, <1>1, <2>3 DEF Delta
  <2> QED
    BY <1>1, <2>2, <2>4, Zenon DEF Odd
<1>2. CASE b.node # n
  <2>1. Ends(b.node, {<<n, d>>}) = {}
    BY <1>2, Zenon DEF Ends
  <2>2. InBatch(b, {<<n, d>>}) = {}
    BY <2>1, Zenon DEF InBatch, Places
  <2> QED
    BY <1>2, <2>2, FS_EmptySet, Zenon
<1> QED
  BY <1>1, <1>2, Zenon

(* batch_update counts the whole batch ... *)
LEMMA BatchUpdateStep ==
  ASSUME TypeOK, DataHeld, DataHeld', NoUncaughtException', IngestInv,
         NEW w \in Workers, BatchUpdate(w)
  PROVE  IngestInv'
<1>1. /\ wpc[w] = "update" /\ wpc \in [Workers -> WorkerPC]
      /\ UNCHANGED <<gutter, queue, pend, data, accepted, stream, supernodes, file,
                     node_mt, sum>>
  BY Zenon DEF TypeOK, PoolTypeOK, BatchUpdate, gtsVars, buffers, callVars, history
<1>2. /\ ~update_locked /\ wpc' = [wpc EXCEPT ![w] = "apply"]
      /\ num_updates' = num_updates + Len(data[w].dests)
  <2>1. wpc'[w] # "terminate"
    BY Zenon DEF NoUncaughtException
  <2>2. ~update_locked
    BY <1>1, <2>1, Zenon DEF BatchUpdate, WGoto
  <2> QED
    BY <2>2, Zenon DEF BatchUpdate, WGoto
<1>3. data[w] \in Batch /\ data[w].dests \in Seq(Nodes) /\ data[w].node \in Nodes
  BY <1>1, Zenon DEF DataHeld, HoldsData, Updating, Batch
<1>4. Cardinality(InBatch(data[w], Directions)) = Len(data[w].dests)
  <2>1. Ends(data[w].node, Directions) = Nodes
    BY <1>3, Zenon DEF Ends, Directions
  <2>2. \A i \in DOMAIN data[w].dests : data[w].dests[i] \in Nodes
    BY <1>3
  <2> QED
    BY <1>3, <2>1, <2>2, PlacesAll, Zenon DEF InBatch
<1>5. /\ \A v \in Workers : v # w => wpc'[v] = wpc[v] /\ data'[v] = data[v]
      /\ wpc'[w] = "apply" /\ data'[w] = data[w]
  BY <1>1, <1>2, Zenon
<1>6. /\ Finite({"update"}, Directions)'
      /\ Waiting({"update"}, Directions)'
           = Waiting({"update"}, Directions) - Len(data[w].dests)
  <2>1. {"update"} \in SUBSET HoldsData
    BY Zenon DEF HoldsData, Updating
  <2>2. wpc[w] \in {"update"} /\ wpc'[w] \notin {"update"}
    BY <1>1, <1>5, Zenon
  <2>3. /\ Finite({"update"}, Directions)'
        /\ Waiting({"update"}, Directions)'
             = Waiting({"update"}, Directions) - Cardinality(InBatch(data[w], Directions))
    BY Zenon, <1>1, <1>5, <2>1, <2>2, WorkCount DEF IngestInv, Counted
  <2> QED
    BY <1>4, <2>3, Zenon
<1>7. Counted'
  <2>1. Len(data[w].dests) \in Nat /\ num_updates \in Nat
    BY <1>3, LenProperties, Zenon DEF TypeOK, GraphTypeOK
  <2>2. Waiting({"update"}, Directions) \in Nat
    BY FiniteCounts, Zenon DEF IngestInv, Counted
  <2>3. num_updates + Waiting({"update"}, Directions) = 2 * accepted
    BY Zenon DEF IngestInv, Counted
  <2>4. Directions' = Directions
    BY Zenon DEF Directions
  <2> QED
    BY <1>1, <1>2, <1>6, <2>1, <2>2, <2>3, <2>4, SMTT(30) DEF Counted
<1>8. \A P : /\ Finite(Updating, P)' <=> Finite(Updating, P)
             /\ Waiting(Updating, P)' = Waiting(Updating, P)
  <2>1. \A v \in Workers : wpc'[v] \in Updating <=> wpc[v] \in Updating
    BY <1>1, <1>5, Zenon DEF Updating
  <2> QED
    BY <1>1, <2>1, SameCounts, Zenon
<1>9. Summed'
  BY Zenon, <1>1, <1>8 DEF IngestInv, Summed
<1>10. SumHeld'
  BY <1>1, <1>5, Zenon DEF IngestInv, SumHeld
<1> QED
  BY <1>1, <1>7, <1>9, <1>10, Zenon DEF IngestInv, OwnEdges, FileWhole

(* ... computes the sum under the supernode's mutex ... *)
LEMMA ApplyStep ==
  ASSUME TypeOK, DataHeld, IngestInv, NEW w \in Workers, ApplyDelta(w)
  PROVE  IngestInv'
<1>1. /\ wpc[w] = "apply" /\ wpc' = [wpc EXCEPT ![w] = "store"]
      /\ UNCHANGED <<gutter, queue, pend, data, accepted, stream, supernodes, file,
                     num_updates>>
      /\ node_mt' = [node_mt EXCEPT ![data[w].node] = @ \cup {w}]
      /\ sum' = [sum EXCEPT ![w] = SymDiff(supernodes[data[w].node], Delta(data[w]))]
  BY Zenon DEF ApplyDelta, gtsVars, buffers, callVars, history, WGoto
<1>2. /\ wpc \in [Workers -> WorkerPC] /\ node_mt \in [Nodes -> Holders]
      /\ sum \in [Workers -> SUBSET Edges]
  BY Zenon DEF TypeOK, PoolTypeOK, GraphTypeOK
<1>3. data[w].node \in Nodes
  BY <1>1, Zenon DEF DataHeld, HoldsData, Updating, Batch
<1>4. \A v \in Workers : wpc[v] = "store" => data[v].node \in Nodes
  BY Zenon DEF DataHeld, HoldsData, Updating, Batch
<1>5. SumHeld'
  BY Zenon, <1>1, <1>2, <1>3, <1>4 DEF IngestInv, SumHeld
<1>6. \A v \in Workers : wpc'[v] \in {"update"} <=> wpc[v] \in {"update"}
  BY <1>1, <1>2, Zenon
<1>7. \A v \in Workers : wpc'[v] \in Updating <=> wpc[v] \in Updating
  BY <1>1, <1>2, Zenon DEF Updating
<1>8. \A P : /\ Finite({"update"}, P)' <=> Finite({"update"}, P)
             /\ Waiting({"update"}, P)' = Waiting({"update"}, P)
  BY <1>1, <1>6, SameCounts, Zenon
<1>9. \A P : /\ Finite(Updating, P)' <=> Finite(Updating, P)
             /\ Waiting(Updating, P)' = Waiting(Updating, P)
  BY <1>1, <1>7, SameCounts, Zenon
<1> QED
  BY Zenon, <1>1, <1>5, <1>8, <1>9, QuietStep

(* ... and stores it: the directions of the batch no longer wait. *)
LEMMA StoreStep ==
  ASSUME TypeOK, DataHeld, DataHeld', IngestInv, NEW w \in Workers, StoreDelta(w)
  PROVE  IngestInv'
<1> DEFINE b == data[w]
           c == data[w].node
<1>1. /\ wpc[w] = "store" /\ wpc' = [wpc EXCEPT ![w] = "callback"]
      /\ UNCHANGED <<gutter, queue, pend, data, accepted, stream, file, num_updates>>
      /\ supernodes' = [supernodes EXCEPT ![c] = sum[w]]
      /\ node_mt' = [node_mt EXCEPT ![c] = @ \ {w}]
      /\ sum' = [sum EXCEPT ![w] = {}]
  BY Zenon DEF StoreDelta, gtsVars, buffers, callVars, history, WGoto
<1>2. /\ wpc \in [Workers -> WorkerPC] /\ node_mt \in [Nodes -> Holders]
      /\ sum \in [Workers -> SUBSET Edges] /\ supernodes \in [Nodes -> SUBSET Edges]
  BY Zenon DEF TypeOK, PoolTypeOK, GraphTypeOK
<1>3. b \in Batch /\ c \in Nodes
  BY <1>1, Zenon DEF DataHeld, HoldsData, Updating, Batch
<1>4. w \in node_mt[c] /\ sum[w] = SymDiff(supernodes[c], Delta(b))
  BY <1>1, Zenon DEF IngestInv, SumHeld
<1>5. /\ wpc'[w] = "callback"
      /\ \A v \in Workers : v # w => wpc'[v] = wpc[v] /\ data'[v] = data[v]
  BY <1>1, <1>2, Zenon
<1>6. SumHeld'
  <2> SUFFICES ASSUME NEW v \in Workers, wpc'[v] = "store"
               PROVE  /\ v \in node_mt'[data'[v].node]
                      /\ sum'[v] = SymDiff(supernodes'[data'[v].node], Delta(data'[v]))
    BY Zenon DEF SumHeld, SymDiff, Delta
  <2>1. v # w /\ wpc[v] = "store" /\ data'[v] = data[v]
    BY <1>1, <1>5, Zenon
  <2>2. /\ v \in node_mt[data[v].node] /\ data[v].node \in Nodes
        /\ sum[v] = SymDiff(supernodes[data[v].node], Delta(data[v]))
    BY Zenon, <2>1 DEF IngestInv, SumHeld, DataHeld, HoldsData, Updating, Batch
  <2>3. data[v].node # c
    <3>1. \A n \in Nodes : node_mt[n] \in Holders
      BY <1>2, Zenon
    <3> QED
      BY <1>3, <1>4, <2>1, <2>2, <3>1, SMTT(30) DEF Holders
  <2>4. /\ node_mt'[data[v].node] = node_mt[data[v].node]
        /\ supernodes'[data[v].node] = supernodes[data[v].node]
        /\ sum'[v] = sum[v]
    BY <1>1, <1>2, <2>1, <2>2, <2>3, Zenon
  <2> QED
    BY <2>1, <2>2, <2>4, Zenon
<1>7. Counted'
  <2>1. \A v \in Workers : wpc'[v] \in {"update"} <=> wpc[v] \in {"update"}
    BY <1>1, <1>5, Zenon
  <2>2. /\ Finite({"update"}, Directions)' <=> Finite({"update"}, Directions)
        /\ Waiting({"update"}, Directions)' = Waiting({"update"}, Directions)
    BY <1>1, <2>1, SameCounts, Zenon
  <2>3. Directions' = Directions
    BY Zenon DEF Directions
  <2> QED
    BY <1>1, <2>2, <2>3, Zenon DEF IngestInv, Counted
<1>8. ASSUME NEW P, Finite(Updating, P)
      PROVE  /\ Finite(Updating, P)'
             /\ Waiting(Updating, P)' = Waiting(Updating, P) - Cardinality(InBatch(b, P))
  <2>1. wpc[w] \in Updating /\ wpc'[w] \notin Updating /\ Updating \in SUBSET HoldsData
    BY <1>1, <1>5, Zenon DEF HoldsData, Updating
  <2> QED
    BY <1>1, <1>5, <1>8, <2>1, WorkCount, Zenon
<1>9. Summed'
  <2> SUFFICES ASSUME NEW n \in Nodes, NEW d \in Nodes
               PROVE  /\ Finite(Updating, {<<n, d>>})'
                      /\ ({n, d} \in supernodes'[n] <=> {n, d} \in stream')
                           <=> ~Odd(Waiting(Updating, {<<n, d>>})')
    BY Zenon DEF Summed, Odd
  <2> DEFINE W == Waiting(Updating, {<<n, d>>})
             C == Cardinality(InBatch(b, {<<n, d>>}))
  <2>1. /\ Finite(Updating, {<<n, d>>})
        /\ ({n, d} \in supernodes[n] <=> {n, d} \in stream) <=> ~Odd(W)
    BY Zenon DEF IngestInv, Summed
  <2>2. /\ Finite(Updating, {<<n, d>>})'
        /\ Waiting(Updating, {<<n, d>>})' = W - C
    BY <1>8, <2>1, Zenon
  <2>3. W \in Nat /\ C \in Nat
    BY Zenon, <1>3, <2>1, FiniteCounts, BatchFinite
  <2>4. /\ c = n => ({n, d} \in Delta(b) <=> Odd(C))
        /\ c # n => C = 0
    BY Zenon, <1>3, DeltaOdd
  <2> HIDE DEF W, C, b, c
  <2>5. Odd(W - C) <=> ~(Odd(W) <=> Odd(C))
    BY <2>3 DEF Odd
  <2>6. CASE c = n
    <3>1. {n, d} \in supernodes'[n] <=> ~({n, d} \in supernodes[n] <=> Odd(C))
      <4>1. supernodes'[n] = SymDiff(supernodes[c], Delta(b))
        BY <1>1, <1>2, <1>3, <1>4, <2>6, Zenon
      <4> QED
        BY <2>4, <2>6, <4>1, Zenon DEF SymDiff
    <3> QED
      BY <1>1, <2>1, <2>2, <2>5, <3>1, Zenon
  <2>7. CASE c # n
    <3>1. supernodes'[n] = supernodes[n] /\ W - C = W
      BY <1>1, <1>2, <2>3, <2>4, <2>7, SMTT(30)
    <3> QED
      BY <1>1, <2>1, <2>2, <3>1, Zenon
  <2> QED
    BY <2>6, <2>7, Zenon
<1>10. OwnEdges'
  <2>1. \A e \in Delta(b) : \E d \in Nodes : e = {c, d}
    BY Zenon DEF Delta
  <2>2. \A e \in sum[w] : \E d \in Nodes : e = {c, d}
    BY <1>3, <1>4, <2>1, Zenon DEF IngestInv, OwnEdges, SymDiff
  <2> HIDE DEF b, c
  <2> QED
    BY <1>1, <1>2, <1>3, <2>2, Zenon DEF IngestInv, OwnEdges
<1>11. FileWhole'
  BY <1>1, Zenon DEF IngestInv, FileWhole
<1> QED
  BY <1>6, <1>7, <1>9, <1>10, <1>11, Zenon DEF IngestInv

(* The other steps of do_work, outside batch_update. *)
LEMMA WorkStep ==
  ASSUME TypeOK, DataHeld, DataHeld', IngestInv, NEW w \in Workers,
         wpc[w] \notin Updating, wpc'[w] \notin Updating,
         \A v \in Workers : v # w => wpc'[v] = wpc[v] /\ data'[v] = data[v],
         UNCHANGED <<gutter, queue, pend, num_updates, accepted, stream, supernodes,
                     file, node_mt, sum>>
  PROVE  IngestInv'
<1>1. /\ {"update"} \in SUBSET HoldsData /\ Updating \in SUBSET HoldsData
      /\ wpc[w] \notin {"update"} /\ wpc'[w] \notin {"update"}
      /\ wpc[w] # "store" /\ wpc'[w] # "store"
  BY Zenon DEF HoldsData, Updating
<1>2. ASSUME NEW L \in SUBSET HoldsData, NEW P, Finite(L, P),
             wpc[w] \notin L, wpc'[w] \notin L
      PROVE  Finite(L, P)' /\ Waiting(L, P)' = Waiting(L, P)
  <2>1. /\ Finite(L, P)' /\ Waiting(L, P)' = Waiting(L, P) - 0
    BY <1>2, WorkCount, Zenon
  <2>2. Waiting(L, P) \in Nat
    BY <1>2, FiniteCounts, Zenon
  <2> QED
    BY <2>1, <2>2, SMTT(30)
<1>3. Counted'
  <2>1. Finite({"update"}, Directions)'
        /\ Waiting({"update"}, Directions)' = Waiting({"update"}, Directions)
    BY <1>1, <1>2, Zenon DEF IngestInv, Counted
  <2>2. Directions' = Directions
    BY Zenon DEF Directions
  <2> QED
    BY Zenon, <2>1, <2>2 DEF IngestInv, Counted
<1>4. Summed'
  <2> SUFFICES ASSUME NEW n \in Nodes, NEW d \in Nodes
               PROVE  /\ Finite(Updating, {<<n, d>>})'
                      /\ ({n, d} \in supernodes'[n] <=> {n, d} \in stream')
                           <=> ~Odd(Waiting(Updating, {<<n, d>>})')
    BY Zenon DEF Summed, Odd
  <2>1. /\ Finite(Updating, {<<n, d>>})
        /\ ({n, d} \in supernodes[n] <=> {n, d} \in stream)
             <=> ~Odd(Waiting(Updating, {<<n, d>>}))
    BY Zenon DEF IngestInv, Summed
  <2>2. /\ Finite(Updating, {<<n, d>>})'
        /\ Waiting(Updating, {<<n, d>>})' = Waiting(Updating, {<<n, d>>})
    BY <1>1, <1>2, <2>1, Zenon
  <2> QED
    BY <2>1, <2>2, Zenon
<1>5. SumHeld'
  BY <1>1, Zenon DEF IngestInv, SumHeld
<1> QED
  BY Zenon, <1>3, <1>4, <1>5 DEF IngestInv, OwnEdges, FileWhole

(* A step of a worker thread. *)
LEMMA WorkerIngest ==
  ASSUME TypeOK, DataHeld, DataHeld', NoUncaughtException', IngestInv,
         NEW w \in Workers, Worker(w)
  PROVE  IngestInv'
<1>1. wpc \in [Workers -> WorkerPC] /\ data \in [Workers -> Batch \cup {<<>>}]
  BY Zenon DEF TypeOK, PoolTypeOK
<1>2. CASE TakeBatch(w) /\ Rest
  <2>1. /\ {"update"} \in SUBSET HoldsData /\ Updating \in SUBSET HoldsData
        /\ "update" \in {"update"} /\ "update" \in Updating
    BY Zenon DEF HoldsData, Updating
  <2>2. ASSUME NEW L \in SUBSET HoldsData, "update" \in L, NEW P, Finite(L, P)
        PROVE  Finite(L, P)' /\ Waiting(L, P)' = Waiting(L, P)
    BY <1>2, <2>2, TakeCount, Zenon
  <2>3. /\ UNCHANGED <<num_updates, accepted, stream, supernodes, file, node_mt, sum>>
        /\ wpc[w] = "get" /\ wpc' = [wpc EXCEPT ![w] = "update"]
        /\ data' = [data EXCEPT ![w] = Head(queue)]
    BY <1>2, Zenon DEF TakeBatch, WGoto, Rest, graphVars, history
  <2>4. SumHeld'
    BY <1>1, <2>3, Zenon DEF IngestInv, SumHeld
  <2>5. Counted'
    <3>1. Finite({"update"}, Directions)'
          /\ Waiting({"update"}, Directions)' = Waiting({"update"}, Directions)
      BY <2>1, <2>2, Zenon DEF IngestInv, Counted
    <3>2. Directions' = Directions
      BY Zenon DEF Directions
    <3> QED
      BY <2>3, <3>1, <3>2, Zenon DEF IngestInv, Counted
  <2>6. Summed'
    <3>1. \A n, d \in Nodes :
            /\ Finite(Updating, {<<n, d>>})'
            /\ Waiting(Updating, {<<n, d>>})' = Waiting(Updating, {<<n, d>>})
      BY Zenon, <2>1, <2>2 DEF IngestInv, Summed
    <3> QED
      BY Zenon, <2>3, <3>1 DEF IngestInv, Summed
  <2> QED
    BY Zenon, <2>3, <2>4, <2>5, <2>6 DEF IngestInv, OwnEdges, FileWhole
<1>3. CASE BatchUpdate(w)
  BY <1>3, BatchUpdateStep, Zenon
<1>4. CASE ApplyDelta(w)
  BY <1>4, ApplyStep, Zenon
<1>5. CASE StoreDelta(w)
  BY <1>5, StoreStep, Zenon
<1>6. CASE (\/ TakeNothing(w) \/ Callback(w) \/ CheckShutdown(w) \/ CheckPaused(w)
            \/ Lock(w) \/ Park(w) \/ Predicate(w) \/ Sleep(w) \/ Wake(w)
            \/ Leave(w) \/ Notify(w)) /\ Rest
  <2>1. UNCHANGED <<num_updates, accepted, stream, supernodes, file, node_mt, sum, pend>>
    BY <1>6, Zenon DEF Rest, graphVars, callVars, history
  <2>2. UNCHANGED <<gutter, queue>>
    BY <1>6, Zenon DEF TakeNothing, NoData, Callback, GetDataCallback, CheckShutdown,
       CheckPaused, Lock, Park, Predicate, Sleep, Wake, Leave, Notify, gtsVars
  <2>3. wpc[w] \notin Updating
    BY <1>6, Zenon DEF TakeNothing, Callback, CheckShutdown, CheckPaused, Lock, Park,
       Predicate, Sleep, Wake, Leave, Notify, Updating
  <2>4. \E l \in WorkerPC \ Updating : wpc' = [wpc EXCEPT ![w] = l]
    BY <1>6, Zenon DEF TakeNothing, Callback, CheckShutdown, CheckPaused, Lock, Park,
       Predicate, Sleep, Wake, Leave, Notify, WGoto, Updating, WorkerPC,
       HoldsData, HoldsPauseLock, Parked
  <2>5. data' = data \/ data' = [data EXCEPT ![w] = <<>>]
    BY <1>6, Zenon DEF TakeNothing, Callback, CheckShutdown, CheckPaused, Lock, Park,
       Predicate, Sleep, Wake, Leave, Notify, buffers
  <2>6. /\ wpc'[w] \notin Updating
        /\ \A v \in Workers : v # w => wpc'[v] = wpc[v] /\ data'[v] = data[v]
    BY <1>1, <2>4, <2>5, Zenon
  <2> QED
    BY <2>1, <2>2, <2>3, <2>6, WorkStep, Zenon
<1>7. CASE SpuriousWakeup(w) /\ Rest
  <2>1. UNCHANGED <<num_updates, accepted, stream, supernodes, file, node_mt, sum,
                    pend, gutter, queue, wpc, data>>
    BY <1>7, Zenon DEF SpuriousWakeup, Rest, graphVars, callVars, history, gtsVars, buffers
  <2>2. SumHeld'
    BY <2>1, Zenon DEF IngestInv, SumHeld
  <2>3. \A L, P : (Finite(L, P)' <=> Finite(L, P)) /\ Waiting(L, P)' = Waiting(L, P)
    BY <2>1, SameCounts, Zenon
  <2> QED
    BY <2>1, <2>2, <2>3, QuietStep, Zenon
<1> QED
  BY <1>2, <1>3, <1>4, <1>5, <1>6, <1>7, Zenon DEF Worker

(* update, and the inserts it makes. *)
LEMMA InserterIngest ==
  ASSUME TypeOK, IngestInv, NEW i \in Inserters, Inserter(i)
  PROVE  IngestInv'
<1>1. CASE InsertNext(i)
  <2>1. UNCHANGED <<num_updates, accepted, stream, supernodes, file, node_mt, sum,
                    wpc, data>>
    BY <1>1, Zenon DEF InsertNext, poolVars, buffers, graphVars, history
  <2>2. ASSUME NEW L, NEW P, Finite(L, P)
        PROVE  Finite(L, P)' /\ Waiting(L, P)' = Waiting(L, P)
    BY <1>1, <2>2, InsertCount, Zenon
  <2>3. SumHeld'
    BY Zenon, <2>1 DEF IngestInv, SumHeld
  <2>4. Counted'
    <3>1. Finite({"update"}, Directions)'
          /\ Waiting({"update"}, Directions)' = Waiting({"update"}, Directions)
      BY <2>2, Zenon DEF IngestInv, Counted
    <3>2. Directions' = Directions
      BY Zenon DEF Directions
    <3> QED
      BY <2>1, <3>1, <3>2, Zenon DEF IngestInv, Counted
  <2>5. Summed'
    <3>1. \A n, d \in Nodes :
            /\ Finite(Updating, {<<n, d>>})'
            /\ Waiting(Updating, {<<n, d>>})' = Waiting(Updating, {<<n, d>>})
      BY Zenon, <2>2 DEF IngestInv, Summed
    <3> QED
      BY Zenon, <2>1, <3>1 DEF IngestInv, Summed
  <2> QED
    BY <2>1, <2>3, <2>4, <2>5, Zenon DEF IngestInv, OwnEdges, FileWhole
<1>2. ASSUME NEW u \in Nodes, NEW v \in Nodes, Update(i, u, v)
      PROVE  IngestInv'
  <2>1. /\ UNCHANGED <<num_updates, supernodes, file, node_mt, sum, wpc, data>>
        /\ u # v /\ stream' = SymDiff(stream, {{u, v}}) /\ accepted' = accepted + 1
    BY <1>2, Zenon DEF Update, poolVars, buffers, graphVars
  <2>2. ASSUME NEW L, NEW P, Finite(L, P)
        PROVE  /\ Finite(L, P)'
               /\ Waiting(L, P)' = Waiting(L, P) + (IF <<u, v>> \in P THEN 1 ELSE 0)
                                                 + (IF <<v, u>> \in P THEN 1 ELSE 0)
    BY <1>2, <2>2, UpdateCount, SMTT(30)
  <2>3. SumHeld'
    BY <2>1, Zenon DEF IngestInv, SumHeld
  <2>4. Counted'
    <3>1. <<u, v>> \in Directions /\ <<v, u>> \in Directions /\ Directions' = Directions
      BY Zenon DEF Directions
    <3>2. Finite({"update"}, Directions)'
          /\ Waiting({"update"}, Directions)' = Waiting({"update"}, Directions) + 1 + 1
      BY <2>2, <3>1, Zenon DEF IngestInv, Counted
    <3>3. Waiting({"update"}, Directions) \in Nat /\ num_updates \in Nat /\ accepted \in Nat
      BY FiniteCounts, Zenon DEF IngestInv, Counted, TypeOK, GraphTypeOK, HistoryTypeOK
    <3>4. num_updates + Waiting({"update"}, Directions) = 2 * accepted
      BY Zenon DEF IngestInv, Counted
    <3> QED
      BY <2>1, <3>1, <3>2, <3>3, <3>4, SMTT(30) DEF Counted
  <2>5. Summed'
    <3> SUFFICES ASSUME NEW n \in Nodes, NEW d \in Nodes
                 PROVE  /\ Finite(Updating, {<<n, d>>})'
                        /\ ({n, d} \in supernodes'[n] <=> {n, d} \in stream')
                             <=> ~Odd(Waiting(Updating, {<<n, d>>})')
      BY Zenon DEF Summed, Odd
    <3> DEFINE W == Waiting(Updating, {<<n, d>>})
    <3>1. /\ Finite(Updating, {<<n, d>>})
          /\ ({n, d} \in supernodes[n] <=> {n, d} \in stream) <=> ~Odd(W)
      BY Zenon DEF IngestInv, Summed
    <3>2. /\ Finite(Updating, {<<n, d>>})'
          /\ Waiting(Updating, {<<n, d>>})'
               = W + (IF <<u, v>> \in {<<n, d>>} THEN 1 ELSE 0)
                   + (IF <<v, u>> \in {<<n, d>>} THEN 1 ELSE 0)
      BY <2>2, <3>1, Zenon
    <3>3. W \in Nat
      BY <3>1, FiniteCounts, Zenon
    <3> HIDE DEF W
    <3>4. CASE {n, d} = {u, v}
      <4>1. \/ <<u, v>> = <<n, d>> /\ <<v, u>> # <<n, d>>
            \/ <<u, v>> # <<n, d>> /\ <<v, u>> = <<n, d>>
        BY <2>1, <3>4
      <4>2. Waiting(Updating, {<<n, d>>})' = W + 1
        BY <3>2, <3>3, <4>1, SMTT(30)
      <4>3. {n, d} \in stream' <=> ~({n, d} \in stream)
        BY <2>1, <3>4, Zenon DEF SymDiff
      <4>4. Odd(W + 1) <=> ~Odd(W)
        BY <3>3 DEF Odd
      <4> QED
        BY <2>1, <3>1, <3>2, <4>2, <4>3, <4>4, Zenon
    <3>5. CASE {n, d} # {u, v}
      <4>1. <<u, v>> # <<n, d>> /\ <<v, u>> # <<n, d>>
        BY <3>5, Zenon
      <4>2. Waiting(Updating, {<<n, d>>})' = W
        BY <3>2, <3>3, <4>1
      <4>3. {n, d} \in stream' <=> {n, d} \in stream
        BY <2>1, <3>5, Zenon DEF SymDiff
      <4> QED
        BY Zenon, <2>1, <3>1, <3>2, <4>2, <4>3
    <3> QED
      BY <3>4, <3>5, Zenon
  <2> QED
    BY <2>1, <2>3, <2>4, <2>5, Zenon DEF IngestInv, OwnEdges, FileWhole
<1> QED
  BY <1>1, <1>2, Zenon DEF Inserter

(* When nothing waits, the invariant says that every supernode is the      *)
(* stream's restriction to the edges of its node ...                       *)
LEMMA QueryFact ==
  ASSUME TypeOK, Drained, IngestInv
  PROVE  /\ \A n \in Nodes : supernodes[n] = Incident(n)
         /\ num_updates = 2 * accepted
<1>1. \A n, d \in Nodes : {n, d} \in supernodes[n] <=> {n, d} \in stream
  <2>1. \A n, d \in Nodes : Waiting(Updating, {<<n, d>>}) = 0
    <3>1. Updating \in SUBSET HoldsData
      BY Zenon DEF HoldsData
    <3> QED
      BY <3>1, DrainedCount, Zenon
  <2>2. ~Odd(0)
    BY DEF Odd
  <2> QED
    BY Zenon, <2>1, <2>2 DEF IngestInv, Summed
<1>2. ASSUME NEW n \in Nodes PROVE supernodes[n] = Incident(n)
  <2>1. \A e \in supernodes[n] : e \in stream /\ n \in e
    BY <1>1 DEF IngestInv, OwnEdges
  <2>2. \A e \in stream : n \in e => e \in supernodes[n]
    <3> SUFFICES ASSUME NEW e \in stream, n \in e PROVE e \in supernodes[n]
      BY Zenon
    <3>1. PICK u, v \in Nodes : e = {u, v}
      BY DEF TypeOK, HistoryTypeOK, Edges
    <3>2. PICK d \in Nodes : e = {n, d}
      BY <3>1, Zenon
    <3> QED
      BY <1>1, <3>2, Zenon
  <2> QED
    BY <2>1, <2>2, Zenon DEF Incident
<1>3. num_updates = 2 * accepted
  <2>1. {"update"} \in SUBSET HoldsData
    BY Zenon DEF HoldsData, Updating
  <2>2. Waiting({"update"}, Directions) = 0
    BY <2>1, DrainedCount, Zenon
  <2>3. num_updates \in Nat
    BY Zenon DEF TypeOK, GraphTypeOK
  <2> QED
    BY <2>2, <2>3 DEF IngestInv, Counted
<1> QED
  BY <1>2, <1>3, Zenon

(* A state in which nothing waits and everything accepted has been applied. *)
Settled ==
  /\ Drained /\ FileWhole
  /\ \A n \in Nodes : supernodes[n] = Incident(n)
  /\ num_updates = 2 * accepted

(* ... and conversely. *)
LEMMA DrainedIngest == TypeOK /\ Settled => IngestInv
<1> SUFFICES ASSUME TypeOK, Drained, FileWhole,
                    \A n \in Nodes : supernodes[n] = Incident(n),
                    num_updates = 2 * accepted
             PROVE  IngestInv
  BY Zenon DEF Settled
<1>1. Counted
  <2>1. {"update"} \in SUBSET HoldsData
    BY Zenon DEF HoldsData, Updating
  <2>2. Finite({"update"}, Directions) /\ Waiting({"update"}, Directions) = 0
    BY <2>1, DrainedCount, Zenon
  <2>3. num_updates \in Nat
    BY Zenon DEF TypeOK, GraphTypeOK
  <2> QED
    BY <2>2, <2>3 DEF Counted
<1>2. Summed
  <2>1. Updating \in SUBSET HoldsData
    BY Zenon DEF HoldsData
  <2>2. \A n, d \in Nodes :
          Finite(Updating, {<<n, d>>}) /\ Waiting(Updating, {<<n, d>>}) = 0
    BY <2>1, DrainedCount, Zenon
  <2>3. \A n, d \in Nodes : {n, d} \in supernodes[n] <=> {n, d} \in stream
    BY Zenon DEF Incident
  <2>4. ~Odd(0)
    BY DEF Odd
  <2> QED
    BY Zenon, <2>2, <2>3, <2>4 DEF Summed
<1>3. OwnEdges
  <2> SUFFICES ASSUME NEW n \in Nodes, NEW e \in supernodes[n]
               PROVE  \E d \in Nodes : e = {n, d}
    BY Zenon DEF OwnEdges
  <2>1. e \in stream /\ n \in e
    BY Zenon DEF Incident
  <2>2. PICK u, v \in Nodes : e = {u, v}
    BY <2>1 DEF TypeOK, HistoryTypeOK, Edges
  <2> QED
    BY <2>1, <2>2, Zenon
<1>4. SumHeld
  BY Zenon DEF SumHeld, Drained, HoldsData, Updating
<1> QED
  BY <1>1, <1>2, <1>3, <1>4, Zenon DEF IngestInv

(* The same, of the state a step leads to. *)
LEMMA DrainedNext == TypeOK' /\ Settled' => IngestInv'
  BY DrainedIngest, PTL

(* A step of the caller that moves no update and stores nothing. *)
LEMMA CallerQuiet ==
  ASSUME IngestInv,
         UNCHANGED <<gutter, queue, pend, data, num_updates, accepted, stream,
                     supernodes, file, node_mt, sum>>,
         \A w \in Workers : wpc'[w] = wpc[w]
                              \/ (wpc[w] \notin Updating /\ wpc'[w] \notin Updating)
  PROVE  IngestInv'
<1>1. SumHeld'
  BY Zenon DEF IngestInv, SumHeld, Updating
<1>2. \A w \in Workers : wpc'[w] \in {"update"} <=> wpc[w] \in {"update"}
  BY Zenon DEF Updating
<1>3. \A w \in Workers : wpc'[w] \in Updating <=> wpc[w] \in Updating
  BY Zenon
<1>4. \A P : /\ Finite({"update"}, P)' <=> Finite({"update"}, P)
             /\ Waiting({"update"}, P)' = Waiting({"update"}, P)
  BY <1>2, SameCounts, Zenon
<1>5. \A P : /\ Finite(Updating, P)' <=> Finite(Updating, P)
             /\ Waiting(Updating, P)' = Waiting(Updating, P)
  BY <1>3, SameCounts, Zenon
<1> QED
  BY <1>1, <1>4, <1>5, QuietStep, Zenon

(* The constructors, the public calls and the destructor. *)
LEMMA CallerIngest ==
  ASSUME TypeOK, TypeOK', LifecycleInv, IngestInv, Caller
  PROVE  IngestInv'
<1>1. wpc \in [Workers -> WorkerPC] /\ gutter \in [Nodes -> Seq(Nodes)]
  BY Zenon DEF TypeOK, PoolTypeOK, GtsTypeOK
<1>2. /\ mpc = "closed" \/ mpc = "stopped" => Drained
      /\ mpc = "paused" => Drained
  BY Zenon DEF LifecycleInv, CleanMeansDrained, DirtyMeansOpen, CleanWhilePaused, Ending
<1>3. ASSUME NEW f \in BOOLEAN, Construct(f) PROVE IngestInv'
  <2>1. Drained'
    BY <1>2, <1>3, Zenon DEF Construct, Drained, At, gtsVars
  <2>2. FileWhole' /\ (num_updates = 2 * accepted)'
    BY <1>3, SMTT(30) DEF Construct, IngestInv, FileWhole
  <2>3. \A n \in Nodes : supernodes'[n] = {e \in stream' : n \in e}
    BY Zenon, <1>3 DEF Construct, NoFile, NoSupernodes, IngestInv, FileWhole
  <2>4. (\A n \in Nodes : supernodes[n] = Incident(n))'
    BY <2>3, Zenon DEF Incident
  <2> QED
    BY <2>1, <2>2, <2>4, DrainedNext, Zenon DEF Settled
<1>4. ASSUME NEW n \in Nodes, ForceFlush(n) PROVE IngestInv'
  <2>1. UNCHANGED <<num_updates, accepted, stream, supernodes, file, node_mt, sum,
                    wpc, data>>
    BY <1>4, Zenon DEF ForceFlush, poolVars, buffers, graphVars, history
  <2>2. ASSUME NEW L, NEW P, Finite(L, P)
        PROVE  Finite(L, P)' /\ Waiting(L, P)' = Waiting(L, P)
    BY <1>4, <2>2, FlushCount, Zenon
  <2>3. SumHeld'
    BY <2>1, Zenon DEF IngestInv, SumHeld
  <2>4. Counted'
    <3>1. Finite({"update"}, Directions)'
          /\ Waiting({"update"}, Directions)' = Waiting({"update"}, Directions)
      BY <2>2, Zenon DEF IngestInv, Counted
    <3>2. Directions' = Directions
      BY Zenon DEF Directions
    <3> QED
      BY <2>1, <3>1, <3>2, Zenon DEF IngestInv, Counted
  <2>5. Summed'
    <3>1. \A m, d \in Nodes :
            /\ Finite(Updating, {<<m, d>>})'
            /\ Waiting(Updating, {<<m, d>>})' = Waiting(Updating, {<<m, d>>})
      BY Zenon, <2>2 DEF IngestInv, Summed
    <3> QED
      BY Zenon, <2>1, <3>1 DEF IngestInv, Summed
  <2> QED
    BY <2>1, <2>3, <2>4, <2>5, Zenon DEF IngestInv, OwnEdges, FileWhole
<1>5. CASE WriteBinary
  <2>1. Drained /\ \A n \in Nodes : supernodes[n] = Incident(n)
    BY <1>2, <1>5, QueryFact, Zenon DEF WriteBinary, At
  <2>2. num_updates = 2 * accepted
    BY <2>1, QueryFact, Zenon
  <2>3. /\ UNCHANGED <<gutter, queue, pend, wpc, num_updates, accepted, stream, supernodes>>
        /\ file' = [edges |-> stream, supernodes |-> supernodes, merged |-> merged]
    BY <1>5, Zenon DEF WriteBinary, gtsVars, poolVars, graphVars
  <2>4. Drained' /\ (num_updates = 2 * accepted)'
        /\ (\A n \in Nodes : supernodes[n] = Incident(n))'
    BY <2>1, <2>2, <2>3, Zenon DEF Drained, Incident
  <2>5. FileWhole'
    BY <2>1, <2>3, Zenon DEF FileWhole, Incident
  <2> QED
    BY <2>4, <2>5, DrainedNext, Zenon DEF Settled
<1>6. CASE Close
  <2>1. Drained
    BY <1>2, <1>6, Zenon DEF Close, At
  <2>2. gutter' = gutter /\ queue' = queue
    BY Zenon, <1>1, <1>6, <2>1 DEF Close, Drained
  <2> QED
    BY <1>6, <2>2, CallerQuiet, Zenon DEF Close, poolVars, buffers, graphVars,
       callVars, history
<1>7. ASSUME NEW w \in Workers, Spawn(w) /\ Rest PROVE IngestInv'
  <2>1. \A v \in Workers : wpc'[v] = wpc[v]
                             \/ (wpc[v] \notin Updating /\ wpc'[v] \notin Updating)
    BY <1>1, <1>7, Zenon DEF Spawn, WGoto, Updating
  <2> QED
    BY Zenon, <1>7, <2>1, CallerQuiet DEF Spawn, Rest, buffers, gtsVars, graphVars,
       callVars, history
<1>8. CASE Join /\ Rest
  <2>1. \A v \in Workers : wpc'[v] = wpc[v]
                             \/ (wpc[v] \notin Updating /\ wpc'[v] \notin Updating)
    BY <1>8, Zenon DEF Join, Updating
  <2> QED
    BY <1>8, <2>1, CallerQuiet, Zenon DEF Join, Rest, gtsVars, graphVars, callVars, history
<1>9. ASSUME NEW w \in Workers, FinishConstructor(w) /\ Rest PROVE IngestInv'
  BY <1>9, CallerQuiet, Zenon DEF FinishConstructor, Rest, gtsVars, graphVars, callVars,
     history
<1>10. ASSUME NEW op \in {"cont", "final", "dump"}, Call(op) PROVE IngestInv'
  BY <1>10, CallerQuiet, Zenon DEF Call, gtsVars, poolVars, buffers, graphVars, history
<1>11. CASE Opened \/ FlushDone \/ PauseWait \/ StartBoruvka \/ ReturnFinal
            \/ ResetQuery \/ Destroy
  BY Zenon, <1>11, CallerQuiet DEF Opened, FlushDone, PauseWait, StartBoruvka,
     ReturnFinal,
     ResetQuery, Destroy, gtsVars, poolVars, buffers, graphVars, callVars, history
<1>12. CASE (PauseFlag \/ PauseNonBlock \/ UnpauseNonBlock \/ UnpauseFlag
             \/ UnpauseWait \/ StopFlag \/ StopNonBlock) /\ Rest
  BY Zenon, <1>12, CallerQuiet DEF PauseFlag, PauseNonBlock, UnpauseNonBlock,
     UnpauseFlag,
     UnpauseWait, StopFlag, StopNonBlock, SetNonBlock, Rest, gtsVars, poolVars,
     buffers, graphVars, callVars, history
<1>13. CASE (UnpauseNotify \/ StopNotify) /\ Rest
  BY <1>13, CallerQuiet, Zenon DEF UnpauseNotify, StopNotify, Rest, gtsVars, buffers,
     graphVars, callVars, history
<1>14. CASE Ended
  BY <1>14, CallerQuiet, Zenon DEF Ended, vars, gtsVars, poolVars, buffers, graphVars,
     callVars, history
<1> QED
  BY <1>3, <1>4, <1>5, <1>6, <1>7, <1>8, <1>9, <1>10, <1>11, <1>12, <1>13, <1>14, Zenon
  DEF Caller

(* The first Graph starts from nothing. *)
LEMMA InitIngest == Init => IngestInv
<1> SUFFICES ASSUME Init PROVE IngestInv
  BY Zenon
<1>1. TypeOK
  BY InitTypeOK, Zenon
<1>2. Drained
  BY Zenon DEF Init, GtsInit, PoolInit, Drained, HoldsData, Updating
<1>3. FileWhole /\ num_updates = 2 * accepted
  BY SMTT(30) DEF Init, FileWhole, NoFile, NoSupernodes
<1>4. \A n \in Nodes : supernodes[n] = Incident(n)
  BY Zenon DEF Init, NoSupernodes, Incident
<1> QED
  BY <1>1, <1>2, <1>3, <1>4, DrainedIngest, Zenon DEF Settled

(* Every step keeps the invariant. *)
LEMMA StepIngest ==
  ASSUME TypeOK, TypeOK', PausedPoolInv, PausedPoolInv', LifecycleInv,
         LifecycleInv', IngestInv, [Next]_vars
  PROVE  IngestInv'
<1>1. DataHeld /\ DataHeld' /\ NoUncaughtException'
  BY Zenon DEF PausedPoolInv, LifecycleInv
<1>2. CASE Next
  BY <1>1, <1>2, CallerIngest, InserterIngest, WorkerIngest, Zenon DEF Next
<1>3. CASE UNCHANGED vars
  BY <1>3, CallerQuiet, Zenon DEF vars, gtsVars, poolVars, buffers, graphVars, callVars,
     history
<1> QED
  BY <1>2, <1>3, Zenon

(* Whatever the threads do, with a careful client every update that was    *)
(* accepted is in exactly one place until it has been applied once at each *)
(* of its ends.                                                            *)
LEMMA IngestInvariant == CarefulClient => (Spec => []IngestInv)
<1> SUFFICES ASSUME CarefulClient PROVE Spec => []IngestInv
  BY Zenon
<1>1. TypeOK /\ TypeOK' /\ PausedPoolInv /\ PausedPoolInv' /\ LifecycleInv
        /\ LifecycleInv' /\ IngestInv /\ [Next]_vars => IngestInv'
  BY StepIngest, Zenon
<1> QED
  BY <1>1, InitIngest, TypeCorrect, PoolInvariant, LifecycleInvariant, PTL DEF Spec

(* "after this point all updates have been processed from the buffer tree" *)
(* (graph.cpp:336, 376): when pause_workers has returned, every supernode  *)
(* is exactly what the accepted updates add up to, for any number of       *)
(* workers, inserters, nodes and updates and any size of gutter and queue. *)
THEOREM QueriesSeeStream == CarefulClient => (Spec => []QuerySeesStream)
<1> SUFFICES ASSUME CarefulClient PROVE Spec => []QuerySeesStream
  BY Zenon
<1>1. TypeOK /\ LifecycleInv /\ IngestInv => QuerySeesStream
  <2> SUFFICES ASSUME TypeOK, LifecycleInv, IngestInv, mpc \in {"paused", "boruvka"}
               PROVE  \A n \in Nodes : supernodes[n] = Incident(n)
    BY Zenon DEF QuerySeesStream
  <2>1. Drained
    BY Zenon DEF LifecycleInv, CleanMeansDrained, CleanWhilePaused
  <2> QED
    BY <2>1, QueryFact, Zenon
<1> QED
  BY <1>1, TypeCorrect, LifecycleInvariant, IngestInvariant, PTL

(* num_updates: by the time a query samples, every accepted update has     *)
(* been applied exactly twice, once per endpoint: none lost, none repeated. *)
THEOREM UpdatesCountedTwice == CarefulClient => (Spec => []EveryUpdateCounted)
<1> SUFFICES ASSUME CarefulClient PROVE Spec => []EveryUpdateCounted
  BY Zenon
<1>1. TypeOK /\ LifecycleInv /\ IngestInv => EveryUpdateCounted
  <2> SUFFICES ASSUME TypeOK, LifecycleInv, IngestInv, mpc = "boruvka"
               PROVE  num_updates = 2 * accepted
    BY Zenon DEF EveryUpdateCounted
  <2>1. Drained
    BY Zenon DEF LifecycleInv, CleanMeansDrained, CleanWhilePaused
  <2> QED
    BY <2>1, QueryFact, Zenon
<1> QED
  BY <1>1, TypeCorrect, LifecycleInvariant, IngestInvariant, PTL
=============================================================================
