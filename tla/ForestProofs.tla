---------------------------- MODULE ForestProofs ----------------------------
(***************************************************************************)
(* What needs induction: functions defined by recursion, the selection of  *)
(* the next representatives, kruskal of the verifier, which computes the   *)
(* components of every graph, and the number of sketches.  Then the types  *)
(* of a call, and the two steps of a call that run these functions.        *)
(***************************************************************************)
EXTENDS BoruvkaProofs, WellFoundedInduction

(* A set of naturals has a least element, so induction is on sets. *)
LEMMA LeastNat ==
  ASSUME NEW T \in SUBSET Nat, T # {}
  PROVE  \E x \in T : \A y \in T : x <= y
<1> DEFINE R == {ss \in Nat \X Nat : ss[1] < ss[2]}
<1>1. IsWellFoundedOn(R, Nat)
  BY NatLessThanWellFounded, Zenon DEF OpToRel
<1>2. \A x, y \in Nat : ~(<<y, x>> \in R) => x <= y
  OBVIOUS
<1>3. PICK x \in T : \A y \in T : ~(<<y, x>> \in R)
  <2> HIDE DEF R
  <2> QED BY <1>1, WFMin, Zenon
<1> HIDE DEF R
<1> QED BY <1>2, <1>3, Zenon

(* Induction over the naturals. *)
LEMMA SetInduction ==
  ASSUME NEW T, 0 \in T, \A n \in Nat : n \in T => n + 1 \in T
  PROVE  Nat \subseteq T
<1> SUFFICES ASSUME Nat \ T # {} PROVE FALSE
  BY Zenon
<1>1. PICK x \in Nat \ T : \A y \in Nat \ T : x <= y
  BY LeastNat, Zenon
<1>2. x # 0 /\ x - 1 \in Nat
  BY <1>1
<1>3. x - 1 \in T
  BY <1>1, <1>2
<1> QED BY <1>1, <1>2, <1>3

(* F is defined by recursion: it starts at b and goes on by G. *)
Iterates(F, n, S, b, G) ==
  /\ F \in [0 .. n -> S]
  /\ F[0] = b
  /\ \A i \in 1 .. n : F[i] = G[<<i, F[i - 1]>>]

(* There is such a function. *)
LEMMA Recursion ==
  ASSUME NEW n \in Nat, NEW S, NEW b \in S, NEW G \in [(1 .. n) \X S -> S]
  PROVE  \E F : Iterates(F, n, S, b, G)
<1> DEFINE Ok(m, F) == /\ F \in [0 .. m -> S]
                       /\ F[0] = b
                       /\ \A i \in 1 .. m : F[i] = G[<<i, F[i - 1]>>]
           Defined(m) == \E F : Ok(m, F)
           T == {m \in Nat : m <= n => Defined(m)}
<1>1. 0 \in T
  <2>1. Ok(0, [i \in 0 .. 0 |-> b])
    OBVIOUS
  <2> QED BY <2>1, Zenon
<1>2. ASSUME NEW m \in Nat, m \in T PROVE m + 1 \in T
  <2> SUFFICES ASSUME m + 1 <= n PROVE \E F : Ok(m + 1, F)
    OBVIOUS
  <2>1. PICK F : Ok(m, F)
    BY <1>2
  <2> DEFINE H == [i \in 0 .. m + 1 |-> IF i = m + 1 THEN G[<<m + 1, F[m]>>] ELSE F[i]]
  <2>2. G[<<m + 1, F[m]>>] \in S
    BY <2>1
  <2>3. H \in [0 .. m + 1 -> S]
    BY <2>1, <2>2
  <2>4. /\ H[m + 1] = G[<<m + 1, F[m]>>]
        /\ \A i \in 0 .. m : H[i] = F[i]
    OBVIOUS
  <2> HIDE DEF H
  <2>5. ASSUME NEW i \in 1 .. m + 1 PROVE H[i] = G[<<i, H[i - 1]>>]
    <3>1. CASE i = m + 1
      BY <2>4, <3>1
    <3>2. CASE i # m + 1
      <4>1. i \in 1 .. m /\ i \in 0 .. m /\ i - 1 \in 0 .. m
        BY <3>2
      <4> QED BY <2>1, <2>4, <4>1, Zenon
    <3> QED BY <3>1, <3>2, Zenon
  <2>6. H[0] = b
    BY <2>1, <2>4
  <2> QED BY <2>3, <2>5, <2>6, Zenon
<1>3. n \in T
  <2> HIDE DEF T
  <2> QED BY <1>1, <1>2, SetInduction, Zenon
<1>4. Defined(n)
  <2> HIDE DEF Defined
  <2> QED BY <1>3
<1>5. PICK F : Ok(n, F)
  BY <1>4, Zenon
<1> QED BY <1>5, Zenon DEF Iterates
(* Among is computed element by element. *)
AmongSteps(F, N, s, D) ==
  /\ F \in [0 .. Len(s) -> Seq(N)]
  /\ Among(s, D) = F[Len(s)]
  /\ F[0] = <<>>
  /\ \A i \in 1 .. Len(s) :
       F[i] = IF s[i] \in D THEN Append(F[i - 1], s[i]) ELSE F[i - 1]

(* The loop over s that collects the elements in D. *)
LEMMA AmongRec ==
  ASSUME NEW N, NEW s \in Seq(N), NEW D
  PROVE  \E F : AmongSteps(F, N, s, D)
<1> DEFINE len == Len(s)
           Q == Seq(N)
           next(n, x) == IF s[n] \in D THEN Append(x, s[n]) ELSE x
           body(f) == [n \in 0 .. len |-> IF n = 0 THEN <<>> ELSE next(n, f[n - 1])]
           sel == CHOOSE f : f = body(f)
           G == [x \in (1 .. len) \X Q |-> next(x[1], x[2])]
<1>1. Among(s, D) = sel[len]
  BY Zenon DEF Among
<1>2. /\ len \in Nat /\ <<>> \in Q
      /\ \A i \in 1 .. len, x \in Q : next(i, x) \in Q
  OBVIOUS
<1> HIDE DEF next, len, Q
<1>3. /\ G \in [(1 .. len) \X Q -> Q]
      /\ \A i \in 1 .. len, x \in Q : G[<<i, x>>] = next(i, x)
  BY <1>2, Zenon
<1> HIDE DEF G
<1>4. PICK F : Iterates(F, len, Q, <<>>, G)
  BY <1>2, <1>3, Recursion, Zenon
<1>5. /\ F \in [0 .. len -> Q] /\ F[0] = <<>>
      /\ \A i \in 1 .. len : F[i] = G[<<i, F[i - 1]>>]
  BY <1>4, Zenon DEF Iterates
<1>6. \A i \in 1 .. len : F[i] = next(i, F[i - 1])
  <2> SUFFICES ASSUME NEW i \in 1 .. len PROVE F[i] = next(i, F[i - 1])
    BY Zenon
  <2>1. i - 1 \in 0 .. len
    BY <1>2
  <2>2. F[i - 1] \in Q
    BY <1>5, <2>1, Zenon
  <2> QED BY <1>3, <1>5, <2>2, Zenon
<1>7. F = body(F)
  BY <1>2, <1>5, <1>6
<1>8. sel = body(sel)
  <2> HIDE DEF body
  <2> QED BY <1>7, Zenon
<1> HIDE DEF sel
<1>9. \A n \in 0 .. len : sel[n] = IF n = 0 THEN <<>> ELSE next(n, sel[n - 1])
  BY <1>2, <1>8, Zenon
<1> HIDE DEF body
<1>10. \A n \in Nat : n <= len => sel[n] = F[n]
  <2> DEFINE T == {n \in Nat : n <= len => sel[n] = F[n]}
  <2>1. 0 \in T
    BY <1>2, <1>5, <1>9, SMTT(30)
  <2>2. \A n \in Nat : n \in T => n + 1 \in T
    BY <1>2, <1>6, <1>9
  <2>3. Nat \subseteq T
    <3> HIDE DEF T
    <3> QED BY <2>1, <2>2, SetInduction, Zenon
  <2> QED BY <2>3, Zenon
<1>11. Among(s, D) = F[len]
  BY <1>1, <1>2, <1>10
<1> QED BY <1>5, <1>6, <1>11, Zenon DEF next, len, Q, AmongSteps

(* Among keeps the elements that are in D ... *)
LEMMA AmongSet ==
  ASSUME NEW N, NEW s \in Seq(N), NEW D
  PROVE  /\ Among(s, D) \in Seq(N)
         /\ Range(Among(s, D)) = Range(s) \cap D
<1>0. PICK F : AmongSteps(F, N, s, D)
  BY AmongRec, Zenon
<1>1. /\ F \in [0 .. Len(s) -> Seq(N)]
      /\ Among(s, D) = F[Len(s)]
      /\ F[0] = <<>>
      /\ \A i \in 1 .. Len(s) :
           F[i] = IF s[i] \in D THEN Append(F[i - 1], s[i]) ELSE F[i - 1]
  BY <1>0, Zenon DEF AmongSteps
<1> DEFINE Upto(n) == {s[i] : i \in 1 .. n} \cap D
           T == {n \in Nat : n <= Len(s) => Range(F[n]) = Upto(n)}
<1>2. Len(s) \in Nat
  OBVIOUS
<1>3. 0 \in T
  BY <1>1, <1>2 DEF Range
<1>4. ASSUME NEW n \in Nat, n \in T PROVE n + 1 \in T
  <2> SUFFICES ASSUME n + 1 <= Len(s) PROVE Range(F[n + 1]) = Upto(n + 1)
    OBVIOUS
  <2>1. Range(F[n]) = Upto(n) /\ F[n] \in Seq(N) /\ s[n + 1] \in N
    <3>1. n \in 0 .. Len(s) /\ n + 1 \in 1 .. Len(s)
      BY <1>2
    <3>2. F[n] \in Seq(N)
      BY <1>1, <3>1, Zenon
    <3>3. s[n + 1] \in N /\ n <= Len(s)
      BY <1>2, <3>1
    <3> HIDE DEF Upto
    <3> QED BY <1>4, <3>2, <3>3, Zenon
  <2>2. F[n + 1] = IF s[n + 1] \in D THEN Append(F[n], s[n + 1]) ELSE F[n]
    BY <1>1, <1>2
  <2>3. Upto(n + 1) = Upto(n) \cup ({s[n + 1]} \cap D)
    <3>1. 1 .. n + 1 = (1 .. n) \cup {n + 1}
      OBVIOUS
    <3> QED BY <3>1, Zenon
  <2>4. Range(Append(F[n], s[n + 1])) = Range(F[n]) \cup {s[n + 1]}
    <3> DEFINE f == F[n]
               x == s[n + 1]
    <3>1. f \in Seq(N) /\ x \in N
      BY <2>1, Zenon
    <3> HIDE DEF f, x
    <3>2. /\ DOMAIN Append(f, x) = 1 .. Len(f) + 1 /\ DOMAIN f = 1 .. Len(f)
          /\ Len(f) \in Nat /\ Append(f, x)[Len(f) + 1] = x
          /\ \A i \in 1 .. Len(f) : Append(f, x)[i] = f[i]
      BY <3>1
    <3>3. 1 .. Len(f) + 1 = (1 .. Len(f)) \cup {Len(f) + 1}
      BY <3>2
    <3>4. Range(Append(f, x)) = Range(f) \cup {x}
      BY <3>2, <3>3 DEF Range
    <3> QED BY <3>4, Zenon DEF f, x
  <2> HIDE DEF Upto
  <2> QED BY <2>1, <2>2, <2>3, <2>4, Zenon
<1>5. Nat \subseteq T
  <2> HIDE DEF T
  <2> QED BY <1>3, <1>4, SetInduction, Zenon
<1>6. Range(F[Len(s)]) = Upto(Len(s))
  <2> HIDE DEF Upto
  <2> QED BY <1>2, <1>5
<1>7. Upto(Len(s)) = Range(s) \cap D
  BY DEF Range
<1> QED BY <1>1, <1>2, <1>6, <1>7

(* ... in their order. *)
LEMMA AmongInjective ==
  ASSUME NEW N, NEW s \in Seq(N), NEW D, IsInjective(s)
  PROVE  IsInjective(Among(s, D))
<1>0. PICK F : AmongSteps(F, N, s, D)
  BY AmongRec, Zenon
<1>1. /\ F \in [0 .. Len(s) -> Seq(N)]
      /\ Among(s, D) = F[Len(s)]
      /\ F[0] = <<>>
      /\ \A i \in 1 .. Len(s) :
           F[i] = IF s[i] \in D THEN Append(F[i - 1], s[i]) ELSE F[i - 1]
  BY <1>0, Zenon DEF AmongSteps
<1> DEFINE Below(n) == /\ IsInjective(F[n])
                       /\ \A i \in DOMAIN F[n] : \E j \in 1 .. n : F[n][i] = s[j]
           T == {n \in Nat : n <= Len(s) => Below(n)}
<1>2. Len(s) \in Nat
  OBVIOUS
<1>3. 0 \in T
  BY <1>1, <1>2 DEF IsInjective
<1>4. ASSUME NEW n \in Nat, n \in T PROVE n + 1 \in T
  <2> SUFFICES ASSUME n + 1 <= Len(s) PROVE Below(n + 1)
    OBVIOUS
  <2> DEFINE f == F[n]
             x == s[n + 1]
  <2>1. f \in Seq(N) /\ x \in N /\ Below(n)
    BY <1>1, <1>2, <1>4, SMTT(30)
  <2>2. F[n + 1] = IF x \in D THEN Append(f, x) ELSE f
    BY <1>1, <1>2, SMTT(30)
  <2>3. ASSUME NEW j \in 1 .. n PROVE s[j] # x
    BY <1>2, <2>3 DEF IsInjective
  <2>4. /\ IsInjective(f)
        /\ \A i \in DOMAIN f : \E j \in 1 .. n : f[i] = s[j]
    BY <2>1, Zenon
  <2> HIDE DEF f
  <2>5. \A i \in DOMAIN f : f[i] # x
    BY <2>3, <2>4, Zenon
  <2>6. CASE x \in D
    <3> DEFINE g == Append(f, x)
    <3>1. /\ DOMAIN g = 1 .. Len(f) + 1 /\ DOMAIN f = 1 .. Len(f)
          /\ Len(f) \in Nat /\ g[Len(f) + 1] = x
          /\ \A i \in 1 .. Len(f) : g[i] = f[i]
      BY <2>1
    <3> HIDE DEF g
    <3>2. IsInjective(g)
      <4>1. ASSUME NEW i \in 1 .. Len(f) PROVE g[i] # x
        BY <2>5, <3>1, <4>1, Zenon
      <4> HIDE DEF x
      <4> QED BY <2>4, <3>1, <4>1, SMTT(30) DEF IsInjective
    <3>3. \A i \in DOMAIN g : \E j \in 1 .. n + 1 : g[i] = s[j]
      BY <2>4, <3>1, SMTT(30)
    <3>4. F[n + 1] = g
      BY <2>2, <2>6, Zenon DEF g
    <3> QED BY <3>2, <3>3, <3>4, Zenon
  <2>7. CASE x \notin D
    <3>1. F[n + 1] = f
      BY <2>2, <2>7, Zenon
    <3> QED BY <2>4, <3>1
  <2> QED BY <2>6, <2>7, Zenon
<1>5. Nat \subseteq T
  <2> HIDE DEF T
  <2> QED BY <1>3, <1>4, SetInduction, Zenon
<1>6. Below(Len(s))
  <2> HIDE DEF Below
  <2> QED BY <1>2, <1>5
<1> QED BY <1>1, <1>6, Zenon

(* A union joins the two trees under one of their roots, and moves no other. *)
LEMMA UnionSet ==
  ASSUME NEW d \in Sets, NEW i \in Nodes, NEW j \in Nodes
  PROVE  /\ union_set(d, i, j) \in Sets
         /\ \E w \in {Root(d.parent, i), Root(d.parent, j)} :
              \A x \in Nodes : Root(union_set(d, i, j).parent, x) =
                IF Root(d.parent, x) \in {Root(d.parent, i), Root(d.parent, j)}
                THEN w ELSE Root(d.parent, x)
<1> DEFINE c == find_set(d, {i, j})
           a == Root(d.parent, i)
           b == Root(d.parent, j)
<1>1. Forest(d.parent)
  BY Zenon DEF Sets
<1>2. a \in Nodes /\ b \in Nodes /\ d.parent[a] = a /\ d.parent[b] = b
  BY <1>1, RootIsRoot, Zenon
<1>3. /\ c \in Sets /\ c.parent[a] = a /\ c.parent[b] = b
      /\ \A x \in Nodes : Root(c.parent, x) = Root(d.parent, x)
  BY <1>2, FindSet, Zenon
<1>4. union_set(d, i, j) = link(c, a, b)
  BY Zenon DEF union_set
<1> HIDE DEF c, a, b
<1>5. /\ link(c, a, b) \in Sets
      /\ \E w \in {a, b} : \A x \in Nodes : Root(link(c, a, b).parent, x) =
           IF Root(c.parent, x) \in {a, b} THEN w ELSE Root(c.parent, x)
  BY <1>2, <1>3, LinkSets, SMTT(30)
<1>6. \E w \in {a, b} : \A x \in Nodes : Root(link(c, a, b).parent, x) =
           IF Root(d.parent, x) \in {a, b} THEN w ELSE Root(d.parent, x)
  BY <1>3, <1>5, Zenon
<1> QED BY <1>4, <1>5, <1>6, SMTT(30) DEF a, b

(* kruskal joins the ends of one cell of the matrix after the other. *)
Cells == NumNodes * NumNodes
Cell(c) == <<(c - 1) \div NumNodes, (c - 1) % NumNodes>>

(* The cells kruskal visits are pairs of nodes, and every edge is one of them. *)
LEMMA CellNodes ==
  /\ Cells \in Nat
  /\ \A c \in 1 .. Cells : Cell(c)[1] \in Nodes /\ Cell(c)[2] \in Nodes
  /\ \A e \in Edges : \E c \in 1 .. Cells : Cell(c) = e
<1>1. NumNodes \in Nat /\ NumNodes > 0 /\ Cells \in Nat
  BY BoruvkaAssumption DEF Cells
<1>2. ASSUME NEW c \in 1 .. Cells PROVE Cell(c)[1] \in Nodes /\ Cell(c)[2] \in Nodes
  <2> DEFINE m == (c - 1) \div NumNodes
             n == (c - 1) % NumNodes
  <2>1. c - 1 \in Nat /\ c - 1 < NumNodes * NumNodes
    BY <1>1 DEF Cells
  <2>2. m \in Int /\ n \in 0 .. NumNodes - 1 /\ c - 1 = NumNodes * m + n
    BY <1>1, <2>1
  <2> HIDE DEF m, n
  <2>3. m >= 0 /\ m < NumNodes
    <3>1. ASSUME m < 0 PROVE FALSE
      <4>1. NumNodes * m <= NumNodes * (0 - 1)
        BY <1>1, <2>2, <3>1
      <4> QED BY <1>1, <2>1, <2>2, <4>1
    <3>2. ASSUME m >= NumNodes PROVE FALSE
      <4>1. NumNodes * m >= NumNodes * NumNodes
        BY <1>1, <2>2, <3>2
      <4> QED BY <1>1, <2>1, <2>2, <4>1
    <3> QED BY <1>1, <2>2, <3>1, <3>2
  <2>4. m \in Nodes /\ n \in Nodes
    BY <1>1, <2>2, <2>3 DEF Nodes
  <2> QED BY <2>4, Zenon DEF Cell, m, n
<1>3. ASSUME NEW e \in Edges PROVE \E c \in 1 .. Cells : Cell(c) = e
  <2> DEFINE u == e[1]
             v == e[2]
             c == NumNodes * u + v + 1
  <2>1. u \in 0 .. NumNodes - 1 /\ v \in 0 .. NumNodes - 1 /\ e = <<u, v>>
    BY DEF Edges, Nodes
  <2> HIDE DEF u, v
  <2>2. NumNodes * u \in Nat /\ NumNodes * u <= NumNodes * NumNodes - NumNodes
    BY <1>1, <2>1
  <2>3. c \in 1 .. Cells
    BY <1>1, <2>1, <2>2 DEF Cells
  <2>4. c - 1 = NumNodes * u + v
    BY <1>1, <2>1, <2>2
  <2>5. (NumNodes * u + v) \div NumNodes = u /\ (NumNodes * u + v) % NumNodes = v
    BY <1>1, <2>1, <2>2
  <2>6. Cell(c) = e
    BY <2>1, <2>4, <2>5, Zenon DEF Cell
  <2> QED BY <2>3, <2>6, Zenon
<1> QED BY <1>1, <1>2, <1>3, Zenon

(* kruskal as a sequence of disjoint sets, one for each cell it has visited. *)
LEMMA KruskalRec ==
  ASSUME NEW E
  PROVE  \E F \in [0 .. Cells -> Sets] :
           /\ kruskal(E) = Partition(F[Cells].parent)
           /\ F[0] = NewSets
           /\ \A c \in 1 .. Cells :
                F[c] = IF Cell(c) \in E
                       THEN union_set(F[c - 1], Cell(c)[1], Cell(c)[2])
                       ELSE F[c - 1]
<1> DEFINE next(c, d) == IF Cell(c) \in E
                         THEN union_set(d, Cell(c)[1], Cell(c)[2]) ELSE d
           body(f) == [c \in 0 .. Cells |->
                         IF c = 0 THEN NewSets ELSE next(c, f[c - 1])]
           sets == CHOOSE f : f = body(f)
           G == [x \in (1 .. Cells) \X Sets |-> next(x[1], x[2])]
<1>1. kruskal(E) = Partition(sets[Cells].parent)
  BY Zenon DEF kruskal, Cells, Cell
<1>2. /\ Cells \in Nat /\ NewSets \in Sets
      /\ \A c \in 1 .. Cells, d \in Sets : next(c, d) \in Sets
  BY CellNodes, NewSetsForest, UnionSet, SMTT(30)
<1> HIDE DEF next
<1>3. /\ G \in [(1 .. Cells) \X Sets -> Sets]
      /\ \A i \in 1 .. Cells, x \in Sets : G[<<i, x>>] = next(i, x)
  BY <1>2, Zenon
<1> HIDE DEF G
<1>4. PICK F : Iterates(F, Cells, Sets, NewSets, G)
  BY <1>2, <1>3, Recursion, Zenon
<1>5. /\ F \in [0 .. Cells -> Sets] /\ F[0] = NewSets
      /\ \A i \in 1 .. Cells : F[i] = G[<<i, F[i - 1]>>]
  BY <1>4, Zenon DEF Iterates
<1>6. \A i \in 1 .. Cells : F[i] = next(i, F[i - 1])
  <2> SUFFICES ASSUME NEW i \in 1 .. Cells PROVE F[i] = next(i, F[i - 1])
    BY Zenon
  <2>1. i - 1 \in 0 .. Cells
    BY <1>2
  <2>2. F[i - 1] \in Sets
    BY <1>5, <2>1, Zenon
  <2> QED BY <1>3, <1>5, <2>2, Zenon
<1>7. F = body(F)
  BY <1>2, <1>5, <1>6, SMTT(30)
<1>8. sets = body(sets)
  <2> HIDE DEF body
  <2> QED BY <1>7, Zenon
<1> HIDE DEF sets
<1>9. \A n \in 0 .. Cells : sets[n] = IF n = 0 THEN NewSets ELSE next(n, sets[n - 1])
  BY <1>2, <1>8, Zenon
<1> HIDE DEF body
<1>10. \A n \in Nat : n <= Cells => sets[n] = F[n]
  <2> DEFINE T == {n \in Nat : n <= Cells => sets[n] = F[n]}
  <2>1. 0 \in T
    BY <1>2, <1>5, <1>9, SMTT(30)
  <2>2. \A n \in Nat : n \in T => n + 1 \in T
    BY <1>2, <1>6, <1>9, SMTT(30)
  <2>3. Nat \subseteq T
    <3> HIDE DEF T
    <3> QED BY <2>1, <2>2, SetInduction, Zenon
  <2> QED BY <2>3, Zenon
<1>11. kruskal(E) = Partition(F[Cells].parent)
  BY <1>1, <1>2, <1>10, SMTT(30)
<1> QED BY <1>5, <1>6, <1>11, Zenon DEF next

(* kruskal computes the connected components of its matrix, although the   *)
(* sizes it ranks by overflow and link tolerates a set linked to itself.   *)
THEOREM KruskalComponents ==
  ASSUME NEW E \in SUBSET Edges
  PROVE  kruskal(E) = {Reach(E, x) : x \in Nodes}
<1>1. PICK F \in [0 .. Cells -> Sets] :
           /\ kruskal(E) = Partition(F[Cells].parent)
           /\ F[0] = NewSets
           /\ \A c \in 1 .. Cells :
                F[c] = IF Cell(c) \in E
                       THEN union_set(F[c - 1], Cell(c)[1], Cell(c)[2])
                       ELSE F[c - 1]
  BY KruskalRec, Zenon
<1>2. Cells \in Nat
  BY CellNodes, Zenon
<1> DEFINE R(n, x) == Root(F[n].parent, x)
           Ok(n) == /\ \A x \in Nodes : R(n, x) \in Reach(E, x)
                    /\ \A c \in 1 .. n : Cell(c) \in E =>
                         R(n, Cell(c)[1]) = R(n, Cell(c)[2])
           T == {n \in Nat : n <= Cells => Ok(n)}
<1>3. 0 \in T
  <2>1. \A x \in Nodes : R(0, x) = x /\ x \in Reach(E, x)
    BY <1>1, NewSetsForest, ReachLeast, Zenon
  <2> HIDE DEF R
  <2> QED BY <2>1, SMTT(30)
<1>4. ASSUME NEW n \in Nat, n \in T PROVE n + 1 \in T
  <2> SUFFICES ASSUME n + 1 <= Cells PROVE Ok(n + 1)
    BY SMTT(30)
  <2> DEFINE c == n + 1
             i == Cell(n + 1)[1]
             j == Cell(n + 1)[2]
  <2>1. /\ c \in 1 .. Cells /\ c - 1 = n /\ F[n] \in Sets
        /\ i \in Nodes /\ j \in Nodes /\ Ok(n)
        /\ 1 .. n + 1 = (1 .. n) \cup {n + 1}
    BY <1>2, <1>4, CellNodes, SMTT(30)
  <2>2. CASE Cell(c) \notin E
    <3>1. F[c] = F[n]
      BY <1>1, <2>1, <2>2, Zenon
    <3> QED BY <2>1, <2>2, <3>1, Zenon
  <2>3. CASE Cell(c) \in E
    <3>1. F[c] = union_set(F[n], i, j)
      BY <1>1, <2>1, <2>3, Zenon
    <3>2. PICK w \in {R(n, i), R(n, j)} :
            \A x \in Nodes : R(c, x) =
              IF R(n, x) \in {R(n, i), R(n, j)} THEN w ELSE R(n, x)
      <4> DEFINE d == F[n]
                 u == F[c]
      <4>1. d \in Sets /\ i \in Nodes /\ j \in Nodes /\ u = union_set(d, i, j)
        BY <2>1, <3>1, Zenon
      <4> HIDE DEF c, d, i, j, u
      <4>2. \E w \in {Root(d.parent, i), Root(d.parent, j)} :
              \A x \in Nodes : Root(union_set(d, i, j).parent, x) =
                IF Root(d.parent, x) \in {Root(d.parent, i), Root(d.parent, j)}
                THEN w ELSE Root(d.parent, x)
        BY Zenon, <4>1, UnionSet
      <4> QED BY <4>1, <4>2, Zenon DEF d, u
    <3>3. \A b \in 1 .. n : Cell(b)[1] \in Nodes /\ Cell(b)[2] \in Nodes
      BY <1>2, <2>1, CellNodes, SMTT(30)
    <3>4. /\ \A x \in Nodes : R(n, x) \in Reach(E, x)
          /\ \A b \in 1 .. n : Cell(b) \in E =>
               R(n, Cell(b)[1]) = R(n, Cell(b)[2])
      BY <2>1, Zenon
    <3>5. Reach(E, j) = Reach(E, i)
      <4>1. \A e \in E : e[1] \in Reach(E, i) <=> e[2] \in Reach(E, i)
        BY <2>1, ReachLeast, Zenon
      <4>2. i \in Reach(E, i)
        BY <2>1, ReachLeast, Zenon
      <4>3. j \in Reach(E, i)
        BY <2>3, <4>1, <4>2, Zenon
      <4> QED BY <2>1, <4>3, ReachSame, Zenon
    <3> HIDE DEF R
    <3>6. ASSUME NEW x \in Nodes PROVE R(c, x) \in Reach(E, x)
      <4>1. CASE R(n, x) \in {R(n, i), R(n, j)}
        <5>1. PICK y \in {i, j} : R(n, x) = R(n, y)
          BY <4>1, Zenon
        <5>2. Reach(E, y) = Reach(E, i) /\ y \in Nodes
          BY <2>1, <3>5, <5>1, Zenon
        <5>3. R(n, x) \in Reach(E, x) /\ R(n, x) \in Reach(E, y)
          BY <3>4, <5>1, <5>2, Zenon
        <5>4. Reach(E, x) = Reach(E, i)
          BY <5>2, <5>3, ReachSame, Zenon
        <5>5. w \in Reach(E, i)
          BY <2>1, <3>2, <3>4, <3>5, Zenon
        <5> QED BY <3>2, <4>1, <5>4, <5>5, Zenon
      <4>2. CASE R(n, x) \notin {R(n, i), R(n, j)}
        BY <3>2, <3>4, <4>2, Zenon
      <4> QED BY <4>1, <4>2, Zenon
    <3>7. ASSUME NEW b \in 1 .. c, Cell(b) \in E
          PROVE  R(c, Cell(b)[1]) = R(c, Cell(b)[2])
      <4>1. CASE b = c
        BY <2>1, <3>2, <4>1, Zenon
      <4>2. CASE b # c
        <5>1. b \in 1 .. n
          BY <2>1, <4>2, Zenon
        <5>2. R(n, Cell(b)[1]) = R(n, Cell(b)[2])
          BY <3>4, <3>7, <5>1, Zenon
        <5> QED BY <3>2, <3>3, <5>1, <5>2, Zenon
      <4> QED BY <4>1, <4>2, Zenon
    <3> QED BY <3>6, <3>7, Zenon
  <2> QED BY <2>2, <2>3, Zenon
<1>5. Nat \subseteq T
  <2> HIDE DEF T
  <2> QED BY <1>3, <1>4, SetInduction, Zenon
<1>6. Ok(Cells)
  <2> HIDE DEF Ok
  <2> QED BY <1>2, <1>5
<1>7. \A e \in E : R(Cells, e[1]) = R(Cells, e[2])
  <2> HIDE DEF R
  <2> QED BY <1>6, CellNodes, Zenon
<1>8. F[Cells] \in Sets
  BY <1>2
<1> QED BY <1>1, <1>6, <1>7, <1>8, PartitionReach, Zenon DEF Sets

(* The representatives of the next round. *)
LEMMA NextRepsTyped ==
  ASSUME to_merge \in [Nodes -> Seq(Nodes)], new_reps \in Seq(Nodes)
  PROVE  /\ NextReps \in Seq(Nodes)
         /\ Range(NextReps) =
              Range(new_reps) \cup {a \in Nodes : to_merge[a] # <<>>}
         /\ IsInjective(new_reps) => IsInjective(NextReps)
<1> DEFINE targets == {a \in Nodes : to_merge[a] # <<>>}
           all == [i \in 1 .. NumNodes |-> i - 1]
           s == Among(new_reps, Nodes \ targets)
           t == Among(all, targets)
<1>1. NextReps = s \o t
  BY Zenon DEF NextReps
<1>2. all \in Seq(Nodes) /\ Range(all) = Nodes /\ IsInjective(all)
  <2>1. NumNodes \in Nat
    BY BoruvkaAssumption, Zenon
  <2>2. all \in [1 .. NumNodes -> Nodes]
    BY <2>1 DEF Nodes
  <2>3. all \in Seq(Nodes)
    BY <2>1, <2>2
  <2>4. DOMAIN all = 1 .. NumNodes
    BY Zenon
  <2>5. \A v \in Nodes : v + 1 \in DOMAIN all /\ all[v + 1] = v
    BY <2>1 DEF Nodes
  <2>6. Range(all) = Nodes
    BY <2>2, <2>5, Zenon DEF Range
  <2>7. IsInjective(all)
    BY <2>1 DEF IsInjective
  <2> QED BY <2>3, <2>6, <2>7, Zenon
<1>3. Range(new_reps) \subseteq Nodes /\ targets \subseteq Nodes
  BY DEF Range
<1> HIDE DEF targets, all
<1>4. /\ s \in Seq(Nodes) /\ Range(s) = Range(new_reps) \cap (Nodes \ targets)
      /\ IsInjective(new_reps) => IsInjective(s)
  BY AmongSet, AmongInjective, Zenon
<1>5. /\ t \in Seq(Nodes) /\ Range(t) = targets /\ IsInjective(t)
  <2>1. t \in Seq(Nodes) /\ Range(t) = Nodes \cap targets
    BY <1>2, AmongSet, Zenon
  <2>2. IsInjective(t)
    BY <1>2, AmongInjective, Zenon
  <2> QED BY <1>3, <2>1, <2>2, Zenon
<1> HIDE DEF s, t
<1>6. /\ s \o t \in Seq(Nodes) /\ Range(s \o t) = Range(s) \cup Range(t)
      /\ IsInjective(s) /\ IsInjective(t) /\ Range(s) \cap Range(t) = {}
           => IsInjective(s \o t)
  BY <1>4, <1>5, ConcatSet
<1>7. Range(NextReps) = Range(new_reps) \cup targets
  BY <1>1, <1>3, <1>4, <1>5, <1>6, Zenon
<1>8. IsInjective(new_reps) => IsInjective(NextReps)
  BY <1>1, <1>4, <1>5, <1>6, Zenon
<1> QED BY <1>1, <1>6, <1>7, <1>8, Zenon DEF targets

(* The end of the reducing pass, with its backup to disk, keeps the types. *)
LEMMA LinkDoneTyped ==
  ASSUME TypeInv, LinkDone
  PROVE  TypeInv'
<1>1. /\ to_merge \in [Nodes -> Seq(Nodes)] /\ new_reps \in Seq(Nodes)
      /\ sk \in [Nodes -> [Sketches -> SUBSET Edges]]
  BY Zenon DEF TypeInv, TypeOK
<1>2. NextReps \in Seq(Nodes)
  BY <1>1, NextRepsTyped, Zenon
<1>3. /\ reps' = NextReps /\ k' = 1 /\ new_reps' = <<>> /\ pc' = "merge" /\ pc = "link"
      /\ query' = [v \in Nodes |-> Sampler!Zero]
      /\ UNCHANGED <<callVars, supernodeVars, forestVars, todo, to_merge, modified,
                     first_round, copies, thrown, resultVars>>
  BY Zenon DEF LinkDone
<1>4. k' \in 1 .. Len(reps') + 1 /\ reps' \in Seq(Nodes) /\ new_reps' \in Seq(Nodes)
  BY <1>2, <1>3
<1>5. DOMAIN query' = Nodes /\ \A v \in Nodes : query'[v] \in Sampler!Answers({})
  BY <1>3, Zenon DEF Sampler!Answers
<1>6. todo' = {}
  BY <1>3, Zenon DEF TypeInv
<1>7. /\ backed_up' \in Seq(Nodes) /\ DiskFits'
      /\ disk' \in [exists : BOOLEAN, data : Seq([Sketches -> SUBSET Edges])]
  <2>1. CASE UNCHANGED <<backed_up, disk>>
    BY <1>3, <2>1, Zenon DEF TypeInv, TypeOK, DiskFits, callVars, config
  <2>2. CASE backed_up' = NextReps /\ disk' = IF copy_in_mem THEN disk
                                             ELSE backup_to_disk(NextReps)
    <3> DEFINE data == [i \in DOMAIN NextReps |-> sk[NextReps[i]]]
    <3>1. data \in Seq([Sketches -> SUBSET Edges]) /\ DOMAIN data = DOMAIN NextReps
      <4> DEFINE S == [Sketches -> SUBSET Edges]
                 n == Len(NextReps)
      <4>1. n \in Nat /\ DOMAIN NextReps = 1 .. n /\ sk \in [Nodes -> S]
            /\ \A i \in 1 .. n : NextReps[i] \in Nodes
        BY <1>1, <1>2
      <4> HIDE DEF S, n
      <4>2. data \in [1 .. n -> S]
        BY <4>1, Zenon
      <4>3. data \in Seq(S)
        BY <4>1, <4>2
      <4> QED BY <4>3, Zenon DEF S
    <3>2. backup_to_disk(NextReps) = [exists |-> TRUE, data |-> data]
      BY Zenon DEF backup_to_disk
    <3> HIDE DEF data
    <3> QED BY <1>2, <1>3, <2>2, <3>1, <3>2, SMTT(30)
            DEF TypeInv, TypeOK, DiskFits, callVars, config
  <2> QED BY <2>1, <2>2, Zenon DEF LinkDone, BackUp
<1> QED BY <1>3, <1>4, <1>5, <1>6, <1>7, Zenon DEF TypeInv, TypeOK, callVars, config,
           supernodeVars, forestVars, resultVars

(* Every step keeps the types, given that the queried flags are right. *)
LEMMA TypeStep == TypeInv /\ QueryInv /\ [Next]_vars => TypeInv'
<1> SUFFICES ASSUME TypeInv, QueryInv, [Next]_vars PROVE TypeInv'
  BY Zenon
<1>1. QueryInv'
  BY QueryStep, Zenon
<1>2. CASE \E e \in Edges : Update(e)
  BY <1>2, UpdateTyped, Zenon
<1>3. CASE \E c \in BOOLEAN : Start(c)
  BY <1>3, StartTyped, Zenon
<1>4. CASE \E r \in Nodes : Sample(r)
  BY <1>4, SampleTyped, Zenon
<1>5. CASE LinkFail \/ LinkZero \/ LinkGood
  BY <1>1, <1>5, LinkTyped, Zenon
<1>6. CASE LinkDone
  BY <1>6, LinkDoneTyped, Zenon
<1>7. CASE \E a \in Nodes : Merge(a)
  BY <1>7, MergeTyped, Zenon
<1>8. CASE Cleanup
  BY <1>8, CleanupTyped, Zenon
<1> QED BY <1>1, <1>2, <1>3, <1>4, <1>5, <1>6, <1>7, <1>8, OtherTyped, Zenon
        DEF Next, Step, Finished

(* Types and queried flags hold in every reachable state. *)
LEMMA TypeInvariant == Spec => [](TypeInv /\ QueryInv)
<1>1. TypeInv /\ QueryInv /\ [Next]_vars => TypeInv' /\ QueryInv'
  BY TypeStep, QueryStep, Zenon
<1>2. Init => TypeInv /\ QueryInv
  BY TypeInit, QueryInit, Zenon
<1> QED BY <1>1, <1>2, PTL DEF Spec

(* The state of a query stays within its types: idx within the supernode's *)
(* sketches, the loops over representatives within the list, every list of *)
(* supernodes and every parent within the nodes, and backups complete      *)
(* supernodes, whatever the client does.                                   *)
THEOREM TypeCorrect == Spec => []TypeOK
<1>1. TypeInv => TypeOK
  BY Zenon DEF TypeInv
<1> QED BY <1>1, TypeInvariant, PTL

(* The client does not call connected_components(true) once it has called  *)
(* connected_components(false), which merges the supernodes for good.      *)
NoReuse == ~ReuseMerged

(* The start of a call: every node is a supernode, none has been queried. *)
LEMMA StartRounds ==
  ASSUME TypeInv, QueryInv, QueryInv', RoundsInv, NoReuse,
         NEW c \in BOOLEAN, Start(c)
  PROVE  RoundsInv'
<1>1. /\ pc = "idle" /\ (c /\ update_locked => ReuseMerged)
      /\ cont' = c /\ update_locked' = TRUE
      /\ verifier' = (IF update_locked THEN verifier ELSE reset_cc_state(edges))
      /\ reps' = [i \in 1 .. NumNodes |-> i - 1] /\ todo' = Nodes
      /\ first_round' = TRUE /\ backed_up' = <<>>
      /\ copies' = [v \in Nodes |-> NoCopy]
      /\ thrown' = "none" /\ pc' = "sample"
      /\ UNCHANGED <<edges, sk, idx, queried, parent, copy_in_mem, to_merge, disk>>
  BY Zenon DEF Start, supernodeVars, config
<1>2. Merged /\ Control /\ InStep /\ Restored /\ Sound
  BY Zenon DEF RoundsInv
<1>3. SameTrees
  BY <1>1, Zenon DEF SameTrees, Rt
<1>4. Range(reps') = Nodes /\ IsInjective(reps')
  <2>1. NumNodes \in Nat
    BY BoruvkaAssumption, Zenon
  <2>2. DOMAIN reps' = 1 .. NumNodes /\ \A i \in 1 .. NumNodes : reps'[i] = i - 1
    BY <1>1, Zenon
  <2>3. \A i \in 1 .. NumNodes : reps'[i] \in Nodes
    BY <2>1, <2>2 DEF Nodes
  <2>4. \A v \in Nodes : v + 1 \in 1 .. NumNodes /\ reps'[v + 1] = v
    BY <2>1, <2>2 DEF Nodes
  <2> QED BY <2>1, <2>2, <2>3, <2>4, SMTT(30) DEF Range, IsInjective
<1>5. Merged'
  <2>1. \A part : Sampled(part)'
    BY <1>1, <1>4, Zenon DEF Sampled
  <2>2. \A v \in Nodes : idx'[v] >= idx[v]
    BY <1>1, Typed, SMTT(30)
  <2> QED BY <1>1, <1>2, <1>3, <2>1, <2>2, Typed, KeepMerged, Zenon DEF QueryInv, UsedBelow
<1>6. Active'
  BY <1>1, <1>4, Zenon DEF Active
<1>7. Control'
  <2>1. to_merge' = NoMerges /\ \A a \in Nodes : to_merge'[a] = <<>>
    BY <1>1, <1>2, Zenon DEF Control, NoMerges
  <2> QED BY <1>1, <1>4, <2>1, Zenon DEF Control, VerifierAgrees
<1>8. InStep'
  <2>1. CASE update_locked
    BY <1>1, <1>2, <1>3, <2>1, KeepInStep, Zenon DEF InStep
  <2>2. CASE ~update_locked
    <3>1. /\ verifier' = [kruskal_ref |-> kruskal(edges), sets |-> NewSets,
                          boruvka_cc |-> [v \in Nodes |-> {v}]]
          /\ verifier'.sets = NewSets /\ verifier'.boruvka_cc = [v \in Nodes |-> {v}]
      BY <1>1, <2>2, Zenon DEF reset_cc_state
    <3>2. parent' = Identity
      BY <1>1, <1>2, <2>2, Zenon DEF Restored
    <3>3. \A v \in Nodes : Rt(v)' = v /\ VRt(v)' = v
      BY <3>1, <3>2, NewSetsForest, Zenon DEF Rt, VRt, NewSets
    <3>4. \A v \in Nodes : Tree(v)' = {v}
      BY <3>3, Zenon DEF Tree
    <3>5. SameSets'
      <4>2. \A x, y \in Nodes : VRt(x)' = VRt(y)' <=> Rt(x)' = Rt(y)'
        BY <3>3, Zenon
      <4>3. ASSUME NEW x \in Nodes
            PROVE  verifier'.boruvka_cc[VRt(x)'] = Tree(Rt(x))'
        <5>1. Tree(Rt(x))' = {y \in Nodes : Rt(y)' = Rt(x)'}
          BY Zenon DEF Tree
        <5>2. Tree(Rt(x))' = {x}
          BY <3>3, <5>1, Zenon
        <5> QED BY <3>1, <3>3, <5>2, Zenon
      <4> QED BY <4>2, <4>3, Zenon DEF SameSets
    <3>6. kruskal(edges) = Components
      BY Typed, KruskalComponents, ComponentReach, Zenon
    <3>7. Components' = Components
      BY <1>1, <1>3, KeepTrees, Zenon
    <3>8. NewSets \in Sets /\ [v \in Nodes |-> {v}] \in [Nodes -> SUBSET Nodes]
      BY NewSetsForest, Zenon
    <3> QED BY <3>1, <3>5, <3>6, <3>7, <3>8, Zenon DEF InStep, Verifiers
  <2> QED BY <2>1, <2>2, Zenon
<1>9. Backed'
  <2> SUFFICES ASSUME c PROVE Backups' /\ Listed'
    BY <1>1, Zenon DEF Backed
  <2>1. \A v \in Nodes : Intact(v)
    BY <1>1, <1>2, Zenon DEF NoReuse, Restored, Intact
  <2>2. \A v \in Nodes : Intact(v)'
    BY <1>1, <2>1, Zenon DEF Intact, Incident
  <2>3. DOMAIN backed_up' = {}
    BY <1>1
  <2> QED BY <1>1, <2>2, <2>3, Zenon DEF Backups, Listed
<1>10. Ready' /\ Restored' /\ Sound'
  BY <1>1, <1>2, <1>3, KeepTrees, Zenon DEF Ready, Restored
<1> QED BY <1>5, <1>6, <1>7, <1>8, <1>9, <1>10, Zenon DEF RoundsInv

(* The supernodes of the next round are chosen, and backed up if this is   *)
(* the first round.                                                        *)
LEMMA LinkDoneRounds ==
  ASSUME TypeInv, QueryInv, RoundsInv, LinkDone
  PROVE  RoundsInv'
<1>1. /\ pc = "link" /\ k > Len(reps) /\ reps' = NextReps /\ pc' = "merge"
      /\ IF cont /\ first_round
         THEN /\ backed_up' = NextReps
              /\ ~copy_in_mem => disk'.data = [i \in DOMAIN NextReps |-> sk[NextReps[i]]]
         ELSE UNCHANGED <<backed_up, disk>>
      /\ UNCHANGED <<edges, update_locked, copy_in_mem, cont, sk, idx, parent, verifier,
                     todo, to_merge, modified, first_round, copies, thrown>>
  BY DEF LinkDone, BackUp, backup_to_disk, callVars, config, supernodeVars, forestVars
<1>2. Merged /\ Active /\ Control /\ InStep /\ Backed /\ Sound
  BY Zenon DEF RoundsInv
<1>3. SameTrees
  BY <1>1, Zenon DEF SameTrees, Rt
<1>4. /\ NextReps \in Seq(Nodes)
      /\ Range(NextReps) = Range(new_reps) \cup {a \in Nodes : to_merge[a] # <<>>}
      /\ IsInjective(new_reps) => IsInjective(NextReps)
  BY Typed, NextRepsTyped, Zenon
<1>5. Chosen
  BY <1>1, <1>2, Zenon DEF Control
<1>6. Merged'
  <2>1. \A part : Sampled(part)'
    BY <1>1, Zenon DEF Sampled
  <2>2. idx' \in [Nodes -> Nat] /\ \A v \in Nodes : idx'[v] >= idx[v]
    BY <1>1, Typed
  <2> QED BY <1>1, <1>2, <1>3, <2>1, <2>2, Typed, KeepMerged, Zenon
<1>7. Active'
  <2> SUFFICES ASSUME NEW r \in Nodes, Live(r)' PROVE r \in Range(reps') /\ modified'
    BY <1>1, Zenon DEF Active
  <2>1. Live(r)
    BY <1>1, <1>3, KeepTrees, Zenon
  <2>2. ~Awaits(r)
    BY <1>1, Typed DEF Awaits
  <2>3. r \in Range(new_reps) \/ to_merge[r] # <<>>
    BY <1>1, <1>2, <2>1, <2>2, Zenon DEF Active
  <2>4. modified
    <3>1. Range(<<>>) = {} /\ NoMerges[r] = <<>>
      BY DEF Range, NoMerges
    <3> QED BY <1>5, <2>3, <3>1, Zenon DEF Chosen
  <2> QED BY <1>1, <1>4, <2>3, <2>4, Zenon
<1>8. Control'
  <2>1. IsInjective(reps')
    BY <1>1, <1>4, <1>5, Zenon DEF Chosen
  <2>2. \A a \in Nodes : to_merge'[a] # <<>> => a \in Range(reps')
    BY <1>1, <1>4, Zenon
  <2> QED BY <1>1, <1>2, <2>1, <2>2, Zenon DEF Control, VerifierAgrees
<1>9. InStep'
  BY <1>1, <1>2, <1>3, KeepInStep, Zenon
<1>10. Backed'
  <2> SUFFICES ASSUME cont PROVE Backups' /\ Range(reps') \subseteq Range(backed_up')
    BY <1>1, Zenon DEF Backed, Listed
  <2>1. Backups /\ Listed
    BY <1>1, <1>2, Zenon DEF Backed
  <2>2. \A v \in Nodes : Intact(v)' <=> Intact(v)
    BY <1>1, Zenon DEF Intact, Incident
  <2>3. CASE first_round
    <3>1. /\ backed_up' = NextReps
          /\ ~copy_in_mem => disk'.data = [i \in DOMAIN NextReps |-> sk[NextReps[i]]]
      BY <1>1, <2>3, Zenon
    <3>2. \A v \in Nodes : Intact(v)
      <4>1. Range(backed_up) = {}
        BY <1>1, <2>1, <2>3 DEF Listed, Range
      <4> QED BY <2>1, <4>1, Zenon DEF Backups
    <3>3. copy_in_mem => \A v \in Nodes :
            IF copies'[v] = NoCopy THEN Intact(v)'
            ELSE \A j \in Sketches : copies'[v].sk[j] = Incident(v)'
      <4>1. \A v : Incident(v)' = Incident(v)
        BY <1>1, Zenon DEF Incident
      <4> QED BY <1>1, <2>1, <2>2, <4>1, Zenon DEF Backups
    <3>4. ~copy_in_mem => \A i \in DOMAIN backed_up' : \A j \in Sketches :
             disk'.data[i][j] = Incident(backed_up[i])'
      <4>1. \A i : Incident(backed_up[i])' = Incident(NextReps[i])
        BY <1>1, <3>1, Zenon DEF Incident
      <4>2. ASSUME ~copy_in_mem, NEW i \in DOMAIN NextReps, NEW j \in Sketches
            PROVE  disk'.data[i][j] = Incident(NextReps[i])
        <5>1. NextReps[i] \in Nodes /\ disk'.data[i] = sk[NextReps[i]]
          BY <1>4, <3>1, <4>2
        <5> QED BY <3>2, <5>1, Zenon DEF Intact
      <4> QED BY <3>1, <4>1, <4>2
    <3>5. Backups'
      BY <1>1, <2>2, <3>2, <3>3, <3>4, Zenon DEF Backups
    <3> QED BY <1>1, <3>1, <3>5, Zenon
  <2>4. CASE ~first_round
    <3>1. UNCHANGED <<backed_up, disk>>
      BY <1>1, <2>4, Zenon
    <3>2. Backups'
      BY <1>1, <2>1, <3>1, KeepBackups, Zenon
    <3>3. Range(reps) \subseteq Range(backed_up)
      BY <1>1, <2>1, <2>4, Zenon DEF Listed
    <3>4. Range(new_reps) \subseteq Range(reps)
      <4>1. DOMAIN reps = 1 .. Len(reps) /\ k <= Len(reps) + 1 /\ k \in Nat /\ Len(reps) \in Nat
        BY Typed
      <4> QED BY <1>5, <4>1 DEF Chosen, Range
    <3>5. Range(reps') \subseteq Range(reps)
      BY <1>1, <1>2, <1>4, <3>4, Zenon DEF Control
    <3> QED BY <3>1, <3>2, <3>3, <3>5, Zenon
  <2> QED BY <2>3, <2>4, Zenon
<1>11. Ready' /\ Restored' /\ Sound'
  BY <1>1, <1>2, <1>3, KeepTrees, Zenon DEF Ready, Restored
<1> QED BY <1>6, <1>7, <1>8, <1>9, <1>10, <1>11, Zenon DEF RoundsInv

(* F lists the powers of b up to the n-th. *)
Powers(b, n, F) ==
  F \in [0 .. n -> Nat] /\ F[0] = 1 /\ \A i \in 1 .. n : F[i] = b * F[i - 1]

(* The recursive definition of the powers defines a function. *)
LEMMA PowerFacts ==
  ASSUME NEW b \in Nat
  PROVE  /\ Power(b)[0] = 1
         /\ \A n \in Nat : Power(b)[n] \in Nat /\ Power(b)[n + 1] = b * Power(b)[n]
<1>1. ASSUME NEW n \in Nat PROVE \E F : Powers(b, n, F)
  <2> DEFINE G == [t \in (1 .. n) \X Nat |-> b * t[2]]
  <2>1. G \in [(1 .. n) \X Nat -> Nat] /\ \A i \in 1 .. n, x \in Nat : G[<<i, x>>] = b * x
    OBVIOUS
  <2> HIDE DEF G
  <2>2. PICK F : Iterates(F, n, Nat, 1, G)
    BY <2>1, Recursion, Zenon
  <2>3. /\ F \in [0 .. n -> Nat] /\ F[0] = 1
        /\ \A i \in 1 .. n : F[i] = G[<<i, F[i - 1]>>]
    BY <2>2, Zenon DEF Iterates
  <2>4. ASSUME NEW i \in 1 .. n PROVE F[i] = b * F[i - 1]
    <3>1. i - 1 \in 0 .. n
      OBVIOUS
    <3>2. F[i - 1] \in Nat
      BY <2>3, <3>1, Zenon
    <3> QED BY <2>1, <2>3, <3>2, Zenon
  <2> QED BY <2>3, <2>4, Zenon DEF Powers
<1> DEFINE T == {i \in Nat : \A m, n \in Nat : \A F, H :
                   Powers(b, m, F) /\ Powers(b, n, H) /\ i <= m /\ i <= n => F[i] = H[i]}
<1>2. Nat \subseteq T
  <2>1. 0 \in T
    BY Zenon DEF Powers
  <2>2. ASSUME NEW i \in Nat, i \in T PROVE i + 1 \in T
    <3> SUFFICES ASSUME NEW m \in Nat, NEW n \in Nat, NEW F, NEW H,
                        Powers(b, m, F), Powers(b, n, H), i + 1 <= m, i + 1 <= n
                 PROVE  F[i + 1] = H[i + 1]
      OBVIOUS
    <3>1. F[i] = H[i]
      BY <2>2
    <3>2. i + 1 \in 1 .. m /\ i + 1 \in 1 .. n /\ (i + 1) - 1 = i
      OBVIOUS
    <3> QED BY <3>1, <3>2, Zenon DEF Powers
  <2> HIDE DEF T
  <2> QED BY <2>1, <2>2, SetInduction, Zenon
<1> DEFINE P(n) == CHOOSE F : Powers(b, n, F)
           g == [n \in Nat |-> P(n)[n]]
<1>3. \A n \in Nat : Powers(b, n, P(n))
  BY <1>1, Zenon
<1> HIDE DEF P
<1>4. g[0] = 1 /\ \A n \in Nat : g[n] \in Nat
  BY <1>3 DEF Powers
<1>5. ASSUME NEW n \in Nat PROVE g[n + 1] = b * g[n]
  <2>1. Powers(b, n, P(n)) /\ Powers(b, n + 1, P(n + 1))
    BY <1>3
  <2>2. P(n + 1)[n] = P(n)[n]
    BY <1>2, <2>1
  <2>3. n + 1 \in 1 .. n + 1 /\ (n + 1) - 1 = n
    OBVIOUS
  <2>4. P(n + 1)[n + 1] = b * P(n + 1)[n]
    BY <2>1, <2>3, Zenon DEF Powers
  <2> QED BY <2>2, <2>4
<1>6. g = [n \in Nat |-> IF n = 0 THEN 1 ELSE b * g[n - 1]]
  <2>1. ASSUME NEW n \in Nat PROVE g[n] = IF n = 0 THEN 1 ELSE b * g[n - 1]
    <3> HIDE DEF g
    <3>1. CASE n # 0
      <4>1. n - 1 \in Nat /\ (n - 1) + 1 = n
        BY <3>1
      <4> QED BY <1>5, <3>1, <4>1, Zenon
    <3> QED BY <1>4, <3>1, Zenon
  <2> QED BY <2>1, Zenon
<1> HIDE DEF g
<1> DEFINE h == Power(b)
<1>7. h = [n \in Nat |-> IF n = 0 THEN 1 ELSE b * h[n - 1]]
  BY <1>6, Zenon DEF Power
<1> HIDE DEF h
<1>8. h[0] = 1 /\ \A n \in Nat : h[n + 1] = b * h[n]
  BY <1>7
<1> DEFINE U == {n \in Nat : h[n] \in Nat}
<1>9. Nat \subseteq U
  <2>1. 0 \in U /\ \A n \in Nat : n \in U => n + 1 \in U
    BY <1>8
  <2> HIDE DEF U
  <2> QED BY <2>1, SetInduction, Zenon
<1> QED BY <1>8, <1>9, Zenon DEF h

(* A number is less than that power of two, and powers of two increase. *)
LEMMA PowerAbove ==
  \A n \in Nat : n < Power(2)[n] /\ Power(2)[n] <= Power(2)[2 * n]
<1> DEFINE p == Power(2)
           T == {n \in Nat : n < p[n] /\ p[n] <= p[2 * n]}
<1>1. p[0] = 1 /\ \A n \in Nat : p[n] \in Nat /\ p[n + 1] = 2 * p[n]
  BY PowerFacts, Zenon
<1> HIDE DEF p
<1>2. 0 \in T
  BY <1>1
<1>3. ASSUME NEW n \in Nat, n \in T PROVE n + 1 \in T
  <2>1. p[n + 1] = 2 * p[n] /\ p[n] \in Nat /\ p[2 * n] \in Nat
    BY <1>1
  <2>2. p[2 * n + 1] = 2 * p[2 * n] /\ p[2 * n + 1] \in Nat
    BY <1>1
  <2>3. p[(2 * n + 1) + 1] = 2 * p[2 * n + 1] /\ (2 * n + 1) + 1 = 2 * (n + 1)
    BY <1>1
  <2>4. n < p[n] /\ p[n] <= p[2 * n]
    BY <1>3, Zenon
  <2>5. n + 1 < p[n + 1] /\ p[n + 1] <= p[2 * (n + 1)]
    BY <2>1, <2>2, <2>3, <2>4
  <2> QED BY <2>5
<1>4. Nat \subseteq T
  <2> HIDE DEF T
  <2> QED BY <1>2, <1>3, SetInduction, Zenon
<1> QED BY <1>4, Zenon DEF p

(* From the second on, 3^(j + 1) is at most 2^(j + 1) * 2^j. *)
LEMMA PowersOfThree ==
  \A j \in Nat : j >= 2 => Power(3)[j + 1] <= Power(2)[j + 1] * Power(2)[j]
<1> DEFINE p == Power(2)
           q == Power(3)
           T == {i \in Nat : q[i + 3] <= p[i + 3] * p[i + 2]}
<1>1. /\ p[0] = 1 /\ \A n \in Nat : p[n] \in Nat /\ p[n + 1] = 2 * p[n]
      /\ q[0] = 1 /\ \A n \in Nat : q[n] \in Nat /\ q[n + 1] = 3 * q[n]
  BY PowerFacts, Zenon
<1> HIDE DEF p, q
<1>2. 0 \in T
  <2>1. p[1] = 2 /\ q[1] = 3
    <3>1. p[0 + 1] = 2 * p[0] /\ q[0 + 1] = 3 * q[0]
      BY <1>1, Zenon
    <3> QED BY <1>1, <3>1
  <2>2. p[2] = 4 /\ q[2] = 9
    <3>1. p[1 + 1] = 2 * p[1] /\ q[1 + 1] = 3 * q[1]
      BY <1>1, Zenon
    <3> QED BY <2>1, <3>1
  <2>3. p[3] = 8 /\ q[3] = 27
    <3>1. p[2 + 1] = 2 * p[2] /\ q[2 + 1] = 3 * q[2]
      BY <1>1, Zenon
    <3> QED BY <2>2, <3>1
  <2> QED BY <2>2, <2>3
<1>3. ASSUME NEW i \in Nat, i \in T PROVE i + 1 \in T
  <2>1. /\ i + 3 \in Nat /\ i + 2 \in Nat /\ (i + 3) + 1 = (i + 1) + 3
        /\ (i + 2) + 1 = (i + 1) + 2
    OBVIOUS
  <2>2. /\ p[(i + 1) + 3] = 2 * p[i + 3] /\ p[(i + 1) + 2] = 2 * p[i + 2]
        /\ q[(i + 1) + 3] = 3 * q[i + 3]
        /\ p[i + 3] \in Nat /\ p[i + 2] \in Nat /\ q[i + 3] \in Nat
    BY <1>1, <2>1, Zenon
  <2>3. q[i + 3] <= p[i + 3] * p[i + 2]
    BY <1>3, Zenon
  <2>4. \A x, y, z \in Nat : z <= x * y => 3 * z <= (2 * x) * (2 * y)
    OBVIOUS
  <2>5. q[(i + 1) + 3] <= p[(i + 1) + 3] * p[(i + 1) + 2]
    BY <2>2, <2>3, <2>4, Zenon
  <2> QED BY <2>5
<1>4. Nat \subseteq T
  <2> HIDE DEF T
  <2> QED BY <1>2, <1>3, SetInduction, Zenon
<1> SUFFICES ASSUME NEW j \in Nat, j >= 2 PROVE q[j + 1] <= p[j + 1] * p[j]
  BY Zenon DEF p, q
<1>5. j - 2 \in Nat /\ (j - 2) + 3 = j + 1 /\ (j - 2) + 2 = j
  OBVIOUS
<1> QED BY <1>4, <1>5, Zenon

(* A bounded set of numbers that is not empty has a greatest one. *)
LEMMA MaxIn ==
  ASSUME NEW S \in SUBSET Nat, S # {}, NEW m \in Nat, \A x \in S : x <= m
  PROVE  Max(S) \in S /\ \A y \in S : Max(S) >= y
<1> DEFINE T == {m - x : x \in S}
<1>0. \A x \in S : x \in Nat /\ m - x \in Nat
  <2> SUFFICES ASSUME NEW x \in S PROVE x \in Nat /\ m - x \in Nat
    BY Zenon
  <2>1. x \in Nat /\ x <= m
    BY Zenon
  <2> QED BY <2>1
<1>1. T \in SUBSET Nat /\ T # {}
  BY <1>0, Zenon
<1>2. PICK t \in T : \A y \in T : t <= y
  <2> HIDE DEF T
  <2> QED BY <1>1, LeastNat, Zenon
<1>3. PICK z \in S : t = m - z
  BY <1>2, Zenon
<1>4. \A y \in S : z >= y
  <2> SUFFICES ASSUME NEW y \in S PROVE z >= y
    BY Zenon
  <2>1. m - z <= m - y
    BY <1>2, <1>3, Zenon
  <2>2. z \in Nat /\ y \in Nat
    BY <1>0, Zenon
  <2> QED BY <2>1, <2>2
<1> HIDE DEF T
<1>5. \E x \in S : \A y \in S : x >= y
  BY <1>4, Zenon
<1> QED BY <1>5, Zenon DEF Max

(* Halving the number of trees as often as there are sketches leaves fewer *)
(* than one: supernode.cpp:8, from three nodes on.                         *)
LEMMA SketchCountPlenty ==
  \A n \in Nat : n >= 3 => SketchCount(n) \in Nat /\ n < Power(2)[SketchCount(n)]
<1> SUFFICES ASSUME NEW n \in Nat, n >= 3
             PROVE  SketchCount(n) \in Nat /\ n < Power(2)[SketchCount(n)]
  BY Zenon
<1> DEFINE p == Power(2)
           q == Power(3)
           S == {j \in 0 .. 2 * n : q[j] <= n * p[j]}
           c == SketchCount(n)
<1>1. /\ p[0] = 1 /\ \A i \in Nat : p[i] \in Nat /\ p[i + 1] = 2 * p[i]
      /\ q[0] = 1 /\ \A i \in Nat : q[i] \in Nat /\ q[i + 1] = 3 * q[i]
  BY PowerFacts, Zenon
<1>2. /\ \A i \in Nat : i >= 2 => q[i + 1] <= p[i + 1] * p[i]
      /\ \A i \in Nat : i < p[i] /\ p[i] <= p[2 * i]
      /\ c = Max(S)
  BY PowersOfThree, PowerAbove, Zenon DEF SketchCount
<1> HIDE DEF p, q, c
<1>3. 2 \in S
  <2>1. p[0 + 1] = 2 * p[0] /\ q[0 + 1] = 3 * q[0]
    BY <1>1, Zenon
  <2>2. p[1] = 2 /\ q[1] = 3
    BY <1>1, <2>1
  <2>3. p[1 + 1] = 2 * p[1] /\ q[1 + 1] = 3 * q[1]
    BY <1>1, Zenon
  <2>4. p[2] = 4 /\ q[2] = 9
    BY <2>2, <2>3
  <2> QED BY <2>4
<1>4. c \in S /\ \A y \in S : c >= y
  <2>1. S \in SUBSET Nat /\ S # {} /\ 2 * n \in Nat /\ \A x \in S : x <= 2 * n
    BY <1>3
  <2> HIDE DEF S
  <2> QED BY <1>2, <2>1, MaxIn, Zenon
<1>5. c \in 0 .. 2 * n /\ c >= 2 /\ c \in Nat
  BY <1>3, <1>4
<1>6. CASE c = 2 * n
  <2>1. n < p[n] /\ p[n] <= p[2 * n] /\ p[n] \in Nat /\ p[2 * n] \in Nat
    BY <1>1, <1>2
  <2> QED BY <1>5, <1>6, <2>1 DEF p, c
<1>7. CASE c # 2 * n
  <2>1. c + 1 \in 0 .. 2 * n /\ c + 1 \notin S
    BY <1>4, <1>5, <1>7
  <2>2. n * p[c + 1] < q[c + 1] /\ q[c + 1] <= p[c + 1] * p[c]
        /\ p[c] \in Nat /\ p[c + 1] \in Nat /\ q[c + 1] \in Nat
    <3>1. p[c] \in Nat /\ p[c + 1] \in Nat /\ q[c + 1] \in Nat
      BY <1>1, <1>5
    <3>2. q[c + 1] <= p[c + 1] * p[c]
      BY <1>2, <1>5, Zenon
    <3>3. ~(q[c + 1] <= n * p[c + 1])
      BY <2>1, Zenon
    <3>4. n * p[c + 1] \in Nat
      BY <3>1
    <3> QED BY <3>1, <3>2, <3>3, <3>4
  <2>3. \A x, y, z \in Nat : z * x < x * y => z < y
    OBVIOUS
  <2>4. n * p[c + 1] < p[c + 1] * p[c]
    BY <2>2
  <2>5. n < p[c]
    BY <2>2, <2>3, <2>4, Zenon
  <2> QED BY <1>5, <2>5, Zenon DEF p, c
<1> QED BY <1>6, <1>7, Zenon
=============================================================================
