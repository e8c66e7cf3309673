---------------------------- MODULE SketchProofs ----------------------------
(***************************************************************************)
(* Sketch for any indices, hashes and numbers of buckets: the buckets stay *)
(* linear in the set the sketch stands for, a query finds an index that    *)
(* some bucket isolates, and while no checksum collides the whole          *)
(* implements L0Sampler.                                                   *)
(***************************************************************************)
EXTENDS Sketch, FiniteSetTheorems, WellFoundedInduction, TLAPS

(* The number of elements in exactly one of two finite sets is odd if one  *)
(* of their sizes is and the other is not.                                 *)
LEMMA OddSymDiff ==
  ASSUME NEW A, NEW B, IsFiniteSet(A), IsFiniteSet(B)
  PROVE  Cardinality(SymDiff(A, B)) % 2 = 1
           <=> ~(Cardinality(A) % 2 = 1 <=> Cardinality(B) % 2 = 1)
<1> DEFINE K == Cardinality(A \cap B)
<1>1. /\ IsFiniteSet(A \ B) /\ Cardinality(A \ B) = Cardinality(A) - K
      /\ IsFiniteSet(B \ A) /\ Cardinality(B \ A) = Cardinality(B) - Cardinality(B \cap A)
  BY FS_Difference, Zenon
<1>2. B \cap A = A \cap B /\ (A \ B) \cap (B \ A) = {}
  BY Zenon
<1>3. Cardinality((A \ B) \cup (B \ A))
        = Cardinality(A \ B) + Cardinality(B \ A) - Cardinality({})
  BY <1>1, <1>2, FS_Union
<1>4. Cardinality({}) = 0
  BY FS_EmptySet, Zenon
<1>5. /\ Cardinality(A) \in Nat /\ Cardinality(B) \in Nat
      /\ Cardinality(A \ B) \in Nat /\ Cardinality(B \ A) \in Nat
  BY <1>1, FS_CardinalityType, Zenon
<1>6. IsFiniteSet(A \cap B)
  BY FS_Subset, Zenon
<1>7. K \in Nat
  BY <1>6, FS_CardinalityType, Zenon
<1>8. Cardinality(SymDiff(A, B)) = (Cardinality(A) - K) + (Cardinality(B) - K)
  <2> DEFINE D == A \ B
             E == B \ A
  <2>1. Cardinality(D) = Cardinality(A) - K /\ Cardinality(E) = Cardinality(B) - K
    BY <1>1, <1>2, Zenon
  <2>2. Cardinality(SymDiff(A, B)) = Cardinality(D) + Cardinality(E) - 0
    BY <1>3, <1>4, Zenon DEF SymDiff
  <2>3. Cardinality(D) \in Nat /\ Cardinality(E) \in Nat
    BY <1>5, Zenon
  <2> HIDE DEF D, E, K
  <2> QED
    BY <2>1, <2>2, <2>3
<1> HIDE DEF K
<1>9. \A x, y, k \in Nat : ((x - k) + (y - k)) % 2 = 1 <=> ~(x % 2 = 1 <=> y % 2 = 1)
  OBVIOUS
<1> QED
  BY <1>5, <1>7, <1>8, <1>9

(* A bit of an XOR. *)
LEMMA XorBit ==
  ASSUME NEW S, NEW h, IsFiniteSet(S), NEW b
  PROVE  b \in XorOf(S, h) <=> Cardinality({i \in S : b \in h[i]}) % 2 = 1
<1>1. CASE b \in UNION {h[i] : i \in S}
  BY <1>1, Zenon DEF XorOf
<1>2. CASE b \notin UNION {h[i] : i \in S}
  <2>1. {i \in S : b \in h[i]} = {}
    BY <1>2, Zenon
  <2>2. Cardinality({i \in S : b \in h[i]}) = 0
    BY <2>1, FS_EmptySet, Zenon
  <2> QED
    BY <1>2, <2>2 DEF XorOf
<1> QED
  BY <1>1, <1>2, Zenon

(* What is in two sets cancels in the XOR of their words. *)
LEMMA XorSum ==
  ASSUME NEW S, NEW T, NEW h, IsFiniteSet(S), IsFiniteSet(T)
  PROVE  XorOf(SymDiff(S, T), h) = SymDiff(XorOf(S, h), XorOf(T, h))
<1>1. IsFiniteSet(SymDiff(S, T))
  <2>1. IsFiniteSet(S \ T) /\ IsFiniteSet(T \ S)
    BY FS_Difference, Zenon
  <2> QED
    BY <2>1, FS_Union, Zenon DEF SymDiff
<1>2. ASSUME NEW b
      PROVE  b \in XorOf(SymDiff(S, T), h)
               <=> ~(b \in XorOf(S, h) <=> b \in XorOf(T, h))
  <2> DEFINE A(U) == {i \in U : b \in h[i]}
  <2>1. A(SymDiff(S, T)) = SymDiff(A(S), A(T))
    BY Zenon DEF SymDiff
  <2>2. IsFiniteSet(A(S)) /\ IsFiniteSet(A(T))
    BY FS_Subset, Zenon
  <2>3. Cardinality(A(SymDiff(S, T))) % 2 = 1
          <=> ~(Cardinality(A(S)) % 2 = 1 <=> Cardinality(A(T)) % 2 = 1)
    <3> HIDE DEF A
    <3> QED
      BY <2>1, <2>2, OddSymDiff
  <2>4. /\ b \in XorOf(SymDiff(S, T), h) <=> Cardinality(A(SymDiff(S, T))) % 2 = 1
        /\ b \in XorOf(S, h) <=> Cardinality(A(S)) % 2 = 1
        /\ b \in XorOf(T, h) <=> Cardinality(A(T)) % 2 = 1
    BY <1>1, XorBit
  <2> HIDE DEF A
  <2> QED
    BY <2>3, <2>4, Zenon
<1>3. SymDiff(XorOf(S, h), XorOf(T, h))
        = (XorOf(S, h) \ XorOf(T, h)) \cup (XorOf(T, h) \ XorOf(S, h))
  BY Zenon DEF SymDiff
<1> QED
  BY <1>2, <1>3, Zenon

(* The XOR of no word, and of one. *)
LEMMA XorSmall ==
  ASSUME NEW h
  PROVE  XorOf({}, h) = {} /\ \A i : XorOf({i}, h) = h[i]
<1>1. XorOf({}, h) = {}
  BY Zenon DEF XorOf
<1>2. ASSUME NEW i PROVE XorOf({i}, h) = h[i]
  <2>1. ASSUME NEW b \in h[i] PROVE b \in XorOf({i}, h)
    <3>1. {j \in {i} : b \in h[j]} = {i}
      BY <2>1, Zenon
    <3>2. Cardinality({j \in {i} : b \in h[j]}) % 2 = 1
      <4>1. Cardinality({j \in {i} : b \in h[j]}) = 1
        BY <3>1, FS_Singleton, Zenon
      <4> QED
        BY <4>1
    <3>3. IsFiniteSet({i})
      BY FS_Singleton, Zenon
    <3> QED
      BY <3>2, <3>3, XorBit, Zenon
  <2>2. XorOf({i}, h) \subseteq h[i]
    BY Zenon DEF XorOf
  <2> QED
    BY <2>1, <2>2, Zenon
<1> QED
  BY <1>1, <1>2, Zenon

(* Every nonempty set of numbers has a least one. *)
LEMMA MinIn ==
  ASSUME NEW T \in SUBSET Nat, T # {}
  PROVE  Min(T) \in T
<1> DEFINE R == {ss \in Nat \X Nat : ss[1] < ss[2]}
<1>1. IsWellFoundedOn(R, Nat)
  BY NatLessThanWellFounded, Zenon DEF OpToRel
<1>2. \A x, y \in Nat : ~(<<y, x>> \in R) => x =< y
  OBVIOUS
<1>3. PICK x \in T : \A y \in T : ~(<<y, x>> \in R)
  <2> HIDE DEF R
  <2> QED BY <1>1, WFMin, Zenon
<1>4. \E z \in T : \A y \in T : z =< y
  <2> HIDE DEF R
  <2> QED BY <1>2, <1>3, Zenon
<1> QED
  BY <1>4, Zenon DEF Min
-----------------------------------------------------------------------------
(* The buckets are what Linear says, and the sets are sets of indices. *)
SketchInv ==
  /\ content \in [Sketches -> SUBSET Ids]
  /\ already_queried \in [Sketches -> BOOLEAN]
  /\ bucket_a = [s \in Sketches |-> [b \in 0 .. Last |-> Bucket(In(s, b)).a]]
  /\ bucket_c = [s \in Sketches |-> [b \in 0 .. Last |-> Bucket(In(s, b)).c]]

(* The sum of two buckets is the bucket of the sum. *)
LEMMA BucketSum ==
  ASSUME NEW S \in SUBSET Ids, NEW T \in SUBSET Ids
  PROVE  /\ Bucket(SymDiff(S, T)).a = SymDiff(Bucket(S).a, Bucket(T).a)
         /\ Bucket(SymDiff(S, T)).c = SymDiff(Bucket(S).c, Bucket(T).c)
<1>1. IsFiniteSet(S) /\ IsFiniteSet(T)
  BY SketchAssumption, FS_Subset, Zenon
<1> QED
  BY <1>1, XorSum DEF Bucket

(* A bucket of nothing, and of a single index. *)
LEMMA BucketSmall ==
  /\ Bucket({}).a = {} /\ Bucket({}).c = {}
  /\ \A i \in Ids : Bucket({i}).a = i /\ Bucket({i}).c = IndexHash[i]
<1>1. /\ XorOf({}, [j \in Ids |-> j]) = {}
      /\ \A i : XorOf({i}, [j \in Ids |-> j]) = [j \in Ids |-> j][i]
  BY XorSmall, Zenon
<1>2. XorOf({}, IndexHash) = {} /\ \A i : XorOf({i}, IndexHash) = IndexHash[i]
  BY XorSmall, Zenon
<1>3. \A i \in Ids : [j \in Ids |-> j][i] = i
  BY Zenon
<1> QED
  BY <1>1, <1>2, <1>3, Zenon DEF Bucket

(* An index is added to a bucket, or taken from it. *)
LEMMA BucketToggle ==
  ASSUME NEW S \in SUBSET Ids, NEW i \in Ids
  PROVE  /\ Bucket(SymDiff(S, {i})).a = SymDiff(Bucket(S).a, i)
         /\ Bucket(SymDiff(S, {i})).c = SymDiff(Bucket(S).c, IndexHash[i])
<1>1. {i} \in SUBSET Ids
  BY Zenon
<1>2. /\ Bucket(SymDiff(S, {i})).a = SymDiff(Bucket(S).a, Bucket({i}).a)
      /\ Bucket(SymDiff(S, {i})).c = SymDiff(Bucket(S).c, Bucket({i}).c)
  BY <1>1, BucketSum, Zenon
<1> QED
  BY <1>2, BucketSmall, Zenon

(* The indices that hash into bucket b. *)
Share(b) ==
  IF b = Last THEN Ids
  ELSE {idx \in Ids : col_hash[b \div NumGuesses][idx] \cap (0 .. b % NumGuesses) = {}}

(* A bucket takes from the sketch's set what hashes into it. *)
LEMMA InShare ==
  ASSUME content \in [Sketches -> SUBSET Ids], NEW s \in Sketches, NEW b
  PROVE  In(s, b) = content[s] \cap Share(b) /\ In(s, b) \in SUBSET Ids
<1>1. content[s] \subseteq Ids
  BY Zenon
<1> QED
  BY <1>1, Zenon DEF In, Share

(* The loop of update ends at the bucket from which on the index is out. *)
LEMMA UpdateShare ==
  ASSUME NEW b, NEW idx \in Ids
  PROVE  InBucket(b, idx) <=> idx \in Share(b)
BY Zenon DEF InBucket, Share, contains

(* What a bucket sums after a step. *)
LEMMA NextShare ==
  ASSUME content' \in [Sketches -> SUBSET Ids], col_hash' = col_hash,
         NEW s \in Sketches, NEW b
  PROVE  In(s, b)' = content'[s] \cap Share(b)
<1>1. content'[s] \subseteq Ids
  BY Zenon
<1> QED
  BY <1>1, Zenon DEF In, Share, Last, NumElems

(* It is enough to look at the buckets one by one. *)
LEMMA BucketWise ==
  ASSUME content' \in [Sketches -> SUBSET Ids],
         already_queried' \in [Sketches -> BOOLEAN],
         bucket_a' = [s \in Sketches |-> [b \in 0 .. Last |-> bucket_a'[s][b]]],
         bucket_c' = [s \in Sketches |-> [b \in 0 .. Last |-> bucket_c'[s][b]]],
         \A s \in Sketches, b \in 0 .. Last :
           /\ bucket_a'[s][b] = Bucket(In(s, b)').a
           /\ bucket_c'[s][b] = Bucket(In(s, b)').c
  PROVE  SketchInv'
<1>1. bucket_a' = [s \in Sketches |-> [b \in 0 .. Last |-> Bucket(In(s, b)').a]]
  BY Zenon
<1>2. bucket_c' = [s \in Sketches |-> [b \in 0 .. Last |-> Bucket(In(s, b)').c]]
  BY Zenon
<1> QED
  BY <1>1, <1>2, Zenon DEF SketchInv, Bucket, Last, NumElems

(* update changes exactly the buckets that the index hashes into. *)
LEMMA UpdateLinear ==
  ASSUME SketchInv, NEW s \in Sketches, NEW idx \in Ids, update(s, idx)
  PROVE  SketchInv'
<1> DEFINE A == [t \in Sketches |-> [b \in 0 .. Last |->
                   IF t = s /\ InBucket(b, idx) THEN SymDiff(bucket_a[t][b], idx)
                   ELSE bucket_a[t][b]]]
           C == [t \in Sketches |-> [b \in 0 .. Last |->
                   IF t = s /\ InBucket(b, idx)
                   THEN SymDiff(bucket_c[t][b], IndexHash[idx])
                   ELSE bucket_c[t][b]]]
<1>0. /\ content \in [Sketches -> SUBSET Ids]
      /\ bucket_a = [t \in Sketches |-> [b \in 0 .. Last |-> Bucket(In(t, b)).a]]
      /\ bucket_c = [t \in Sketches |-> [b \in 0 .. Last |-> Bucket(In(t, b)).c]]
  BY Zenon DEF SketchInv
<1>1. content' \in [Sketches -> SUBSET Ids] /\ col_hash' = col_hash
      /\ already_queried' \in [Sketches -> BOOLEAN]
  BY Zenon DEF SketchInv, update, SymDiff
<1>2. bucket_a' = A
  <2>1. bucket_a' = [t \in Sketches |-> IF t = s
                      THEN [b \in 0 .. Last |->
                              IF InBucket(b, idx) THEN SymDiff(bucket_a[s][b], idx)
                              ELSE bucket_a[s][b]]
                      ELSE bucket_a[t]]
    BY <1>0, Zenon DEF update
  <2> QED
    BY <1>0, <2>1, Zenon
<1>3. bucket_c' = C
  <2>1. bucket_c' = [t \in Sketches |-> IF t = s
                      THEN [b \in 0 .. Last |->
                              IF InBucket(b, idx)
                              THEN SymDiff(bucket_c[s][b], IndexHash[idx])
                              ELSE bucket_c[s][b]]
                      ELSE bucket_c[t]]
    BY <1>0, Zenon DEF update
  <2> QED
    BY <1>0, <2>1, Zenon
<1>4. ASSUME NEW t \in Sketches, NEW b \in 0 .. Last
      PROVE  /\ bucket_a'[t][b] = Bucket(In(t, b)').a
             /\ bucket_c'[t][b] = Bucket(In(t, b)').c
  <2>1. /\ In(t, b) = content[t] \cap Share(b) /\ In(t, b) \in SUBSET Ids
        /\ In(t, b)' = content'[t] \cap Share(b)
    BY <1>0, <1>1, InShare, NextShare, Zenon
  <2>2. bucket_a[t][b] = Bucket(In(t, b)).a /\ bucket_c[t][b] = Bucket(In(t, b)).c
    BY <1>0, Zenon
  <2>3. InBucket(b, idx) <=> idx \in Share(b)
    BY UpdateShare, Zenon
  <2>4. content'[t] = IF t = s THEN SymDiff(content[t], {idx}) ELSE content[t]
    BY <1>0, Zenon DEF update
  <2>5. CASE t = s /\ InBucket(b, idx)
    <3>1. In(t, b)' = SymDiff(In(t, b), {idx})
      BY <2>1, <2>3, <2>4, <2>5, Zenon DEF SymDiff
    <3>2. /\ Bucket(In(t, b)').a = SymDiff(Bucket(In(t, b)).a, idx)
          /\ Bucket(In(t, b)').c = SymDiff(Bucket(In(t, b)).c, IndexHash[idx])
      <4>1. /\ Bucket(SymDiff(In(t, b), {idx})).a = SymDiff(Bucket(In(t, b)).a, idx)
            /\ Bucket(SymDiff(In(t, b), {idx})).c
                 = SymDiff(Bucket(In(t, b)).c, IndexHash[idx])
        BY <2>1, BucketToggle, Zenon
      <4> QED
        BY <3>1, <4>1, Zenon
    <3>3. /\ bucket_a'[t][b] = SymDiff(bucket_a[t][b], idx)
          /\ bucket_c'[t][b] = SymDiff(bucket_c[t][b], IndexHash[idx])
      BY <1>2, <1>3, <2>5, Zenon
    <3> QED
      BY <2>2, <3>2, <3>3, Zenon
  <2>6. CASE ~(t = s /\ InBucket(b, idx))
    <3>1. In(t, b)' = In(t, b)
      BY <2>1, <2>3, <2>4, <2>6, Zenon DEF SymDiff
    <3> QED
      BY <1>2, <1>3, <2>2, <2>6, <3>1, Zenon
  <2> QED
    BY <2>5, <2>6, Zenon
<1>5. bucket_a' = [t \in Sketches |-> [b \in 0 .. Last |-> bucket_a'[t][b]]]
  BY <1>2, Zenon
<1>6. bucket_c' = [t \in Sketches |-> [b \in 0 .. Last |-> bucket_c'[t][b]]]
  BY <1>3, Zenon
<1> HIDE DEF A, C
<1> QED
  BY <1>1, <1>4, <1>5, <1>6, BucketWise, Zenon

(* operator+= adds bucket by bucket. *)
LEMMA AddLinear ==
  ASSUME SketchInv, NEW s \in Sketches, NEW t \in Sketches, Add(s, t)
  PROVE  SketchInv'
<1>0. /\ content \in [Sketches -> SUBSET Ids]
      /\ bucket_a = [r \in Sketches |-> [b \in 0 .. Last |-> Bucket(In(r, b)).a]]
      /\ bucket_c = [r \in Sketches |-> [b \in 0 .. Last |-> Bucket(In(r, b)).c]]
  BY Zenon DEF SketchInv
<1>1. content' \in [Sketches -> SUBSET Ids] /\ col_hash' = col_hash
      /\ already_queried' \in [Sketches -> BOOLEAN]
  BY Zenon DEF SketchInv, Add, SymDiff
<1>2. bucket_a' = [r \in Sketches |-> IF r = s
                     THEN [b \in 0 .. Last |-> SymDiff(bucket_a[s][b], bucket_a[t][b])]
                     ELSE bucket_a[r]]
  BY <1>0, Zenon DEF Add
<1>3. bucket_c' = [r \in Sketches |-> IF r = s
                     THEN [b \in 0 .. Last |-> SymDiff(bucket_c[s][b], bucket_c[t][b])]
                     ELSE bucket_c[r]]
  BY <1>0, Zenon DEF Add
<1>4. ASSUME NEW r \in Sketches, NEW b \in 0 .. Last
      PROVE  /\ bucket_a'[r][b] = Bucket(In(r, b)').a
             /\ bucket_c'[r][b] = Bucket(In(r, b)').c
  <2>1. /\ In(r, b) = content[r] \cap Share(b) /\ In(r, b) \in SUBSET Ids
        /\ In(t, b) = content[t] \cap Share(b) /\ In(t, b) \in SUBSET Ids
        /\ In(r, b)' = content'[r] \cap Share(b)
    BY <1>0, <1>1, InShare, NextShare, Zenon
  <2>2. /\ bucket_a[r][b] = Bucket(In(r, b)).a /\ bucket_c[r][b] = Bucket(In(r, b)).c
        /\ bucket_a[t][b] = Bucket(In(t, b)).a /\ bucket_c[t][b] = Bucket(In(t, b)).c
    BY <1>0, Zenon
  <2>3. content'[r] = IF r = s THEN SymDiff(content[r], content[t]) ELSE content[r]
    BY <1>0, Zenon DEF Add
  <2>4. CASE r = s
    <3>1. In(r, b)' = SymDiff(In(r, b), In(t, b))
      BY <2>1, <2>3, <2>4, Zenon DEF SymDiff
    <3>2. /\ Bucket(SymDiff(In(r, b), In(t, b))).a
               = SymDiff(Bucket(In(r, b)).a, Bucket(In(t, b)).a)
          /\ Bucket(SymDiff(In(r, b), In(t, b))).c
               = SymDiff(Bucket(In(r, b)).c, Bucket(In(t, b)).c)
      BY <2>1, BucketSum, Zenon
    <3>3. /\ bucket_a'[r][b] = SymDiff(bucket_a[r][b], bucket_a[t][b])
          /\ bucket_c'[r][b] = SymDiff(bucket_c[r][b], bucket_c[t][b])
      BY <1>2, <1>3, <2>4, Zenon
    <3> QED
      BY <2>2, <3>1, <3>2, <3>3, Zenon
  <2>5. CASE r # s
    <3>1. In(r, b)' = In(r, b)
      BY <2>1, <2>3, <2>5, Zenon
    <3> QED
      BY <1>2, <1>3, <2>2, <2>5, <3>1, Zenon
  <2> QED
    BY <2>4, <2>5, Zenon
<1>5. bucket_a' = [r \in Sketches |-> [b \in 0 .. Last |-> bucket_a'[r][b]]]
  BY <1>0, <1>2, Zenon
<1>6. bucket_c' = [r \in Sketches |-> [b \in 0 .. Last |-> bucket_c'[r][b]]]
  BY <1>0, <1>3, Zenon
<1> QED
  BY <1>1, <1>4, <1>5, <1>6, BucketWise, Zenon

(* A copy has the buckets of its original. *)
LEMMA CopyLinear ==
  ASSUME SketchInv, NEW s \in Sketches, NEW t \in Sketches, Copy(s, t)
  PROVE  SketchInv'
<1>0. /\ content \in [Sketches -> SUBSET Ids]
      /\ bucket_a = [r \in Sketches |-> [b \in 0 .. Last |-> Bucket(In(r, b)).a]]
      /\ bucket_c = [r \in Sketches |-> [b \in 0 .. Last |-> Bucket(In(r, b)).c]]
  BY Zenon DEF SketchInv
<1>1. content' \in [Sketches -> SUBSET Ids] /\ col_hash' = col_hash
      /\ already_queried' \in [Sketches -> BOOLEAN]
  BY Zenon DEF SketchInv, Copy
<1>2. /\ bucket_a' = [r \in Sketches |-> bucket_a[IF r = s THEN t ELSE r]]
      /\ bucket_c' = [r \in Sketches |-> bucket_c[IF r = s THEN t ELSE r]]
  BY <1>0, Zenon DEF Copy
<1>4. ASSUME NEW r \in Sketches, NEW b \in 0 .. Last
      PROVE  /\ bucket_a'[r][b] = Bucket(In(r, b)').a
             /\ bucket_c'[r][b] = Bucket(In(r, b)').c
  <2>1. PICK q \in Sketches : q = IF r = s THEN t ELSE r
    BY Zenon
  <2>2. In(q, b) = content[q] \cap Share(b) /\ In(r, b)' = content'[r] \cap Share(b)
    BY <1>0, <1>1, InShare, NextShare, Zenon
  <2>3. content'[r] = content[q]
    BY <1>0, <2>1, Zenon DEF Copy
  <2> QED
    BY <1>0, <1>2, <2>1, <2>2, <2>3, Zenon
<1>5. bucket_a' = [r \in Sketches |-> [b \in 0 .. Last |-> bucket_a'[r][b]]]
  BY <1>0, <1>2, Zenon
<1>6. bucket_c' = [r \in Sketches |-> [b \in 0 .. Last |-> bucket_c'[r][b]]]
  BY <1>0, <1>2, Zenon
<1> QED
  BY <1>1, <1>4, <1>5, <1>6, BucketWise, Zenon

(* A step that leaves the buckets alone. *)
LEMMA StillLinear ==
  ASSUME SketchInv, already_queried' \in [Sketches -> BOOLEAN],
         UNCHANGED <<bucket_a, bucket_c, col_hash, content>>
  PROVE  SketchInv'
BY ZenonT(40) DEF SketchInv, In, Last, NumElems, Bucket

(* A new sketch is the sum of nothing. *)
LEMMA SketchInit ==
  ASSUME Init
  PROVE  SketchInv
<1>1. content = [s \in Sketches |-> {}]
  BY Zenon DEF Init
<1>2. \A s \in Sketches, b \in 0 .. Last : In(s, b) = {}
  BY <1>1, Zenon DEF In
<1>3. /\ bucket_a = [s \in Sketches |-> [b \in 0 .. Last |-> {}]]
      /\ bucket_c = [s \in Sketches |-> [b \in 0 .. Last |-> {}]]
      /\ already_queried \in [Sketches -> BOOLEAN]
  BY Zenon DEF Init, Zeroes
<1>4. [s \in Sketches |-> [b \in 0 .. Last |-> Bucket(In(s, b)).a]]
        = [s \in Sketches |-> [b \in 0 .. Last |-> {}]]
  BY <1>2, BucketSmall, Zenon
<1>5. [s \in Sketches |-> [b \in 0 .. Last |-> Bucket(In(s, b)).c]]
        = [s \in Sketches |-> [b \in 0 .. Last |-> {}]]
  BY <1>2, BucketSmall
<1> QED
  BY <1>1, <1>3, <1>4, <1>5, Zenon DEF SketchInv

(* However updates cancel, sketches are added, copied and queried. *)
LEMMA SketchInvariant == Spec => []SketchInv
<1>1. Init => SketchInv
  BY SketchInit, Zenon
<1>2. SketchInv /\ [Next]_vars => SketchInv'
  <2> SUFFICES ASSUME SketchInv, [Next]_vars PROVE SketchInv'
    BY Zenon
  <2>0. already_queried \in [Sketches -> BOOLEAN]
    BY Zenon DEF SketchInv
  <2>1. ASSUME NEW s \in Sketches, query(s) PROVE SketchInv'
    BY <2>0, <2>1, StillLinear, Zenon DEF query
  <2>2. ASSUME NEW s \in Sketches, reset_queried(s) PROVE SketchInv'
    BY <2>0, <2>2, StillLinear, Zenon DEF reset_queried
  <2>3. CASE UNCHANGED vars
    BY <2>0, <2>3, StillLinear, Zenon DEF vars
  <2> QED
    BY <2>1, <2>2, <2>3, UpdateLinear, AddLinear, CopyLinear, Zenon DEF Next
<1> QED
  BY <1>1, <1>2, PTL DEF Spec

(* However updates cancel and sketches are added and copied (sketch.cpp,   *)
(* update and operator+=), every bucket is the sum of exactly those        *)
(* indices of the sketch's set that hash into it.                          *)
THEOREM SketchLinear == Spec => []Linear
<1>1. SketchInv => Linear
  BY DEF SketchInv, Linear, Bucket
<1> QED
  BY <1>1, SketchInvariant, PTL
-----------------------------------------------------------------------------
(* What the buckets of s are. *)
LEMMA BucketOf ==
  ASSUME SketchInv, NEW s \in Sketches, NEW b \in 0 .. Last
  PROVE  /\ bucket_a[s][b] = Bucket(In(s, b)).a /\ bucket_c[s][b] = Bucket(In(s, b)).c
         /\ In(s, b) \in SUBSET Ids /\ In(s, b) \subseteq content[s]
         /\ IsFiniteSet(In(s, b))
<1>1. content \in [Sketches -> SUBSET Ids]
  BY Zenon DEF SketchInv
<1>2. In(s, b) = content[s] \cap Share(b) /\ In(s, b) \in SUBSET Ids
  BY <1>1, InShare, Zenon
<1>3. IsFiniteSet(In(s, b))
  BY <1>2, SketchAssumption, FS_Subset, Zenon
<1> QED
  BY <1>2, <1>3, Zenon DEF SketchInv

(* The last bucket is one of the buckets. *)
LEMMA LastBucket ==
  Last \in Nat /\ Last \in 0 .. Last /\ 0 .. Last - 1 \subseteq 0 .. Last
<1>1. NumBuckets \in Nat /\ NumGuesses \in Nat
  BY SketchAssumption
<1>2. NumBuckets * NumGuesses \in Nat
  BY <1>1
<1>3. Last = NumBuckets * NumGuesses
  BY <1>2 DEF Last, NumElems
<1> QED
  BY <1>2, <1>3

(* Without collisions, a bucket that passes the test holds a single index, *)
(* and is that index.                                                      *)
LEMMA GoodIsSingle ==
  ASSUME SketchInv, NoCollision, NEW s \in Sketches, NEW b \in 0 .. Last,
         is_good(s, b)
  PROVE  \E i \in content[s] : In(s, b) = {i} /\ bucket_a[s][b] = i
<1>1. bucket_c[s][b] = IndexHash[bucket_a[s][b]]
  BY Zenon DEF is_good
<1>2. Cardinality(In(s, b)) = 1
  BY <1>1, BucketOf, Zenon DEF NoCollision
<1>3. PICK i : In(s, b) = {i}
  BY <1>2, BucketOf, FS_Singleton, Zenon
<1>4. i \in Ids /\ i \in content[s]
  BY <1>3, BucketOf, Zenon
<1> QED
  BY <1>3, <1>4, BucketOf, BucketSmall

(* The answer of a query to a sketch not yet queried is one that the set   *)
(* allows: sketch.cpp, query.                                              *)
LEMMA SampleAnswers ==
  ASSUME SketchInv, NoCollision, NEW s \in Sketches
  PROVE  Sample(s) \in Promise!Answers(content[s])
<1> DEFINE good == {b \in 0 .. Last - 1 : is_good(s, b)}
<1>1. /\ In(s, Last) = content[s] /\ content[s] \in SUBSET Ids
      /\ bucket_a[s][Last] = Bucket(content[s]).a
      /\ bucket_c[s][Last] = Bucket(content[s]).c
  <2>1. In(s, Last) = content[s]
    BY Zenon DEF In
  <2> QED
    BY <2>1, BucketOf, LastBucket, Zenon
<1>2. CASE content[s] = {}
  BY <1>1, <1>2, BucketSmall, Zenon DEF Sample, Promise!Answers
<1>3. CASE content[s] # {}
  <2>1. ~(bucket_a[s][Last] = {} /\ bucket_c[s][Last] = {})
    <3>1. Bucket(content[s]) # Bucket({})
      BY <1>1, <1>3, LastBucket, Zenon DEF NoCollision
    <3>2. \A S, T : Bucket(S).a = Bucket(T).a /\ Bucket(S).c = Bucket(T).c
                      => Bucket(S) = Bucket(T)
      BY DEF Bucket
    <3>3. Bucket(content[s]).a # Bucket({}).a \/ Bucket(content[s]).c # Bucket({}).c
      BY <3>1, <3>2, Zenon
    <3>4. Bucket({}).a = {} /\ Bucket({}).c = {}
      BY BucketSmall, Zenon
    <3> QED
      BY <1>1, <3>3, <3>4, Zenon
  <2>2. CASE is_good(s, Last)
    <3>1. Sample(s) = Promise!Good(bucket_a[s][Last])
      BY <2>1, <2>2, Zenon DEF Sample
    <3>2. bucket_a[s][Last] \in content[s]
      BY <2>2, GoodIsSingle, LastBucket
    <3> QED
      BY <1>3, <3>1, <3>2, Zenon DEF Promise!Answers
  <2>3. CASE ~is_good(s, Last) /\ good # {}
    <3>1. Sample(s) = Promise!Good(bucket_a[s][Min(good)])
      BY <2>1, <2>3, Zenon DEF Sample
    <3>2. good \in SUBSET Nat
      BY LastBucket
    <3>3. Min(good) \in good
      <4> HIDE DEF good
      <4> QED
        BY <2>3, <3>2, MinIn, Zenon
    <3>4. PICK b \in 0 .. Last : b = Min(good) /\ is_good(s, b)
      BY <3>3, LastBucket, Zenon
    <3>5. bucket_a[s][b] \in content[s]
      BY <3>4, GoodIsSingle
    <3>6. Sample(s) = Promise!Good(bucket_a[s][b])
      BY <3>1, <3>4, Zenon
    <3> QED
      BY <1>3, <3>5, <3>6, Zenon DEF Promise!Answers
  <2>4. CASE ~is_good(s, Last) /\ good = {}
    <3>1. Sample(s) = Promise!Fail
      BY <2>1, <2>4, Zenon DEF Sample
    <3>2. \A i \in Ids : content[s] # {i}
      <4> SUFFICES ASSUME NEW i \in Ids, content[s] = {i} PROVE FALSE
        BY Zenon
      <4>1. bucket_a[s][Last] = i /\ bucket_c[s][Last] = IndexHash[i]
        BY <1>1, BucketSmall, Zenon
      <4> QED
        BY <2>4, <4>1, Zenon DEF is_good
    <3>3. \E i, j \in content[s] : i # j
      BY <1>1, <1>3, <3>2
    <3> QED
      BY <1>3, <3>1, <3>3, Zenon DEF Promise!Answers
  <2> QED
    BY <2>2, <2>3, <2>4, Zenon
<1> QED
  BY <1>2, <1>3, Zenon

(* As long as no guess reaches the sign bit of the mask 1 << j             *)
(* (sketch.cpp:92), a query fails only when no bucket holds a single       *)
(* index: every bucket's own index passes the test of is_good.             *)
THEOREM IsolatedIndexFound == NumGuesses < IntBits => (Spec => []IsolatedFound)
<1> SUFFICES ASSUME NumGuesses < IntBits PROVE Spec => []IsolatedFound
  BY Zenon
<1>1. SketchInv => IsolatedFound
  <2> SUFFICES ASSUME SketchInv, NEW s \in Sketches, NEW b \in 0 .. Last,
                      Cardinality(In(s, b)) = 1
               PROVE  Sample(s) # Promise!Fail
    BY Zenon DEF IsolatedFound
  <2>1. PICK i : In(s, b) = {i}
    BY BucketOf, FS_Singleton, Zenon
  <2>2. i \in Ids /\ bucket_a[s][b] = i /\ bucket_c[s][b] = IndexHash[i]
    BY <2>1, BucketOf, BucketSmall
  <2>3. b # Last => contains(col_hash[b \div NumGuesses][i],
                             guess_nonzero(b % NumGuesses))
    <3> HAVE b # Last
    <3>1. col_hash[b \div NumGuesses][i] \cap (0 .. b % NumGuesses) = {}
      BY <2>1, Zenon DEF In
    <3>2. NumBuckets \in Nat /\ NumGuesses \in Nat /\ IntBits \in Nat
      BY SketchAssumption
    <3>3. NumGuesses # 0
      <4>1. NumGuesses = 0 => NumBuckets * NumGuesses = 0
        BY <3>2
      <4>2. NumGuesses = 0 => Last = 0
        BY <4>1 DEF Last, NumElems
      <4> QED
        BY <4>2
    <3>4. b \in Nat
      BY LastBucket
    <3>5. b % NumGuesses \in 0 .. NumGuesses - 1
      BY <3>2, <3>3, <3>4
    <3>6. guess_nonzero(b % NumGuesses) = {b % NumGuesses}
      BY <3>2, <3>5 DEF guess_nonzero
    <3>7. b % NumGuesses \in 0 .. b % NumGuesses
      BY <3>5
    <3> QED
      BY <3>1, <3>6, <3>7, Zenon DEF contains
  <2>4. is_good(s, b)
    BY <2>2, <2>3, Zenon DEF is_good
  <2>5. b = Last \/ b \in {c \in 0 .. Last - 1 : is_good(s, c)}
    BY <2>4, LastBucket
  <2> QED
    BY <2>4, <2>5, Zenon DEF Sample, Promise!Fail, Promise!Good, Promise!Zero
<1> QED
  BY <1>1, SketchInvariant, PTL

(* As long as no checksum collides in a bucket that occurs, the buckets    *)
(* implement an l0-sampler, whatever the hashes of the columns are and     *)
(* however many guesses they have: an answer is an index of the set, the   *)
(* empty set and a single index are recognised, and a sketch is not        *)
(* queried twice.  Sets that no bucket ever holds may collide.             *)
THEOREM SamplerImplemented == Spec /\ []NoCollision => ImplementsSampler
<1>1. Init => Promise!Init
  BY Zenon DEF Init, Promise!Init, Promise!Zero
<1>2. SketchInv /\ NoCollision /\ [Next]_vars
        => [Promise!Next]_<<content, already_queried, result>>
  <2> SUFFICES ASSUME SketchInv, NoCollision, [Next]_vars
               PROVE  [Promise!Next]_<<content, already_queried, result>>
    BY Zenon
  <2>1. ASSUME NEW s \in Sketches, NEW idx \in Ids, update(s, idx)
        PROVE  Promise!Next
    <3>1. Promise!Update(s, idx)
      BY <2>1, Zenon DEF update, Promise!Update, Promise!Xor, SymDiff
    <3> QED
      BY <3>1, Zenon DEF Promise!Next
  <2>2. ASSUME NEW s \in Sketches, NEW t \in Sketches \ {s}, Add(s, t)
        PROVE  Promise!Next
    <3>1. Promise!Add(s, t)
      BY <2>2, Zenon DEF Add, Promise!Add, Promise!Xor, SymDiff
    <3> QED
      BY <3>1, Zenon DEF Promise!Next
  <2>3. ASSUME NEW s \in Sketches, NEW t \in Sketches \ {s}, Copy(s, t)
        PROVE  Promise!Next
    <3>1. Promise!Copy(s, t)
      BY <2>3, Zenon DEF Copy, Promise!Copy
    <3> QED
      BY <3>1, Zenon DEF Promise!Next
  <2>4. ASSUME NEW s \in Sketches, query(s)
        PROVE  Promise!Next
    <3>1. Promise!Query(s)
      BY <2>4, SampleAnswers, Zenon DEF query, Promise!Query
    <3> QED
      BY <3>1, Zenon DEF Promise!Next
  <2>5. ASSUME NEW s \in Sketches, reset_queried(s)
        PROVE  Promise!Next
    <3>1. Promise!ResetQueried(s)
      BY <2>5, Zenon DEF reset_queried, Promise!ResetQueried
    <3> QED
      BY <3>1, Zenon DEF Promise!Next
  <2>6. CASE UNCHANGED vars
    BY <2>6, Zenon DEF vars
  <2> QED
    BY <2>1, <2>2, <2>3, <2>4, <2>5, <2>6, Zenon DEF Next
<1> QED
  BY <1>1, <1>2, SketchInvariant, PTL DEF Spec, ImplementsSampler, Promise!Spec
=============================================================================
