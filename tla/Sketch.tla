------------------------------- MODULE Sketch -------------------------------
(***************************************************************************)
(* Sketch and Bucket_Boruvka: an l0-sampler made of buckets.  A bucket is  *)
(* the XOR a of the indices in it and the XOR c of their checksums.  The   *)
(* last bucket of a sketch contains every index; bucket i * num_guesses +  *)
(* j those whose hash in column i has its bits 0 .. j all zero.            *)
(*                                                                         *)
(* A machine word is the set of the positions of its one bits: 0 is {},    *)
(* ^ is SymDiff, & is \cap and 1 << j is {j}.                              *)
(*                                                                         *)
(* The hashes are parameters: IndexHash any function, and col_hash any of  *)
(* ColHashes.  What a query relies on, that the checksums of the sets in   *)
(* the buckets do not collide, is NoCollision below.  All sketches have    *)
(* one seed.                                                               *)
(*                                                                         *)
(* Where its comments disagree with the code, this module follows the      *)
(* code.  contains is true when the tested bit of the hash is zero, not    *)
(* "if the index is NOT hashed to zero" (bucket.h:30).  As bits 0 .. j     *)
(* must be zero, bucket j of a column contains an index with probability   *)
(* 1/2^(j+1), not "1/2^j" (sketch.h:53): the bucket that contains every    *)
(* index is the deterministic one, and none of a column.                   *)
(***************************************************************************)
EXTENDS Naturals, FiniteSets, FiniteSetsExt

CONSTANTS
  Ids, Sketches,           \* the indices, which are words
  NumBuckets, NumGuesses,  \* columns, and buckets in a column
  IndexHash,               \* IndexHash[a]: vec_hash
  ColHashes,               \* choices of [columns -> [indices -> hashes]]
  IntBits, ColBits         \* width of int, and of col_hash_t

NumElems == NumBuckets * NumGuesses + 1
Last == NumElems - 1

(* The XOR of the words h[i] for the i in S: a bit of it is set if it is   *)
(* set in an odd number of them.                                           *)
XorOf(S, h) ==
  {b \in UNION {h[i] : i \in S} : Cardinality({i \in S : b \in h[i]}) % 2 = 1}

(* What a bucket is when the indices of S are in it. *)
Bucket(S) == [a |-> XorOf(S, [i \in Ids |-> i]), c |-> XorOf(S, IndexHash)]

ASSUME SketchAssumption ==
  /\ NumBuckets \in Nat /\ IntBits \in Nat /\ NumGuesses \in 0 .. IntBits
  /\ IsFiniteSet(Ids)

VARIABLES
  bucket_a, bucket_c,  \* bucket_a[s][b]
  already_queried,     \* already_queried[s]
  col_hash,            \* col_hash[i][idx], fixed
  result,              \* what the last query of any sketch returned
  content              \* history: the indices updated an odd number of times

vars == <<bucket_a, bucket_c, already_queried, col_hash, result, content>>

(* What the buckets implement. *)
Promise == INSTANCE L0Sampler WITH
  NoIdx <- {}, MayFail <- TRUE, queried <- already_queried

Zeroes == [b \in 0 .. Last |-> {}]

contains(hash, mask) == hash \cap mask = {}

(* Faulty: the bits below the last are not looked at. *)
InBucketByOneBit(b, idx) ==
  \/ b = Last
  \/ contains(col_hash[b \div NumGuesses][idx], {b % NumGuesses})

(* update gives bucket j of a column the index unless the loop over the    *)
(* guesses ends before.                                                    *)
InBucket(b, idx) ==
  \/ b = Last
  \/ \A l \in 0 .. b % NumGuesses :
       contains(col_hash[b \div NumGuesses][idx], {l})

(* Faulty: the mask of the next guess. *)
guess_after(j) == {j + 1}

(* query's mask 1 << j is an int, whose sign bit is extended. *)
guess_nonzero(j) == IF j = IntBits - 1 THEN j .. ColBits - 1 ELSE {j}

is_good(s, b) ==
  LET a == bucket_a[s][b]
  IN  /\ bucket_c[s][b] = IndexHash[a]
      /\ b # Last => contains(col_hash[b \div NumGuesses][a],
                              guess_nonzero(b % NumGuesses))

(* Faulty: the deterministic bucket only tells the empty set. *)
SampleColumns(s) ==
  LET good == {b \in 0 .. Last - 1 : is_good(s, b)}
  IN  IF bucket_a[s][Last] = {} /\ bucket_c[s][Last] = {} THEN Promise!Zero
      ELSE IF good # {} THEN Promise!Good(bucket_a[s][Min(good)])
      ELSE Promise!Fail

(* The deterministic bucket first, then the columns in order. *)
Sample(s) ==
  LET good == {b \in 0 .. Last - 1 : is_good(s, b)}
  IN  IF bucket_a[s][Last] = {} /\ bucket_c[s][Last] = {} THEN Promise!Zero
      ELSE IF is_good(s, Last) THEN Promise!Good(bucket_a[s][Last])
      ELSE IF good # {} THEN Promise!Good(bucket_a[s][Min(good)])
      ELSE Promise!Fail
-----------------------------------------------------------------------------
Init ==
  /\ bucket_a = [s \in Sketches |-> Zeroes]
  /\ bucket_c = [s \in Sketches |-> Zeroes]
  /\ already_queried = [s \in Sketches |-> FALSE]
  /\ col_hash \in ColHashes /\ result = Promise!Zero
  /\ content = [s \in Sketches |-> {}]

update(s, idx) ==
  /\ bucket_a' = [bucket_a EXCEPT ![s] = [b \in 0 .. Last |->
                    IF InBucket(b, idx) THEN SymDiff(@[b], idx) ELSE @[b]]]
  /\ bucket_c' = [bucket_c EXCEPT ![s] = [b \in 0 .. Last |->
                    IF InBucket(b, idx) THEN SymDiff(@[b], IndexHash[idx])
                    ELSE @[b]]]
  /\ content' = [content EXCEPT ![s] = SymDiff(@, {idx})]
  /\ UNCHANGED <<already_queried, col_hash, result>>

(* operator+=: the flag of either sketch counts. *)
Add(s, t) ==
  /\ bucket_a' = [bucket_a EXCEPT ![s] =
                    [b \in 0 .. Last |-> SymDiff(@[b], bucket_a[t][b])]]
  /\ bucket_c' = [bucket_c EXCEPT ![s] =
                    [b \in 0 .. Last |-> SymDiff(@[b], bucket_c[t][b])]]
  /\ already_queried' = [already_queried EXCEPT ![s] = @ \/ already_queried[t]]
  /\ content' = [content EXCEPT ![s] = SymDiff(@, content[t])]
  /\ UNCHANGED <<col_hash, result>>

(* A sketch made from another, by the copy constructor or from what        *)
(* write_binary wrote: already_queried starts as false.                    *)
Copy(s, t) ==
  /\ bucket_a' = [bucket_a EXCEPT ![s] = bucket_a[t]]
  /\ bucket_c' = [bucket_c EXCEPT ![s] = bucket_c[t]]
  /\ content' = [content EXCEPT ![s] = content[t]]
  /\ already_queried' = [already_queried EXCEPT ![s] = FALSE]
  /\ UNCHANGED <<col_hash, result>>

query(s) ==
  /\ result' = IF already_queried[s] THEN Promise!Thrown ELSE Sample(s)
  /\ already_queried' = [already_queried EXCEPT ![s] = TRUE]
  /\ UNCHANGED <<bucket_a, bucket_c, col_hash, content>>

reset_queried(s) ==
  /\ already_queried' = [already_queried EXCEPT ![s] = FALSE]
  /\ UNCHANGED <<bucket_a, bucket_c, col_hash, result, content>>

Next ==
  \E s \in Sketches :
    \/ \E idx \in Ids : update(s, idx)
    \/ \E t \in Sketches \ {s} : Add(s, t) \/ Copy(s, t)
    \/ query(s) \/ reset_queried(s)

Spec == Init /\ [][Next]_vars
-----------------------------------------------------------------------------
(* The indices of s that belong in bucket b: those whose hash is divisible *)
(* by 2^(j + 1), half of those that bucket j - 1 contains.                 *)
In(s, b) ==
  IF b = Last THEN content[s]
  ELSE {idx \in content[s] :
          col_hash[b \div NumGuesses][idx] \cap (0 .. b % NumGuesses) = {}}

(* However updates cancel, sketches are added and copied, every bucket is  *)
(* the sum of exactly those indices of the sketch's set that hash into it. *)
Linear ==
  \A s \in Sketches, b \in 0 .. Last :
    [a |-> bucket_a[s][b], c |-> bucket_c[s][b]] = Bucket(In(s, b))

(* A query that could succeed does: it fails only when no bucket holds a   *)
(* single index ("use guess_nonzero (power of 2) to check ith bit",        *)
(* bucket.h:73, lets every bucket's own index pass).                       *)
IsolatedFound ==
  \A s \in Sketches : Sample(s) = Promise!Fail =>
    \A b \in 0 .. Last : Cardinality(In(s, b)) # 1

(* No checksum collides in the buckets as they are: a set that is not      *)
(* empty does not look so, and only a single index has the checksum of the *)
(* XOR of the indices.  A hash of 32 bits cannot give this for every set   *)
(* of indices, but it does for those that occur with high probability.     *)
NoCollision ==
  \A s \in Sketches, b \in 0 .. Last :
    LET S == In(s, b)
    IN  /\ S # {} => Bucket(S) # Bucket({})
        /\ Cardinality(S) # 1 => Bucket(S).c # IndexHash[Bucket(S).a]

(* Buckets implement the promise of an l0-sampler. *)
ImplementsSampler == Promise!Spec
=============================================================================
