# A TLA+ model of the streaming connected-components library

The library keeps, for each node of a graph given as a stream of edge insertions
and deletions, a *supernode*: a set of linear l0-sampling sketches of the edges
at that node. `connected_components` runs Boruvka's algorithm on the sketches.
These modules model the stream readers, ingestion, the worker pool, the life cycle
of a `Graph`, the algorithm, the sketches and the verifier of the tests. They are
checked with TLC on small instances, and the safety properties are proved with
TLAPS for every instance. Paths are relative to the repository.

## 1. Inventory

| Part | State | Operations | Interacts with |
|---|---|---|---|
| Binary streams (`include/binary_graph_stream.h`) | shared offset, per-reader buffer | `get_edge`, `read_data` | inserters |
| `Graph` (`src/graph.cpp`, `include/graph.h`) | `supernodes`, `parent`, `size`, `update_locked`, `num_updates`, static `open_graph` | two constructors, `update`, `batch_update`, `connected_components`, `write_binary`, destructor | everything below |
| `GraphWorker` (`src/graph_worker.cpp`) | static `shutdown`, `paused`, `pause_lock`, `pause_condition`; per worker `thr_paused`, `delta_node` | `start/stop/pause/unpause_workers`, `do_work` | `Graph::batch_update`, guttering system |
| Guttering system (external library) | gutters, bounded work queue, non-blocking flag | `insert`, `force_flush`, `get_data`, `get_data_callback`, `set_non_block` | inserters, workers |
| Boruvka (`src/graph.cpp:126-371`) | representatives, pending merges, forest, backups | `sample_supernodes`, `supernodes_to_merge`, `merge_supernodes`, `boruvka_emulation`, `backup_to_disk`, `restore_from_disk`, `get_parent` | supernodes, while the workers sleep |
| `Supernode` (`src/supernode.cpp`) | sketches, `idx`, `node_mt` | `sample`, `merge`, `apply_delta_update`, `reset_query_state`, copy, `write_binary` | Boruvka, workers |
| `Sketch`, `Bucket` (`src/l0_sampling/sketch.cpp`, `include/bucket.h`) | buckets, `already_queried` | `update`, `query`, `+=`, copy, `write_binary`, `reset_queried` | supernodes |
| `DisjointSetUnion` (`include/dsu.h`) | `parent`, `size` | `find_set`, `link`, `union_set` | verifiers |
| Verifiers (`test/util`) | own forest, component sets, reference components | `reset_cc_state`, `verify_edge`, `verify_cc`, `kruskal` | called by Boruvka in tests |
| `configure_system`, edge encoding (`src/util.cpp`) | none kept | parsing; pairing function | constructors, sketches |
| Generators, tools | | measurement support | |

What is hard here: several inserters, several workers and one calling thread
share flags that are partly read and written without the mutex; a query must see
every update and run while no worker touches a supernode; a query that fails
half-way must leave the graph as it was; sketches can be sampled only once, and
sampling can fail; readers share a file through one offset. `PROJECT.json` lists
the hazards line by line.

## 2. Modules

| Module | Models |
|---|---|
| `BinaryGraphStream` | both stream classes and the concurrent readers |
| `GutteringSystem` | the external buffering library, from how it is called |
| `GraphWorker` (extends it) | `do_work` step by step and the four static functions |
| `Graph` (extends it) | `update`, `batch_update`, constructors, the synchronisation of queries and dumps, the destructor |
| `ConnectedComponents` | abstract: what a `Graph` promises its client |
| `DisjointSetUnion` | `find_set`, `link`, `union_set` |
| `GraphVerifier` (extends it) | `MatGraphVerifier` |
| `Boruvka` (extends it) | the algorithm, backup and restore, with the verifier attached; implements `ConnectedComponents` |
| `L0Sampler` | abstract: what a sketch promises |
| `Sketch` | buckets, hashes and queries; implements `L0Sampler` |
| `GraphProofs`, `IngestProofs` (extends it) | theorems about `Graph` |
| `BoruvkaProofs`, `LinkProofs` and `ForestProofs` (extend it), `RoundsProofs` (extends both) | theorems about `Boruvka` and the verifier |
| `StreamProofs` | theorems about `BinaryGraphStream` |
| `SketchProofs` | theorems about `Sketch` |
| `MCGraph`, `MCBoruvka`, `MCSketch` | symmetry, initial graphs, sketch counts and hashes for TLC |

**Data.** In `Sketch` a bucket is the XOR of indices and the XOR of their
checksums, as in the code. A machine word is the set of the positions of its one
bits, so that `^` is symmetric difference, `&` intersection and `1 << j` is `{j}`, and
the XOR of several words has the bits that are set in an odd number of them. The hashes are parameters: the
checksums are any function, column hashes any of a given set. As long as no checksum
collides in a bucket (`NoCollision`), `Sketch` is shown to implement
`L0Sampler`, in which a sketch is just the set of the indices in it, adding is
symmetric difference, and a query gives ZERO for the empty set, the index for a
singleton, and otherwise any index of the set or FAIL. `Boruvka` takes its answers
from the same `L0Sampler`. In `Graph` all sketches of a supernode are equal and
one set stands for them; in `Boruvka` each sketch has its own set, because merging
adds only the sketches that are left.

**Streams (`BinaryGraphStream`).** A byte is its offset in the file, so that what
`get_edge` decodes tells where its nine bytes came from: a record, or a mixture
(`Torn`). A reader claims a block with the atomic `fetch_add` (`Claim`), reads it
in one or more `pread`s (`Pread`), and resets its buffer (`Refilled`); other readers
run in between. `ShortReads` lets `pread` return less than it could, `Polls` lets a
client call `get_edge` again after `END_OF_FILE`.

**Threads (`Graph`).** `wpc[w]` is the worker's position in `do_work`, `mpc` the
caller's, `pend[i]` the inserts that inserter `i`'s `update` has still to do.
Everything between two accesses to shared state is one step. A worker inside
`pause_condition.wait` evaluates the predicate and falls asleep in two steps
(`Predicate`, `Sleep`), because the flags are changed and the condition variable
is notified without `pause_lock`. The caller's own `wait_for` loops re-evaluate at
least every 500 ms, so each is an await. `+=` on a supernode is a read
(`ApplyDelta`) and a write (`StoreDelta`) under `node_mt`. A new worker's
`thr_paused` is an arbitrary value until its constructor has finished.

**Client.** `ClientMay` says which unusual uses the client makes: updates while
the workers are paused after a dump, updates during a query, destruction with
unqueried updates, queries after an in-place merge. The empty set is the client
the tests and tools of the repository are. In `Boruvka` the last of these uses is
the constant `ReuseMerged`.

**Boruvka.** One step per sampled representative, per linked representative, per
copied and per merged supernode; samples and merges of a round interleave as the
OMP loops allow. Both kinds of backup (`copy_in_mem`) and the tests' induced failure
(`fail_round_2`) are chosen initially. `get_parent` and `find_set` are defined by the
nodes they visit (the least set closed under `parent`), with their path compression.
Sizes are counted modulo `SizeRange`, which stands for 2^32: `union_set` links a root
with itself when an edge is redundant and doubles its size, so that the verifier's
sizes wrap around.

Operators with a comment that starts "Faulty:" are variants of the definition
that follows them with one plausible mistake. They are in no specification; each
shows that some property notices that mistake.

## 3. Runs

Passing:

| Run | Instance | Shows |
|---|---|---|
| `graph_ingest` | 2 nodes, 2 workers, 2 inserters, 2 updates, 2 calls, spurious wakeups, fair | `TypeOK`; `QuerySeesStream`: when `pause_workers` returns, supernodes equal the accepted stream; `EveryUpdateCounted`; `CallsReturn`, `BatchesDrain` |
| `graph_lifecycle` | 3 nodes, 2 workers, 2 inserters, 2 Graphs in turn, gutters of 2, 3 updates, 2 queries or dumps | `QuerySeesStream`, `EveryUpdateCounted`, `MemoryLive`, `NoUncaughtException`, `UnlockedIntact`, `QuiescentQuery`, and `PausedPoolInv`, its inductive strengthening |
| `boruvka_rounds` | four shapes on 4 nodes, failing samplers | `TypeOK`, `CorrectForest`, `Restored`, `BackupsComplete` (no null copy is restored), `VerifierAgrees` (the verifier never objects), `MergesIndependent`, `EnoughSketches` |
| `boruvka_stream` | all graphs on 3 nodes, 1 update, 2 queries | `SoundForest`, `NeverRequeried`, `ProcessSurvives` (a query finds its backup file), and the refinement `KeepsPromise` |
| `boruvka_liveness` | all graphs on 3 nodes, 2 queries in any order, fair | `Terminates` |
| `stream_readers` | 3 readers, 5 records, blocks of 2, fair | `AtMostOnce`, `NothingLost`, `FileOrder`, their inductive strengthenings `StreamInv` and `SeqInv`, and `ReadersEnd` |
| `sketch_buckets` | 2 sketches, 3 indices, 2 columns of 2 guesses, 64 pairs of column hashes, checksums without collisions | `Linear`: a bucket is the sum of what hashes into it; `IsolatedFound`: a query fails only if no bucket holds one index; the refinement `ImplementsSampler` |

Violations (each a disagreement between the code and one of its comments or docs;
`PROJECT.json` quotes them under "findings"):

| Run | Shows |
|---|---|
| `graph_lost_wakeup` | with one worker, a spurious wakeup just before the unlocked `notify_all` is lost, and the call never returns |
| `graph_update_after_dump` | `write_binary` leaves the workers paused and the graph open: the next query misses updates |
| `boruvka_reuse_merged` | `connected_components(true)` after `connected_components(false)` reopens merged supernodes; a later answer is wrong |
| `stream_short_read` | a `pread` after a short one writes to the start of the buffer again, and a reader delivers bytes that are no record |
| `sketch_wide_mask` | `query`'s mask `1 << j` is an `int`; at its sign bit it widens, and a bucket with a single index is rejected |

The lost wakeup needs a pool of one. With more workers, only one can be between
its test and its sleep, as it holds `pause_lock`; any other leaves the wait after it
and its own `notify_all` (`graph_worker.cpp:144`) wakes the first one again. This is
why `CallsReturn` holds in `graph_ingest`.

**Bounds.** `MaxUpdates`, `MaxCalls`, `MaxGraphs`, `MaxQueries`, `GutterSize`,
`QueueCap`, `NumEdges` and `SizeRange`. Two workers are the least with which two
can race for a supernode or one can be left behind in a pause; two updates are the
least that can cancel or meet in one supernode; two calls and two Graphs let state
left by the first one disturb the second. Four nodes are the least with which
Boruvka, even if no sampler fails, can need a second round of merges, so that a
supernode not merged in round one is merged in round two. `SizeRange` is one more
than the number of nodes, the least for which the sizes of real components do not
wrap, while those of redundant links do. Five records in blocks of two give full
blocks, a partial last one, and as many blocks as readers, so that each of three
readers can be ahead of the others. In `sketch_wide_mask` an `int` has two bits and a column hash
four instead of 32 and 64. `Sketch` needs no bound: its state is finite.
`graph_ingest` has two nodes because of its liveness properties; `graph_lifecycle` has three,
so that two updates can share one endpoint only.
Deadlock is checked in every passing run.

**Fairness.** In `Graph`, every thread that can run does so eventually (weak
fairness), and mutexes and queue slots are granted strongly fairly, to the calling
thread too: a worker holds a mutex for a few instructions only, the caller once per
500 ms, and a slot is freed with each batch. The client is never forced to make a
call, and the condition variable never forced to wake up spuriously. In `Boruvka`
only the thread inside `connected_components` is fair. Each stream reader is weakly
fair: it is a thread that does nothing but read until `END_OF_FILE`.

## 4. Proofs

All theorems hold for any number of nodes, workers, inserters, readers, records and
calls; the constants are as the named `ASSUME`s of the modules say.

**`GraphProofs`**, for every `ClientMay`.
`TypeCorrect` (`[]TypeOK`) contains that each mutex has at most one holder; it is
inductive with `DataHeld` (a worker at work on a batch has one), without which the
sum computed by `ApplyDelta` has no type. `PoolInvariant` is `[]PausedPoolInv`, and
`QueriesAreQuiescent` (`[]QuiescentQuery`) follows from it. `QuiescentQuery` is not
inductive: that all workers sleep at the end of `pause_workers` follows from what
`thr_paused` and the mutex mean. `PausedPoolInv` adds: a worker between locking and
waiting holds `pause_lock` (`MonitorHeld`); a constructed worker with `thr_paused`
set is parked (`FlagMeansParked`); all are constructed before any call
(`Constructed`); `paused` is set and `shutdown` clear where the call needs it
(`FlagsFollowCall`); a locked live graph is paused (`LockedWhilePaused`). At
`PauseWait` every flag is set and the mutex is free, so every worker is blocked;
afterwards `Predicate` sends each back to sleep as `paused` is set.

**`GraphProofs`, life cycle**, for `CarefulClient` (`ClientMay = {}`).
`WorkersFindMemory` (`MemoryLive`), `WorkersNeverThrow` (`NoUncaughtException`),
`UpdatesFindIntactGraph` (`UnlockedIntact`) and `QueriesFindAllProcessed`: when
`pause_workers` returns nothing is left in gutters, queue, inserters or workers'
hands. All rest on `LifecycleInv`. Its heart is `CleanMeansDrained`, what a query
drained stays drained until the next update, and `EmptyWhenFound`, a worker on its
way to sleep means an empty queue. The latter is inductive because no batch can
enter the queue while a worker still acts on an old look at it: updates come only
while the guttering system blocks (`BlockingWhileOpen`) and every worker has left
its wait (`WorkersAwake`).

**`IngestProofs`**, for `CarefulClient` again. `QueriesSeeStream` (`QuerySeesStream`) and
`UpdatesCountedTwice` (`EveryUpdateCounted`): nothing is lost, repeated or applied to
the wrong supernode between `update` and the sketches. The module first defines
`Waiting(L, P)`, the number of directions in `P` that are in the hands of an
inserter, in a gutter, in the queue or in the hands of a worker at a label in `L`, as
the cardinality of a set of positions, and says what each step does to it. The
inductive invariant `IngestInv` says that `num_updates` and the directions not yet
counted add up to twice the accepted updates (`Counted`), and that a supernode
differs from the stream on exactly the edges of which an odd number of directions
wait (`Summed`). `SumHeld` carries a worker from its read of a supernode to its
write: it holds `node_mt`, so the sum is not stale. At a query nothing waits, by
`QueriesFindAllProcessed`.

**`StreamProofs`**. `ReadersShareStream` (`StreamInv`), `NoDuplicates` (`AtMostOnce`) and
`AllDelivered` (`NothingLost`) assume `Careful`: no short reads, and clients stop at
`END_OF_FILE`. `SequentialBuffer` (`SeqInv`) and `SequentialOrder` (`FileOrder`) need no
assumption. The inductive invariant `StreamInv` says that claimed blocks are whole
records, pairwise disjoint and below the offset, that a buffer holds its block, and
that every record below the offset has been delivered once unless a reader still
owes it. `SeqInv` says the same of the one buffer of the sequential reader.

**`BoruvkaProofs`**, for every graph, outcome of sampling, kind of backup and
sequence of queries. `SketchesQueriedOnce` (`NeverRequeried`): the strengthening
`UsedBelow` says that only sketches below `idx` have been queried, which merging
keeps since it takes the larger `idx`. `CopiesAvailable` (`BackupsComplete`): copies
listed in `backed_up` were taken, or will be before the round ends. `GetParentEnds`:
`parent` is always a forest, through links and path compression. That every set closed
under `parent` contains a root replaces an induction over paths.

Then come facts about the parts of the algorithm: what path compression and `link` do
to every node's root, that a component is the least set closed under the edges, what
each step does to the types of a call, and the definition of the invariant of the
rounds, `RoundsInv`, with the steps between calls.

**`LinkProofs`** shows that sampling, linking, merging and the end of a call keep
`RoundsInv`, with one lemma per action.

**`ForestProofs`** holds what needs induction. Recursive functions are reasoned about
with `SetInduction` (a set that holds 0 and is closed under successor holds every
natural), which is first-order. It gives what `NextReps` selects, and
`KruskalComponents`: the verifier's `kruskal` computes the components of every graph,
although its sizes wrap around. With the first, `TypeCorrect` (`TypeOK`) follows for
every client, and the two remaining steps of a call keep `RoundsInv`.
`SketchCountPlenty` says that the constructor's number of sketches k satisfies n < 2^k
for every n from three on (it rests on 3^(k+1) <= 2^(k+1) 2^k for k >= 2); `Power` is
a recursive function because the prover has no theory of `^`.

**`RoundsProofs`** puts the steps together. Its theorems assume `NoReuse`, i.e.
`ReuseMerged = FALSE`; `boruvka_reuse_merged` shows `CorrectForest`
violated without it. `ComponentsCorrect` (`CorrectForest`), `ForestSound` (`SoundForest`),
`VerifierInStep` (`VerifierAgrees`), `StreamCanGoOn` (`Restored`), `MergesDisjoint`
(`MergesIndependent`) and `ImplementsPromise` (`KeepsPromise`, the refinement of
`ConnectedComponents`) hold for any number of nodes and sketches, every graph and
stream, every answer of the samplers, every interleaving of the parallel loops and
both kinds of backup. They rest on one inductive invariant, `RoundsInv`:

* `Merged`: there is an assignment `part` of node sets to supernodes such that the
  unused sketches of `v` sample the edges that leave `part[v]`, and the parts of a
  root and of those still to be merged into it make up its tree, each node once. It is
  existential because nothing in the code records which supernodes have been added
  up. A merge is then `CutUnion`: an edge between two disjoint parts cancels.
* `Active`: a tree that some edge leaves is still on the list of representatives, is
  about to be, or the call throws. So when the rounds end without an exception no
  edge leaves a tree, and trees are unions of components; by `Sound`, they are
  inside components.
* `InStep`: the verifier's forest has the same trees under other roots.
* `Backed`, `Ready`: a supernode is as the updates left it, or there is a backup of
  it that is; `cleanup_copy` finds one for each supernode that was changed.
* `Control`: where the call stands and what its lists may hold there.

`SketchesSuffice` (`EnoughSketches`) is the halving argument behind `num_sketches`. It
assumes three nodes or more, the constructor's number of sketches, and `FirstCall`: calls
start on supernodes that no call has merged in place, since merged ones have used up
sketches (`boruvka_rounds` makes one call only). The invariant `Halving`, checked with
TLC on the instance of `boruvka_rounds` before it was proved, says that unless a sampler
failed there is an n (`Level(n)`) such that every representative has used up exactly n
sketches and its tree has at least 2^n nodes: the trees an edge joins have both been
sampled in this round, so the joined tree is twice as large, and the merged supernodes
have the same `idx`, so no sketch is skipped. A supernode out of sketches would have a tree
larger than the graph.

`BackupFileFound` (`ProcessSurvives`) assumes one sketch or more per supernode. Its
invariant `Saved` says that the samples of the first round are taken from supernodes with
`idx` 0, so that none of them throws, and that after the first round the file is there.
The verifier, which could throw in between, does not (`Control`).

**`SketchProofs`**, for any finite set of indices, any number of sketches, columns and
guesses up to the width of `int`, any column hashes and any checksums
(`SketchAssumption`). `SketchLinear` (`Linear`) rests on the inductive `SketchInv`, every
bucket is `Bucket` of the indices in `content` that hash into it. The lemmas `OddSymDiff`
and `XorSum` say that parity and hence `XorOf` turn symmetric difference into XOR;
`BucketToggle` and `BucketSum` say it of `update` and `+=`. `IsolatedIndexFound`
(`IsolatedFound`) assumes `NumGuesses < IntBits`, the case in which `1 << j` does not
reach the sign bit; `sketch_wide_mask` shows it violated otherwise. `SamplerImplemented`
(`ImplementsSampler`) needs no such assumption: a mask that is too wide makes a query fail,
never lie. It does assume `[]NoCollision`: in every state, the set of indices in each
bucket has a checksum that tells it from the empty set and, unless it is a single index,
from one. That is a condition on the sets that occur in a behaviour. Checksums of 32 bits
cannot be free of collisions on all sets of indices, so nothing is assumed of the others.
The first two theorems do without it. `Boruvka` takes its answers from the same `L0Sampler`.

**Only model-checked.** Liveness (`CallsReturn`, `BatchesDrain`, `Terminates`,
`ReadersEnd`), which is out of this prover's reach. Every invariant and every
refinement that a passing run checks is also a theorem.

**Reading the proofs.** Many leaves name their prover. `Zenon` is cited where the step is
pure first-order or set reasoning: its result does not depend on the other obligations
of the module, whereas the types that the SMT translation infers do, and with them its
running time. The leaves with arithmetic are left to SMT, with more time (`SMTT`) where
they cite much.

## 5. Limits

Not modelled, and why:

* The probability that a sample fails, and the independence of the sketches of a
  supernode (`supernode.cpp:11` seeds them closer together than a sketch has columns):
  statements about probabilities. What a query answers when a checksum collides is in
  `Sketch`, but `ImplementsSampler` says nothing of it (`NoCollision`).
* `configure_system`'s parsing and the pairing function's arithmetic: pure functions
  without state; their outcomes are chosen freely. The memory layout of supernodes.
* `FileGraphVerifier` differs from `MatGraphVerifier` in where its edges come from.
  The generators, benchmarks, experiments and statistical tests measure and print;
  only how they call the library is used.
* A stream file shorter than its header says: `pread` then returns 0 and `read_data`
  loops for ever. A buffer smaller than one record, for which the same happens, is
  excluded by `StreamAssumption`.
* I/O errors. A `pread` that returns -1 takes one from `data_read`, a `size_t`
  (`binary_graph_stream.h:110`): at 0 it wraps around, the loop ends and `read_data`
  returns 2^32 - 1, so that the reader decodes what its buffer does not hold; after a short
  read, the loop goes on one byte too early. `backup_to_disk` ends the
  process if it cannot open its file; the model always writes it.
* More than 32 guesses, where `1 << j` is undefined, and a graph of one node, for
  which `guess_gen` converts a negative number.

Simplifications and observations:

* Two comments disagree with the code about which indices a bucket contains, and the model
  follows the code. `sketch.h:53-54` says of bucket j "the bucket has a 1/2^j probability of
  containing an index"; `update` (`sketch.cpp:64`) puts an index into bucket j only if bits
  0 to j of its hash are all zero, which has probability 1/2^(j+1) (`In`, `Linear`). Only
  the deterministic bucket contains every index. And `bucket.h:30` says that `contains` is
  "true if the index is NOT hashed to zero mod guess_nonzero", but `bucket.h:73` returns
  true if the bit *is* zero. `update` and `query` agree with each other, so no answer is
  affected: a column starts one level deeper than the comment says.
* `sample_supernodes` assigns `err` from several OMP threads. The model assigns
  the exceptions one at a time.
* A client that destroys a graph with unqueried updates lets a worker write freed
  supernodes (`ClientMay = {"destroy_unqueried"}` violates `MemoryLive`).
* With two nodes there is one sketch, and a query of the connected graph throws
  (`boruvka_rounds` with `NumNodes = 2` and `AllGraphs` violates `EnoughSketches`).
* A client that polls a reader after `END_OF_FILE` is given old records again
  (`Polls = TRUE` violates `AtMostOnce`).
* With more updates after `write_binary` than the queue holds, `update` blocks for
  ever, since the workers sleep (TLC reports the deadlock for `graph_update_after_dump`
  with `GutterSize` and `QueueCap` 1 and `TypeOK` as its invariant).
* `graph.cpp:188` says that failed nodes which merged after all are removed from the
  representatives. A failed node merged *into another one* stays; the model does
  the same, and `CorrectForest` and `Restored` hold nevertheless.
* A graph with one node has no sketch, and its query throws in the first round;
  with backups on disk and no backup file from before, `restore_from_disk` then ends
  the process. The modelled instances start at two nodes.

## 6. Plan

1. `configure_system` and the pairing function against a reference definition.
2. `EnoughSketches` for a second call on supernodes merged in place: they have fewer
   sketches left, but also fewer trees to join.
