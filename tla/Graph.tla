------------------------------- MODULE Graph -------------------------------
(***************************************************************************)
(* The Graph object: ingestion of stream updates through the guttering     *)
(* system and the worker pool, and the life cycle of the object as its     *)
(* caller drives it (construct, update, connected_components, write_binary,*)
(* destroy).  Boruvka's algorithm itself is module Boruvka; here it is the *)
(* period at mpc = "boruvka" in which the caller reads and merges the      *)
(* supernodes without any lock.                                            *)
(*                                                                         *)
(* A supernode is the XOR of the edges applied to it, all of its sketches  *)
(* being linear in the updates: a set of edges under symmetric difference. *)
(* An edge is a two-element set, because generate_delta_node encodes (u,v) *)
(* and (v,u) as one index.                                                 *)
(***************************************************************************)
EXTENDS GraphWorker, FiniteSetsExt

CONSTANTS
  Inserters,   \* threads that call update (num_inserters)
  ClientMay,   \* which of the uses below the caller makes of the object
  MaxUpdates,  \* bound: updates accepted by one Graph
  MaxCalls,    \* bound: connected_components(true) and write_binary calls
  MaxGraphs    \* bound: Graph objects, one after the other

(* Uses no caller in the repository makes, but no code rules out:          *)
(*   update_while_paused: update() after write_binary, which leaves the    *)
(*     workers paused;                                                     *)
(*   update_during_call: update() while another thread is inside           *)
(*     connected_components or write_binary;                               *)
(*   destroy_unqueried: ~Graph() with updates no query has flushed;        *)
(*   reuse_merged: connected_components(true) or write_binary() after      *)
(*     connected_components(false) has merged the supernodes in place.     *)
Uses == {"update_while_paused", "update_during_call", "destroy_unqueried",
         "reuse_merged"}

ASSUME GraphAssumption ==
  /\ ClientMay \subseteq Uses
  /\ MaxUpdates \in Nat /\ MaxCalls \in Nat /\ MaxGraphs \in Nat

VARIABLES
  supernodes,     \* supernodes[n]: the edges summed in node n's sketches
  alive,          \* the supernodes are allocated
  node_mt,        \* node_mt[n]: the workers holding supernode n's mutex
  sum,            \* sum[w]: what w's += has computed but not yet stored
  update_locked, num_updates,
  call,           \* the operation the calling thread executes
  pend,           \* pend[i]: the inserts i's update() has still to do
  file,           \* the last file written by write_binary
  stream,         \* history: the edges present after the accepted updates
  accepted,       \* history: how many updates this Graph has accepted
  merged,         \* history: the supernodes were merged in place
  dirty,          \* history: an update since the caller's last query
  calls, graphs   \* counters for the bounds

graphVars == <<supernodes, alive, node_mt, sum, update_locked, num_updates>>
callVars == <<call, pend, calls, graphs>>
history == <<file, stream, accepted, merged, dirty>>
vars == <<gtsVars, poolVars, mpc, graphVars, callVars, history>>

Edges == {{u, v} : u \in Nodes, v \in Nodes}
NoSupernodes == [n \in Nodes |-> {}]
Incident(n) == {e \in stream : n \in e}
NoFile == [edges |-> {}, supernodes |-> NoSupernodes, merged |-> FALSE]

File == [edges : SUBSET Edges, supernodes : [Nodes -> SUBSET Edges],
         merged : BOOLEAN]

GraphTypeOK ==
  /\ supernodes \in [Nodes -> SUBSET Edges]
  /\ alive \in BOOLEAN
  /\ node_mt \in [Nodes -> Holders]
  /\ sum \in [Workers -> SUBSET Edges]
  /\ update_locked \in BOOLEAN /\ num_updates \in Nat

CallTypeOK ==
  /\ call \in {"none", "cont", "final", "dump"}
  /\ pend \in [Inserters -> Seq(Nodes \X Nodes)]
  /\ calls \in Nat /\ graphs \in Nat

HistoryTypeOK ==
  /\ file \in File
  /\ stream \in SUBSET Edges /\ accepted \in Nat
  /\ merged \in BOOLEAN /\ dirty \in BOOLEAN

TypeOK ==
  GtsTypeOK /\ PoolTypeOK /\ GraphTypeOK /\ CallTypeOK /\ HistoryTypeOK

(* A worker at work on a batch has one. *)
DataHeld == \A w \in Workers : wpc[w] \in HoldsData => data[w] \in Batch

Init ==
  /\ GtsInit /\ PoolInit /\ mpc = "closed"
  /\ supernodes = NoSupernodes /\ alive = FALSE
  /\ node_mt = [n \in Nodes |-> {}]
  /\ sum = [w \in Workers |-> {}]
  /\ update_locked = FALSE /\ num_updates = 0
  /\ call = "none" /\ pend = [i \in Inserters |-> <<>>] /\ calls = 0 /\ graphs = 0
  /\ file = NoFile /\ stream = {} /\ accepted = 0
  /\ merged = FALSE /\ dirty = FALSE
-----------------------------------------------------------------------------
(* batch_update, run by a worker. *)

(* generate_delta_node: a destination that occurs twice in a batch cancels. *)
Delta(b) ==
  {{b.node, d} : d \in {x \in Nodes :
      Cardinality({i \in DOMAIN b.dests : b.dests[i] = x}) % 2 = 1}}

(* An UpdateLockedException leaves do_work uncaught: std::terminate. *)
BatchUpdate(w) ==
  /\ wpc[w] = "update"
  /\ WGoto(w, IF update_locked THEN "terminate" ELSE "apply")
  /\ num_updates' = num_updates
                    + (IF update_locked THEN 0 ELSE Len(data[w].dests))
  /\ UNCHANGED <<gtsVars, statics, thr_paused, buffers, monitor, mpc,
                 supernodes, alive, node_mt, sum, update_locked,
                 callVars, history>>

(* Faulty: adds the delta without taking the supernode's mutex. *)
ApplyUnlocked(w) ==
  LET n == data[w].node IN
  /\ wpc[w] = "apply"
  /\ sum' = [sum EXCEPT ![w] = SymDiff(supernodes[n], Delta(data[w]))]
  /\ WGoto(w, "store")
  /\ UNCHANGED <<gtsVars, statics, thr_paused, buffers, monitor, mpc,
                 supernodes, alive, node_mt, update_locked, num_updates,
                 callVars, history>>

(* apply_delta_update: under node_mt, read the sketches and add the delta ...*)
ApplyDelta(w) ==
  LET n == data[w].node IN
  /\ wpc[w] = "apply"
  /\ node_mt[n] = {}
  /\ node_mt' = [node_mt EXCEPT ![n] = @ \cup {w}]
  /\ sum' = [sum EXCEPT ![w] = SymDiff(supernodes[n], Delta(data[w]))]
  /\ WGoto(w, "store")
  /\ UNCHANGED <<gtsVars, statics, thr_paused, buffers, monitor, mpc,
                 supernodes, alive, update_locked, num_updates,
                 callVars, history>>

(* Faulty: forgets to release the supernode's mutex. *)
StoreKeepsLock(w) ==
  LET n == data[w].node IN
  /\ wpc[w] = "store"
  /\ supernodes' = [supernodes EXCEPT ![n] = sum[w]]
  /\ sum' = [sum EXCEPT ![w] = {}]
  /\ WGoto(w, "callback")
  /\ UNCHANGED <<gtsVars, statics, thr_paused, buffers, monitor, mpc, node_mt,
                 alive, update_locked, num_updates, callVars, history>>

(* ... and write them back. *)
StoreDelta(w) ==
  LET n == data[w].node IN
  /\ wpc[w] = "store"
  /\ supernodes' = [supernodes EXCEPT ![n] = sum[w]]
  /\ node_mt' = [node_mt EXCEPT ![n] = @ \ {w}]
  /\ sum' = [sum EXCEPT ![w] = {}]
  /\ WGoto(w, "callback")
  /\ UNCHANGED <<gtsVars, statics, thr_paused, buffers, monitor, mpc,
                 alive, update_locked, num_updates, callVars, history>>
-----------------------------------------------------------------------------
(* The two constructors: an empty graph, or one read from a file.  (A      *)
(* second Graph while one is open throws and changes nothing.)             *)
Construct(fromFile) ==
  LET src == IF fromFile THEN file ELSE NoFile IN
  /\ At("closed") /\ graphs < MaxGraphs
  /\ fromFile => file # NoFile
  /\ supernodes' = src.supernodes /\ stream' = src.edges
  /\ merged' = src.merged
  /\ alive' = TRUE /\ update_locked' = FALSE /\ num_updates' = 0
  /\ shutdown' = FALSE /\ paused' = FALSE
  /\ accepted' = 0 /\ dirty' = FALSE
  /\ graphs' = graphs + 1
  /\ Goto("start")
  /\ UNCHANGED <<gtsVars, thr_paused, buffers, wpc, monitor, node_mt, sum,
                 call, pend, calls, file>>

Opened ==
  /\ At("start") /\ \A w \in Workers : delta_node[w]
  /\ Goto("idle")
  /\ UNCHANGED <<gtsVars, poolVars, graphVars, callVars, history>>

Open == mpc \notin {"closed", "start", "ctor", "stop1", "stop2", "stop3",
                   "join", "stopped"}

(* Faulty: accepts updates on a locked graph. *)
UpdateUnchecked(i, u, v) ==
  /\ Open /\ u # v /\ accepted < MaxUpdates /\ pend[i] = <<>>
  /\ At("idle")
  /\ pend' = [pend EXCEPT ![i] = <<<<u, v>>, <<v, u>>>>]
  /\ stream' = SymDiff(stream, {{u, v}})
  /\ accepted' = accepted + 1 /\ dirty' = TRUE
  /\ UNCHANGED <<gtsVars, poolVars, mpc, graphVars, call, calls, graphs,
                 file, merged>>

(* update, run by inserter i: throws, changing nothing, when update_locked; *)
(* else inserts the edge in both directions.                               *)
Update(i, u, v) ==
  /\ Open /\ ~update_locked
  /\ u # v /\ accepted < MaxUpdates /\ pend[i] = <<>>
  /\ ~At("idle") => "update_during_call" \in ClientMay
  /\ At("idle") /\ paused => "update_while_paused" \in ClientMay
  /\ pend' = [pend EXCEPT ![i] = <<<<u, v>>, <<v, u>>>>]
  /\ stream' = SymDiff(stream, {{u, v}})
  /\ accepted' = accepted + 1 /\ dirty' = TRUE
  /\ UNCHANGED <<gtsVars, poolVars, mpc, graphVars, call, calls, graphs,
                 file, merged>>

InsertNext(i) ==
  /\ pend[i] # <<>>
  /\ Insert(Head(pend[i])[1], Head(pend[i])[2])
  /\ pend' = [pend EXCEPT ![i] = Tail(@)]
  /\ UNCHANGED <<poolVars, mpc, graphVars, call, calls, graphs, history>>

(* The client joins its inserters before it makes any other call. *)
InsertersJoined ==
  (\E i \in Inserters : pend[i] # <<>>) => "update_during_call" \in ClientMay

(* connected_components(true), connected_components(false), write_binary *)
Call(op) ==
  /\ At("idle") /\ InsertersJoined
  /\ op # "final" => calls < MaxCalls
  /\ op # "final" /\ merged => "reuse_merged" \in ClientMay
  /\ call' = op
  /\ calls' = calls + (IF op = "final" THEN 0 ELSE 1)
  /\ Goto("flush")
  /\ UNCHANGED <<gtsVars, poolVars, graphVars, pend, graphs, history>>

ForceFlush(n) ==
  /\ At("flush")
  /\ FlushGutter(n)
  /\ UNCHANGED <<poolVars, mpc, graphVars, callVars, history>>

FlushDone ==
  /\ At("flush") /\ Flushed
  /\ Goto("pause1")
  /\ UNCHANGED <<gtsVars, poolVars, graphVars, callVars, history>>

PauseWait ==
  /\ At("pause_wait")
  /\ AllPaused
  /\ dirty' = FALSE
  /\ Goto("paused")
  /\ UNCHANGED <<gtsVars, poolVars, graphVars, callVars,
                 file, stream, accepted, merged>>

(* write_binary saves the supernodes and returns: the workers stay paused. *)
WriteBinary ==
  /\ At("paused") /\ call = "dump"
  /\ file' = [edges |-> stream, supernodes |-> supernodes, merged |-> merged]
  /\ call' = "none"
  /\ Goto("idle")
  /\ UNCHANGED <<gtsVars, poolVars, graphVars, pend, calls, graphs,
                 stream, accepted, merged, dirty>>

StartBoruvka ==
  /\ At("paused") /\ call \in {"cont", "final"}
  /\ update_locked' = TRUE
  /\ Goto("boruvka")
  /\ UNCHANGED <<gtsVars, poolVars, supernodes, alive, node_mt, sum,
                 num_updates, callVars, history>>

(* With cont = false the graph stays locked and the workers paused.        *)
ReturnFinal ==
  /\ At("boruvka") /\ call = "final"
  /\ merged' = TRUE
  /\ call' = "none"
  /\ Goto("idle")
  /\ UNCHANGED <<gtsVars, poolVars, graphVars, pend, calls, graphs,
                 file, stream, accepted, dirty>>

(* With cont = true the supernodes are restored, whether boruvka_emulation *)
(* returned or threw (module Boruvka), and the workers resumed.            *)
ResetQuery ==
  /\ At("boruvka") /\ call = "cont"
  /\ update_locked' = FALSE
  /\ call' = "none"
  /\ Goto("unpause1")
  /\ UNCHANGED <<gtsVars, poolVars, supernodes, alive, node_mt, sum,
                 num_updates, pend, calls, graphs, history>>

(* ~Graph frees the supernodes first, then stops the workers. *)
Destroy ==
  /\ At("idle") /\ \A i \in Inserters : pend[i] = <<>>
  /\ dirty => "destroy_unqueried" \in ClientMay
  /\ alive' = FALSE
  /\ Goto("stop1")
  /\ UNCHANGED <<gtsVars, poolVars, supernodes, node_mt, sum, update_locked,
                 num_updates, callVars, history>>

Close ==
  /\ At("stopped")
  /\ gutter' = [n \in Nodes |-> <<>>] /\ queue' = <<>>
  /\ lent' = {} /\ non_block' = FALSE
  /\ Goto("closed")
  /\ UNCHANGED <<poolVars, graphVars, callVars, history>>

(* The program may end once its last Graph is closed. *)
Ended == At("closed") /\ graphs = MaxGraphs /\ UNCHANGED vars

Rest == UNCHANGED <<graphVars, callVars, history>>

Worker(w) ==
  \/ TakeBatch(w) /\ Rest
  \/ TakeNothing(w) /\ Rest
  \/ BatchUpdate(w) \/ ApplyDelta(w) \/ StoreDelta(w)
  \/ Callback(w) /\ Rest
  \/ CheckShutdown(w) /\ Rest
  \/ CheckPaused(w) /\ Rest
  \/ Lock(w) /\ Rest
  \/ Park(w) /\ Rest
  \/ Predicate(w) /\ Rest
  \/ Sleep(w) /\ Rest
  \/ Wake(w) /\ Rest
  \/ SpuriousWakeup(w) /\ Rest
  \/ Leave(w) /\ Rest
  \/ Notify(w) /\ Rest

Inserter(i) == InsertNext(i) \/ \E u, v \in Nodes : Update(i, u, v)

Caller ==
  \/ \E fromFile \in BOOLEAN : Construct(fromFile)
  \/ \E w \in Workers : Spawn(w) /\ Rest
  \/ \E w \in Workers : FinishConstructor(w) /\ Rest
  \/ Opened
  \/ \E op \in {"cont", "final", "dump"} : Call(op)
  \/ \E n \in Nodes : ForceFlush(n)
  \/ FlushDone
  \/ PauseFlag /\ Rest
  \/ PauseNonBlock /\ Rest
  \/ PauseWait \/ WriteBinary \/ StartBoruvka \/ ReturnFinal \/ ResetQuery
  \/ UnpauseNonBlock /\ Rest
  \/ UnpauseFlag /\ Rest
  \/ UnpauseNotify /\ Rest
  \/ UnpauseWait /\ Rest
  \/ Destroy
  \/ StopFlag /\ Rest
  \/ StopNonBlock /\ Rest
  \/ StopNotify /\ Rest
  \/ Join /\ Rest
  \/ Close \/ Ended

Next ==
  \/ Caller
  \/ \E i \in Inserters : Inserter(i)
  \/ \E w \in Workers : Worker(w)

Spec == Init /\ [][Next]_vars

(* Fairness: a thread that can run eventually does.  Locks are granted     *)
(* strongly fairly: a worker holds one only for a few instructions and the *)
(* caller only once per 500 ms.  Nothing forces the client to make a call, *)
(* nor the condition variable to wake up spuriously.                       *)
Runs(w) == Worker(w) /\ wpc' # wpc
TakesLock(w) == Runs(w) /\ wpc[w] \in {"lock", "blocked", "apply"}
CallRuns == Caller /\ mpc \notin {"idle", "closed"}

FairSpec ==
  /\ Spec
  /\ SF_vars(CallRuns)
  /\ \A i \in Inserters : SF_vars(InsertNext(i))
  /\ \A w \in Workers : WF_vars(Runs(w)) /\ SF_vars(TakesLock(w))
-----------------------------------------------------------------------------
(* While the caller samples, merges or saves supernodes, and for as long   *)
(* as the graph is locked, every worker is inside pause_condition.wait:    *)
(* none of them reads or writes a supernode.                               *)
QuiescentQuery ==
  mpc \in {"paused", "boruvka"} \/ (update_locked /\ alive)
    => \A w \in Workers : wpc[w] \in {"predicate", "sleep", "blocked"}

(* Why the pool is quiescent.  pause_workers may trust thr_paused because, *)
(* once constructed, a worker that has it set is parked, and one that is   *)
(* parked but not blocked holds the mutex; and a worker inside the wait    *)
(* stays there while paused is set and shutdown is not.                    *)
Asleep == \A w \in Workers : wpc[w] \in {"predicate", "sleep", "blocked"}
MonitorHeld == \A w \in Workers : wpc[w] \in HoldsPauseLock => w \in pause_lock
FlagMeansParked ==
  \A w \in Workers : delta_node[w] =>
    wpc[w] # "none" /\ (thr_paused[w] => wpc[w] \in Parked)
Constructed ==
  mpc \notin {"closed", "start", "ctor", "stopped"} =>
    \A w \in Workers : delta_node[w]
FlagsFollowCall ==
  /\ mpc \in {"pause2", "pause_wait", "paused", "boruvka", "unpause1", "unpause2"}
       => paused
  /\ shutdown => mpc \in {"stop2", "stop3", "join", "stopped", "closed"}
LockedWhilePaused ==
  update_locked /\ alive =>
    /\ paused
    /\ mpc \in {"idle", "flush", "pause1", "pause2", "pause_wait", "paused",
               "boruvka"}
AsleepInCall ==
  (mpc \in {"paused", "boruvka", "unpause1", "unpause2"}
    \/ (update_locked /\ alive)) => Asleep

(* The inductive invariant behind QuiescentQuery: pause_workers, do_work   *)
(* and unpause_workers keep flags, mutex and threads in step, whatever the *)
(* client does.                                                            *)
PausedPoolInv ==
  /\ DataHeld /\ MonitorHeld /\ FlagMeansParked /\ Constructed
  /\ FlagsFollowCall /\ LockedWhilePaused /\ AsleepInCall

(* "after this point all updates have been processed from the buffer tree" *)
(* (graph.cpp:336, 376): when pause_workers returns, the supernodes are    *)
(* exactly what the accepted updates add up to, however they were batched, *)
(* reordered and shared out among the workers.                             *)
QuerySeesStream ==
  mpc \in {"paused", "boruvka"} /\ ~merged
    => \A n \in Nodes : supernodes[n] = Incident(n)

(* num_updates, kept "to verify number of updates": by the time of a query *)
(* each accepted update was applied exactly twice, once per endpoint.      *)
EveryUpdateCounted == mpc = "boruvka" => num_updates = 2 * accepted

(* A worker inside batch_update finds the supernodes allocated (~Graph     *)
(* frees them before it joins the workers) and its own delta buffer        *)
(* allocated (the constructor starts the thread before it allocates it).   *)
MemoryLive ==
  \A w \in Workers : wpc[w] \in Updating => alive /\ delta_node[w]

(* batch_update never throws UpdateLockedException in a worker thread,     *)
(* where nothing catches it.                                               *)
NoUncaughtException == \A w \in Workers : wpc[w] # "terminate"

(* Updates are accepted only by a graph whose supernodes are intact: once  *)
(* connected_components(false) merged them, update must keep throwing      *)
(* UpdateLockedException, "Connected components algorithm has already      *)
(* started" (graph.h:23).                                                  *)
UnlockedIntact == (\E i \in Inserters : pend[i] # <<>>) => ~merged

(* connected_components, write_binary and update return, and ~Graph, which *)
(* joins the workers, completes.                                           *)
CallsReturn ==
  /\ (mpc \notin {"idle", "closed"}) ~> (mpc \in {"idle", "closed"})
  /\ \A i \in Inserters : (pend[i] # <<>>) ~> (pend[i] = <<>>)

(* Every batch is applied and its DataNode given back, whether or not the  *)
(* client ever queries: no worker stays asleep or stuck on a lock, and     *)
(* do_work pauses only once get_data has found the queue empty.            *)
BatchesDrain == (queue # <<>> \/ lent # {}) ~> (queue = <<>> /\ lent = {})
=============================================================================
