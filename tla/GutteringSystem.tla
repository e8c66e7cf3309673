-------------------------- MODULE GutteringSystem --------------------------
(***************************************************************************)
(* The guttering system that buffers stream updates on their way to the    *)
(* GraphWorkers.  It is a library (GutterTree) outside this repository:    *)
(* these definitions say what graph.h, graph.cpp and graph_worker.cpp rely *)
(* on when they call insert, force_flush, get_data, get_data_callback and  *)
(* set_non_block.                                                          *)
(*                                                                         *)
(* Updates to a node collect in that node's gutter; a full gutter becomes  *)
(* a batch in a bounded work queue, and a worker that takes a batch keeps  *)
(* its DataNode, and with it the queue slot, until the callback.           *)
(***************************************************************************)
EXTENDS Naturals, Sequences, FiniteSets

CONSTANTS
  Nodes,       \* the nodes of the graph
  Workers,     \* the GraphWorker threads
  GutterSize,  \* updates a gutter holds before it becomes a batch
  QueueCap     \* DataNodes of the work queue

ASSUME GutteringAssumption ==
  /\ IsFiniteSet(Workers) /\ Workers # {}
  /\ GutterSize \in Nat \ {0}
  /\ QueueCap \in Nat \ {0}

VARIABLES
  gutter,      \* gutter[n]: destinations buffered for node n
  queue,       \* batches waiting for a worker
  lent,        \* workers that hold a DataNode they have not given back
  non_block    \* get_data returns instead of waiting on an empty queue

gtsVars == <<gutter, queue, lent, non_block>>

Batch == [node : Nodes, dests : Seq(Nodes)]

GtsTypeOK ==
  /\ gutter \in [Nodes -> Seq(Nodes)]
  /\ queue \in Seq(Batch)
  /\ lent \subseteq Workers
  /\ non_block \in BOOLEAN

GtsInit ==
  /\ gutter = [n \in Nodes |-> <<>>]
  /\ queue = <<>>
  /\ lent = {}
  /\ non_block = FALSE

HasRoom == Len(queue) + Cardinality(lent) < QueueCap

Push(n, dests) ==
  /\ HasRoom
  /\ queue' = Append(queue, [node |-> n, dests |-> dests])
  /\ gutter' = [gutter EXCEPT ![n] = <<>>]

(* insert: disabled, the caller blocks, while a full gutter has no slot. *)
Insert(u, v) ==
  LET filled == Append(gutter[u], v)
  IN  /\ \/ /\ Len(filled) < GutterSize
            /\ gutter' = [gutter EXCEPT ![u] = filled]
            /\ UNCHANGED queue
         \/ /\ Len(filled) >= GutterSize
            /\ Push(u, filled)
      /\ UNCHANGED <<lent, non_block>>

(* force_flush empties the gutters in no particular order. *)
FlushGutter(n) ==
  /\ gutter[n] # <<>>
  /\ Push(n, gutter[n])
  /\ UNCHANGED <<lent, non_block>>

Flushed == \A n \in Nodes : gutter[n] = <<>>

(* get_data with a batch to return. *)
GetData(w) ==
  /\ queue # <<>>
  /\ queue' = Tail(queue)
  /\ lent' = lent \cup {w}
  /\ UNCHANGED <<gutter, non_block>>

(* get_data returning false: only when told not to wait, on an empty queue. *)
NoData ==
  /\ queue = <<>>
  /\ non_block
  /\ UNCHANGED gtsVars

GetDataCallback(w) ==
  /\ lent' = lent \ {w}
  /\ UNCHANGED <<gutter, queue, non_block>>

SetNonBlock(b) ==
  /\ non_block' = b
  /\ UNCHANGED <<gutter, queue, lent>>
=============================================================================
