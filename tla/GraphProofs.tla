---------------------------- MODULE GraphProofs -----------------------------
(***************************************************************************)
(* Proofs about module Graph, for any number of nodes, workers, inserters, *)
(* updates, queries and Graphs: first for every client, then, about the    *)
(* life cycle of a Graph, for one that makes none of the uses ClientMay    *)
(* names.                                                                  *)
(***************************************************************************)
EXTENDS Graph, TLAPS, SequenceTheorems

(* generate_delta_node only produces edges of the graph. *)
LEMMA EdgesOfDelta ==
  ASSUME NEW b \in Batch
  PROVE  Delta(b) \in SUBSET Edges
<1>1. b.node \in Nodes
  BY Zenon DEF Batch
<1>2. \A d \in Nodes : {b.node, d} \in Edges
  BY <1>1 DEF Edges
<1> QED
  BY <1>2, Zenon DEF Delta

(* What get_data and the inserters take off their sequences. *)
LEMMA HeadTailType ==
  ASSUME NEW S, NEW s \in Seq(S), s # <<>>
  PROVE  Head(s) \in S /\ Tail(s) \in Seq(S)
BY HeadTailProperties, Zenon

(* The empty gutter, queue or list of inserts is a sequence of any type. *)
LEMMA EmptySeqType ==
  ASSUME NEW S
  PROVE  <<>> \in Seq(S)
OBVIOUS

(* A full or flushed gutter becomes a batch of the work queue. *)
LEMMA PushType ==
  ASSUME NEW n \in Nodes, NEW dests \in Seq(Nodes), GtsTypeOK, Push(n, dests)
  PROVE  queue' \in Seq(Batch) /\ gutter' \in [Nodes -> Seq(Nodes)]
<1>1. [node |-> n, dests |-> dests] \in Batch
  BY Zenon DEF Batch
<1>2. queue' \in Seq(Batch)
  BY <1>1, AppendProperties, Zenon DEF GtsTypeOK, Push
<1> QED
  BY <1>2, EmptySeqType, Zenon DEF GtsTypeOK, Push

(* The graph starts well typed: nothing is constructed yet. *)
LEMMA InitTypeOK == Init => TypeOK /\ DataHeld
<1> SUFFICES ASSUME Init PROVE TypeOK /\ DataHeld
  BY Zenon
<1>1. GtsTypeOK
  BY EmptySeqType, Zenon DEF Init, GtsInit, GtsTypeOK
<1>2. PoolTypeOK
  BY Zenon DEF Init, PoolInit, PoolTypeOK, Holders, WorkerPC, CallerPC
<1>3. NoFile \in File /\ NoSupernodes \in [Nodes -> SUBSET Edges]
  BY Zenon DEF NoFile, NoSupernodes, File
<1>4. GraphTypeOK
  BY <1>3, Zenon DEF Init, GraphTypeOK, Holders
<1>5. CallTypeOK
  BY EmptySeqType, Zenon DEF Init, CallTypeOK
<1>6. HistoryTypeOK
  BY <1>3, Zenon DEF Init, HistoryTypeOK
<1>7. DataHeld
  BY Zenon DEF Init, PoolInit, DataHeld, HoldsData, Updating
<1> QED
  BY <1>1, <1>2, <1>4, <1>5, <1>6, <1>7, Zenon DEF TypeOK

(* Taking and releasing a mutex keeps it held by at most one worker. *)
LEMMA HoldersType ==
  ASSUME NEW w \in Workers, NEW H \in Holders
  PROVE  {} \cup {w} \in Holders /\ H \ {w} \in Holders
<1>1. {} \cup {w} = {w}
  BY Zenon
<1>2. H \ {w} = {} \/ H \ {w} = H
  BY Zenon DEF Holders
<1> QED
  BY <1>1, <1>2, Zenon DEF Holders

(* One step of a worker: do_work and batch_update. *)
LEMMA WorkerType ==
  ASSUME TypeOK, DataHeld, NEW w \in Workers, Worker(w)
  PROVE  TypeOK' /\ DataHeld'
<1> USE DEF TypeOK, GtsTypeOK, PoolTypeOK, GraphTypeOK, CallTypeOK,
            HistoryTypeOK, DataHeld, HoldsData, Updating, HoldsPauseLock, Parked,
            WorkerPC, WGoto, statics, buffers, monitor, gtsVars
<1>1. CASE TakeBatch(w) /\ Rest
  <2>1. Head(queue) \in Batch /\ Tail(queue) \in Seq(Batch)
    BY <1>1, HeadTailType, Zenon DEF TakeBatch, GetData
  <2> QED
    BY <1>1, <2>1 DEF TakeBatch, GetData, Rest, graphVars, callVars, history
<1>2. CASE TakeNothing(w) /\ Rest
  BY <1>2 DEF TakeNothing, NoData, Rest, graphVars, callVars, history
<1>3. CASE BatchUpdate(w)
  <2>1. data[w] \in Batch
    BY <1>3, Zenon DEF BatchUpdate
  <2>2. Len(data[w].dests) \in Nat
    BY <2>1, LenProperties, Zenon DEF Batch
  <2> QED
    BY <1>3, <2>1, <2>2 DEF BatchUpdate, callVars, history
<1>4. CASE ApplyDelta(w)
  <2>1. data[w] \in Batch
    BY <1>4, Zenon DEF ApplyDelta
  <2>2. data[w].node \in Nodes
    BY <2>1, Zenon DEF Batch
  <2>3. SymDiff(supernodes[data[w].node], Delta(data[w])) \in SUBSET Edges
    <3>1. supernodes[data[w].node] \in SUBSET Edges /\ Delta(data[w]) \in SUBSET Edges
      BY <2>1, <2>2, EdgesOfDelta, Zenon
    <3> QED
      BY <3>1, Zenon DEF SymDiff
  <2>4. node_mt' \in [Nodes -> Holders]
    BY <1>4, <2>2, HoldersType, Zenon DEF ApplyDelta
  <2>5. sum' \in [Workers -> SUBSET Edges]
    BY <1>4, <2>3, Zenon DEF ApplyDelta
  <2> QED
    BY <1>4, <2>1, <2>4, <2>5, SMTT(30) DEF ApplyDelta, callVars, history
<1>5. CASE StoreDelta(w)
  <2>1. data[w].node \in Nodes
    BY <1>5, Zenon DEF StoreDelta, Batch
  <2>2. node_mt' \in [Nodes -> Holders]
    BY <1>5, <2>1, HoldersType, Zenon DEF StoreDelta
  <2>3. supernodes' \in [Nodes -> SUBSET Edges]
    BY <1>5, <2>1, Zenon DEF StoreDelta
  <2>4. sum' \in [Workers -> SUBSET Edges]
    BY <1>5, Zenon DEF StoreDelta
  <2> QED
    BY <1>5, <2>2, <2>3, <2>4 DEF StoreDelta, callVars, history
<1>6. CASE Callback(w) /\ Rest
  BY <1>6 DEF Callback, GetDataCallback, Rest, graphVars, callVars, history
<1>7. CASE CheckShutdown(w) /\ Rest
  BY <1>7 DEF CheckShutdown, Rest, graphVars, callVars, history
<1>8. CASE CheckPaused(w) /\ Rest
  BY <1>8 DEF CheckPaused, Rest, graphVars, callVars, history
<1>9. CASE Lock(w) /\ Rest
  BY <1>9, HoldersType, ZenonT(40) DEF Lock, Rest, graphVars, callVars, history
<1>10. CASE Park(w) /\ Rest
  BY <1>10, SMTT(30) DEF Park, Rest, graphVars, callVars, history
<1>11. CASE Predicate(w) /\ Rest
  BY <1>11, SMTT(30) DEF Predicate, Rest, graphVars, callVars, history
<1>12. CASE Sleep(w) /\ Rest
  BY <1>12, HoldersType, ZenonT(40) DEF Sleep, Rest, graphVars, callVars, history
<1>13. CASE Wake(w) /\ Rest
  BY <1>13, HoldersType, ZenonT(40) DEF Wake, Rest, graphVars, callVars, history
<1>14. CASE SpuriousWakeup(w) /\ Rest
  BY <1>14 DEF SpuriousWakeup, Rest, graphVars, callVars, history
<1>15. CASE Leave(w) /\ Rest
  BY <1>15, HoldersType, ZenonT(40) DEF Leave, Rest, graphVars, callVars, history
<1>16. CASE Notify(w) /\ Rest
  BY <1>16, SMTT(30) DEF Notify, Rest, graphVars, callVars, history
<1> QED
  BY <1>1, <1>2, <1>3, <1>4, <1>5, <1>6, <1>7, <1>8, <1>9, <1>10, <1>11, <1>12, <1>13, <1>14, <1>15, <1>16, Zenon DEF Worker

(* One step of the calling thread: the constructors, the queries and the   *)
(* destructor.                                                             *)
LEMMA CallerType ==
  ASSUME TypeOK, DataHeld, Caller
  PROVE  TypeOK' /\ DataHeld'
<1> USE DEF TypeOK, GtsTypeOK, PoolTypeOK, GraphTypeOK, CallTypeOK,
            HistoryTypeOK, DataHeld, HoldsData, Updating, CallerPC, WGoto, At, Goto,
            statics, buffers, monitor, poolVars, gtsVars, graphVars, callVars, history
<1>1. ASSUME NEW f \in BOOLEAN, Construct(f) PROVE TypeOK' /\ DataHeld'
  <2>1. NoFile \in File
    BY Zenon DEF NoFile, NoSupernodes, File
  <2>2. (IF f THEN file ELSE NoFile) \in File
    BY <2>1, Zenon
  <2>3. /\ supernodes' \in [Nodes -> SUBSET Edges]
        /\ stream' \in SUBSET Edges /\ merged' \in BOOLEAN
    BY <1>1, <2>2, Zenon DEF Construct, File
  <2>4. GtsTypeOK' /\ PoolTypeOK' /\ DataHeld'
    BY <1>1, Zenon DEF Construct
  <2>5. GraphTypeOK'
    BY <1>1, <2>3, Zenon DEF Construct
  <2>6. CallTypeOK'
    BY <1>1 DEF Construct
  <2>7. HistoryTypeOK'
    BY <1>1, <2>3, Zenon DEF Construct
  <2> QED
    BY <2>4, <2>5, <2>6, <2>7, Zenon
<1>2. ASSUME NEW w \in Workers, Spawn(w) /\ Rest PROVE TypeOK' /\ DataHeld'
  BY <1>2 DEF Spawn, Rest, WorkerPC
<1>3. ASSUME NEW w \in Workers, FinishConstructor(w) /\ Rest PROVE TypeOK' /\ DataHeld'
  BY <1>3 DEF FinishConstructor, Rest
<1>4. CASE Opened
  BY <1>4 DEF Opened
<1>5. ASSUME NEW op \in {"cont", "final", "dump"}, Call(op) PROVE TypeOK' /\ DataHeld'
  BY <1>5 DEF Call
<1>6. ASSUME NEW n \in Nodes, ForceFlush(n) PROVE TypeOK' /\ DataHeld'
  BY <1>6, PushType, ZenonT(40) DEF ForceFlush, FlushGutter
<1>7. CASE FlushDone
  BY <1>7 DEF FlushDone
<1>8. CASE PauseFlag /\ Rest
  BY <1>8 DEF PauseFlag, Rest
<1>9. CASE PauseNonBlock /\ Rest
  BY <1>9 DEF PauseNonBlock, Rest, SetNonBlock
<1>10. CASE PauseWait
  BY <1>10, ZenonT(40) DEF PauseWait
<1>11. CASE WriteBinary
  <2>1. file' \in File
    BY <1>11, Zenon DEF WriteBinary, File
  <2> QED
    BY <1>11, <2>1, Zenon DEF WriteBinary
<1>12. CASE StartBoruvka
  BY <1>12, Zenon DEF StartBoruvka
<1>13. CASE ReturnFinal
  BY <1>13, Zenon DEF ReturnFinal
<1>14. CASE ResetQuery
  BY <1>14, Zenon DEF ResetQuery
<1>15. CASE UnpauseNonBlock /\ Rest
  BY <1>15, ZenonT(40) DEF UnpauseNonBlock, Rest, SetNonBlock
<1>16. CASE UnpauseFlag /\ Rest
  BY <1>16, ZenonT(40) DEF UnpauseFlag, Rest
<1>17. CASE UnpauseNotify /\ Rest
  BY <1>17, SMTT(30) DEF UnpauseNotify, Rest
<1>18. CASE UnpauseWait /\ Rest
  BY <1>18, SMTT(30) DEF UnpauseWait, Rest
<1>19. CASE Destroy
  BY <1>19, Zenon DEF Destroy
<1>20. CASE StopFlag /\ Rest
  BY <1>20 DEF StopFlag, Rest
<1>21. CASE StopNonBlock /\ Rest
  BY <1>21, Zenon DEF StopNonBlock, Rest, SetNonBlock
<1>22. CASE StopNotify /\ Rest
  BY <1>22 DEF StopNotify, Rest
<1>23. CASE Join /\ Rest
  BY <1>23 DEF Join, Rest, WorkerPC
<1>24. CASE Close
  BY <1>24, EmptySeqType, ZenonT(40) DEF Close
<1>25. CASE Ended
  BY <1>25, SMTT(30) DEF Ended, vars
<1> QED
  BY <1>1, <1>2, <1>3, <1>4, <1>5, <1>6, <1>7, <1>8, <1>9, <1>10, <1>11, <1>12, <1>13, <1>14, <1>15, <1>16, <1>17, <1>18, <1>19, <1>20, <1>21, <1>22, <1>23, <1>24, <1>25, Zenon DEF Caller

(* One step of an inserter: update. *)
LEMMA InserterType ==
  ASSUME TypeOK, DataHeld, NEW i \in Inserters, Inserter(i)
  PROVE  TypeOK' /\ DataHeld'
<1> USE DEF TypeOK, GtsTypeOK, PoolTypeOK, GraphTypeOK, CallTypeOK,
            HistoryTypeOK, DataHeld, statics, buffers, monitor, poolVars, gtsVars,
            graphVars
<1>1. CASE InsertNext(i)
  <2>1. Head(pend[i]) \in Nodes \X Nodes /\ Tail(pend[i]) \in Seq(Nodes \X Nodes)
    BY <1>1, HeadTailType, Zenon DEF InsertNext
  <2> DEFINE u == Head(pend[i])[1]
             v == Head(pend[i])[2]
  <2>2. u \in Nodes /\ v \in Nodes
    BY <2>1, Zenon
  <2>3. Insert(u, v)
    BY <1>1, Zenon DEF InsertNext
  <2> HIDE DEF u, v
  <2>4. Append(gutter[u], v) \in Seq(Nodes)
    BY <2>2, AppendProperties, SMTT(30)
  <2>5. GtsTypeOK'
    BY <2>2, <2>3, <2>4, PushType, Zenon DEF Insert
  <2> QED
    BY <1>1, <2>1, <2>5, Zenon DEF InsertNext, history
<1>2. ASSUME NEW u \in Nodes, NEW v \in Nodes, Update(i, u, v)
      PROVE  TypeOK' /\ DataHeld'
  <2>1. {{u, v}} \in SUBSET Edges
    BY DEF Edges
  <2>2. stream' \in SUBSET Edges
    <3>1. SymDiff(stream, {{u, v}}) \in SUBSET Edges
      BY <2>1, Zenon DEF SymDiff
    <3> QED
      BY <1>2, <3>1, Zenon DEF Update
  <2>3. <<<<u, v>>, <<v, u>>>> \in Seq(Nodes \X Nodes)
    OBVIOUS
  <2>4. CallTypeOK'
    BY <1>2, <2>3, Zenon DEF Update
  <2>5. HistoryTypeOK'
    <3>1. accepted' \in Nat
      BY <1>2, SMTT(30) DEF Update
    <3>2. dirty' = TRUE /\ merged' = merged /\ file' = file
      BY <1>2, Zenon DEF Update
    <3> QED
      BY <2>2, <3>1, <3>2, Zenon
  <2>6. GtsTypeOK' /\ PoolTypeOK' /\ GraphTypeOK' /\ DataHeld'
    BY <1>2, Zenon DEF Update
  <2> QED
    BY <2>4, <2>5, <2>6, Zenon
<1> QED
  BY <1>1, <1>2, Zenon DEF Inserter

(* Type correctness is inductive, with the fact that a worker at work on a *)
(* batch has one.                                                          *)
LEMMA StepTypeOK == TypeOK /\ DataHeld /\ [Next]_vars => TypeOK' /\ DataHeld'
<1> SUFFICES ASSUME TypeOK, DataHeld, [Next]_vars PROVE TypeOK' /\ DataHeld'
  BY Zenon
<1>1. CASE UNCHANGED vars
  BY <1>1, SMTT(30) DEF vars, TypeOK, GtsTypeOK, PoolTypeOK, GraphTypeOK, CallTypeOK,
              HistoryTypeOK, DataHeld, gtsVars, poolVars, graphVars, callVars,
              history, statics, buffers, monitor
<1>2. CASE Next
  BY <1>2, WorkerType, CallerType, InserterType, Zenon DEF Next
<1> QED
  BY <1>1, <1>2, Zenon

(* Graph's state is well typed in every behaviour: in particular each      *)
(* mutex (pause_lock, and node_mt of every supernode) has one holder.      *)
THEOREM TypeCorrect == Spec => []TypeOK
<1>1. Spec => [](TypeOK /\ DataHeld)
  BY InitTypeOK, StepTypeOK, PTL DEF Spec
<1> QED
  BY <1>1, PTL

(* The pool's invariant, worker by worker: none of do_work's steps breaks  *)
(* it.  The decisive one is Predicate, which leaves the wait only when     *)
(* paused is clear or shutdown set.                                        *)
LEMMA WorkerPool ==
  ASSUME TypeOK, PausedPoolInv, NEW w \in Workers, Worker(w)
  PROVE  /\ MonitorHeld' /\ FlagMeansParked' /\ Constructed'
         /\ FlagsFollowCall' /\ LockedWhilePaused' /\ AsleepInCall'
<1>1. /\ wpc \in [Workers -> WorkerPC]
      /\ thr_paused \in [Workers -> BOOLEAN] /\ delta_node \in [Workers -> BOOLEAN]
  BY Zenon DEF TypeOK, PoolTypeOK
<1>2. /\ MonitorHeld /\ FlagMeansParked /\ Constructed
      /\ FlagsFollowCall /\ LockedWhilePaused /\ AsleepInCall
  BY Zenon DEF PausedPoolInv
<1>3. UNCHANGED <<mpc, shutdown, paused, delta_node, update_locked, alive>>
  BY Zenon DEF Worker, TakeBatch, TakeNothing, BatchUpdate, ApplyDelta, StoreDelta,
         Callback, CheckShutdown, CheckPaused, Lock, Park, Predicate, Sleep, Wake,
         SpuriousWakeup, Leave, Notify, Rest, statics, buffers, graphVars
<1>4. Constructed' /\ FlagsFollowCall' /\ LockedWhilePaused'
  BY <1>2, <1>3, Zenon DEF Constructed, FlagsFollowCall, LockedWhilePaused
<1> SUFFICES MonitorHeld' /\ FlagMeansParked' /\ AsleepInCall'
  BY <1>4, Zenon
<1> USE DEF MonitorHeld, FlagMeansParked, AsleepInCall, Asleep, HoldsPauseLock,
            Parked, WGoto
<1>5. CASE TakeBatch(w)
  BY <1>5, <1>1, <1>2, <1>3, Zenon DEF TakeBatch, monitor
<1>6. CASE TakeNothing(w)
  BY <1>6, <1>1, <1>2, <1>3, Zenon DEF TakeNothing, monitor
<1>7. CASE BatchUpdate(w)
  BY <1>7, <1>1, <1>2, <1>3 DEF BatchUpdate, monitor
<1>8. CASE ApplyDelta(w)
  BY <1>8, <1>1, <1>2, <1>3, SMTT(30) DEF ApplyDelta, monitor
<1>9. CASE StoreDelta(w)
  BY <1>9, <1>1, <1>2, <1>3 DEF StoreDelta, monitor
<1>10. CASE Callback(w)
  BY <1>10, <1>1, <1>2, <1>3, Zenon DEF Callback, monitor
<1>11. CASE CheckShutdown(w)
  BY <1>11, <1>1, <1>2, <1>3, Zenon DEF CheckShutdown, monitor
<1>12. CASE CheckPaused(w)
  BY <1>12, <1>1, <1>2, <1>3, Zenon DEF CheckPaused, monitor
<1>13. CASE Lock(w)
  BY <1>13, <1>1, <1>2, <1>3, Zenon DEF Lock
<1>14. CASE Park(w)
  BY <1>14, <1>1, <1>2, <1>3, Zenon DEF Park
<1>15. CASE Predicate(w)
  <2>1. MonitorHeld' /\ FlagMeansParked'
    BY <1>15, <1>1, <1>2, <1>3, Zenon DEF Predicate, monitor
  <2>2. AsleepInCall'
    <3> SUFFICES ASSUME mpc \in {"paused", "boruvka", "unpause1", "unpause2"}
                          \/ (update_locked /\ alive)
                 PROVE  Asleep'
      BY <1>3, Zenon
    <3>1. Asleep /\ paused /\ ~shutdown
      BY <1>2, Zenon DEF FlagsFollowCall, LockedWhilePaused
    <3> QED
      BY <1>15, <1>1, <3>1, Zenon DEF Predicate
  <2> QED
    BY <2>1, <2>2, Zenon
<1>16. CASE Sleep(w)
  BY <1>16, <1>1, <1>2, <1>3, Zenon DEF Sleep
<1>17. CASE Wake(w)
  BY <1>17, <1>1, <1>2, <1>3, Zenon DEF Wake
<1>18. CASE SpuriousWakeup(w)
  BY <1>18, <1>1, <1>2, <1>3, Zenon DEF SpuriousWakeup
<1>19. CASE Leave(w)
  BY <1>19, <1>1, <1>2, <1>3, Zenon DEF Leave
<1>20. CASE Notify(w)
  BY <1>20, <1>1, <1>2, <1>3, Zenon DEF Notify
<1> QED
  BY <1>4, <1>5, <1>6, <1>7, <1>8, <1>9, <1>10, <1>11, <1>12, <1>13, <1>14, <1>15, <1>16, <1>17, <1>18, <1>19, <1>20, Zenon DEF Worker

(* The pool's invariant in the steps of the calling thread.  The decisive  *)
(* one is PauseWait: every thr_paused is set and nobody holds the mutex,   *)
(* so every worker is blocked in the wait.                                 *)
LEMMA CallerPool ==
  ASSUME TypeOK, PausedPoolInv, Caller
  PROVE  /\ MonitorHeld' /\ FlagMeansParked' /\ Constructed'
         /\ FlagsFollowCall' /\ LockedWhilePaused' /\ AsleepInCall'
<1> DEFINE Goal == /\ MonitorHeld' /\ FlagMeansParked' /\ Constructed'
                   /\ FlagsFollowCall' /\ LockedWhilePaused' /\ AsleepInCall'
<1> SUFFICES Goal
  BY Zenon
<1>1. /\ wpc \in [Workers -> WorkerPC]
      /\ thr_paused \in [Workers -> BOOLEAN] /\ delta_node \in [Workers -> BOOLEAN]
  BY Zenon DEF TypeOK, PoolTypeOK
<1>2. /\ MonitorHeld /\ FlagMeansParked /\ Constructed
      /\ FlagsFollowCall /\ LockedWhilePaused /\ AsleepInCall
  BY Zenon DEF PausedPoolInv
<1> USE DEF MonitorHeld, FlagMeansParked, Constructed, FlagsFollowCall,
            LockedWhilePaused, AsleepInCall, Asleep, HoldsPauseLock, Parked,
            WGoto, At, Goto, statics, buffers, monitor, poolVars, graphVars
<1>3. ASSUME NEW f \in BOOLEAN, Construct(f) PROVE Goal
  BY <1>3, <1>1, <1>2, Zenon DEF Construct
<1>4. ASSUME NEW w \in Workers, Spawn(w) /\ Rest PROVE Goal
  BY <1>4, <1>1, <1>2, Zenon DEF Spawn, Rest
<1>5. ASSUME NEW w \in Workers, FinishConstructor(w) /\ Rest PROVE Goal
  BY <1>5, <1>1, <1>2, SMTT(30) DEF FinishConstructor, Rest
<1>6. CASE Opened
  BY <1>6, <1>1, <1>2, Zenon DEF Opened
<1>7. ASSUME NEW op \in {"cont", "final", "dump"}, Call(op) PROVE Goal
  BY <1>7, <1>1, <1>2, Zenon DEF Call
<1>8. ASSUME NEW n \in Nodes, ForceFlush(n) PROVE Goal
  BY <1>8, <1>1, <1>2, Zenon DEF ForceFlush
<1>9. CASE FlushDone
  BY <1>9, <1>1, <1>2, Zenon DEF FlushDone
<1>10. CASE PauseFlag /\ Rest
  BY <1>10, <1>1, <1>2, Zenon DEF PauseFlag, Rest
<1>11. CASE PauseNonBlock /\ Rest
  BY <1>11, <1>1, <1>2, Zenon DEF PauseNonBlock, Rest
<1>12. CASE PauseWait
  <2>1. Asleep
    <3> SUFFICES ASSUME NEW w \in Workers PROVE wpc[w] = "blocked"
      BY Zenon
    <3>1. wpc[w] \in Parked
      BY <1>12, <1>2, Zenon DEF PauseWait, AllPaused
    <3>2. wpc[w] \notin HoldsPauseLock
      BY <1>12, <1>2, Zenon DEF PauseWait, AllPaused
    <3> QED
      BY <3>1, <3>2, Zenon
  <2> QED
    BY <1>12, <1>2, <2>1, Zenon DEF PauseWait
<1>13. CASE WriteBinary
  BY <1>13, <1>1, <1>2, Zenon DEF WriteBinary
<1>14. CASE StartBoruvka
  BY <1>14, <1>1, <1>2, Zenon DEF StartBoruvka
<1>15. CASE ReturnFinal
  BY <1>15, <1>1, <1>2, Zenon DEF ReturnFinal
<1>16. CASE ResetQuery
  BY <1>16, <1>1, <1>2, Zenon DEF ResetQuery
<1>17. CASE UnpauseNonBlock /\ Rest
  BY <1>17, <1>1, <1>2, Zenon DEF UnpauseNonBlock, Rest
<1>18. CASE UnpauseFlag /\ Rest
  BY <1>18, <1>1, <1>2, Zenon DEF UnpauseFlag, Rest
<1>19. CASE UnpauseNotify /\ Rest
  BY <1>19, <1>1, <1>2, Zenon DEF UnpauseNotify, Rest
<1>20. CASE UnpauseWait /\ Rest
  BY <1>20, <1>1, <1>2, Zenon DEF UnpauseWait, Rest
<1>21. CASE Destroy
  BY <1>21, <1>1, <1>2, Zenon DEF Destroy
<1>22. CASE StopFlag /\ Rest
  BY <1>22, <1>1, <1>2, Zenon DEF StopFlag, Rest
<1>23. CASE StopNonBlock /\ Rest
  BY <1>23, <1>1, <1>2, Zenon DEF StopNonBlock, Rest
<1>24. CASE StopNotify /\ Rest
  BY <1>24, <1>1, <1>2, Zenon DEF StopNotify, Rest
<1>25. CASE Join /\ Rest
  BY <1>25, <1>1, <1>2, Zenon DEF Join, Rest
<1>26. CASE Close
  BY <1>26, <1>1, <1>2, Zenon DEF Close
<1>27. CASE Ended
  BY <1>27, <1>1, <1>2, Zenon DEF Ended, vars
<1> QED
  BY <1>3, <1>4, <1>5, <1>6, <1>7, <1>8, <1>9, <1>10, <1>11, <1>12, <1>13, <1>14, <1>15, <1>16, <1>17, <1>18, <1>19, <1>20, <1>21, <1>22, <1>23, <1>24, <1>25, <1>26, <1>27, Zenon DEF Caller

(* update and the inserts it makes do not touch the pool. *)
LEMMA InserterPool ==
  ASSUME PausedPoolInv, NEW i \in Inserters, Inserter(i)
  PROVE  /\ MonitorHeld' /\ FlagMeansParked' /\ Constructed'
         /\ FlagsFollowCall' /\ LockedWhilePaused' /\ AsleepInCall'
<1>1. UNCHANGED <<poolVars, mpc, update_locked, alive>>
  BY Zenon DEF Inserter, InsertNext, Update, graphVars
<1> QED
  BY <1>1, Zenon DEF PausedPoolInv, poolVars, statics, buffers, monitor, MonitorHeld,
     FlagMeansParked, Constructed, FlagsFollowCall, LockedWhilePaused,
     AsleepInCall, Asleep

(* Before the first Graph no worker runs and no flag is set. *)
LEMMA InitPool == Init => PausedPoolInv
<1> SUFFICES ASSUME Init PROVE PausedPoolInv
  BY Zenon
<1>1. DataHeld
  BY InitTypeOK, Zenon
<1> QED
  BY <1>1, Zenon DEF Init, PoolInit, PausedPoolInv, MonitorHeld, FlagMeansParked,
     Constructed, FlagsFollowCall, LockedWhilePaused, AsleepInCall, HoldsPauseLock

(* Every step of a worker, the caller or an inserter keeps the pool sound. *)
LEMMA StepPool == TypeOK /\ PausedPoolInv /\ [Next]_vars => PausedPoolInv'
<1> SUFFICES ASSUME TypeOK, PausedPoolInv, [Next]_vars PROVE PausedPoolInv'
  BY Zenon
<1>1. DataHeld'
  BY StepTypeOK, Zenon DEF PausedPoolInv
<1>2. CASE UNCHANGED vars
  BY <1>1, <1>2, Zenon DEF vars, PausedPoolInv, poolVars, graphVars, statics, buffers,
     monitor, MonitorHeld, FlagMeansParked, Constructed, FlagsFollowCall,
     LockedWhilePaused, AsleepInCall, Asleep
<1>3. CASE Next
  BY <1>1, <1>3, WorkerPool, CallerPool, InserterPool, Zenon DEF Next, PausedPoolInv
<1> QED
  BY <1>2, <1>3, Zenon

(* pause_workers, do_work and unpause_workers keep flags, mutex and threads *)
(* in step, for any number of workers and every client.                    *)
THEOREM PoolInvariant == Spec => []PausedPoolInv
BY InitTypeOK, InitPool, StepTypeOK, StepPool, TypeCorrect, PTL DEF Spec

(* No worker reads or writes a supernode while the caller samples, merges  *)
(* or saves them, or while the graph is locked.                            *)
THEOREM QueriesAreQuiescent == Spec => []QuiescentQuery
<1>1. PausedPoolInv => QuiescentQuery
  BY Zenon DEF PausedPoolInv, AsleepInCall, Asleep, QuiescentQuery
<1> QED
  BY <1>1, PoolInvariant, PTL
-----------------------------------------------------------------------------
(* The client makes none of the four uses: it queries before it destroys,  *)
(* and does not update a graph that is paused or being queried.            *)
CarefulClient == ClientMay = {}

(* Nothing is buffered, queued, pending or in a worker's hands. *)
Drained ==
  /\ queue = <<>> /\ \A n \in Nodes : gutter[n] = <<>>
  /\ \A i \in Inserters : pend[i] = <<>>
  /\ \A w \in Workers : wpc[w] \notin HoldsData

(* A worker that found the queue empty and is on its way to sleep. *)
FoundEmpty == {"check_shutdown", "check_paused", "lock", "park", "predicate",
               "sleep", "blocked"}
AtWork == {"get", "notify"} \cup HoldsData
Ending == {"stop1", "stop2", "stop3", "join", "stopped", "closed"}

(* What a query drains stays drained until the next update, and no update  *)
(* is outstanding outside the life of the graph that accepted it.          *)
CleanMeansDrained == ~dirty => Drained
DirtyMeansOpen ==
  /\ mpc \notin Ending => alive
  /\ dirty => mpc \notin Ending \cup {"start", "ctor"}
CleanWhilePaused ==
  mpc \in {"paused", "boruvka", "unpause1", "unpause2"}
    \/ (paused /\ mpc \in {"idle", "flush", "pause1"}) => ~dirty
PendingMeansIdle ==
  \A i \in Inserters : pend[i] # <<>> => mpc = "idle" /\ ~paused /\ ~update_locked
FlushedInCall ==
  mpc \in {"pause1", "pause2", "pause_wait"} => \A n \in Nodes : gutter[n] = <<>>

(* While updates are accepted every worker works: none of them can still   *)
(* be acting on an empty queue it saw before.                              *)
EmptyWhenFound == (\E w \in Workers : wpc[w] \in FoundEmpty) => queue = <<>>
BlockingWhileOpen ==
  mpc \in {"closed", "start", "ctor", "unpause2", "unpause3", "unpause_wait"}
    \/ (~paused /\ mpc \in {"idle", "flush", "pause1"}) => ~non_block
ResumedMeansUnpaused ==
  mpc \in {"start", "ctor", "unpause3", "unpause_wait"} => ~paused
WorkersAwake ==
  /\ mpc \in {"start", "ctor"} \/ (~paused /\ mpc \in {"idle", "flush", "pause1"})
       => \A w \in Workers : wpc[w] \in AtWork \cup {"none"}
  /\ mpc \in {"unpause3", "unpause_wait"}
       => \A w \in Workers : wpc[w] \in AtWork \cup Parked
  /\ mpc \in {"closed", "stopped"} => \A w \in Workers : wpc[w] = "none"
ParkedMeansFlag == \A w \in Workers : wpc[w] \in Parked => thr_paused[w]

(* A graph merged in place stays locked, and is never saved. *)
MergedMeansLocked ==
  /\ merged => update_locked /\ call \notin {"cont", "dump"}
  /\ mpc = "boruvka" => update_locked
  /\ ~file.merged

(* What a query finds once pause_workers has returned. *)
QueryDrained == mpc \in {"paused", "boruvka"} => Drained

LifecycleInv ==
  /\ CleanMeansDrained /\ DirtyMeansOpen /\ CleanWhilePaused
  /\ PendingMeansIdle /\ FlushedInCall
  /\ EmptyWhenFound /\ BlockingWhileOpen /\ ResumedMeansUnpaused
  /\ WorkersAwake /\ ParkedMeansFlag
  /\ MergedMeansLocked /\ NoUncaughtException

(* A step of do_work.  A worker that takes a batch finds a dirty graph, so  *)
(* one that is open and, holding data, cannot be locked; and one that finds *)
(* the queue empty while it must not block does so only in a pause.         *)
LEMMA WorkerLife ==
  ASSUME TypeOK, PausedPoolInv, LifecycleInv, NEW w \in Workers, Worker(w)
  PROVE  LifecycleInv'
<1>1. wpc \in [Workers -> WorkerPC] /\ thr_paused \in [Workers -> BOOLEAN]
  BY Zenon DEF TypeOK, PoolTypeOK
<1>2. UNCHANGED <<mpc, shutdown, paused, update_locked, alive, gutter, non_block,
                  call, pend, file, merged, dirty>>
  BY Zenon DEF Worker, TakeBatch, TakeNothing, BatchUpdate, ApplyDelta, StoreDelta,
         Callback, CheckShutdown, CheckPaused, Lock, Park, Predicate, Sleep, Wake,
         SpuriousWakeup, Leave, Notify, Rest, statics, graphVars, callVars,
         history, gtsVars, GetData, NoData, GetDataCallback
<1>3. /\ DirtyMeansOpen' /\ CleanWhilePaused' /\ PendingMeansIdle' /\ FlushedInCall'
      /\ BlockingWhileOpen' /\ ResumedMeansUnpaused' /\ MergedMeansLocked'
  BY <1>2, Zenon DEF LifecycleInv, DirtyMeansOpen, CleanWhilePaused, PendingMeansIdle,
     FlushedInCall, BlockingWhileOpen, ResumedMeansUnpaused, MergedMeansLocked
<1> DEFINE Inv == /\ CleanMeansDrained /\ EmptyWhenFound /\ WorkersAwake
                  /\ ParkedMeansFlag /\ NoUncaughtException
<1>4. Inv /\ BlockingWhileOpen /\ ResumedMeansUnpaused
  BY Zenon DEF LifecycleInv
<1> SUFFICES Inv'
  BY <1>3, Zenon DEF LifecycleInv
<1> USE DEF CleanMeansDrained, Drained, EmptyWhenFound, WorkersAwake, AtWork,
            ParkedMeansFlag, NoUncaughtException, BlockingWhileOpen,
            ResumedMeansUnpaused, FoundEmpty, HoldsData, Updating, Parked, WGoto
<1>5. CASE TakeBatch(w)
  BY <1>5, <1>1, <1>2, <1>4, Zenon DEF TakeBatch, GetData
<1>6. CASE TakeNothing(w)
  BY <1>6, <1>1, <1>2, <1>4, Zenon DEF TakeNothing, NoData, gtsVars
<1>7. CASE BatchUpdate(w)
  <2>1. ~update_locked
    <3>1. dirty
      BY <1>7, <1>4, Zenon DEF BatchUpdate
    <3>2. alive
      BY <3>1, Zenon DEF LifecycleInv, DirtyMeansOpen
    <3>3. ~Asleep
      BY <1>7, Zenon DEF BatchUpdate, Asleep
    <3> QED
      BY <3>2, <3>3, Zenon DEF PausedPoolInv, AsleepInCall
  <2> QED
    BY <1>7, <1>1, <1>2, <1>4, <2>1, Zenon DEF BatchUpdate, gtsVars
<1>8. CASE ApplyDelta(w)
  BY <1>8, <1>1, <1>2, <1>4, Zenon DEF ApplyDelta, gtsVars
<1>9. CASE StoreDelta(w)
  BY <1>9, <1>1, <1>2, <1>4, Zenon DEF StoreDelta, gtsVars
<1>10. CASE Callback(w)
  BY <1>10, <1>1, <1>2, <1>4, Zenon DEF Callback, GetDataCallback
<1>11. CASE CheckShutdown(w)
  BY <1>11, <1>1, <1>2, <1>4, Zenon DEF CheckShutdown, gtsVars
<1>12. CASE CheckPaused(w)
  BY <1>12, <1>1, <1>2, <1>4, Zenon DEF CheckPaused, gtsVars
<1>13. CASE Lock(w)
  BY <1>13, <1>1, <1>2, <1>4, Zenon DEF Lock, gtsVars
<1>14. CASE Park(w)
  BY <1>14, <1>1, <1>2, <1>4, Zenon DEF Park, gtsVars
<1>15. CASE Predicate(w)
  BY <1>15, <1>1, <1>2, <1>4, Zenon DEF Predicate, gtsVars
<1>16. CASE Sleep(w)
  BY <1>16, <1>1, <1>2, <1>4, Zenon DEF Sleep, gtsVars
<1>17. CASE Wake(w)
  BY <1>17, <1>1, <1>2, <1>4, Zenon DEF Wake, gtsVars
<1>18. CASE SpuriousWakeup(w)
  BY <1>18, <1>1, <1>2, <1>4, Zenon DEF SpuriousWakeup, gtsVars
<1>19. CASE Leave(w)
  BY <1>19, <1>1, <1>2, <1>4, Zenon DEF Leave, gtsVars
<1>20. CASE Notify(w)
  BY <1>20, <1>1, <1>2, <1>4, Zenon DEF Notify, gtsVars
<1> HIDE DEF Inv
<1> QED
  BY <1>5, <1>6, <1>7, <1>8, <1>9, <1>10, <1>11, <1>12, <1>13, <1>14, <1>15, <1>16, <1>17, <1>18, <1>19, <1>20, Zenon DEF Worker

(* update and the inserts it makes: a careful client calls update only on   *)
(* an idle, unpaused graph, where no worker has just found the queue empty. *)
LEMMA InserterLife ==
  ASSUME CarefulClient, TypeOK, LifecycleInv, NEW i \in Inserters, Inserter(i)
  PROVE  LifecycleInv'
<1> USE DEF LifecycleInv
<1>1. UNCHANGED <<poolVars, mpc, graphVars, call, file, merged, lent, non_block>>
  BY Zenon DEF Inserter, InsertNext, Update, Insert, gtsVars, history
<1>2. mpc = "idle" /\ ~paused /\ ~update_locked /\ dirty'
  <2>1. CASE InsertNext(i)
    <3>1. pend[i] # <<>> /\ dirty' = dirty
      BY <2>1, Zenon DEF InsertNext, history
    <3> QED
      BY <3>1, Zenon DEF PendingMeansIdle, CleanMeansDrained, Drained
  <2>2. ASSUME NEW u \in Nodes, NEW v \in Nodes, Update(i, u, v)
        PROVE  mpc = "idle" /\ ~paused /\ ~update_locked /\ dirty'
    BY <2>2, Zenon DEF Update, CarefulClient, At
  <2> QED
    BY <2>1, <2>2, Zenon DEF Inserter
<1> USE DEF poolVars, statics, graphVars
<1>3. CleanMeansDrained' /\ DirtyMeansOpen' /\ CleanWhilePaused'
  BY <1>1, <1>2, Zenon DEF CleanMeansDrained, DirtyMeansOpen, CleanWhilePaused, Ending
<1>4. PendingMeansIdle' /\ FlushedInCall'
  BY <1>1, <1>2, Zenon DEF PendingMeansIdle, FlushedInCall
<1>5. BlockingWhileOpen' /\ ResumedMeansUnpaused' /\ WorkersAwake' /\ ParkedMeansFlag'
  BY <1>1, Zenon DEF BlockingWhileOpen, ResumedMeansUnpaused, WorkersAwake, ParkedMeansFlag
<1>6. EmptyWhenFound'
  BY <1>1, <1>2, Zenon DEF EmptyWhenFound, WorkersAwake, AtWork, FoundEmpty, HoldsData,
     Updating
<1>7. MergedMeansLocked' /\ NoUncaughtException'
  BY <1>1, Zenon DEF MergedMeansLocked, NoUncaughtException
<1> QED
  BY <1>3, <1>4, <1>5, <1>6, <1>7, Zenon

(* Before the first Graph nothing is buffered and no worker runs. *)
LEMMA InitLife == Init => LifecycleInv
BY SMTT(30) DEF Init, GtsInit, PoolInit, NoFile, LifecycleInv, CleanMeansDrained, Drained,
   DirtyMeansOpen, CleanWhilePaused, PendingMeansIdle, FlushedInCall,
   EmptyWhenFound, BlockingWhileOpen, ResumedMeansUnpaused, WorkersAwake,
   ParkedMeansFlag, MergedMeansLocked, NoUncaughtException, FoundEmpty, HoldsData,
   Updating, Parked, Ending

(* A step of the calling thread.  The decisive ones are PauseWait, after   *)
(* which nothing is buffered, queued or in a worker's hands, UnpauseWait,  *)
(* after which every worker is awake, and ForceFlush, which never puts a   *)
(* batch into a queue that a parked worker believes to be empty.           *)
LEMMA CallerLife ==
  ASSUME CarefulClient, TypeOK, PausedPoolInv, LifecycleInv, Caller
  PROVE  LifecycleInv'
<1>1. /\ wpc \in [Workers -> WorkerPC] /\ thr_paused \in [Workers -> BOOLEAN]
      /\ gutter \in [Nodes -> Seq(Nodes)]
  BY Zenon DEF TypeOK, PoolTypeOK, GtsTypeOK
<1>2. /\ FlagMeansParked /\ MonitorHeld /\ Constructed
      /\ FlagsFollowCall /\ AsleepInCall
  BY Zenon DEF PausedPoolInv
<1> USE DEF CarefulClient, LifecycleInv, CleanMeansDrained, Drained,
     DirtyMeansOpen, CleanWhilePaused, PendingMeansIdle, FlushedInCall,
     EmptyWhenFound, BlockingWhileOpen, ResumedMeansUnpaused, WorkersAwake,
     ParkedMeansFlag, MergedMeansLocked, NoUncaughtException, FoundEmpty, AtWork,
     HoldsData, Updating, Parked, Ending, WGoto, At, Goto, statics, buffers,
     monitor, poolVars, graphVars, callVars, history, gtsVars
<1>3. ASSUME NEW f \in BOOLEAN, Construct(f) PROVE LifecycleInv'
  BY <1>3, <1>1, <1>2, Zenon DEF NoFile, Construct
<1>4. ASSUME NEW w \in Workers, Spawn(w) /\ Rest PROVE LifecycleInv'
  BY <1>4, <1>1, <1>2, Zenon DEF Spawn, Rest
<1>5. ASSUME NEW w \in Workers, FinishConstructor(w) /\ Rest PROVE LifecycleInv'
  BY <1>5, <1>1, <1>2, Zenon DEF FinishConstructor, Rest
<1>6. CASE Opened
  BY <1>6, <1>1, <1>2, Zenon DEF Opened
<1>7. ASSUME NEW op \in {"cont", "final", "dump"}, Call(op) PROVE LifecycleInv'
  BY <1>7, <1>1, <1>2, Zenon DEF Call, InsertersJoined
<1>8. ASSUME NEW n \in Nodes, ForceFlush(n) PROVE LifecycleInv'
  BY <1>8, <1>1, <1>2, Zenon DEF ForceFlush, FlushGutter, Push
<1>9. CASE FlushDone
  BY <1>9, <1>1, <1>2, Zenon DEF FlushDone, Flushed
<1>10. CASE PauseFlag /\ Rest
  BY <1>10, <1>1, <1>2, Zenon DEF PauseFlag, Rest
<1>11. CASE PauseNonBlock /\ Rest
  BY <1>11, <1>1, <1>2, Zenon DEF PauseNonBlock, Rest, SetNonBlock
<1>12. CASE PauseWait
  <2>1. \A w \in Workers : wpc[w] = "blocked"
    <3> SUFFICES ASSUME NEW w \in Workers PROVE wpc[w] = "blocked"
      BY Zenon
    <3>1. wpc[w] \in Parked
      BY <1>12, <1>2, Zenon DEF PauseWait, AllPaused, FlagMeansParked, Constructed
    <3>2. wpc[w] \notin HoldsPauseLock
      BY <1>12, <1>2, Zenon DEF PauseWait, AllPaused, MonitorHeld
    <3> QED
      BY <3>1, <3>2, Zenon DEF HoldsPauseLock
  <2>2. queue = <<>>
    BY <2>1, GutteringAssumption, Zenon
  <2> QED
    BY <1>12, <1>1, <2>1, <2>2, Zenon DEF PauseWait
<1>13. CASE WriteBinary
  BY <1>13, <1>1, <1>2, Zenon DEF WriteBinary, FlagsFollowCall
<1>14. CASE StartBoruvka
  BY <1>14, <1>1, <1>2, Zenon DEF StartBoruvka
<1>15. CASE ReturnFinal
  BY <1>15, <1>1, <1>2, Zenon DEF ReturnFinal, FlagsFollowCall
<1>16. CASE ResetQuery
  BY <1>16, <1>1, <1>2, Zenon DEF ResetQuery
<1>17. CASE UnpauseNonBlock /\ Rest
  BY <1>17, <1>1, <1>2, Zenon DEF UnpauseNonBlock, Rest, SetNonBlock
<1>18. CASE UnpauseFlag /\ Rest
  BY <1>18, <1>1, <1>2, Zenon DEF AsleepInCall, Asleep, UnpauseFlag, Rest
<1>19. CASE UnpauseNotify /\ Rest
  BY <1>19, <1>1, <1>2, Zenon DEF UnpauseNotify, Rest
<1>20. CASE UnpauseWait /\ Rest
  BY <1>20, <1>1, <1>2, Zenon DEF UnpauseWait, Rest
<1>21. CASE Destroy
  BY <1>21, <1>1, <1>2, Zenon DEF Destroy
<1>22. CASE StopFlag /\ Rest
  BY <1>22, <1>1, <1>2, Zenon DEF FlagsFollowCall, StopFlag, Rest
<1>23. CASE StopNonBlock /\ Rest
  BY <1>23, <1>1, <1>2, Zenon DEF StopNonBlock, Rest, SetNonBlock
<1>24. CASE StopNotify /\ Rest
  BY <1>24, <1>1, <1>2, Zenon DEF StopNotify, Rest
<1>25. CASE Join /\ Rest
  BY <1>25, <1>1, <1>2, Zenon DEF Join, Rest
<1>26. CASE Close
  BY <1>26, <1>1, <1>2, Zenon DEF Close
<1>27. CASE Ended
  BY <1>27, <1>1, <1>2, Zenon DEF Ended, vars
<1> QED
  BY <1>3, <1>4, <1>5, <1>6, <1>7, <1>8, <1>9, <1>10, <1>11, <1>12, <1>13, <1>14, <1>15, <1>16, <1>17, <1>18, <1>19, <1>20, <1>21, <1>22, <1>23, <1>24, <1>25, <1>26, <1>27, Zenon DEF Caller

(* Every step of a careful client, its inserters and the workers keeps the *)
(* life cycle's invariant.                                                 *)
LEMMA StepLife ==
  CarefulClient /\ TypeOK /\ PausedPoolInv /\ LifecycleInv /\ [Next]_vars
    => LifecycleInv'
<1> SUFFICES ASSUME CarefulClient, TypeOK, PausedPoolInv, LifecycleInv, [Next]_vars
             PROVE  LifecycleInv'
  BY Zenon
<1>1. CASE UNCHANGED vars
  BY <1>1, Zenon DEF vars, gtsVars, poolVars, statics, buffers, monitor, graphVars,
     callVars, history, LifecycleInv, CleanMeansDrained, Drained, DirtyMeansOpen,
     CleanWhilePaused, PendingMeansIdle, FlushedInCall, EmptyWhenFound,
     BlockingWhileOpen, ResumedMeansUnpaused, WorkersAwake, ParkedMeansFlag,
     MergedMeansLocked, NoUncaughtException
<1>2. CASE Next
  BY <1>2, WorkerLife, CallerLife, InserterLife, Zenon DEF Next
<1> QED
  BY <1>1, <1>2, Zenon

(* The invariant holds throughout the life of every Graph of the program. *)
LEMMA LifecycleInvariant == CarefulClient => (Spec => []LifecycleInv)
<1> SUFFICES ASSUME CarefulClient PROVE Spec => []LifecycleInv
  BY Zenon
<1>1. TypeOK /\ PausedPoolInv /\ LifecycleInv /\ [Next]_vars => LifecycleInv'
  BY StepLife, Zenon
<1> QED
  BY <1>1, InitLife, TypeCorrect, PoolInvariant, PTL DEF Spec

(* ~Graph frees the supernodes before it joins the workers, and a worker's *)
(* thread starts before its delta buffer is allocated; still no worker is  *)
(* inside batch_update without both, when the client queries before it     *)
(* destroys.                                                               *)
THEOREM WorkersFindMemory == CarefulClient => (Spec => []MemoryLive)
<1> SUFFICES ASSUME CarefulClient PROVE Spec => []MemoryLive
  BY Zenon
<1>1. PausedPoolInv /\ LifecycleInv => MemoryLive
  <2> SUFFICES ASSUME PausedPoolInv, LifecycleInv, NEW w \in Workers,
                      wpc[w] \in Updating
               PROVE  alive /\ delta_node[w]
    BY Zenon DEF MemoryLive
  <2>1. dirty
    BY Zenon DEF LifecycleInv, CleanMeansDrained, Drained, HoldsData
  <2>2. alive /\ mpc \notin Ending \cup {"start", "ctor"}
    BY <2>1, Zenon DEF LifecycleInv, DirtyMeansOpen
  <2> QED
    BY <2>2, Zenon DEF PausedPoolInv, Constructed, Ending
<1> QED
  BY <1>1, PoolInvariant, LifecycleInvariant, PTL

(* No worker meets a locked graph: the UpdateLockedException that would    *)
(* leave do_work uncaught and end the program is never thrown.             *)
THEOREM WorkersNeverThrow == CarefulClient => (Spec => []NoUncaughtException)
<1>1. LifecycleInv => NoUncaughtException
  BY Zenon DEF LifecycleInv
<1> QED
  BY <1>1, LifecycleInvariant, PTL

(* A graph that connected_components(false) merged in place accepts no     *)
(* update, and no file that write_binary saved brings one back unlocked.   *)
THEOREM UpdatesFindIntactGraph == CarefulClient => (Spec => []UnlockedIntact)
<1>1. LifecycleInv => UnlockedIntact
  BY Zenon DEF LifecycleInv, PendingMeansIdle, MergedMeansLocked, UnlockedIntact
<1> QED
  BY <1>1, LifecycleInvariant, PTL

(* "after this point all updates have been processed from the buffer tree" *)
(* (graph.cpp:336, 376), for any number of workers: when pause_workers     *)
(* returns, no update is left in a gutter, in the queue, with an inserter  *)
(* or in a worker's hands.                                                 *)
THEOREM QueriesFindAllProcessed == CarefulClient => (Spec => []QueryDrained)
<1>1. LifecycleInv => QueryDrained
  BY Zenon DEF LifecycleInv, CleanWhilePaused, CleanMeansDrained, QueryDrained
<1> QED
  BY <1>1, LifecycleInvariant, PTL
=============================================================================
