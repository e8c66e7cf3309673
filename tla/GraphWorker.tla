---------------------------- MODULE GraphWorker ----------------------------
(***************************************************************************)
(* The pool of GraphWorker threads: do_work's loop, and the static         *)
(* functions start_workers, stop_workers, pause_workers and                *)
(* unpause_workers that the caller's thread runs to control the pool.      *)
(*                                                                         *)
(* wpc[w] is where worker w stands in do_work, mpc where the caller stands *)
(* in the Graph operation it executes.  pause_lock is the set of workers   *)
(* holding the mutex; waiters the workers asleep on pause_condition.       *)
(*                                                                         *)
(* The flags shutdown and paused are plain bools that the caller writes,   *)
(* and the condition variable is signalled, WITHOUT pause_lock: a worker   *)
(* that evaluates its wait predicate and falls asleep therefore does so in *)
(* two steps (Predicate, Sleep) between which the caller can run.          *)
(* The caller's own wait_for(500ms) loops re-evaluate under pause_lock at  *)
(* least every 500 ms whether notified or not, so each of them is an await.*)
(***************************************************************************)
EXTENDS GutteringSystem

CONSTANT Spurious  \* whether condition variables wake up spuriously

ASSUME SpuriousAssumption == Spurious \in BOOLEAN

VARIABLES
  shutdown, paused,  \* static flags of GraphWorker
  thr_paused,        \* thr_paused[w]
  delta_node,        \* delta_node[w]: whether w's delta buffer is allocated
  wpc,               \* wpc[w]: the point worker w has reached
  data,              \* data[w]: the batch w holds, <<>> when it holds none
  pause_lock,        \* the workers that hold the mutex (at most one)
  waiters,           \* the workers blocked in pause_condition.wait
  mpc                \* the point the calling thread has reached

statics == <<shutdown, paused>>
buffers == <<delta_node, data>>
monitor == <<pause_lock, waiters>>
poolVars == <<statics, thr_paused, buffers, wpc, monitor>>

(* A worker inside batch_update; parked: between setting and resetting     *)
(* thr_paused.                                                             *)
Updating == {"update", "apply", "store"}
HoldsData == Updating \cup {"callback"}
HoldsPauseLock == {"park", "predicate", "sleep", "leave"}
Parked == {"predicate", "sleep", "blocked", "leave"}
WorkerPC == HoldsData \cup HoldsPauseLock \cup Parked
            \cup {"none", "get", "check_shutdown", "check_paused", "lock",
                  "notify", "exit", "terminate"}
CallerPC == {"closed", "start", "ctor", "idle", "flush",
             "pause1", "pause2", "pause_wait", "paused", "boruvka",
             "unpause1", "unpause2", "unpause3", "unpause_wait",
             "stop1", "stop2", "stop3", "join", "stopped"}

(* A mutex: held by nobody or by one worker. *)
Holders == {{}} \cup {{w} : w \in Workers}

PoolTypeOK ==
  /\ shutdown \in BOOLEAN /\ paused \in BOOLEAN
  /\ thr_paused \in [Workers -> BOOLEAN]
  /\ delta_node \in [Workers -> BOOLEAN]
  /\ wpc \in [Workers -> WorkerPC]
  /\ data \in [Workers -> Batch \cup {<<>>}]
  /\ pause_lock \in Holders /\ waiters \subseteq Workers
  /\ mpc \in CallerPC

(* Before the first Graph: the statics' initial values, no thread. *)
PoolInit ==
  /\ shutdown = FALSE /\ paused = FALSE
  /\ thr_paused = [w \in Workers |-> FALSE]
  /\ delta_node = [w \in Workers |-> FALSE]
  /\ wpc = [w \in Workers |-> "none"]
  /\ data = [w \in Workers |-> <<>>]
  /\ pause_lock = {} /\ waiters = {}

WGoto(w, l) == wpc' = [wpc EXCEPT ![w] = l]
At(l) == mpc = l
Goto(l) == mpc' = l
-----------------------------------------------------------------------------
(* do_work.  batch_update, which Graph defines, takes a worker from        *)
(* "update" to "callback".                                                 *)

TakeBatch(w) ==
  /\ wpc[w] = "get"
  /\ GetData(w)
  /\ data' = [data EXCEPT ![w] = Head(queue)]
  /\ WGoto(w, "update")
  /\ UNCHANGED <<statics, thr_paused, delta_node, monitor, mpc>>

TakeNothing(w) ==
  /\ wpc[w] = "get"
  /\ NoData
  /\ WGoto(w, "check_shutdown")
  /\ UNCHANGED <<statics, thr_paused, buffers, monitor, mpc>>

Callback(w) ==
  /\ wpc[w] = "callback"
  /\ GetDataCallback(w)
  /\ data' = [data EXCEPT ![w] = <<>>]
  /\ WGoto(w, "get")
  /\ UNCHANGED <<statics, thr_paused, delta_node, monitor, mpc>>

CheckShutdown(w) ==
  /\ wpc[w] = "check_shutdown"
  /\ WGoto(w, IF shutdown THEN "exit" ELSE "check_paused")
  /\ UNCHANGED <<statics, thr_paused, buffers, monitor, mpc, gtsVars>>

CheckPaused(w) ==
  /\ wpc[w] = "check_paused"
  /\ WGoto(w, IF paused THEN "lock" ELSE "get")
  /\ UNCHANGED <<statics, thr_paused, buffers, monitor, mpc, gtsVars>>

(* Faulty: enters the monitor without waiting for the mutex. *)
LockUnguarded(w) ==
  /\ wpc[w] = "lock"
  /\ pause_lock' = pause_lock \cup {w}
  /\ WGoto(w, "park")
  /\ UNCHANGED <<statics, thr_paused, buffers, waiters, mpc, gtsVars>>

Lock(w) ==
  /\ wpc[w] = "lock"
  /\ pause_lock = {}
  /\ pause_lock' = pause_lock \cup {w}
  /\ WGoto(w, "park")
  /\ UNCHANGED <<statics, thr_paused, buffers, waiters, mpc, gtsVars>>

(* thr_paused is only read under pause_lock, so setting it and notifying   *)
(* are one step; the notification wakes every sleeping worker.             *)
Park(w) ==
  /\ wpc[w] = "park"
  /\ thr_paused' = [thr_paused EXCEPT ![w] = TRUE]
  /\ waiters' = {}
  /\ WGoto(w, "predicate")
  /\ UNCHANGED <<statics, buffers, pause_lock, mpc, gtsVars>>

Predicate(w) ==
  /\ wpc[w] = "predicate"
  /\ WGoto(w, IF ~paused \/ shutdown THEN "leave" ELSE "sleep")
  /\ UNCHANGED <<statics, thr_paused, buffers, monitor, mpc, gtsVars>>

Sleep(w) ==
  /\ wpc[w] = "sleep"
  /\ pause_lock' = pause_lock \ {w}
  /\ waiters' = waiters \cup {w}
  /\ WGoto(w, "blocked")
  /\ UNCHANGED <<statics, thr_paused, buffers, mpc, gtsVars>>

Wake(w) ==
  /\ wpc[w] = "blocked" /\ w \notin waiters
  /\ pause_lock = {}
  /\ pause_lock' = pause_lock \cup {w}
  /\ WGoto(w, "predicate")
  /\ UNCHANGED <<statics, thr_paused, buffers, waiters, mpc, gtsVars>>

SpuriousWakeup(w) ==
  /\ Spurious
  /\ w \in waiters
  /\ waiters' = waiters \ {w}
  /\ UNCHANGED <<statics, thr_paused, buffers, wpc, pause_lock, mpc, gtsVars>>

(* Faulty: leaves the monitor with thr_paused still set. *)
LeaveStillPaused(w) ==
  /\ wpc[w] = "leave"
  /\ pause_lock' = pause_lock \ {w}
  /\ WGoto(w, "notify")
  /\ UNCHANGED <<statics, thr_paused, buffers, waiters, mpc, gtsVars>>

Leave(w) ==
  /\ wpc[w] = "leave"
  /\ thr_paused' = [thr_paused EXCEPT ![w] = FALSE]
  /\ pause_lock' = pause_lock \ {w}
  /\ WGoto(w, "notify")
  /\ UNCHANGED <<statics, buffers, waiters, mpc, gtsVars>>

Notify(w) ==
  /\ wpc[w] = "notify"
  /\ waiters' = {}
  /\ WGoto(w, "get")
  /\ UNCHANGED <<statics, thr_paused, buffers, pause_lock, mpc, gtsVars>>
-----------------------------------------------------------------------------
(* start_workers creates the workers one after the other.  The thread is   *)
(* started by the member initialiser thr(start_worker, this), BEFORE       *)
(* thr_paused is initialised and delta_node allocated.                     *)

Spawn(w) ==
  /\ At("start") /\ wpc[w] = "none"
  /\ WGoto(w, "get")
  /\ \E garbage \in BOOLEAN :
       thr_paused' = [thr_paused EXCEPT ![w] = garbage]
  /\ Goto("ctor")
  /\ UNCHANGED <<statics, buffers, monitor, gtsVars>>

FinishConstructor(w) ==
  /\ At("ctor") /\ wpc[w] # "none" /\ ~delta_node[w]
  /\ thr_paused' = [thr_paused EXCEPT ![w] = FALSE]
  /\ delta_node' = [delta_node EXCEPT ![w] = TRUE]
  /\ Goto("start")
  /\ UNCHANGED <<statics, wpc, data, monitor, gtsVars>>

(* pause_workers *)
PauseFlag ==
  /\ At("pause1")
  /\ paused' = TRUE
  /\ Goto("pause2")
  /\ UNCHANGED <<shutdown, thr_paused, buffers, wpc, monitor, gtsVars>>

PauseNonBlock ==
  /\ At("pause2")
  /\ SetNonBlock(TRUE)
  /\ Goto("pause_wait")
  /\ UNCHANGED poolVars

(* Faulty: settles for the first worker found paused. *)
SomePaused == pause_lock = {} /\ \E w \in Workers : thr_paused[w]

AllPaused == pause_lock = {} /\ \A w \in Workers : thr_paused[w]

(* unpause_workers *)
UnpauseNonBlock ==
  /\ At("unpause1")
  /\ SetNonBlock(FALSE)
  /\ Goto("unpause2")
  /\ UNCHANGED poolVars

UnpauseFlag ==
  /\ At("unpause2")
  /\ paused' = FALSE
  /\ Goto("unpause3")
  /\ UNCHANGED <<shutdown, thr_paused, buffers, wpc, monitor, gtsVars>>

(* Faulty: clears the flag but does not signal. *)
UnpauseSilently ==
  /\ At("unpause3")
  /\ Goto("unpause_wait")
  /\ UNCHANGED <<poolVars, gtsVars>>

UnpauseNotify ==
  /\ At("unpause3")
  /\ waiters' = {}
  /\ Goto("unpause_wait")
  /\ UNCHANGED <<statics, thr_paused, buffers, wpc, pause_lock, gtsVars>>

(* Faulty: returns without waiting for the workers to leave the monitor. *)
UnpauseNoWait ==
  /\ At("unpause_wait")
  /\ Goto("idle")
  /\ UNCHANGED <<poolVars, gtsVars>>

UnpauseWait ==
  /\ At("unpause_wait")
  /\ pause_lock = {} /\ \A w \in Workers : ~thr_paused[w]
  /\ Goto("idle")
  /\ UNCHANGED <<poolVars, gtsVars>>

(* stop_workers: returns at once when already shut down, else signals and  *)
(* joins every thread, whose destructor then frees the delta buffer.       *)
StopFlag ==
  /\ At("stop1")
  /\ shutdown' = TRUE
  /\ Goto(IF shutdown THEN "stopped" ELSE "stop2")
  /\ UNCHANGED <<paused, thr_paused, buffers, wpc, monitor, gtsVars>>

StopNonBlock ==
  /\ At("stop2")
  /\ SetNonBlock(TRUE)
  /\ Goto("stop3")
  /\ UNCHANGED poolVars

StopNotify ==
  /\ At("stop3")
  /\ waiters' = {}
  /\ Goto("join")
  /\ UNCHANGED <<statics, thr_paused, buffers, wpc, pause_lock, gtsVars>>

Join ==
  /\ At("join")
  /\ \A w \in Workers : wpc[w] = "exit"
  /\ wpc' = [w \in Workers |-> "none"]
  /\ delta_node' = [w \in Workers |-> FALSE]
  /\ Goto("stopped")
  /\ UNCHANGED <<statics, thr_paused, data, monitor, gtsVars>>
=============================================================================
