-------------------------- MODULE ExecutionService --------------------------
(***************************************************************************)
(* The executions API: start_execution, the background task                *)
(* _run_workflow_async, cancel_execution and the three places that hold    *)
(* the status of an execution: the in-memory store of the server process,  *)
(* the database and Redis.  Each write to the last two is awaited, so that *)
(* everything else interleaves with it, and its failure is swallowed.  A   *)
(* restart of the server loses the memory store and the tasks.             *)
(*                                                                         *)
(* The orchestrator is installed.  Reads (status, list, the polling of     *)
(* wait_seconds), the execution events and the expiry of Redis keys are    *)
(* left out.                                                               *)
(***************************************************************************)
EXTENDS Integers

CONSTANTS
  Execs,           \* execution ids
  StoresMayFail,   \* writes to the database and to Redis can fail
  MaxCancels,      \* bound on cancel requests per execution
  MaxRestarts      \* bound on restarts of the server

ASSUME ServiceAssumption ==
  /\ StoresMayFail \in BOOLEAN
  /\ MaxCancels \in Nat
  /\ MaxRestarts \in Nat

VARIABLES
  mem,       \* app.state.executions: status, "none" without a record
  db,        \* ExecutionRecord.status, "none" without a row
  redis,     \* status in the hash exec:<id>
  where,     \* where start_execution or the task of the execution is
  cancelPc,  \* "none", or the Redis write a cancel request still has to do
  cancels,   \* cancel requests that found the execution
  lost,      \* a database write of this execution has failed
  restarts

stores == <<mem, db, redis>>
executionVars == <<stores, where, cancelPc, cancels, lost, restarts>>

Statuses == {"none", "pending", "running", "completed", "failed"}
Terminal == {"completed", "failed"}

ExecutionInit ==
  /\ mem = [e \in Execs |-> "none"]
  /\ db = [e \in Execs |-> "none"]
  /\ redis = [e \in Execs |-> "none"]
  /\ where = [e \in Execs |-> "idle"]
  /\ cancelPc = [e \in Execs |-> "none"]
  /\ cancels = [e \in Execs |-> 0]
  /\ lost = [e \in Execs |-> FALSE]
  /\ restarts = 0

MoveTo(e, l) == where' = [where EXCEPT ![e] = l]
Mem(e, s) == mem' = [mem EXCEPT ![e] = s]

\* A database write in its own session, and one that needs the row.
DbWrite(e, s) ==
  \/ db' = [db EXCEPT ![e] = s] /\ UNCHANGED lost
  \/ /\ StoresMayFail
     /\ lost' = [lost EXCEPT ![e] = TRUE]
     /\ UNCHANGED db

DbUpdate(e, s) ==
  IF db[e] = "none" THEN UNCHANGED <<db, lost>> ELSE DbWrite(e, s)

\* A Redis write, best effort.
RedisWrite(e, s) ==
  \/ redis' = [redis EXCEPT ![e] = s]
  \/ StoresMayFail /\ UNCHANGED redis

(***************************************************************************)
(* start_execution                                                         *)
(***************************************************************************)
\* The request is accepted (blueprint found, budget preflight passed).
Accept(e) ==
  /\ where[e] = "idle"
  /\ Mem(e, "pending")
  /\ MoveTo(e, "pendingDb")
  /\ UNCHANGED <<db, redis, cancelPc, cancels, lost, restarts>>

PersistPending(e) ==
  /\ where[e] = "pendingDb"
  /\ DbWrite(e, "pending")
  /\ MoveTo(e, "pendingRedis")
  /\ UNCHANGED <<mem, redis, cancelPc, cancels, restarts>>

\* Fault: announces the run before its task exists.
SpawnEarly(e) ==
  /\ where[e] = "pendingRedis"
  /\ RedisWrite(e, "running")
  /\ MoveTo(e, "spawned")
  /\ UNCHANGED <<mem, db, cancelPc, cancels, lost, restarts>>

\* Cache the pending state and create the background task.
Spawn(e) ==
  /\ where[e] = "pendingRedis"
  /\ RedisWrite(e, "pending")
  /\ MoveTo(e, "spawned")
  /\ UNCHANGED <<mem, db, cancelPc, cancels, lost, restarts>>

(***************************************************************************)
(* _run_workflow_async                                                     *)
(***************************************************************************)
TaskStarts(e) ==
  /\ where[e] = "spawned"
  /\ Mem(e, "running")
  /\ MoveTo(e, "runningDb")
  /\ UNCHANGED <<db, redis, cancelPc, cancels, lost, restarts>>

PersistRunning(e) ==
  /\ where[e] = "runningDb"
  /\ DbUpdate(e, "running")
  /\ MoveTo(e, "runningRedis")
  /\ UNCHANGED <<mem, redis, cancelPc, cancels, restarts>>

CacheRunning(e) ==
  /\ where[e] = "runningRedis"
  /\ RedisWrite(e, "running")
  /\ MoveTo(e, "executing")
  /\ UNCHANGED <<mem, db, cancelPc, cancels, lost, restarts>>

\* Fault: falls back again and again.
FallBackForever(e) ==
  /\ \/ where[e] = "executing" /\ MoveTo(e, "again")
     \/ where[e] = "again" /\ MoveTo(e, "executing")
  /\ UNCHANGED <<stores, cancelPc, cancels, lost, restarts>>

\* execute_blueprint raises: the whole workflow is executed once more.
FallBack(e) ==
  /\ where[e] = "executing"
  /\ MoveTo(e, "again")
  /\ UNCHANGED <<stores, cancelPc, cancels, lost, restarts>>

\* A result, successful or not, completes the execution...
Completes(e) ==
  /\ where[e] \in {"executing", "again"}
  /\ Mem(e, "completed")
  /\ MoveTo(e, "completedDb")
  /\ UNCHANGED <<db, redis, cancelPc, cancels, lost, restarts>>

\* ... and an exception of the second try fails it.
Fails(e) ==
  /\ where[e] = "again"
  /\ Mem(e, "failed")
  /\ MoveTo(e, "failedDb")
  /\ UNCHANGED <<db, redis, cancelPc, cancels, lost, restarts>>

\* Fault: both ends are persisted as completed.
PersistEndCompleted(e) ==
  /\ \/ where[e] = "completedDb" /\ DbUpdate(e, "completed") /\ MoveTo(e, "completedRedis")
     \/ where[e] = "failedDb" /\ DbUpdate(e, "completed") /\ MoveTo(e, "failedRedis")
  /\ UNCHANGED <<mem, redis, cancelPc, cancels, restarts>>

PersistEnd(e) ==
  /\ \/ where[e] = "completedDb" /\ DbUpdate(e, "completed") /\ MoveTo(e, "completedRedis")
     \/ where[e] = "failedDb" /\ DbUpdate(e, "failed") /\ MoveTo(e, "failedRedis")
  /\ UNCHANGED <<mem, redis, cancelPc, cancels, restarts>>

CacheEnd(e) ==
  /\ \/ where[e] = "completedRedis" /\ RedisWrite(e, "completed")
     \/ where[e] = "failedRedis" /\ RedisWrite(e, "failed")
  /\ MoveTo(e, "end")
  /\ UNCHANGED <<mem, db, cancelPc, cancels, lost, restarts>>

(***************************************************************************)
(* cancel_execution                                                        *)
(***************************************************************************)

\* With a record in memory only the record and Redis are written; without
\* one the database row is, and a failing write there fails the request.
Cancel(e) ==
  /\ cancelPc[e] = "none"
  /\ cancels[e] < MaxCancels
  /\ \/ mem[e] # "none" /\ Mem(e, "failed") /\ UNCHANGED db
     \/ /\ mem[e] = "none" /\ db[e] # "none"
        /\ db' = [db EXCEPT ![e] = "failed"]
        /\ UNCHANGED mem
  /\ cancels' = [cancels EXCEPT ![e] = @ + 1]
  /\ cancelPc' = [cancelPc EXCEPT ![e] = "redis"]
  /\ UNCHANGED <<redis, where, lost, restarts>>

CancelRedis(e) ==
  /\ cancelPc[e] = "redis"
  /\ RedisWrite(e, "failed")
  /\ cancelPc' = [cancelPc EXCEPT ![e] = "none"]
  /\ UNCHANGED <<mem, db, where, cancels, lost, restarts>>

\* Fault: running executions are put back to pending.
RestartRequeues ==
  /\ restarts < MaxRestarts
  /\ restarts' = restarts + 1
  /\ mem' = [e \in Execs |-> "none"]
  /\ db' = [e \in Execs |-> IF db[e] = "running" THEN "pending" ELSE db[e]]
  /\ where' = [e \in Execs |-> IF where[e] = "idle" THEN "idle" ELSE "dead"]
  /\ cancelPc' = [e \in Execs |-> "none"]
  /\ UNCHANGED <<redis, cancels, lost>>

\* The server process dies and starts again with an empty store.
Restart ==
  /\ restarts < MaxRestarts
  /\ restarts' = restarts + 1
  /\ mem' = [e \in Execs |-> "none"]
  /\ where' = [e \in Execs |-> IF where[e] = "idle" THEN "idle" ELSE "dead"]
  /\ cancelPc' = [e \in Execs |-> "none"]
  /\ UNCHANGED <<db, redis, cancels, lost>>

\* What the server does for one execution once it was accepted.
Work(e) ==
  \/ PersistPending(e)
  \/ Spawn(e)
  \/ TaskStarts(e)
  \/ PersistRunning(e)
  \/ CacheRunning(e)
  \/ FallBack(e)
  \/ Completes(e)
  \/ Fails(e)
  \/ PersistEnd(e)
  \/ CacheEnd(e)

ExecutionNext ==
  \/ \E e \in Execs : Accept(e) \/ Work(e) \/ Cancel(e) \/ CancelRedis(e)
  \/ Restart

ExecutionSpec == ExecutionInit /\ [][ExecutionNext]_executionVars

\* The event loop runs the tasks, and workflows and store calls return.
ExecutionFairSpec ==
  /\ ExecutionSpec
  /\ \A e \in Execs : WF_executionVars(Work(e)) /\ WF_executionVars(CancelRedis(e))

-----------------------------------------------------------------------------
(***************************************************************************)
(* Properties                                                              *)
(***************************************************************************)
Labels == {"idle", "pendingDb", "pendingRedis", "spawned", "runningDb", "runningRedis",
           "executing", "again", "completedDb", "failedDb", "completedRedis",
           "failedRedis", "end", "dead"}

\* The stores and the control state of the executions API.
ExecutionTypeOK ==
  /\ mem \in [Execs -> Statuses]
  /\ db \in [Execs -> Statuses]
  /\ redis \in [Execs -> Statuses]
  /\ where \in [Execs -> Labels]
  /\ cancelPc \in [Execs -> {"none", "redis"}]
  /\ cancels \in [Execs -> Nat]
  /\ lost \in [Execs -> BOOLEAN]
  /\ restarts \in Nat

Rank(s) ==
  CASE s = "none" -> 0
    [] s = "pending" -> 1
    [] s = "running" -> 2
    [] OTHER -> 3

\* While the record is in memory no store tells a client of progress the
\* execution has not made: the database never, Redis unless it was cancelled.
NoStoreAhead ==
  \A e \in Execs : mem[e] # "none" =>
    /\ Rank(db[e]) <= Rank(mem[e])
    /\ cancels[e] = 0 => Rank(redis[e]) <= Rank(mem[e])

\* The status clients poll never goes back, and a final one is only ever
\* replaced by a cancel request, whatever was lost, retried or restarted.
StatusOnlyAdvances ==
  [][\A e \in Execs :
       /\ Rank(db[e]) <= Rank(db'[e])
       /\ db[e] \in Terminal /\ db'[e] # db[e] => cancels'[e] > cancels[e]]_executionVars

\* An execution that ended uncancelled has the same status in memory and in
\* the database, unless a database write failed.
SettledAgree ==
  \A e \in Execs :
    where[e] = "end" /\ mem[e] # "none" /\ cancels[e] = 0 /\ ~lost[e] => db[e] = mem[e]

\* Without a restart every accepted execution reaches a final status in
\* memory and stays there.
EveryRunSettles ==
  \A e \in Execs :
    where[e] # "idle" ~> (where[e] = "dead" \/ (where[e] = "end" /\ mem[e] \in Terminal))
=============================================================================
