--------------------------- MODULE ApiStoreProofs ---------------------------
(***************************************************************************)
(* What the executions API and the blueprints API guarantee, each of them  *)
(* over a database, a Redis cache and the memory of the process.  The two  *)
(* share no state: their theorems stand side by side.                      *)
(***************************************************************************)
EXTENDS ExecutionService, BlueprintStore, TLAPS

(***************************************************************************)
(* Executions: for any number of executions, cancel requests and restarts, *)
(* no store runs ahead of the execution, the status in the database only   *)
(* advances, and the stores agree on how an execution ended unless it was  *)
(* cancelled or a database write was lost.                                 *)
(***************************************************************************)

\* The labels between two changes of the status in memory ...
MemPending == {"pendingDb", "pendingRedis", "spawned"}
MemRunning == {"runningDb", "runningRedis", "executing", "again"}
MemCompleted == {"completedDb", "completedRedis"}
MemFailed == {"failedDb", "failedRedis"}

\* ... and of the status in the database and in Redis.
DbPending == {"pendingRedis", "spawned", "runningDb"}
DbRunning == {"runningRedis", "executing", "again", "completedDb", "failedDb"}
RedisPending == {"spawned", "runningDb", "runningRedis"}
RedisRunning == {"executing", "again"} \cup MemCompleted \cup MemFailed

\* What memory m and database d hold of an execution that is at l.
Reached(l, m, d) ==
  /\ m = "none" <=> l \in {"idle", "dead"}
  /\ l \in MemPending => m \in {"pending", "failed"}
  /\ l \in MemRunning => m \in {"running", "failed"}
  /\ l \in MemCompleted \cup {"end"} => m \in Terminal
  /\ l \in MemFailed => m = "failed"
  /\ l \in {"idle", "pendingDb"} => d = "none"
  /\ l \in DbPending => d \in {"none", "pending"}
  /\ l \in DbRunning => d \in {"none", "pending", "running"}

\* What memory and Redis hold of an execution that nobody cancelled.
Uncancelled(l, m, r) ==
  /\ l \in MemPending => m = "pending"
  /\ l \in MemRunning => m = "running"
  /\ l \in MemCompleted => m = "completed"
  /\ l \in {"idle", "pendingDb", "pendingRedis"} => r = "none"
  /\ l \in RedisPending => r \in {"none", "pending"}
  /\ l \in RedisRunning => r \in {"none", "pending", "running"}

\* What the database holds if in addition none of its writes was lost.
Recorded(l, m, d) ==
  /\ l \in DbPending => d = "pending"
  /\ l \in DbRunning => d = "running"
  /\ l = "completedRedis" => d = "completed"
  /\ l = "failedRedis" => d = "failed"
  /\ l = "end" => d = m

ExecInv(e) ==
  /\ Reached(where[e], mem[e], db[e])
  /\ cancels[e] = 0 => Uncancelled(where[e], mem[e], redis[e])
  /\ cancels[e] = 0 /\ ~lost[e] => Recorded(where[e], mem[e], db[e])
  /\ cancelPc[e] = "redis" => cancels[e] # 0

IInv == ExecutionTypeOK /\ \A e \in Execs : ExecInv(e)

\* Before it is accepted an execution is in no store.
LEMMA InitIInv == ExecutionInit => IInv
<1> SUFFICES ASSUME ExecutionInit PROVE IInv
    OBVIOUS
<1> USE DEF ExecutionInit
<1>1. ExecutionTypeOK
    BY DEF ExecutionTypeOK, Statuses, Labels
<1>2. ASSUME NEW e \in Execs PROVE ExecInv(e)
    BY DEF ExecInv, Reached, Uncancelled, Recorded, MemPending, MemRunning, MemCompleted,
           MemFailed, DbPending, DbRunning, RedisPending, RedisRunning, Terminal
<1> QED
    BY <1>1, <1>2 DEF IInv

\* A request or task of one execution touches nothing of another.
LEMMA Frame ==
  ASSUME ExecutionTypeOK, NEW e \in Execs,
         Accept(e) \/ Work(e) \/ Cancel(e) \/ CancelRedis(e),
         NEW f \in Execs, f # e
  PROVE  /\ where'[f] = where[f] /\ mem'[f] = mem[f] /\ db'[f] = db[f] /\ redis'[f] = redis[f]
         /\ cancelPc'[f] = cancelPc[f] /\ cancels'[f] = cancels[f] /\ lost'[f] = lost[f]
<1> USE DEF ExecutionTypeOK, MoveTo, Mem, DbWrite, DbUpdate, RedisWrite, stores
<1>1. CASE Accept(e) \/ Cancel(e) \/ CancelRedis(e)
    BY <1>1 DEF Accept, Cancel, CancelRedis
<1>2. CASE PersistPending(e) \/ Spawn(e) \/ TaskStarts(e)
    BY <1>2 DEF PersistPending, Spawn, TaskStarts
<1>3. CASE PersistRunning(e) \/ CacheRunning(e) \/ FallBack(e)
    BY <1>3 DEF PersistRunning, CacheRunning, FallBack
<1>4. CASE Completes(e) \/ Fails(e)
    BY <1>4 DEF Completes, Fails
<1>5. CASE PersistEnd(e) \/ CacheEnd(e)
    BY <1>5 DEF PersistEnd, CacheEnd
<1> QED
    BY <1>1, <1>2, <1>3, <1>4, <1>5 DEF Work

\* Statuses, labels and counters stay what they are.
LEMMA StepType ==
  ASSUME ExecutionTypeOK, NEW e \in Execs,
         Accept(e) \/ Work(e) \/ Cancel(e) \/ CancelRedis(e)
  PROVE  ExecutionTypeOK'
<1> USE DEF ExecutionTypeOK, MoveTo, Mem, DbWrite, DbUpdate, RedisWrite, stores, Statuses, Labels
<1>1. CASE Accept(e) \/ Cancel(e) \/ CancelRedis(e)
    BY <1>1 DEF Accept, Cancel, CancelRedis
<1>2. CASE PersistPending(e) \/ Spawn(e) \/ TaskStarts(e)
    BY <1>2 DEF PersistPending, Spawn, TaskStarts
<1>3. CASE PersistRunning(e) \/ CacheRunning(e) \/ FallBack(e)
    BY <1>3 DEF PersistRunning, CacheRunning, FallBack
<1>4. CASE Completes(e) \/ Fails(e)
    BY <1>4 DEF Completes, Fails
<1>5. CASE PersistEnd(e)
    BY <1>5 DEF PersistEnd
<1>6. CASE CacheEnd(e)
    BY <1>6 DEF CacheEnd
<1> QED
    BY <1>1, <1>2, <1>3, <1>4, <1>5, <1>6 DEF Work

\* A request or task keeps its own execution's stores in step with it.
LEMMA StepOwn ==
  ASSUME ExecutionTypeOK, NEW e \in Execs, ExecInv(e),
         Accept(e) \/ Work(e) \/ Cancel(e) \/ CancelRedis(e)
  PROVE  ExecInv(e)'
<1> USE DEF ExecutionTypeOK, MoveTo, Mem, DbWrite, DbUpdate, RedisWrite, stores, ExecInv, Reached,
            Uncancelled, Recorded, MemPending, MemRunning, MemCompleted, MemFailed,
            DbPending, DbRunning, RedisPending, RedisRunning, Terminal
<1>1. CASE Accept(e)
    BY <1>1 DEF Accept
<1>2. CASE PersistPending(e)
    BY <1>2 DEF PersistPending
<1>3. CASE Spawn(e)
    BY <1>3 DEF Spawn
<1>4. CASE TaskStarts(e)
    BY <1>4 DEF TaskStarts
<1>5. CASE PersistRunning(e)
    BY <1>5 DEF PersistRunning
<1>6. CASE CacheRunning(e)
    BY <1>6 DEF CacheRunning
<1>7. CASE FallBack(e)
    BY <1>7 DEF FallBack
<1>8. CASE Completes(e)
    BY <1>8 DEF Completes
<1>9. CASE Fails(e)
    BY <1>9 DEF Fails
<1>10. CASE PersistEnd(e)
    BY <1>10 DEF PersistEnd
<1>11. CASE CacheEnd(e)
    BY <1>11 DEF CacheEnd
<1>12. CASE Cancel(e)
  <2>1. cancels'[e] # 0 /\ where' = where /\ where[e] # "idle"
      BY <1>12 DEF Cancel
  <2>2. CASE mem[e] # "none" /\ Mem(e, "failed") /\ UNCHANGED db
      BY <2>1, <2>2
  <2>3. CASE mem[e] = "none" /\ db' = [db EXCEPT ![e] = "failed"] /\ UNCHANGED mem
      BY <2>1, <2>3
  <2> QED
      BY <1>12, <2>2, <2>3 DEF Cancel
<1>13. CASE CancelRedis(e)
    BY <1>13 DEF CancelRedis
<1> QED
    BY <1>1, <1>2, <1>3, <1>4, <1>5, <1>6, <1>7, <1>8, <1>9, <1>10, <1>11, <1>12, <1>13
    DEF Work

\* A restart forgets the executions of the process and touches no store.
LEMMA RestartPreserves ==
  ASSUME IInv, Restart
  PROVE  IInv'
<1>1. ExecutionTypeOK'
    BY DEF IInv, ExecutionTypeOK, Restart, Statuses, Labels
<1>2. ASSUME NEW e \in Execs PROVE ExecInv(e)'
    BY DEF IInv, ExecutionTypeOK, Restart, ExecInv, Reached, Uncancelled, Recorded, MemPending,
           MemRunning, MemCompleted, MemFailed, DbPending, DbRunning, RedisPending,
           RedisRunning, Terminal
<1> QED
    BY <1>1, <1>2 DEF IInv

\* Every step, and stuttering, preserves the inductive invariant.
LEMMA NextIInv == IInv /\ [ExecutionNext]_executionVars => IInv'
<1> SUFFICES ASSUME IInv, [ExecutionNext]_executionVars PROVE IInv'
    OBVIOUS
<1>1. CASE UNCHANGED executionVars
    BY <1>1 DEF executionVars, stores, IInv, ExecutionTypeOK, ExecInv
<1>2. CASE Restart
    BY <1>2, RestartPreserves
<1>3. ASSUME NEW e \in Execs, Accept(e) \/ Work(e) \/ Cancel(e) \/ CancelRedis(e)
      PROVE  IInv'
  <2>1. ExecutionTypeOK'
      BY <1>3, StepType DEF IInv
  <2>2. ExecInv(e)'
      BY <1>3, StepOwn DEF IInv
  <2>3. ASSUME NEW f \in Execs, f # e PROVE ExecInv(f)'
    <3>1. ExecInv(f)
        BY DEF IInv
    <3>2. /\ where'[f] = where[f] /\ mem'[f] = mem[f] /\ db'[f] = db[f] /\ redis'[f] = redis[f]
          /\ cancelPc'[f] = cancelPc[f] /\ cancels'[f] = cancels[f] /\ lost'[f] = lost[f]
        BY <1>3, <2>3, Frame DEF IInv
    <3> QED
        BY <3>1, <3>2 DEF ExecInv
  <2> QED
      BY <2>1, <2>2, <2>3 DEF IInv
<1> QED
    BY <1>1, <1>2, <1>3 DEF ExecutionNext

\* The inductive invariant holds throughout.
LEMMA Invariant == ExecutionSpec => []IInv
BY InitIInv, NextIInv, PTL DEF ExecutionSpec

\* Type correctness of the three stores and the tasks.
THEOREM TypeCorrect == ExecutionSpec => []ExecutionTypeOK
<1>1. IInv => ExecutionTypeOK
    BY DEF IInv
<1> QED
    BY <1>1, Invariant, PTL

\* No store reports progress that the execution in memory has not made.
THEOREM StoresNotAhead == ExecutionSpec => []NoStoreAhead
<1>1. IInv => NoStoreAhead
  <2> SUFFICES ASSUME IInv, NEW e \in Execs, mem[e] # "none"
               PROVE  /\ Rank(db[e]) <= Rank(mem[e])
                      /\ cancels[e] = 0 => Rank(redis[e]) <= Rank(mem[e])
      BY DEF NoStoreAhead
  <2>1. /\ ExecInv(e) /\ where[e] \in Labels
        /\ mem[e] \in Statuses /\ db[e] \in Statuses /\ redis[e] \in Statuses
      BY DEF IInv, ExecutionTypeOK
  <2>2. Rank(db[e]) <= Rank(mem[e])
      BY <2>1 DEF ExecInv, Reached, MemPending, MemRunning, MemCompleted, MemFailed,
                  DbPending, DbRunning, Terminal, Rank, Labels, Statuses
  <2>3. cancels[e] = 0 => Rank(redis[e]) <= Rank(mem[e])
      BY <2>1 DEF ExecInv, Reached, Uncancelled, MemPending, MemRunning, MemCompleted,
                  MemFailed, RedisPending, RedisRunning, Terminal, Rank, Labels, Statuses
  <2> QED
      BY <2>2, <2>3
<1> QED
    BY <1>1, Invariant, PTL

\* An uncancelled execution ends with one answer in memory and database,
\* unless the database lost a write.
THEOREM StoresAgree == ExecutionSpec => []SettledAgree
<1>1. IInv => SettledAgree
    BY DEF IInv, ExecInv, Recorded, SettledAgree
<1> QED
    BY <1>1, Invariant, PTL

\* A step changes the row of an execution only to a later status, and a final
\* one only on a cancel request.
LEMMA StepAdvances ==
  ASSUME ExecutionTypeOK, NEW e \in Execs, ExecInv(e),
         Accept(e) \/ Work(e) \/ Cancel(e) \/ CancelRedis(e)
  PROVE  /\ Rank(db[e]) <= Rank(db'[e])
         /\ db[e] \in Terminal /\ db'[e] # db[e] => cancels'[e] > cancels[e]
<1> USE DEF ExecutionTypeOK, MoveTo, Mem, DbWrite, DbUpdate, Rank, Statuses, Terminal
<1>1. CASE db' = db
    BY <1>1
<1>2. CASE PersistPending(e)
    BY <1>2 DEF PersistPending, ExecInv, Reached
<1>3. CASE PersistRunning(e)
    BY <1>3 DEF PersistRunning, ExecInv, Reached, DbPending
<1>4. CASE PersistEnd(e)
    BY <1>4 DEF PersistEnd, ExecInv, Reached, DbRunning
<1>5. CASE Cancel(e)
    BY <1>5 DEF Cancel
<1>6. CASE Accept(e) \/ CancelRedis(e) \/ Spawn(e) \/ TaskStarts(e) \/ CacheRunning(e)
    BY <1>1, <1>6 DEF Accept, CancelRedis, Spawn, TaskStarts, CacheRunning
<1>7. CASE FallBack(e) \/ Completes(e) \/ Fails(e) \/ CacheEnd(e)
    BY <1>1, <1>7 DEF FallBack, Completes, Fails, CacheEnd, stores
<1> QED
    BY <1>2, <1>3, <1>4, <1>5, <1>6, <1>7 DEF Work

\* The status clients poll never goes back, through losses and restarts.
THEOREM StatusAdvances == ExecutionSpec => StatusOnlyAdvances
<1> DEFINE Advances == \A e \in Execs :
             /\ Rank(db[e]) <= Rank(db'[e])
             /\ db[e] \in Terminal /\ db'[e] # db[e] => cancels'[e] > cancels[e]
<1>1. IInv /\ [ExecutionNext]_executionVars => [Advances]_executionVars
  <2> SUFFICES ASSUME IInv, [ExecutionNext]_executionVars PROVE [Advances]_executionVars
      OBVIOUS
  <2>1. ASSUME db' = db PROVE Advances
      BY <2>1 DEF IInv, ExecutionTypeOK, Rank, Statuses
  <2>2. CASE UNCHANGED executionVars
      BY <2>2
  <2>3. CASE Restart
      BY <2>1, <2>3 DEF Restart
  <2>4. ASSUME NEW e \in Execs, Accept(e) \/ Work(e) \/ Cancel(e) \/ CancelRedis(e)
        PROVE  Advances
    <3> SUFFICES ASSUME NEW f \in Execs
                 PROVE  /\ Rank(db[f]) <= Rank(db'[f])
                        /\ db[f] \in Terminal /\ db'[f] # db[f] => cancels'[f] > cancels[f]
        OBVIOUS
    <3>1. CASE f = e
        BY <2>4, <3>1, StepAdvances DEF IInv
    <3>2. CASE f # e
      <4>1. db'[f] = db[f]
          BY <2>4, <3>2, Frame DEF IInv
      <4>2. Rank(db[f]) \in Nat
          BY DEF Rank
      <4> QED
          BY <4>1, <4>2
    <3> QED
        BY <3>1, <3>2
  <2> QED
      BY <2>2, <2>3, <2>4 DEF ExecutionNext
<1> QED
    BY <1>1, Invariant, PTL DEF ExecutionSpec, StatusOnlyAdvances

(***************************************************************************)
(* Blueprints: for any number of clients and tries, with stores that fail, *)
(* the cache serves only committed bodies, and no acknowledged update is   *)
(* lost unless two handlers were between check and write at once, one      *)
(* worked on the cache, or the blueprint was deleted.                      *)
(***************************************************************************)

Caching(c) == at[c] = "caching" /\ op[c] = "update"

\* What the cache holds, or is about to be given, has been in the database.
CacheInv ==
  /\ cached \subseteq committed
  /\ \A c \in Clients : Caching(c) => Updated(c) \subseteq committed

\* Without races and stale reads at most one handler is between check and
\* write, it works on the present row, and changes written stay in the row.
SerialInv ==
  ~raced /\ ~stale =>
    /\ \A c \in Clients : at[c] = "checked" => loaded[c] = row /\ loaded[c] # {}
    /\ \A c, d \in Clients : at[c] = "checked" /\ at[d] = "checked" => c = d
    /\ ~deleted => \A c \in Clients : c \in acked \/ Caching(c) => \E b \in row : c \in b

BlueprintInv == BlueprintTypeOK /\ CacheInv /\ SerialInv

\* A stored blueprint, cached or not, and no handler at work.
LEMMA BlueprintInitInv == BlueprintInit => BlueprintInv
<1> SUFFICES ASSUME BlueprintInit PROVE BlueprintInv
    OBVIOUS
<1> USE DEF BlueprintInit
<1>1. {{}} \in Stored /\ {} \in Stored
    BY DEF Stored, Bodies
<1>2. BlueprintTypeOK
    BY <1>1 DEF BlueprintTypeOK, Bodies
<1>3. CacheInv
    BY DEF CacheInv, Caching
<1>4. SerialInv
    BY DEF SerialInv, Caching
<1> QED
    BY <1>2, <1>3, <1>4 DEF BlueprintInv

\* What _load_blueprint can return is something a store can hold.
LEMMA ViewsStored == ASSUME BlueprintTypeOK PROVE Views \subseteq Stored
BY DEF BlueprintTypeOK, Views, Stored

\* An update turns one body into one body of the database.
LEMMA UpdatedStored ==
  ASSUME BlueprintTypeOK, NEW c \in Clients
  PROVE  Updated(c) \in Stored /\ Updated(c) \subseteq Bodies
<1>1. loaded[c] \in Stored
    BY DEF BlueprintTypeOK
<1>2. CASE loaded[c] = {}
    BY <1>2 DEF Updated, Stored
<1>3. ASSUME NEW b \in Bodies, loaded[c] = {b} PROVE Updated(c) \in Stored /\ Updated(c) \subseteq Bodies
  <2>1. b \cup {c} \in Bodies
      BY DEF Bodies
  <2>2. Updated(c) = {b \cup {c}}
      BY <1>3 DEF Updated
  <2> QED
      BY <2>1, <2>2 DEF Stored
<1> QED
    BY <1>1, <1>2, <1>3 DEF Stored

\* A client reads the blueprint.
LEMMA GetPreserves ==
  ASSUME BlueprintInv, NEW c \in Clients, Get(c)
  PROVE  BlueprintInv'
<1> USE DEF BlueprintInv
<1>1. PICK view \in Views : /\ seen' = [seen EXCEPT ![c] = view]
                            /\ Proceed(c, IF view = {} THEN "done" ELSE "ready")
    BY DEF Get
<1>2. view \in Stored
    BY ViewsStored
<1>3. BlueprintTypeOK'
  <2>1. tries' \in [Clients -> Nat]
      BY DEF Get, BlueprintTypeOK
  <2>2. seen' \in [Clients -> Stored]
      BY <1>1, <1>2 DEF BlueprintTypeOK
  <2>3. at' \in [Clients -> {"idle", "ready", "checked", "caching", "done"}]
      BY <1>1 DEF BlueprintTypeOK, Proceed
  <2> QED
      BY <2>1, <2>2, <2>3 DEF Get, BlueprintTypeOK
<1>4. \A d \in Clients : /\ at'[d] = "checked" <=> at[d] = "checked"
                         /\ at'[d] = "caching" <=> at[d] = "caching"
    BY <1>1 DEF Get, Proceed, BlueprintTypeOK
<1>5. CacheInv'
    BY <1>4 DEF CacheInv, Caching, Updated, Get
<1>6. SerialInv'
    BY <1>4 DEF SerialInv, Caching, Get
<1> QED
    BY <1>3, <1>5, <1>6

\* A handler loads the blueprint and compares the lock.
LEMMA CheckPreserves ==
  ASSUME BlueprintInv, NEW c \in Clients, Check(c)
  PROVE  BlueprintInv'
<1> USE DEF BlueprintInv
<1>1. PICK view \in Views :
        \/ view = {} /\ Proceed(c, "done") /\ UNCHANGED <<loaded, raced, stale>>
        \/ /\ view # {} /\ view # seen[c]
           /\ Proceed(c, "idle")
           /\ UNCHANGED <<loaded, raced, stale>>
        \/ /\ view # {} /\ view = seen[c]
           /\ Proceed(c, "checked")
           /\ loaded' = [loaded EXCEPT ![c] = view]
           /\ raced' = (raced \/ \E d \in Clients : at[d] = "checked")
           /\ stale' = (stale \/ view # row)
    BY DEF Check
<1>2. view \in Stored
    BY ViewsStored
<1>3. /\ at[c] = "ready"
      /\ UNCHANGED <<op, row, cached, tries, seen, acked, committed, deleted>>
    BY DEF Check
<1>4. CASE Proceed(c, "done") /\ UNCHANGED <<loaded, raced, stale>>
  <2>1. BlueprintTypeOK'
      BY <1>3, <1>4 DEF BlueprintTypeOK, Proceed
  <2>2. CacheInv'
      BY <1>3, <1>4 DEF CacheInv, Caching, Updated, Proceed, BlueprintTypeOK
  <2>3. SerialInv'
      BY <1>3, <1>4 DEF SerialInv, Caching, Proceed, BlueprintTypeOK
  <2> QED
      BY <2>1, <2>2, <2>3
<1>5. CASE Proceed(c, "idle") /\ UNCHANGED <<loaded, raced, stale>>
  <2>1. BlueprintTypeOK'
      BY <1>3, <1>5 DEF BlueprintTypeOK, Proceed
  <2>2. CacheInv'
      BY <1>3, <1>5 DEF CacheInv, Caching, Updated, Proceed, BlueprintTypeOK
  <2>3. SerialInv'
      BY <1>3, <1>5 DEF SerialInv, Caching, Proceed, BlueprintTypeOK
  <2> QED
      BY <2>1, <2>2, <2>3
<1>6. CASE /\ view # {}
           /\ Proceed(c, "checked")
           /\ loaded' = [loaded EXCEPT ![c] = view]
           /\ raced' = (raced \/ \E d \in Clients : at[d] = "checked")
           /\ stale' = (stale \/ view # row)
  <2>1. BlueprintTypeOK'
    <3>1. loaded' \in [Clients -> Stored]
        BY <1>2, <1>6 DEF BlueprintTypeOK
    <3>2. raced' \in BOOLEAN /\ stale' \in BOOLEAN
        BY <1>6
    <3>3. at' \in [Clients -> {"idle", "ready", "checked", "caching", "done"}]
        BY <1>6 DEF BlueprintTypeOK, Proceed
    <3> QED
        BY <1>3, <3>1, <3>2, <3>3 DEF BlueprintTypeOK
  <2>2. \A d \in Clients \ {c} : at'[d] = at[d] /\ loaded'[d] = loaded[d]
      BY <1>6 DEF BlueprintTypeOK, Proceed
  <2>3. at'[c] = "checked" /\ loaded'[c] = view
      BY <1>6 DEF BlueprintTypeOK, Proceed
  <2>4. CacheInv'
      BY <1>3, <2>2, <2>3 DEF CacheInv, Caching, Updated
  <2>5. SerialInv'
    <3> SUFFICES ASSUME ~raced', ~stale'
                 PROVE  /\ \A d \in Clients : at'[d] = "checked" => loaded'[d] = row' /\ loaded'[d] # {}
                        /\ \A d, e \in Clients : at'[d] = "checked" /\ at'[e] = "checked" => d = e
                        /\ ~deleted' => \A d \in Clients :
                              d \in acked' \/ Caching(d)' => \E b \in row' : d \in b
        BY DEF SerialInv
    <3>1. ~raced /\ ~stale /\ view = row /\ \A d \in Clients : at[d] # "checked"
        BY <1>6
    <3>2. \A d \in Clients : Caching(d)' => Caching(d)
        BY <1>3, <2>2, <2>3 DEF Caching
    <3> QED
        BY <1>3, <1>6, <2>2, <2>3, <3>1, <3>2 DEF SerialInv
  <2> QED
      BY <2>1, <2>4, <2>5
<1> QED
    BY <1>1, <1>4, <1>5, <1>6

\* The handler of an update writes the row, or fails to.
LEMMA SavePreserves ==
  ASSUME BlueprintInv, NEW c \in Clients, Save(c)
  PROVE  BlueprintInv'
<1> USE DEF BlueprintInv
<1>1. /\ at[c] = "checked" /\ op[c] = "update"
      /\ UNCHANGED <<op, cached, tries, seen, loaded, acked, raced, stale, deleted>>
    BY DEF Save
<1>2. CASE Proceed(c, "done") /\ UNCHANGED <<row, committed>>
  <2>1. BlueprintTypeOK'
      BY <1>1, <1>2 DEF BlueprintTypeOK, Proceed
  <2>2. CacheInv'
      BY <1>1, <1>2 DEF CacheInv, Caching, Updated, Proceed, BlueprintTypeOK
  <2>3. SerialInv'
      BY <1>1, <1>2 DEF SerialInv, Caching, Proceed, BlueprintTypeOK
  <2> QED
      BY <2>1, <2>2, <2>3
<1>3. CASE row' = Updated(c) /\ committed' = committed \cup Updated(c) /\ Proceed(c, "caching")
  <2>1. BlueprintTypeOK'
      BY <1>1, <1>3, UpdatedStored DEF BlueprintTypeOK, Proceed
  <2>2. /\ at'[c] = "caching"
        /\ \A d \in Clients \ {c} : at'[d] = at[d]
      BY <1>3 DEF BlueprintTypeOK, Proceed
  <2>3. CacheInv'
      BY <1>1, <1>3, <2>2 DEF CacheInv, Caching, Updated
  <2>4. SerialInv'
    <3> SUFFICES ASSUME ~raced, ~stale
                 PROVE  /\ \A d \in Clients : at'[d] # "checked"
                        /\ ~deleted => \A d \in Clients :
                              d \in acked \/ Caching(d)' => \E b \in row' : d \in b
        BY <1>1 DEF SerialInv
    <3>1. \A d \in Clients : at'[d] # "checked"
        BY <1>1, <2>2 DEF SerialInv
    <3>2. loaded[c] = row /\ loaded[c] # {}
        BY <1>1 DEF SerialInv
    <3>3. \E b \in row' : c \in b
      <4>1. PICK b : b \in loaded[c]
          BY <3>2
      <4>2. b \cup {c} \in row'
          BY <1>3, <4>1 DEF Updated
      <4> QED
          BY <4>2
    <3>4. ASSUME ~deleted, NEW d \in Clients \ {c}, d \in acked \/ Caching(d)'
          PROVE  \E b \in row' : d \in b
      <4>1. d \in acked \/ Caching(d)
          BY <1>1, <2>2, <3>4 DEF Caching
      <4>2. PICK b \in row : d \in b
          BY <3>4, <4>1 DEF SerialInv
      <4>3. b \cup {c} \in row'
          BY <1>3, <3>2 DEF Updated
      <4> QED
          BY <4>2, <4>3
    <3> QED
        BY <3>1, <3>3, <3>4
  <2> QED
      BY <2>1, <2>3, <2>4
<1> QED
    BY <1>2, <1>3 DEF Save

\* The handler of a deletion deletes the row, or fails to.
LEMMA DeletePreserves ==
  ASSUME BlueprintInv, NEW c \in Clients, Delete(c)
  PROVE  BlueprintInv'
<1> USE DEF BlueprintInv
<1>1. /\ at[c] = "checked" /\ op[c] = "delete"
      /\ UNCHANGED <<op, cached, tries, seen, loaded, acked, committed, raced, stale>>
    BY DEF Delete
<1>2. CASE Proceed(c, "done") /\ UNCHANGED <<row, deleted>>
  <2>1. BlueprintTypeOK'
      BY <1>1, <1>2 DEF BlueprintTypeOK, Proceed
  <2>2. CacheInv'
      BY <1>1, <1>2 DEF CacheInv, Caching, Updated, Proceed, BlueprintTypeOK
  <2>3. SerialInv'
      BY <1>1, <1>2 DEF SerialInv, Caching, Proceed, BlueprintTypeOK
  <2> QED
      BY <2>1, <2>2, <2>3
<1>3. CASE row' = {} /\ deleted' = TRUE /\ Proceed(c, "caching")
  <2>1. BlueprintTypeOK'
      BY <1>1, <1>3 DEF BlueprintTypeOK, Proceed, Stored
  <2>2. CacheInv'
      BY <1>1, <1>3 DEF CacheInv, Caching, Updated, Proceed, BlueprintTypeOK
  <2>3. SerialInv'
    <3>1. \A d \in Clients \ {c} : at'[d] = at[d]
        BY <1>3 DEF BlueprintTypeOK, Proceed
    <3>2. at'[c] = "caching"
        BY <1>3 DEF BlueprintTypeOK, Proceed
    <3> QED
        BY <1>1, <1>3, <3>1, <3>2 DEF SerialInv
  <2> QED
      BY <2>1, <2>2, <2>3
<1> QED
    BY <1>2, <1>3 DEF Delete

\* The cache is refreshed, or not, and the client gets its answer.
LEMMA CachePreserves ==
  ASSUME BlueprintInv, NEW c \in Clients, Cache(c)
  PROVE  BlueprintInv'
<1> USE DEF BlueprintInv
<1>1. /\ at[c] = "caching"
      /\ UNCHANGED <<op, row, tries, seen, loaded, committed, raced, stale, deleted>>
      /\ acked' = IF op[c] = "update" THEN acked \cup {c} ELSE acked
      /\ cached' = cached \/ cached' = IF op[c] = "update" THEN Updated(c) ELSE {}
    BY DEF Cache
<1>2. at'[c] = "done" /\ \A d \in Clients \ {c} : at'[d] = at[d]
    BY DEF Cache, Proceed, BlueprintTypeOK
<1>3. BlueprintTypeOK'
  <2>1. cached' \in Stored
      BY <1>1, UpdatedStored DEF BlueprintTypeOK, Stored
  <2>2. at' \in [Clients -> {"idle", "ready", "checked", "caching", "done"}]
      BY DEF Cache, Proceed, BlueprintTypeOK
  <2> QED
      BY <1>1, <2>1, <2>2 DEF BlueprintTypeOK
<1>4. CacheInv'
  <2>1. cached' \subseteq committed
      BY <1>1 DEF CacheInv, Caching
  <2>2. \A d \in Clients : Caching(d)' => Caching(d)
      BY <1>1, <1>2 DEF Caching
  <2> QED
      BY <1>1, <2>1, <2>2 DEF CacheInv, Updated
<1>5. SerialInv'
  <2>1. \A d \in Clients : d \in acked' \/ Caching(d)' => d \in acked \/ Caching(d)
      BY <1>1, <1>2 DEF Caching
  <2> QED
      BY <1>1, <1>2, <2>1 DEF SerialInv
<1> QED
    BY <1>3, <1>4, <1>5

\* Every step, and stuttering, preserves the inductive invariant.
LEMMA BlueprintNextInv == BlueprintInv /\ [BlueprintNext]_blueprintVars => BlueprintInv'
<1> SUFFICES ASSUME BlueprintInv, [BlueprintNext]_blueprintVars PROVE BlueprintInv'
    OBVIOUS
<1>1. CASE UNCHANGED blueprintVars
    BY <1>1 DEF blueprintVars, BlueprintInv, BlueprintTypeOK, CacheInv, SerialInv, Caching, Updated
<1>2. ASSUME NEW c \in Clients, Get(c) \/ Check(c) \/ Save(c) \/ Delete(c) \/ Cache(c)
      PROVE  BlueprintInv'
    BY <1>2, GetPreserves, CheckPreserves, SavePreserves, DeletePreserves, CachePreserves
<1> QED
    BY <1>1, <1>2 DEF BlueprintNext

\* The inductive invariant holds throughout.
LEMMA BlueprintInvariant == BlueprintSpec => []BlueprintInv
BY BlueprintInitInv, BlueprintNextInv, PTL DEF BlueprintSpec

\* Type correctness: a store holds at most one body.
THEOREM BlueprintTyped == BlueprintSpec => []BlueprintTypeOK
<1>1. BlueprintInv => BlueprintTypeOK
    BY DEF BlueprintInv
<1> QED
    BY <1>1, BlueprintInvariant, PTL

\* Redis never serves a body that was not committed, however writes to the
\* two stores interleave and fail.
THEOREM CacheIsCommitted == BlueprintSpec => []CacheOnlyCommitted
<1>1. BlueprintInv => CacheOnlyCommitted
    BY DEF BlueprintInv, CacheInv, CacheOnlyCommitted
<1> QED
    BY <1>1, BlueprintInvariant, PTL

\* The version lock protects every acknowledged update as long as handlers do
\* not overlap between check and write and work on the row.
THEOREM SerialUpdates == BlueprintSpec => []SerialUpdatesKept
<1>1. BlueprintInv => SerialUpdatesKept
    BY DEF BlueprintInv, SerialInv, SerialUpdatesKept, UpdatesKept, BlueprintTypeOK
<1> QED
    BY <1>1, BlueprintInvariant, PTL
=============================================================================
