----------------------------- MODULE NetworkTasks ---------------------------
(***************************************************************************)
(* NetworkTaskManager: callers start, cancel and shut down the background  *)
(* tasks of scheduled networks under one lock, which is held while a       *)
(* cancelled task is awaited.                                              *)
(***************************************************************************)
EXTENDS Naturals, FiniteSets

CONSTANTS
  Callers,    \* each makes one call; a task is named after its starter
  Networks,
  NoTask

ASSUME NoTaskIsNoCaller == NoTask \notin Callers

VARIABLES
  call,   \* the state of each call: op, network, at
  tasks,  \* _tasks: the task of each network
  task    \* the state of the task each call has started

taskVars == <<call, tasks, task>>

TasksTypeOK ==
  /\ tasks \in [Networks -> Callers \cup {NoTask}]
  /\ task \in [Callers -> {"none", "running", "ended", "cancelled"}]
  /\ \A c \in Callers : call[c].at \in {"idle", "lock", "in", "awaiting", "done", "raised"}

TasksInit ==
  /\ call = [c \in Callers |-> [at |-> "idle"]]
  /\ tasks = [n \in Networks |-> NoTask]
  /\ task = [c \in Callers |-> "none"]

Calls ==
  {[at |-> "lock", op |-> op, network |-> n, todo |-> {n}, task |-> NoTask] :
     op \in {"start", "cancel"}, n \in Networks}
  \cup {[at |-> "lock", op |-> "shutdown", network |-> NoTask, todo |-> {}, task |-> NoTask]}

CallManager(c) ==
  /\ call[c].at = "idle"
  /\ \E next \in Calls : call' = [call EXCEPT ![c] = next]
  /\ UNCHANGED <<tasks, task>>

Holding(c) == call[c].at \in {"in", "awaiting"}

\* shutdown lists the networks once it has the lock.
Entered(old) ==
  [old EXCEPT !.at = "in",
              !.todo = IF old.op = "shutdown" THEN {n \in Networks : tasks[n] # NoTask} ELSE @]

Acquire(c) ==
  /\ call[c].at = "lock"
  /\ \A d \in Callers : ~Holding(d)
  /\ call' = [call EXCEPT ![c] = Entered(call[c])]
  /\ UNCHANGED <<tasks, task>>

\* Fault: start does not cancel the task of that network.
CancelNextLeavesTask(c) ==
  /\ call[c].at = "in"
  /\ \E n \in call[c].todo :
       /\ call' = [call EXCEPT ![c] = IF call[c].op = "start" THEN [@ EXCEPT !.at = "done"]
                                      ELSE [@ EXCEPT !.todo = @ \ {n}]]
       /\ tasks' = [tasks EXCEPT ![n] = IF call[c].op = "start" THEN c ELSE NoTask]
       /\ task' = IF call[c].op = "start" THEN [task EXCEPT ![c] = "running"] ELSE task

\* _cancel_unlocked: the task is taken out of the table, cancelled and awaited.
Cancelling(old, n) ==
  [old EXCEPT !.todo = @ \ {n}, !.task = tasks[n],
              !.at = IF tasks[n] = NoTask THEN "in" ELSE "awaiting"]

CancelNext(c) ==
  /\ call[c].at = "in"
  /\ \E n \in call[c].todo :
       /\ tasks' = [tasks EXCEPT ![n] = NoTask]
       /\ call' = [call EXCEPT ![c] = Cancelling(call[c], n)]
  /\ UNCHANGED task

\* The awaited task ended by itself, with a result or an error, which is
\* swallowed; or it was cancelled, and the CancelledError, which is no
\* Exception, ends the call: nothing is started, and a shutdown stops there.
Awaited(c) ==
  /\ call[c].at = "awaiting"
  /\ task[call[c].task] # "running"
  /\ call' = [call EXCEPT ![c].at = IF task[call[c].task] = "cancelled" THEN "raised" ELSE "in"]
  /\ UNCHANGED <<tasks, task>>

\* The end of the locked block; start creates the task.
Release(c) ==
  /\ call[c].at = "in" /\ call[c].todo = {}
  /\ call' = [call EXCEPT ![c].at = "done"]
  /\ IF call[c].op = "start"
     THEN /\ tasks' = [tasks EXCEPT ![call[c].network] = c]
          /\ task' = [task EXCEPT ![c] = "running"]
     ELSE UNCHANGED <<tasks, task>>

\* _wrap_coro: the network's coroutine ends, the table keeps it; or it was
\* cancelled.
TaskEnds(t) ==
  /\ task[t] = "running"
  /\ task' = [task EXCEPT ![t] = "ended"]
  /\ UNCHANGED <<call, tasks>>

TaskCancelled(t) ==
  /\ task[t] = "running"
  /\ \E c \in Callers : call[c].at = "awaiting" /\ call[c].task = t
  /\ task' = [task EXCEPT ![t] = "cancelled"]
  /\ UNCHANGED <<call, tasks>>

TasksNext ==
  \E c \in Callers :
    \/ CallManager(c) \/ Acquire(c) \/ CancelNext(c) \/ Awaited(c) \/ Release(c)
    \/ TaskEnds(c) \/ TaskCancelled(c)

\* No task runs out of the manager's reach: a running task is the one in the
\* table of its network, or the holder of the lock is waiting for its
\* cancellation; so no network ever runs twice.  (start, _cancel_unlocked)
NoStrayTask ==
  \A t \in Callers : task[t] = "running" =>
    \/ tasks[call[t].network] = t
    \/ \E c \in Callers : call[c].at = "awaiting" /\ call[c].task = t
=============================================================================
