--------------------------- MODULE LevelScheduler ---------------------------
(***************************************************************************)
(* One level of Workflow._execute_level: every node of the level becomes   *)
(* an asyncio task (process_node) that enters a WeightedSemaphore over one *)
(* asyncio.Semaphore(max_parallel), runs the node and leaves.  LLM nodes   *)
(* weigh two slots, every other node one, and the slots of a node are      *)
(* acquired one at a time.                                                 *)
(*                                                                         *)
(* A step is what one task does between two suspension points of the event *)
(* loop.  The ready queue of the loop is FIFO: the tasks take their first  *)
(* step in the order gather created them, and the waiters of the semaphore *)
(* resume in the order they were woken.                                    *)
(***************************************************************************)
EXTENDS Integers, Sequences, FiniteSets

CONSTANTS
  N,            \* number of nodes of the level
  MaxParallel,  \* Workflow.max_parallel
  MaxHeavy      \* at most this many nodes of the level are LLM nodes

ASSUME SchedulerAssumption ==
  /\ N \in Nat
  /\ MaxParallel \in Nat \ {0}      \* RunOptions.max_parallel: ge=1
  /\ MaxHeavy \in Nat

VARIABLES
  heavy,      \* the nodes that are LLMNodeConfig
  value,      \* Semaphore._value
  waiters,    \* Semaphore._waiters, a deque of futures, here of their tasks
  woken,      \* the first `woken` futures of the deque are done
  held,       \* slots each task has acquired
  pc,         \* where each task is
  outcome,    \* what gather will see of each task
  returned    \* gather has returned

vars == <<heavy, value, waiters, woken, held, pc, outcome, returned>>
semaphore == <<value, waiters, woken>>

Nodes == 1..N

\* estimate_complexity; max(1, _) changes nothing.
Weight(n) == IF n \in heavy THEN 2 ELSE 1

MinOf(a, b) == IF a <= b THEN a ELSE b

Init ==
  /\ heavy \in SUBSET Nodes
  /\ Cardinality(heavy) <= MaxHeavy
  /\ value = MaxParallel
  /\ waiters = <<>>
  /\ woken = 0
  /\ held = [n \in Nodes |-> 0]
  /\ pc = [n \in Nodes |-> "created"]
  /\ outcome = [n \in Nodes |-> "none"]
  /\ returned = FALSE

(***************************************************************************)
(* asyncio.Semaphore.  locked(): no free slot, or somebody in the deque.   *)
(* A future stays in the deque until its task resumes, so a woken waiter   *)
(* still blocks newcomers.                                                 *)
(***************************************************************************)
Locked(v, q) == v = 0 \/ q # <<>>

\* Fault: enters with the first slot, whatever the weight.
AcquireOne(n, h, v, q) ==
  LET taken == IF Locked(v, q) THEN 0 ELSE MinOf(v, 1 - h) IN
  /\ held' = [held EXCEPT ![n] = h + taken]
  /\ value' = v - taken
  /\ IF h + taken >= 1
       THEN waiters' = q /\ pc' = [pc EXCEPT ![n] = "running"]
       ELSE waiters' = Append(q, n) /\ pc' = [pc EXCEPT ![n] = "waiting"]

\* The acquire() calls of __aenter__ from h slots on: they return at once
\* until the semaphore is locked, and then the task queues a future.
AcquireSlots(n, h, v, q) ==
  LET taken == IF Locked(v, q) THEN 0 ELSE MinOf(v, Weight(n) - h) IN
  /\ held' = [held EXCEPT ![n] = h + taken]
  /\ value' = v - taken
  /\ IF h + taken = Weight(n)
       THEN waiters' = q /\ pc' = [pc EXCEPT ![n] = "running"]
       ELSE waiters' = Append(q, n) /\ pc' = [pc EXCEPT ![n] = "waiting"]

\* Fault: releases without waking anybody.
ReleaseSilently(count) == value' = value + count /\ UNCHANGED <<woken, waiters>>

\* `count` calls of release(): each adds a slot and hands it to the first
\* future of the deque that is not done, if there is one.
ReleaseSlots(count) ==
  LET handed == MinOf(count, Len(waiters) - woken) IN
  /\ value' = value + count - handed
  /\ woken' = woken + handed
  /\ UNCHANGED waiters

(***************************************************************************)
(* process_node                                                            *)
(***************************************************************************)
\* First step of a task: enter the WeightedSemaphore.
Start(n) ==
  /\ pc[n] = "created"
  /\ \A m \in Nodes : m < n => pc[m] # "created"
  /\ AcquireSlots(n, 0, value, waiters)
  /\ UNCHANGED <<heavy, woken, outcome, returned>>

\* How many further waiters a resumed task wakes before it goes on: one in
\* the older 3.11 releases, as many as there are slots in the later ones.
FurtherWakes ==
  LET most == MinOf(value, Len(waiters) - woken)
  IN  IF most = 0 THEN {0} ELSE 1..most

\* The task at the head of the deque, woken earlier, resumes inside
\* acquire(): it owns the slot it was handed, passes free slots on and goes
\* on acquiring.
Resume ==
  /\ woken > 0
  /\ \E k \in FurtherWakes :
       /\ woken' = woken - 1 + k
       /\ AcquireSlots(Head(waiters), held[Head(waiters)] + 1, value - k,
                       Tail(waiters))
  /\ UNCHANGED <<heavy, outcome, returned>>

\* Fault: an exception skips __aexit__.
FinishLeaking(n, o) ==
  /\ pc[n] = "running"
  /\ IF o = "exception" THEN UNCHANGED semaphore ELSE ReleaseSlots(Weight(n))
  /\ held' = [held EXCEPT ![n] = 0]
  /\ pc' = [pc EXCEPT ![n] = "done"]
  /\ outcome' = [outcome EXCEPT ![n] = o]
  /\ UNCHANGED <<heavy, returned>>

\* execute_node returns a result or raises; __aexit__ releases all slots
\* either way and does not swallow the exception.
Finish(n, o) ==
  /\ pc[n] = "running"
  /\ ReleaseSlots(Weight(n))
  /\ held' = [held EXCEPT ![n] = 0]
  /\ pc' = [pc EXCEPT ![n] = "done"]
  /\ outcome' = [outcome EXCEPT ![n] = o]
  /\ UNCHANGED <<heavy, returned>>

\* gather(return_exceptions=True) returns when every task is done.
Gather ==
  /\ ~returned
  /\ \A n \in Nodes : pc[n] = "done"
  /\ returned' = TRUE
  /\ UNCHANGED <<heavy, semaphore, held, pc, outcome>>

\* The level is over; nothing is left to do.
Returned == returned /\ UNCHANGED vars

Outcomes == {"result", "exception"}

Next ==
  \/ \E n \in Nodes : Start(n)
  \/ Resume
  \/ \E n \in Nodes, o \in Outcomes : Finish(n, o)
  \/ Gather
  \/ Returned

Spec == Init /\ [][Next]_vars

\* The event loop runs every ready task, and every node's executor returns.
Fairness ==
  /\ \A n \in Nodes : WF_vars(Start(n))
  /\ WF_vars(Resume)
  /\ \A n \in Nodes : WF_vars(\E o \in Outcomes : Finish(n, o))
  /\ WF_vars(Gather)

FairSpec == Spec /\ Fairness

-----------------------------------------------------------------------------
(***************************************************************************)
(* Properties                                                              *)
(***************************************************************************)
\* The semaphore's counter is never negative, the woken futures are a prefix
\* of the deque and no task holds more slots than the heaviest node weighs.
TypeOK ==
  /\ heavy \subseteq Nodes
  /\ value \in Nat
  /\ waiters \in Seq(Nodes)
  /\ woken \in 0..Len(waiters)
  /\ held \in [Nodes -> 0..2]
  /\ pc \in [Nodes -> {"created", "waiting", "running", "done"}]
  /\ outcome \in [Nodes -> Outcomes \cup {"none"}]
  /\ returned \in BOOLEAN

\* Tasks that hold at least k slots, and the slots held altogether.
Holding(k) == {n \in Nodes : held[n] >= k}
HeldSlots == Cardinality(Holding(1)) + Cardinality(Holding(2))

\* No slot is lost or invented by one-at-a-time acquisition, hand-over and
\* release: free, handed-over and held slots always add up to max_parallel.
SlotConservation == value + woken + HeldSlots = MaxParallel

Running == {n \in Nodes : pc[n] = "running"}
Done == {n \in Nodes : pc[n] = "done"}

Pool == INSTANCE SlotPool WITH running <- Running, left <- Done

\* Although slots are acquired one at a time and tasks interleave, nodes
\* run as if WeightedSemaphore admitted each with all its slots at once and
\* within max_parallel, LLM nodes counted twice.
AdmitsAtomically == Pool!PoolSpec

\* A free slot is never ignored: while somebody waits for a slot and one is
\* free, a woken task is on its way that will pass it on (acquire()).
NoLostWakeup == value > 0 /\ woken < Len(waiters) => woken > 0

\* Everyone waits on everyone: tasks wait, none is woken, runs or is still
\* to start, so no step can ever release a slot.
Wedged ==
  /\ waiters # <<>> /\ woken = 0
  /\ \A n \in Nodes : pc[n] \in {"waiting", "done"}

\* The level has fewer LLM nodes than slots.  With as many LLM nodes as
\* slots every one of them can hold one slot and wait for its second.
FewerHeavyThanSlots == Cardinality(heavy) < MaxParallel

\* process_node of a level with fewer LLM nodes than max_parallel cannot
\* end in tasks that hold one slot each and wait for each other's.
NoWedge == FewerHeavyThanSlots => ~Wedged

\* A level with fewer LLM nodes than max_parallel is run to its end: every
\* task gets its slots and gather in _execute_level returns.
LevelReturns == FewerHeavyThanSlots => <>returned

\* "The context manager above always returns" (process_node): whatever the
\* nodes of the level are, every task gets its slots and gather returns.  The
\* code breaks it for a level with as many LLM nodes as slots.
LevelAlwaysReturns == <>returned
=============================================================================
