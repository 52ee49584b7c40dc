# A TLA+ verification of the iceOS runtime

iceOS executes blueprints: graphs of nodes (LLM calls, tools, agents, code,
loops, parallel blocks, ...) that a server accepts over HTTP, stores, and runs
inside one asyncio process. This directory models the parts of it where the
order of events, failures and shared state decide whether the answer is right,
checks them with TLC on small instances and proves the central safety properties
with TLAPS for every instance. Paths below are relative to the root of the
repository.

## 1. Inventory

| Component | State it keeps | Operations | Interacts with | Modules |
|---|---|---|---|---|
| Level scheduler (`workflow.py` `_execute_level`, `perf.py`) | one `asyncio.Semaphore(max_parallel)` per level and its waiters | enter and leave `WeightedSemaphore`, `gather` | runs the node executor inside a slot | LevelScheduler, SlotPool |
| Node executor and budget (`execution/executor.py`, `budget_enforcer.py`) | the two loop counters, the result, calls per kind | validate, call, process, charge, retry | sandbox, budget, context manager | NodeExecutor |
| Workflow engine (`workflow.py`, `chain_validator.py`, `context_builder.py`) | results, errors, metrics, levels | loop over levels, ceilings, failure policy, recursive flows | scheduler, executors | WorkflowEngine, RecursiveFlow |
| Builtin executors and LLM service (`execution/executors/builtin/`) | iteration counters, `socket.socket` of the process | one executor per kind of node | registry, nested nodes, providers | BuiltinExecutors |
| Resource sandbox (`resource_sandbox.py`) | limits of the whole process, a snapshot per sandbox | enter, exit | around every executor | ResourceSandbox |
| Context manager and stores (`context/`) | the current context, sessions, branches; a JSON file and a cache per process | construct, inject, read, update, clear | every workflow of the process | ContextManager, ContextStore |
| Dependency graph and gating (`graph/`) | edges, levels, a cache of active nodes | cycle check, cutting recursive cycles, levels, `is_node_active` | workflow constructor and `execute` | DependencyGraph, Authoring |
| Node models, conversion, builder DSL (`node_models.py`, `node_conversion.py`, `dsl/workflow.py`) | a draft, the table of tools | add, connect, build, validate, convert | registry, graph | NodeModels, Authoring |
| Unified registry (`unified_registry.py`) | factories, caches, agent definitions, a dynamic module | register, resolve, load manifests | every API area | UnifiedRegistry |
| MCP API: components | a record per component, its index | validate, register, update, delete, read, rehydrate | Redis or SQL, registry | McpComponents |
| MCP API: documents, drafts (`mcp.py`, `drafts.py`, `builder_drafts.py`) | partial blueprints, sessions, chats, canvases, drafts | read-modify-write routes | Redis, registry | McpDocuments |
| MCP API: runs, JSON-RPC, Redis stub | results in the process, one stream per run, one session | start, publish, subscribe, tools/list, tools/call | registry | McpRuns |
| Studio (`workspaces.py`, `library.py`, tokens) | rows, tokens, attached workflows, assets | create, attach, bootstrap, issue, revoke | database, Redis | Studio |
| Executions API (`executions.py`) | status in memory, database and Redis | start, task, cancel, status | engine, client | ExecutionService, IceClient |
| Blueprints API (`blueprints.py`) | the row, the Redis copy | get, patch, put, delete | version lock of clients | BlueprintStore |
| Memory stores and pools (`ice_core/memory`, `shared_memory.py`) | entries, indexes, order of use, pools by name | store, retrieve, delete, merge, expire, get_pool | agents | WorkingMemory, SemanticMemory, ProceduralMemory, SharedPools |
| Network task manager (`task_manager.py`) | a task per network, a lock | start, cancel, shut down | event loop | NetworkTasks |
| WebSocket gateway (`ws_gateway.py`) | clients, a queue, one worker | connect, post, broadcast | clients | WsGateway |
| HTTP client (`ice_client/client.py`) | the call under way, its deadline, the last lock | run, poll, submit, edit a partial | executions and MCP API | IceClient |
| Revisions, collections, templates (`ia.py`, `templates.py`) | Redis keys with a dictionary as fallback | create, list, make a blueprint | Redis, database | Shelf |
| Copilot and builder service | nothing between calls | suggest, validate, simulate, plan a run | the client's canvas | Copilot |

What is hard here: tasks interleave at every `await` and share a semaphore, a
budget, the limits and the sockets of the process, and one current context;
retries are nested; several ways to stop (policy, depth, tokens, an exception)
meet in one loop; a status is kept in three stores whose writes fail silently and
separately; locks and rows are checked before one `await` and relied on after it;
indexes are kept by hand; cycles are allowed in one place and recursed through in
another; processes share a file; the server may stop between any two writes.
`PROJECT.json` lists each hazard with its line and the properties that cover it.

What makes each part correct:

* Scheduler: nodes run as if each got all its slots at once, nobody starves, and
  a level with fewer LLM nodes than slots returns (one with as many may not, section 5).
* Node executor: retrying ends, an executor that raises is invoked no more often than
  its policy says (one whose replies are refused is, section 5); a budget that fails
  closed bounds the successes.
* Engine: success is reported only if everything ran and succeeded, dependencies
  come first, HALT stops, nothing is left out without a reason, a run whose nodes do
  not raise returns, and so do the recursive executions of a level.
* Executors: code that may not use the network cannot, and leaves it intact.
* Sandbox: code inside never exceeds its limit, the process gets its limit back.
* Contexts: an acknowledged node context is in the file; a first execution that no
  other overlaps reads its own inputs.
* Authoring: what is validated starts, levels respect dependencies, a connection
  is an order, gating returns.
* Components: a confirmed registration by factory code survives a restart; no request
  exchanges a registered tool (a restart does, and so does a manifest that names it).
* Documents and Studio: an edit made while nobody else was in the document is never
  lost, whatever overlaps later; rows have their parents, revoked tokens stay revoked.
* Executions: no store is ahead of the truth, a status never goes back, the stores
  agree in the end, every run settles, and the client's wait ends.
* Blueprints: an acknowledged change is kept, the cache serves only what was
  committed.
* Services: the least recently used entry goes first, indexes lead to every entry,
  no task escapes its manager, a message reaches who is
  connected, what is listed can be loaded, a planned slice is closed.

## 2. Modules and how they correspond to the code

`PROJECT.json` ("map") gives the source lines of each definition. Operators with
a comment that begins with "Fault:" are deliberately wrong variants of the
definition that follows them; they are used to see that a property notices.
Every root module has a `TypeOK` (with a prefix where modules are proved about together)
that documents the values of its variables. Section 4 names the theorems that prove it, and
the compositions for which only TLC checked it.

### The engine

**LevelScheduler** One level. A step is what one task does between two
suspension points. `Start` is the first step of `process_node`, `Resume` a waiter
that continues inside `acquire()`, `Finish` the end of the node with
`__aexit__`, `Gather` the return of `gather`. `value`, `waiters` and `woken` are
`_value` and `_waiters` of `asyncio.Semaphore` (Python 3.11, external), whose
`release` hands the slot to the first future that is not done. Whether a
resumed task wakes one or several others depends on the patch release and is
left open (`FurtherWakes`). Which nodes are LLM nodes is chosen initially;
`FewerHeavyThanSlots` is the premise of `NoWedge` and `LevelReturns`, and
`LevelAlwaysReturns`, the comment's claim, has none.

**SlotPool** What a weighted semaphore promises: a node enters with all its slots
at once if they fit. LevelScheduler implements it with
`running <- Running, left <- Done`.

**NodeExecutor** `execute_node` of nodes of one kind that run concurrently. The outer and the
inner `for` loop assign the same variable `attempt`; `outer` counts the iterations of the outer
loop. `ExecutorRaises` is a failure the inner loop sees, `ProcessingRaises` and a refused
charge in `ReplyCharged` are failures only the outer one sees. `AttemptsWithinPolicy` is the
documented meaning of `max_attempts`, `InnerLoopWithinPolicy` the part of it that the code
keeps. The node cache is looked up and never written, so a look-up is always a miss.

**WorkflowEngine** `execute` for every DAG in `Graphs`: `EnterLevel` (depth guard
and ceiling), `RunNode` in any order within the level, `Gather`, one `Collect...`
action per kind of item, `Finish`. What a node does is one of the three things
`gather` can give for it. Guards installed by users answer arbitrarily. A node
whose mapped dependency did not succeed raises while its context is built. A node that raises
ends the run as `crashed`: `ExceptionsConverted` is the comment's claim that it does not.
Recursive nodes are excluded, so `_handle_recursive_flows` does nothing.

**ResourceSandbox** `Enter` and `Exit` of sandboxes on one process-wide limit with
its soft and hard part; `SetRlimit` is what the kernel does and the exceptions
the code swallows. One resource stands for the three, which do not influence one
another. Whether the process is privileged is chosen initially.

**ExecutionService** The status of an execution in `mem`, `db` and `redis`, one
action per awaited write, with failures swallowed; the fallback that executes the
whole workflow again; `Cancel`; `Restart`, which loses memory and tasks. The
orchestrator is assumed to be installed. Reads, events and key expiry are left
out.

**BlueprintStore** Clients that read a blueprint and then patch, put or delete it
with the lock they read. A body is the set of clients whose change it contains,
so the lock, a hash of the body, is the body. `Check` loads and compares;
`Save`/`Delete` and `Cache` are separate steps because the writes are awaited.
`raced`, `stale`, `deleted`, `acked`, `committed` are history variables.

**BuiltinExecutors** What one executor call does for each of the twelve kinds of
node, one action per stretch of code between two awaits: the look-up of a registered
implementation (`Delegate`, `Resolve`, `StartAgent`, `StartCode`), its answers and
exceptions (`ImplReturns`, `ImplRaisesKeyError`, `ImplRaises`; the human executor reads
`KeyError` as "not registered"), and each kind's own body. `sock` is `socket.socket` of
the process, which a code node replaces while it awaits its factory. A nested node
always raises (`NestedRaises`): `execute_node` asks the dependency graph for the level
of the temporary id before it awaits anything. So the temporary ids of concurrent
branches never meet. `Generated` is what `LLMService` makes of a provider's answer.

**RecursiveFlow** One level with recursive nodes: the executor calls above, then
`_handle_recursive_flows`. `Gathered` lists the executions of all recursive nodes,
`ExecuteRecursive` runs the first and puts what it asks for in front, `Collect` stores
the level's own results over the accumulated ones, as `execute` does.

**ContextStore** Node contexts in one JSON file that several processes rewrite. `Update`,
`Set` and `Clear` choose what will be written; `Open` truncates the file before the lock
is asked for, `Dump` writes when the file is closed, after the lock. `Crash` may happen
in between. `harmed` records overlaps, crashes and writes of a whole cache.

**ContextManager** The manager that all workflows of a process share: `Construct` sets the
one current context and evicts the oldest session, `BuildNodeContext` is what a node reads.
`Inject` is `execute_workflow` of a fresh workflow or of one executed before (`Executes`):
without inputs it leaves the current context as it is; with inputs it starts the session
"run", or merges them into it where that session is current. `UpdateNodeContext` stores an
output cut to size (`Kept`) through ContextStore or the Redis variant. `rotated` records
the runs during which another was constructed or injected, `how` how each came to be executed.

### From a draft to a running workflow

**NodeModels** The validators of each node configuration and `runtime_validate` as
predicates on a record of what they tell apart.

**DependencyGraph** `CheckCycles` accepts a cycle only through a recursive node whose
source is on it; `InspectEdge` visits the edges at recursive nodes in any order and
removes one that still closes a cycle; `AssignLevel` visits what is left in any
topological order. Which edge of a cycle goes depends on the order, and so do levels.

**Authoring** A draft is made with `AddNode`, `Connect`, `Build` (or `ToWorkflow`), or handed
over; `StartCheck`, `Visit` and `Accept` are the API's validation; of two entries with one id
the last is the node (`LastOf`); `Execute` and `Construct`
the conversion and the constructor; `Analyze` the second opinion of `GraphAnalyzer`;
`Gate`, `Recurse` and `Return` the calls of `is_node_active`, one stack frame each, level by
level; between two levels `record_decision` of a condition that answered drops the cache.
`LoseTool` unregisters a tool at any time.

### The API server

A request is a coroutine: a record with the await it is suspended at and its local
variables (`Goto`, `Answer`, at the head of McpComponents).

**UnifiedRegistry** The registry as a record `reg` and what each registration or look-up
makes of it. `load_plugins` runs through a manifest in order until a chain is named
twice; `Entries` says which entries that reaches, and what they register does not depend
on their order. What is registered is an implementation `Made` from a definition, as its
factory, its class or its data.

**McpComponents** A definition may carry factory code, class code or both, good or bad.
`Registered` decides in the order of the code's branches, factory before class; one action
per await of validate, register, update and delete; `Restart` clears the registry and
`Rehydrate`s it from the store, class before factory, binding every class-based tool to the
class of the last one, as the loop does.

**McpDocuments** Content is the sequence of requests whose edits it holds, so that a
lock (a digest) is the content; `ideal` is the list of all acknowledged edits, `raced` the
requests that were in a document together with another.

**McpRuns** Runs, their single event in the stream, the JSON-RPC session, and the stub
in place of Redis.

**Studio** A row knows its parent and which request gave it its name and which its catalog.
`ReadRow` and `CommitRow` are separated by an await; a POST of a project that exists overwrites
both, a bootstrap nothing that exists; an asset is a row with its key, content and age, and a
content that comes again keeps its age.

**IceApi** composes them over the one registry and event loop; the requests of a
behaviour go to one area and its neighbours, since areas meet only in the registry.

### Services and clients

**WorkingMemory**, **SemanticMemory**, **ProceduralMemory**, **SharedPools** No operation
suspends, so each is a step, and `clear` of the semantic memory one step per fact. The
`OrderedDict` of the working memory is the set of its keys with, for each, the keys behind it
(`AtEnd`, `Without`, `Fitted`); `since` is the history eviction is judged by: the keys used
after each key's last use. Index lists may name a key several times and are counts.
**NetworkTasks** A call of the manager holds its lock while it awaits a cancelled task;
`CancelledError` ends the call. **WsGateway** The worker sends to one member per step
while the set changes; a changed set kills it, as in Python. **IceClient** The client's
requests and the part of the server they see; `outcomeLost` records a final status that
was never stored. **Shelf** Each request tries Redis and falls back to a dictionary,
request by request; a revision is two writes. **Copilot** Patches on a canvas and the
stack walk that closes a selection under dependencies (`Include`). **IceServices** composes
them; they share no state, so a behaviour uses one.

The engine modules meet as the code does: an item of WorkflowEngine's level is a task of
LevelScheduler, whose `Finish(n, o)` is a whole execution in NodeExecutor ("raised" there
is "exception" here), whose `Invoke` is an executor call of BuiltinExecutors inside a
sandbox. They share no variables, which is why each behaviour of MCExecution runs one of them; so
do ExecutionService and BlueprintStore, which the same instance checks.

## 3. Runs

| Run | Instance | Shows |
|---|---|---|
| level_slots | 6 nodes, 3 slots, up to 3 LLM nodes | refinement of SlotPool; with fewer LLM nodes than slots no wedge, and the level returns |
| level_wedges | 4 nodes, 2 slots, up to 2 LLM nodes | **violated** `LevelAlwaysReturns` |
| workflow | all DAGs of 4 nodes, all policies, token ceiling 1, depth ceiling 3 | success, order, HALT, nothing skipped; a run without exceptions returns |
| workflow_exceptions | the same | **violated** `ExceptionsConverted` |
| execution | one part per behaviour: an execution with failing stores, 2 cancels, 2 restarts; 3 clients of a blueprint with 2 tries each; 3 nodes with retries 2, 1, 0 and a budget of 2; 2 nodes of every kind with up to 2 sources and 2 iterations; 4 sandboxes with limits 1..4 | no store ahead, statuses advance, stores agree, runs settle; serial updates are kept, the cache serves committed bodies; the inner loop keeps the policy, the budget bounds successes, retrying ends; a lone code node leaves the network as it found it, recursion ends; nested sandboxes restore, unprivileged code is confined |
| node_attempts | 3 nodes with retries 2, 1, 0 | **violated** `AttemptsWithinPolicy` |
| contexts | 2 processes, 2 store operations, a crash, 2 executions, 2 sessions | serial updates are in the file; an undisturbed first execution sees its own inputs |
| authoring | all graphs of 3 plain or recursive nodes, chains of 4 with conditions, some 100 kinds of configuration, drafts of up to 3 nodes and 2 connections | validation implies start, levels, gating, connections |
| recursive_cycles | the same | **violated** `AcceptedExecutes` |
| api | up to 3 requests per area, 5 components, a manifest, store errors, a restart | registrations survive, requests exchange no tool, edits made alone and tables are sound |
| services | one of nine services at a time, 2-3 keys, agents, callers or clients each | eviction, indexes, tasks, broadcast, waiting, shelf, plans |
| pool_delete | the same | **violated** `DeletedWithData` |

Each violated run is a finding of `PROJECT.json`, the disagreement of the code with a comment
or docstring of its own:

* `level_wedges`: two LLM nodes on two slots each hold one and wait for the other's, so the
  context manager that "always returns" does not.
* `workflow_exceptions`: an exception is filed under its text, and looking that up among the
  nodes raises `KeyError` out of `execute`.
* `node_attempts`: the inner retry loop starts again in each iteration of the outer one, so
  that `max_attempts` does not bound the attempts.
* `recursive_cycles`: a declared recursive cycle passes the constructor, and then
  `is_node_active` recurses along it for ever while the first level is gated, because it
  follows the uncut graph and caches only afterwards.
* `pool_delete`: a pool is deleted "and all its data", but only as far as one listing goes.

### Bounds

* Scheduler: six nodes on three slots is enough for two tasks that hold one slot
  each, a newcomer that queues behind a woken one, and hand-over of two slots to
  two waiters; the third LLM node is the one the premise of `NoWedge` and `LevelReturns`
  leaves out, and is admitted as by SlotPool like the others. The theorems cover every size.
* Node executor: retries 2, 1 and 0 include a loop that restarts twice, one that
  restarts once and one that may not; three nodes exceed a budget of two. The
  theorems cover every size.
* Engine: four nodes give every shape of a diamond, levels with several failures
  and chains deeper than the depth ceiling. Node numbers follow a topological
  order, which loses no DAG: `execute` looks at numbers only within a level.
* Recursive flow: `MaxIterations` = 2 lets a node ask, ask again and be refused; two
  nodes name themselves, each other or both.
* Sandbox: two sandboxes cross, and two more nest in or around them; limits below,
  at and above what the process has.
* Contexts: `MaxOps` = 2 store operations overlap at every point, with `MaxCrashes` = 1;
  two runs and `MaxSessions` = 2 reach eviction.
* Authoring: three nodes make every two- and three-cycle with zero to three recursive nodes;
  `RecursionLimit` = 4 exceeds the longest acyclic path, so that in `recursive_cycles` reaching
  it means a cycle; in `authoring` it is 3, so that a chain behind a condition reaches it too.
  `MaxNodes` and `MaxLinks` let a connection come before one or both of its nodes.
* API: two requests make every race, a third comes late or reads; two requests in the
  components area, where a request has the most steps. The definitions are one of each kind:
  factory code, a class, a class that is none, and both. Requests are symmetric.
* Services: `MaxEntries` = 2 with three keys evicts; `MaxListed`, `MaxStores`, `MaxUses`,
  `MaxPools`, `MaxContent` and `MaxMessages` cap counters after the value that matters
  (a list with a key twice, a pool recreated, a second message behind a first);
  `PoolListLimit` = 1 stands for the 100 keys of a listing, so that two keys exceed it.
  `Patience` = 1 separates a poll in time from one too late.
* Executions: executions share nothing but the process, so one is enough; two
  restarts and two cancels put each before, between and after the other.
* Blueprints: two clients race and a third comes late; a second try is what a
  client does after 409.

Deadlock checking is off where the system may be idle: API, services, contexts,
authoring (which ends with a gated, refused or raised workflow), the executions and
blueprints of execution, and level_wedges, whose point is that it stops.

### Fairness

`MCExecution!MCFairness` is the fairness of its components, each in the behaviours that run
it; `RetriesEnd` and `FlowEnds` are `EveryNodeEnds` and `RecursionEnds` of those behaviours.

* `LevelScheduler!FairSpec`: weak fairness of every task: asyncio's ready queue is
  FIFO, so a task that can run does. `Finish` is fair because executors are run
  with a timeout.
* `NodeExecutor!FairSpec`: the same per node; `run_with_timeout` ends every call.
* `WorkflowEngine!FairSpec`: weak fairness of `Step`, one coroutine plus tasks that
  end.
* `RecursiveFlow!FlowSpec`: weak fairness of each node's executor and of the coroutine of the
  workflow, for the same two reasons.
* `ExecutionService!ExecutionFairSpec`: tasks run and store calls return, with or without
  success. Neither cancel requests nor restarts are fair.
* `IceServices!Spec`: the gateway's worker runs when it can; the client's coroutine goes
  on when it is answered or its sleep is over; the server answers requests and finishes
  runs. Connecting, posting, leaving, restarts and cancels are not fair.

## 4. Proofs

**LevelSchedulerProofs**, for every N, max_parallel and number of LLM nodes:
`TypeCorrect`, `SlotsConserved`, `WakeupsNotLost`, `NeverWedged`,
`ImplementsSlotPool`. Conservation alone is not inductive: to know that `Resume`
may give the head of the deque a slot one must know that a woken task waits, is in
the deque once and lacks a slot. `IInv` therefore adds the relation of each task's
place (`pc`) to what it holds, that the deque holds exactly the waiting tasks without
repetition, and that free slots with sleepers imply somebody woken. `NeverWedged`
then follows by counting: in a wedge every slot is held by an LLM node that holds
exactly one, so there are at least max_parallel of them. The refinement uses that a
running node owns all its slots.

**NodeExecutorProofs**, for every finite set of nodes, all retries and budgets: `TypeCorrect`,
`CallsAreBounded`, `InnerLoopKeepsPolicy`, `BudgetHolds`. The bound on calls needs a relation
between the counters: `calls <= outer * R + attempt` (+ 1 while a call is under way or over),
because every restart gives up at most R calls for one outer iteration; and the outer loop
never restarts from the last inner attempt. In its first iteration the same relation keeps the
documented `max_attempts`. The budget needs that the successes were all charged: their number
never exceeds `registered`, and a success leaves `registered` within the budget.

**WorkflowEngineProofs**, for every DAG, policy and ceiling: `TypeCorrect`,
`SuccessIsHonest`, `RunsInOrder`, `HaltHolds`, `NoneSkipped`. The four properties are
conjuncts of the invariant; what they need is `ShapeInv` (earlier levels have run,
later ones have not, and of the present one exactly the items still pending have no
result), `ResultInv` (errors and failed results name the same nodes; without an abort
every level behind has all its results) and `HaltInv` (HALT goes on only without any
error). That the run ends only after the last level needs `NoGaps`: longest-path levels
leave no level empty, by the least level above the gap.

**ProcessProofs**, what one process shares. The three specifications have disjoint
variables and are proved one by one in the one module.

* For all sandboxes and limits: `SandboxTyped`, `Confined`, `NestingRestores`. `Confined`
  rests on the hard limit, which only falls in an unprivileged process (`LimitInv`);
  `NestingRestores` on the stack nested sandboxes form: each has saved the limit of the one
  around it (`StackInv`).
* For any finite set of nodes of every kind in a level with recursion: `NetworkAlone`. What
  `SocketInv` adds is what the code node will put back: while its factory runs, a lone code
  node has saved the library's constructor. That nothing else touches the socket holds of
  every executor that is not a code node's (`OtherExecutors`), and a code node never waits
  for nested nodes.
* For any number of processes, keys, operations and crashes: `StoreTyped`,
  `SerialUpdatesStay`. The property speaks of processes at rest; `Serial` says what is true
  in between: at most one process is busy, what it is about to write is what was
  acknowledged, and the file is empty only between its truncation and its dump. The history
  `harmed` is empty only if each operation began with all others at rest, so that what it
  reads is what was acknowledged (`OthersIdle`).
* For any number of runs and sessions: `UndisturbedRuns`. `RunInv` says that a run nobody
  replaced, unless its workflow was executed before, does not find the session "run" as the
  current one before it injects (`OwnContext`), since its constructor has put its own in
  place, and that afterwards the current context holds no inputs but its own.

**ApiStoreProofs**, two APIs whose specifications have disjoint variables and are proved one
by one in the one module.

* For any number of executions, cancels and restarts: `TypeCorrect`, `StoresNotAhead`,
  `StoresAgree`, `StatusAdvances`. `ExecInv` says for every point of the task what the three
  stores can hold (`Reached`), what they hold if nobody cancelled (`Uncancelled`) and if no
  database write was lost (`Recorded`).
* For any number of clients and tries: `BlueprintTyped`, `CacheIsCommitted`, `SerialUpdates`.
  `SerialInv` says that without races and stale reads at most one handler is between check
  and write, and that what it loaded still is the row.

**IceApiProofs**, for any number of requests, components, definitions, documents, users and
texts, any manifest and any number of restarts: `Invariant`, `ConfirmedSurvives`,
`NeverReplaced`, `TablesConsistent`, `SoloEdits`. None of the properties is inductive: each
speaks of stores and answers, and is kept only because of what a suspended handler knows. The
invariant has one part per area that says just this, for each await of the area.

* `ComponentsInv`: a request that has not reached its write has written no record; the record
  it wrote is its definition until somebody overwrites it; once the index was set it is listed
  (or the repository lists by table), and "registered" was answered only for a definition that
  is usable. Hence `ConfirmedSurvives`: the record is there to be found, and the loop over the
  stored tools makes of factory code what was confirmed, whichever class comes last
  (`IInvSurvives`). Of a definition that carries a class too it would make the class, which is
  why the property leaves that out.
* `RacedInv`: two requests are inside one document only if both were recorded as `raced`. The
  other parts use it. Neither the document nor what a handler has read need be what it was:
  but whatever a handler has read, and whatever is there, keeps the acknowledged edits of all
  requests that never raced, in their order (`Keeps`). A handler that is alone has read what is
  there; one that races may write back an older list, which was read after every solo edit
  before it ended and so has them too. `KeepsAppended`, `KeepsOthers` and `KeepsFewer` are what
  an acknowledged write, the edit of a racer and a newly noted race do to `Keeps`. For
  sessions, chats and canvases the list is what will be appended to (`SessionInv`, `ChatInv`,
  `CanvasInv`); a canvas being opened is still missing, or the second opener would reset the
  first one's edits.
* `PartialInv`: a partial blueprint and its lock are two keys, and a partial of a design
  session is stored without a lock. It has no edits, and no edit gets past the missing lock; one
  with a lock is what the edit has read, or the lock has meanwhile gone.
* `RowsInv`: a transaction about to insert a row inserts its parent with it or the parent is
  there, and rows are never deleted; one that updates has found the row.
* `TokensInv`: a token exists once its request was answered, and who was told of its end finds
  it ended. `AssetsInv`: one row per content.

The proof that a step keeps the invariant is split by who moves. A step of a request changes
that request, and one area (`Turn`): each area has a lemma for its own steps and a `...Frame`
lemma for those of the others, and what a frame needs is only that nobody newly arrives at
the area's awaits. A manifest (`LoadManifestKept`) and a restart (`RebootKept`) are steps of
their own; a restart forgets the locals of all requests, and the registry is made again from
the store (`Rehydrate`), which is the reason the records' types are in `ComponentsInv`.
`NeverReplaced` follows from the same case split: of all that a request does to the registry
only a validation registers a tool, and it has looked the name up in the same step. What
remains is a restart, and a manifest, which exchanges only what it names, for its own class.

**AuthoringProofs**, for every finite set of ids, every list of configurations and every
order of the author's calls: `AuthoringTyped`, `LevelsAlwaysSound`, `DraftLevelsBelow`,
`ValidatedAlwaysStarts`, `GatingStaysShallow`, `ConnectionsAlwaysOrdered`; and of the graph by
itself, for any edges and any recursive nodes, `LevelsRespectDependencies`,
`AcyclicKeepsAll`, `OnePassSuffices`. `AuthoringInv` has one part per stage of a draft:

* `GraphInv`: the graph does not change while it is levelled and only edges at recursive
  nodes are inspected or removed. That one pass is enough is an argument of monotonicity: an
  edge that was kept closed no cycle then, and fewer edges make no new paths. A level is one
  more than that of some kept dependency (`LevelsTight`), hence the longest path.
* `StageInv`: the graph is that of the draft (`FromDraft`); `BuildInv`: the dependencies of
  a built draft are its connections.
* `KahnInv`: there is a set V of processed nodes (`Processed`) whose size is the count, in-degrees
  count the dependencies outside V, and V contains no cycle. When nothing is ready, a count equal
  to the number of entries means that V is everything, so ids are distinct and the draft has
  no cycle (`AllProcessed`); a smaller count means a cycle or an id twice (`NotAllProcessed`).
* `ValidatedInv`: what was accepted stays closed, distinct and without cycles until it runs.
* `GateInv`: in a graph that kept its edges, what has been gated and is no longer in the cache
  lies at or below the level of a condition that has answered, and the calls on the stack go
  down from there, at least one level each (`Shallow`).

These rest on lemmas about finite graphs. A set is `Preceded` if each member has a
predecessor in it; a nonempty one holds a least one, which is the round of a simple cycle
(`RoundTrip`), so `SimpleCycles` is empty exactly if no such set exists (`NoSimpleCycles`), and
an edge whose ends are connected backwards is on one (`PathCloses`). `RemainderAcyclic` combines
them: a cycle left after the pass would be a cycle of the graph, accepted for a recursive node
on it, whose edge would not have come back. `GraphAnalyzer`'s recursive function is not computed
but characterised: the levels solve its equation, and by the least counterexample in
level there is one solution (`AnalyzerAgrees`).

**IceServicesProofs**, for any number of keys, agents, callers, networks, writers and nodes:
`WorkingMemoryKeepsRecent`, `IndexesAlwaysComplete`, `TasksNeverStray`, `ShelfStaysWhole`,
 `PlansAreRunnable`. The services share no state, so `ServicesInv` is a
conjunction of six invariants, each kept by its own steps (`OneServiceSteps` is the frame).

* `WorkingInv`: a live entry is in the dictionary or at least `max_entries` keys were used
  after it; while it is there, the keys behind it are among those used after it.
* `SemanticInv` and `ProceduralInv`: every stored fact or procedure is counted at least once in
  each index that should name it. `merge_facts` and bulk deletion repeat single operations, and
  keep it because each of these does, also when one raises half-way.
* `TasksInv`: at most one call of the manager is inside the lock (`OneHolder`), and what each call
  has done so far is fixed by where it waits (`CallShape`).
* `ShelfInv`: each writer's revision has been stored as far as its place says (`Underway`), and
  without a failure the dictionaries are empty.
* `PlanInv`: the walk's stack and result are within what the selection needs, and hold the
  dependencies of every node taken out; on an empty stack that is closure.

The assumptions are those next to the constants of each module (`SchedulerAssumption`,
`ExecutorAssumption`, `EngineAssumption`, `SandboxAssumption`, `ServiceAssumption`,
`StoreAssumption`, `IdsFinite`, `AuthoringAssumption`, `WorkingAssumption`, `GeneralIsADomain`,
`CompositeIsACategory`, `NoTaskIsNoCaller`, `BoundAssumption`, `ConfigAssumption`,
`ScopesAssumption`, `DistinctAssumption`, `ManagerAssumption`, `RegistryAssumption`,
`RequestsAssumption`); TLC evaluates them in the
runs. They only say of what kind a constant is, that max_parallel is at least one, that a soft
limit is not above its hard limit, that the manager's own store is a plain one, and that no
run's session, a `uuid4().hex`, is the one named "run".

Only model-checked: liveness (`LevelReturns`, `RetriesEnd`, `EveryRunReturns`,
`EveryRunSettles`, `FlowEnds`, `BroadcastReaches`, `WaitEnds`), which is beyond the prover.
Every safety and action property that a passing run checks is stated by a theorem. The type
invariants of IceApi and IceServices bound counters and contents by the number of requests or
by a cap; TLC finds them true in all states of the api and services instances, and the
inductive invariants hold only the part of them that a property needs. Only proved, and not in
a run of their own: that slots are conserved and no wake-up is lost (`SlotsConserved`,
`WakeupsNotLost`), the bound on calls (`CallsAreBounded`) and type correctness.

## 5. Where code and documentation disagree

Met while modelling, each visible in the model of the code named. Five of them are findings,
shown by the violated runs named here; the others are facts about the models, not further runs.

Engine
* With as many LLM nodes as slots (one is enough for `max_parallel=1`), each may hold one
  slot and wait for its second, and the level never returns (`perf.py:29`;
  `workflow.py:472` "The context manager above always returns"; run level_wedges). `NoWedge`
  says fewer LLM nodes rule it out, and is proved; for `LevelReturns`, which has the same
  premise, TLC checks it.
* `max_attempts` bounds the inner loop only: up to R*R + R + 1 calls (`executor.py:225`,
  `node_models.py:48` "including the first one"; run node_attempts). What holds of the policy,
  and is proved, is `InnerLoopWithinPolicy`; that the loops end at all is `RetriesEnd`.
* An exception of `gather` is filed under its text, and `execute` dies with `KeyError`
  under every policy (`workflow.py:524`, `:478`; run workflow_exceptions). `EveryRunReturns`
  therefore speaks of runs none of whose nodes raises, and `NothingSkipped` of runs that return.
* The token ceiling only ends the loop over one level's items (`workflow.py:361`);
  `should_continue` counts nodes that have succeeded among those that could still run
  (`chain_validator.py:61`).
* A recursive node is never run again, its sources are; and `execute` stores the level's
  older results over those of the recursion (`workflow.py:337`, `:546-616`).
* Every nested node of a parallel, loop or condition node raises `KeyError`
  (`workflow.py:1320`); the human executor reads it as "not registered" and approves.
* Overlapping code nodes put back each other's blocked sockets
  (`code_node_executor.py:85`).
* `LLMService.generate` documents retries, but every provider handler turns exceptions
  into an error tuple, so none happens.
* Lowering the hard limit cannot be undone without privileges, and overlapping sandboxes
  put back each other's limits (`resource_sandbox.py:111`).
* The current context is shared, so overlapping runs see each other's inputs
  (`context/manager.py:165`). A workflow executed again, without any overlap, reads what the
  last run left: its constructor does not run again, without inputs `execute_workflow` leaves
  the context alone (`workflow_execution_service.py:179`), and with inputs it stays on the
  session "run" and merges them over the former ones. `UndisturbedSeesOwn` leaves both out.
  Oversized objects are stored whole.

Authoring
* `connect` before `add`, followed by `to_workflow`, loses the dependency; builder agents
  without a model raise; agent, condition and recursive builder nodes without schemas fail
  `runtime_validate`; memory-aware LLM nodes never convert.
* A declared recursive cycle is accepted and then recursed through without end (run
  recursive_cycles). In a graph without cycles too `is_node_active` recurses: each answer of a
  condition drops the cache (`level_resolver.py:33`), so that the next level is gated from
  that condition's level down to the roots. A condition about a thousand levels deep exceeds
  Python's recursion limit; `GatingShallow` and `ValidatedStarts` say that nothing else does.
* Which edge of a recursive cycle is dropped depends on list order; a duplicate id is
  reported as a circular dependency; `GraphAnalyzer.get_metrics` raises with two roots.

API
* A cancelled execution is overwritten by its own task (`executions.py:225`, `:598`); one
  that was running at a stop stays "running" for ever (`:469`).
* Two handlers that check the version lock before either writes lose an update
  (`blueprints.py:343`, `:193`).
* After a restart every class-based tool is the last one: the factories close over the
  loop variable (`main.py:242`); agents and workflows do not come back. A definition that
  carries both kinds of code is registered by its factory (`mcp.py:1698`) and comes back as
  its class (`main.py:221`). `RegisteredSurvives` is about definitions with factory code alone
  whose record nobody has written since.
* "The first registered implementation wins" where a manifest names a tool that exists
  (`unified_registry.py:345-348`): the registered class stays, but the factory cache, which
  `get_tool_instance` asks first, is overwritten (`:363`). `ToolsNeverReplaced` allows this one
  exchange beside a restart, and the model takes it whenever a missing tool loads a manifest.
* `delete_component` removes from `components:index` while the repository writes
  `component:index`; update neither validates nor keeps the version.
* Of two concurrent registrations one is stored and the other may run.
* A partial blueprint and its lock are read separately; session partials are stored
  without a lock and can never be edited; an update in flight revives a finalized one; two
  chat turns at once lose one; two `If-Match` puts both succeed. `SoloEditsKept` promises
  nothing to requests that were in a document together; it says that their losses never
  reach the edits made alone.
* POST of a project that exists replaces the catalog that a PUT stored (`workspaces.py:155-156`),
  with empty lists if the client names none. `SoloEditsKept` is not about rows.
* The stub numbers a stream from `0-0`, which no reader after `0-0` sees, and compares ids
  as text (`redis_client.py:222`; a stream of this API has one entry).
* The `timeout` of tools/call bounds nothing; a run is a success whenever the workflow
  returns; the inspection and visualization routes can only answer 404 and 501.
* Two concurrent bootstrap calls end in an integrity error although the route is called
  idempotent; a mount id of another project updates the other's; storing v1, v2, v1 of an
  asset returns v2.

Services
* The broadcast loop iterates over the set of clients across awaits; a change kills the
  worker, which is not started again (`ws_gateway.py:110`).
* `CancelledError` escapes `cancel()`, and a shutdown stops after the first running task.
* `merge_facts` deletes its own result when the merged key is one of the merged;
  the default embedding dimension raises after the fact is stored; usage counts survive a
  deletion; a pool with more than 100 keys is cleared and deleted only in part
  (`shared_memory.py:237`; run pool_delete).
* The client sends `wait_seconds` in the body, the server reads a query parameter; a poll
  without a timeout never ends once a final status is lost.
* After a Redis failure, what went to the dictionary is invisible as soon as Redis answers.

## 6. Not modelled

* Network coordinator: `execute` raises `TypeError` for every manifest with a workflow,
  since it uses an unhashable model as a key.
* WASM executor, resource monitor and alerts: nothing calls them.
* Natural-language generation: the package cannot be imported, and its steps are LLM calls.
* Command line, scaffolding and catalogs: files and printing.
* The stdio server: a sequential loop over the JSON-RPC handlers that are modelled.
* The preview sandbox of the builder: its conversion always fails.
* Studio front end: a user interface over the routes above.
* In modelled parts: seccomp and the sandbox's timer (whose callback finds no current
  task), resume from a checkpoint, performance analytics, metrics, events other than a
  run's, key expiry, middleware and rate limits, wording of messages.

What could follow: a composed model of an execution whose engine really runs while its
status is polled.
