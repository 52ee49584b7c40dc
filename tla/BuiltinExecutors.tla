-------------------------- MODULE BuiltinExecutors --------------------------
(***************************************************************************)
(* The builtin node executors of ice_orchestrator/execution/executors/     *)
(* builtin: what one executor call does for each node type while the other *)
(* nodes of its level run concurrently on the same event loop.  A call     *)
(* suspends only where the Python code awaits, so each action is the code  *)
(* between two awaits.                                                     *)
(*                                                                         *)
(* The executors of one process share one piece of global state: the code  *)
(* node executor replaces socket.socket for the whole process.             *)
(***************************************************************************)
EXTENDS Naturals, FiniteSets

CONSTANTS
  Node,           \* the nodes of one level, executed concurrently
  Config,         \* the configurations a node may have
  MaxIterations   \* cfg.max_iterations of agent, loop and recursive nodes

ASSUME BoundAssumption == IsFiniteSet(Node) /\ MaxIterations \in Nat \ {0}

\* Executors that try a registered implementation first and run their own
\* body when the lookup, or anything the implementation does, raises KeyError.
Delegating ==
  {"parallel", "condition", "loop", "llm", "human", "monitor", "swarm", "recursive"}

\* Executors for which an unresolvable component is an error.
Resolving == {"workflow", "tool", "agent", "code"}

Kind == Delegating \cup Resolving

\* Executors whose own try block turns any other exception into a failed
\* NodeExecutionResult; loop, human, monitor and swarm let it escape.
Catching == Kind \ {"loop", "human", "monitor", "swarm"}

ConfigType == [kind : Kind, registered : BOOLEAN, network : BOOLEAN]

ASSUME ConfigAssumption == Config \subseteq ConfigType

VARIABLES
  cfg,         \* the configuration of each node
  production,  \* ICE_ENV names a production environment
  pc,          \* where each executor call is suspended
  res,         \* what it returned: a result, or an escaping exception
  iter,        \* iterations of its loop so far (loop items, agent plans)
  sock,        \* the value of socket.socket: Real, or the node that blocked it
  saved        \* _orig_sock of each running code node

execVars == <<cfg, production, pc, res, iter, sock, saved>>

CONSTANT Real  \* the socket constructor of the Python library

Kinds(n) == cfg[n].kind
CodeNodes == {n \in Node : Kinds(n) = "code"}
Returned(n) == pc[n] = "done"

ExecTypeOK ==
  /\ cfg \in [Node -> Config]
  /\ production \in BOOLEAN
  /\ pc \in [Node -> {"idle", "impl", "branch", "body", "done"}]
  /\ res \in [Node -> {"none", "ok", "failed", "raised"}]
  /\ iter \in [Node -> 0..MaxIterations]
  /\ sock \in Node \cup {Real}
  /\ saved \in [Node -> Node \cup {Real}]

ExecInit ==
  /\ cfg \in [Node -> Config]
  /\ production \in BOOLEAN
  /\ pc = [n \in Node |-> "idle"]
  /\ res = [n \in Node |-> "none"]
  /\ iter = [n \in Node |-> 0]
  /\ sock = Real
  /\ saved = [n \in Node |-> Real]

Return(n, r) ==
  /\ pc' = [pc EXCEPT ![n] = "done"]
  /\ res' = [res EXCEPT ![n] = r]
  /\ UNCHANGED <<cfg, production, iter>>

Goto(n, where) ==
  /\ pc' = [pc EXCEPT ![n] = where]
  /\ UNCHANGED <<cfg, production, res, iter>>

NetworkUntouched == UNCHANGED <<sock, saved>>

\* Fault: the blocked socket is left in place when the code node returns.
NoRestoreNetwork(n) == NetworkUntouched

\* The finally block: what this call saved becomes socket.socket again,
\* whether or not this call blocked the network.
RestoreNetwork(n) == sock' = saved[n] /\ UNCHANGED saved

\* Deny by default: save socket.socket and block it unless the node is allowed
\* the network.
BlockNetwork(n) ==
  /\ saved' = [saved EXCEPT ![n] = sock]
  /\ sock' = IF cfg[n].network THEN sock ELSE n

---------------------------------------------------------------------------
(* Entering an executor.                                                   *)

\* The factory lookup: a registered implementation is awaited, otherwise the
\* executor's own body runs.
Delegate(n) ==
  /\ Kinds(n) \in Delegating
  /\ pc[n] = "idle"
  /\ Goto(n, IF cfg[n].registered THEN "impl" ELSE "body")
  /\ NetworkUntouched

\* The registry lookup of a workflow or a tool; the tool's arguments are
\* rendered too, and either failure is caught.
Resolve(n) ==
  /\ Kinds(n) \in {"workflow", "tool"}
  /\ pc[n] = "idle"
  /\ IF cfg[n].registered THEN Goto(n, "impl") ELSE Return(n, "failed")
  /\ NetworkUntouched

\* An agent is built from its definition or, failing that, its factory.
StartAgent(n) ==
  /\ Kinds(n) = "agent"
  /\ pc[n] = "idle"
  /\ IF cfg[n].registered THEN Goto(n, "body") ELSE Return(n, "failed")
  /\ NetworkUntouched

\* code_node_executor up to wait_for: a missing factory fails before the
\* network is touched.
StartCode(n) ==
  /\ Kinds(n) = "code"
  /\ pc[n] = "idle"
  /\ IF cfg[n].registered
     THEN BlockNetwork(n) /\ Goto(n, "impl")
     ELSE Return(n, "failed") /\ NetworkUntouched

---------------------------------------------------------------------------
(* A registered implementation, or the resolved component, answers.        *)

\* It returns: parallel, loop, recursive and swarm implementations may return
\* a failed NodeExecutionResult and an LLM an error; whatever a human or a
\* monitor answers is a success.
ImplReturns(n) ==
  /\ pc[n] = "impl"
  /\ Kinds(n) \in Delegating \ {"condition"}
  /\ \E r \in IF Kinds(n) \in {"human", "monitor"} THEN {"ok"} ELSE {"ok", "failed"} :
       Return(n, r)
  /\ NetworkUntouched

\* A workflow node succeeds whatever its child returned: a failed child's
\* error becomes the output.
ChildReturns(n) ==
  /\ pc[n] = "impl"
  /\ Kinds(n) = "workflow"
  /\ Return(n, "ok")
  /\ NetworkUntouched

\* A tool's result is unwrapped: a failed result is the output of a success.
ToolReturns(n) ==
  /\ pc[n] = "impl"
  /\ Kinds(n) = "tool"
  /\ Return(n, "ok")
  /\ NetworkUntouched

\* A registered condition only evaluates; the executor then takes the branch.
Evaluated(n) ==
  /\ pc[n] = "impl"
  /\ Kinds(n) = "condition"
  /\ Goto(n, "branch")
  /\ NetworkUntouched

\* KeyError from the implementation is read as "not registered".
ImplRaisesKeyError(n) ==
  /\ pc[n] = "impl"
  /\ Kinds(n) \in Delegating
  /\ Goto(n, "body")
  /\ NetworkUntouched

\* Any other exception (for a resolved component: every exception).
ImplRaises(n) ==
  /\ pc[n] = "impl"
  /\ Kinds(n) # "code"
  /\ Return(n, IF Kinds(n) \in Catching THEN "failed" ELSE "raised")
  /\ NetworkUntouched

\* The code factory returns a valid output, or fails: a timeout, an exception,
\* an output that does not match the schema.
CodeEnds(n) ==
  /\ pc[n] = "impl"
  /\ Kinds(n) = "code"
  /\ \E r \in {"ok", "failed"} : Return(n, r)
  /\ RestoreNetwork(n)

---------------------------------------------------------------------------
(* The executors' own bodies.                                              *)

\* Auto-approval, refused in production.
HumanBody(n) ==
  /\ pc[n] = "body"
  /\ Kinds(n) = "human"
  /\ Return(n, IF production THEN "failed" ELSE "ok")
  /\ NetworkUntouched

\* An expression that cannot be evaluated counts as not triggered.
MonitorBody(n) ==
  /\ pc[n] = "body"
  /\ Kinds(n) = "monitor"
  /\ Return(n, "ok")
  /\ NetworkUntouched

\* Every agent role is looked up in the registry.
SwarmBody(n) ==
  /\ pc[n] = "body"
  /\ Kinds(n) = "swarm"
  /\ \E r \in {"ok", "failed"} : Return(n, r)
  /\ NetworkUntouched

\* A provider's handler turns every exception of the request into an error text.
Handled(call) == IF call = "answered" THEN "ok" ELSE "failed"

\* LLMService.generate: no handler, or no answer in time, is an error too.  Its
\* retries are for exceptions of the handler, which the handlers never raise.
Generated(provider, call) == IF provider /\ call # "late" THEN Handled(call) ELSE "failed"

\* A helper registered under the model's name is asked first, and the service
\* when there is none.
LlmBody(n) ==
  /\ pc[n] = "body"
  /\ Kinds(n) = "llm"
  /\ \/ \E provider \in BOOLEAN, call \in {"answered", "nokey", "raised", "malformed", "late"} :
          Return(n, Generated(provider, call))
     \/ \E helper \in {"ok", "failed"} : Return(n, helper)
  /\ NetworkUntouched

\* The hierarchical id execute_node_config gives a nested node.
TempId(n) == <<n, "child">>

\* execute_node_config puts the child under its temporary id in workflow.nodes
\* and calls execute_node, which looks the id's level up in the dependency
\* graph before it awaits anything.  Only the level's own nodes have one, so
\* KeyError is raised and the finally block takes the child out again.
NestedRaises(n) == TempId(n) \notin Node

\* The branches are gathered with return_exceptions, so the KeyErrors of their
\* nested nodes end up in the output of a successful result.  No branches is
\* an error.
ParallelBody(n) ==
  /\ pc[n] = "body"
  /\ Kinds(n) = "parallel"
  /\ \E branches \in BOOLEAN :
       Return(n, IF branches THEN "ok" ELSE "failed")
  /\ NetworkUntouched

\* Evaluate without a registered implementation; the expression may be invalid.
ConditionBody(n) ==
  /\ pc[n] = "body"
  /\ Kinds(n) = "condition"
  /\ Goto(n, "branch") \/ Return(n, "failed")
  /\ NetworkUntouched

\* An empty branch succeeds; a nested node raises into the outer except.
ConditionBranch(n) ==
  /\ pc[n] = "branch"
  /\ Return(n, "ok") \/ (NestedRaises(n) /\ Return(n, "failed"))
  /\ NetworkUntouched

\* One item of a loop: the body nodes' executors are called directly.
LoopItem(n) ==
  /\ pc[n] = "body"
  /\ Kinds(n) = "loop"
  /\ iter[n] < MaxIterations
  /\ iter' = [iter EXCEPT ![n] = @ + 1]
  /\ UNCHANGED <<cfg, production, pc, res>>
  /\ NetworkUntouched

\* The items, or the first max_iterations of them, are done.
LoopEnds(n) ==
  /\ pc[n] = "body"
  /\ Kinds(n) = "loop"
  /\ Return(n, "ok")
  /\ NetworkUntouched

\* No items_source, a value that is not a list, or an executor that raises.
LoopRaises(n) ==
  /\ pc[n] = "body"
  /\ Kinds(n) = "loop"
  /\ Return(n, "raised")
  /\ NetworkUntouched

\* AgentRuntime.run: one plan/act round that calls a tool and is not done.
AgentActs(n) ==
  /\ pc[n] = "body"
  /\ Kinds(n) = "agent"
  /\ iter[n] < MaxIterations
  /\ iter' = [iter EXCEPT ![n] = @ + 1]
  /\ UNCHANGED <<cfg, production, pc, res>>
  /\ NetworkUntouched

\* A round that ends the run (done, no tool, only a thought), or the rounds
\* are used up: the runtime returns and the node succeeds.
AgentEnds(n) ==
  /\ pc[n] = "body"
  /\ Kinds(n) = "agent"
  /\ Return(n, "ok")
  /\ NetworkUntouched

\* A tool outside the allowed list, malformed inputs, a tool that is missing
\* or raises.
AgentFails(n) ==
  /\ pc[n] = "body"
  /\ Kinds(n) = "agent"
  /\ iter[n] < MaxIterations
  /\ Return(n, "failed")
  /\ NetworkUntouched

ExecStep(n) ==
  \/ Delegate(n) \/ Resolve(n) \/ StartAgent(n) \/ StartCode(n)
  \/ ImplReturns(n) \/ ChildReturns(n) \/ ToolReturns(n) \/ Evaluated(n) \/ ImplRaisesKeyError(n)
  \/ ImplRaises(n) \/ CodeEnds(n)
  \/ HumanBody(n) \/ MonitorBody(n) \/ SwarmBody(n) \/ LlmBody(n)
  \/ ParallelBody(n) \/ ConditionBody(n) \/ ConditionBranch(n)
  \/ LoopItem(n) \/ LoopEnds(n) \/ LoopRaises(n)
  \/ AgentActs(n) \/ AgentEnds(n) \/ AgentFails(n)

---------------------------------------------------------------------------
(* Properties.                                                             *)

\* Deny by default, for code nodes that do not overlap: while such a node waits
\* for its factory the network is blocked unless it may use it, and once it
\* has returned, or failed, socket.socket is the library's again
\* (code_node_executor, the finally block).
NetworkPolicyAlone ==
  Cardinality(CodeNodes) = 1 =>
    \A n \in CodeNodes :
      sock = IF pc[n] = "impl" /\ ~cfg[n].network THEN n ELSE Real
=============================================================================
