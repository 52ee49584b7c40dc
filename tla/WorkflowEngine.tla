--------------------------- MODULE WorkflowEngine ---------------------------
(***************************************************************************)
(* Workflow.execute for one DAG workflow: the levels one after the other,  *)
(* depth and token ceilings, the bookkeeping of results and errors and the *)
(* failure policy.  Of a node this module sees what gather sees: a result  *)
(* that succeeded or failed, or an exception.  How the nodes of a level    *)
(* share the slots is LevelScheduler, how one node is executed is          *)
(* NodeExecutor.                                                           *)
(*                                                                         *)
(* Workflows with recursive nodes are not covered, so that                 *)
(* _handle_recursive_flows does nothing.  Every node of a DAG is active:   *)
(* is_node_active only propagates inactivity and nothing introduces it.    *)
(***************************************************************************)
EXTENDS Integers, FiniteSets

CONSTANTS
  N,             \* number of nodes, numbered in the order they are declared
  Graphs,        \* the dependency relations considered: node -> set of nodes
  MaxUsage,      \* most tokens one result reports
  TokenCeiling,  \* Workflow.token_ceiling
  DepthCeiling   \* Workflow.depth_ceiling

Nodes == 1..N
Levels == 0..(N - 1)

ASSUME EngineAssumption ==
  /\ N \in Nat \ {0}
  /\ Graphs \subseteq [Nodes -> SUBSET Nodes]
  /\ MaxUsage \in Nat
  /\ TokenCeiling \in Nat
  /\ DepthCeiling \in Nat

Policies == {"HALT", "CONTINUE_POSSIBLE", "ALWAYS"}

VARIABLES
  policy,    \* failure_policy
  deps,      \* node.dependencies
  mapped,    \* the dependencies the node's input_mappings name
  level,     \* DependencyGraph.node_levels
  stage,     \* where execute() is
  current,   \* the level it works on
  outcome,   \* what each node's task gave gather
  pending,   \* gathered items of the level not yet looked at
  results,   \* the results dictionary
  failed,    \* nodes with a "Node x failed" entry in errors
  aborted,   \* the other entries of errors
  tokens     \* metrics.total_tokens

workflow == <<policy, deps, mapped, level>>
vars == <<workflow, stage, current, outcome, pending, results, failed, aborted,
          tokens>>

\* Fault: the shortest path.
IsShortLevelling(l, g) ==
  \A n \in Nodes :
    /\ g[n] = {} => l[n] = 0
    /\ \A d \in g[n] : l[n] <= l[d] + 1
    /\ g[n] = {} \/ \E d \in g[n] : l[n] = l[d] + 1

\* _assign_levels: the longest path from a node without dependencies.
IsLevelling(l, g) ==
  \A n \in Nodes :
    /\ \A d \in g[n] : l[d] < l[n]
    /\ l[n] = 0 \/ \E d \in g[n] : l[n] = l[d] + 1

NodesAt(k) == {n \in Nodes : level[n] = k}

Init ==
  /\ policy \in Policies
  /\ deps \in Graphs
  /\ mapped \in [Nodes -> SUBSET Nodes]
  /\ \A n \in Nodes : mapped[n] \subseteq deps[n]   \* validate_schema_alignment
  /\ level \in [Nodes -> Levels]
  /\ IsLevelling(level, deps)
  /\ stage = "guard"
  /\ current = 0
  /\ outcome = [n \in Nodes |-> "none"]
  /\ pending = {}
  /\ results = [n \in Nodes |-> "absent"]
  /\ failed = {}
  /\ aborted = {}
  /\ tokens = 0

\* len(errors) == 0
Success == failed = {} /\ aborted = {}

\* Fault: HALT is not looked at.
ContinuesOnHalt(bad, other) ==
  \/ policy # "CONTINUE_POSSIBLE"
  \/ \E n \in Nodes : n \notin bad /\ deps[n] \cap bad = {}

\* Fault: CONTINUE_POSSIBLE stops like HALT.
StopsOnError(bad, other) == (bad = {} /\ other = {}) \/ policy = "ALWAYS"

\* ChainValidator.should_continue.
ShouldContinue(bad, other) ==
  \/ bad = {} /\ other = {}
  \/ policy = "ALWAYS"
  \/ /\ policy = "CONTINUE_POSSIBLE"
     /\ \E n \in Nodes : n \notin bad /\ deps[n] \cap bad = {}

(***************************************************************************)
(* The loop over the levels                                                *)
(***************************************************************************)
\* The next level, if there is one and the depth guard (any answer) and the
\* depth ceiling allow it.
EnterLevel ==
  /\ stage = "guard"
  /\ NodesAt(current) # {}
  /\ \/ /\ current + 1 <= DepthCeiling
        /\ stage' = "running"
        /\ pending' = NodesAt(current)
        /\ UNCHANGED aborted
     \/ /\ stage' = "returned"
        /\ aborted' = aborted \cup {"depth"}
        /\ UNCHANGED pending
  /\ UNCHANGED <<workflow, current, outcome, results, failed, tokens>>

\* _build_node_context raises when a mapped dependency failed or did not run.
ContextFails(n) == \E d \in mapped[n] : results[d] # "ok"

\* process_node: the node's context is built from the results so far and the
\* node is executed, in any order within the level.  An exception leaves it
\* under HALT, when a mapped output path does not resolve, or when the
\* sub-workflow a node returned cannot be built or crashes.
RunNode(n) ==
  /\ stage = "running"
  /\ n \in pending
  /\ outcome[n] = "none"
  /\ \E o \in IF ContextFails(n) THEN {"raised"} ELSE {"ok", "failed", "raised"} :
       outcome' = [outcome EXCEPT ![n] = o]
  /\ UNCHANGED <<workflow, stage, current, pending, results, failed, aborted, tokens>>

\* gather returns once every task of the level is done.
Gather ==
  /\ stage = "running"
  /\ \A n \in pending : outcome[n] # "none"
  /\ stage' = "collecting"
  /\ UNCHANGED <<workflow, current, outcome, pending, results, failed, aborted, tokens>>

\* After the last item looked at: stop, or go on with the next level.
EndLevel(bad, other) ==
  /\ stage' = IF ShouldContinue(bad, other) THEN "guard" ELSE "returned"
  /\ current' = current + 1
  /\ pending' = {}

\* Fault: the loop does not get past the item.
SameItem(n, bad) == UNCHANGED <<stage, current, pending>>

\* The rest of an item's turn: the loop goes on with the items left.
NextItem(n, bad) ==
  IF pending = {n}
    THEN EndLevel(bad, aborted)
    ELSE pending' = pending \ {n} /\ UNCHANGED <<stage, current>>

\* Items are looked at in the order of the level.
IsNext(n) == stage = "collecting" /\ n \in pending /\ \A m \in pending : n <= m

\* A successful result; one without usage is only recorded.
CollectOk(n) ==
  /\ IsNext(n)
  /\ outcome[n] = "ok"
  /\ results' = [results EXCEPT ![n] = "ok"]
  /\ NextItem(n, failed)
  /\ UNCHANGED <<workflow, outcome, failed, aborted, tokens>>

\* A successful result with usage: its tokens are added, and the token guard
\* (any answer) or the ceiling may end the loop over the level's items.
CollectUsage(n, u) ==
  /\ IsNext(n)
  /\ outcome[n] = "ok"
  /\ results' = [results EXCEPT ![n] = "ok"]
  /\ tokens' = tokens + u
  /\ \/ /\ tokens' <= TokenCeiling
        /\ NextItem(n, failed)
        /\ UNCHANGED aborted
     \/ /\ aborted' = aborted \cup {"token"}
        /\ EndLevel(failed, aborted')
  /\ UNCHANGED <<workflow, outcome, failed>>

\* Fault: a failed result is recorded, its error is not.
CollectFailedQuietly(n) ==
  /\ IsNext(n)
  /\ outcome[n] = "failed"
  /\ results' = [results EXCEPT ![n] = "failed"]
  /\ NextItem(n, failed)
  /\ UNCHANGED <<workflow, outcome, failed, aborted, tokens>>

\* A failed result adds an error that names the node.
CollectFailed(n) ==
  /\ IsNext(n)
  /\ outcome[n] = "failed"
  /\ results' = [results EXCEPT ![n] = "failed"]
  /\ failed' = failed \cup {n}
  /\ NextItem(n, failed')
  /\ UNCHANGED <<workflow, outcome, aborted, tokens>>

\* An exception is filed under its text, which names no node: looking that
\* up in self.nodes raises KeyError out of execute().
CollectRaised(n) ==
  /\ IsNext(n)
  /\ outcome[n] = "raised"
  /\ stage' = "crashed"
  /\ UNCHANGED <<workflow, current, outcome, pending, results, failed, aborted, tokens>>

\* No level is left.
Finish ==
  /\ stage = "guard"
  /\ NodesAt(current) = {}
  /\ stage' = "returned"
  /\ UNCHANGED <<workflow, current, outcome, pending, results, failed, aborted, tokens>>

\* execute() is over.
Over == stage \in {"returned", "crashed"} /\ UNCHANGED vars

Step ==
  \/ EnterLevel
  \/ \E n \in Nodes : RunNode(n)
  \/ Gather
  \/ \E n \in Nodes : CollectOk(n)
  \/ \E n \in Nodes, u \in 0..MaxUsage : CollectUsage(n, u)
  \/ \E n \in Nodes : CollectFailed(n)
  \/ \E n \in Nodes : CollectRaised(n)
  \/ Finish

Next == Step \/ Over

Spec == Init /\ [][Next]_vars

\* execute() and its tasks are run by the event loop, and every node ends.
FairSpec == Spec /\ WF_vars(Step)

-----------------------------------------------------------------------------
(***************************************************************************)
(* Properties                                                              *)
(***************************************************************************)
\* The types of execute()'s locals.
TypeOK ==
  /\ policy \in Policies
  /\ deps \in [Nodes -> SUBSET Nodes]
  /\ mapped \in [Nodes -> SUBSET Nodes]
  /\ level \in [Nodes -> Levels]
  /\ stage \in {"guard", "running", "collecting", "returned", "crashed"}
  /\ current \in Nat
  /\ outcome \in [Nodes -> {"none", "ok", "failed", "raised"}]
  /\ pending \subseteq Nodes
  /\ results \in [Nodes -> {"absent", "ok", "failed"}]
  /\ failed \subseteq Nodes
  /\ aborted \subseteq {"depth", "token"}
  /\ tokens \in Nat

\* execute() reports success only if every node of the workflow ran and
\* succeeded, whatever the policy, the guards and the token break left out.
SuccessMeansAllOk ==
  stage = "returned" /\ Success => \A n \in Nodes : results[n] = "ok"

\* Levels keep the order of the graph: a node is run only after each of its
\* dependencies, and a node whose inputs are mapped only on their success.
DependenciesFirst ==
  \A n \in Nodes :
    /\ outcome[n] # "none" => \A d \in deps[n] : outcome[d] # "none"
    /\ outcome[n] \in {"ok", "failed"} => \A d \in mapped[n] : results[d] = "ok"

\* Under HALT no node of a later level runs once a node failed, and the
\* token ceiling ends execute() at once.
HaltStops ==
  policy = "HALT" =>
    /\ \A n \in failed, m \in Nodes : level[m] > level[n] => outcome[m] = "none"
    /\ "token" \in aborted => stage = "returned"

Absent == {n \in Nodes : results[n] = "absent"}

\* Unless a ceiling or guard aborts it, execute() leaves a node out only
\* under HALT, or under CONTINUE_POSSIBLE if the node depends on a failed one.
NothingSkipped ==
  stage = "returned" /\ aborted = {} /\ policy # "HALT" =>
    \A n \in Absent : policy = "CONTINUE_POSSIBLE" /\ deps[n] \cap failed # {}

NoneRaises == \A n \in Nodes : outcome[n] # "raised"

\* A run none of whose nodes raises, however many of them fail, comes to the
\* end of execute() and returns a result.
EveryRunReturns == []NoneRaises => <>(stage = "returned")

\* "Any exception is immediately converted into a failed NodeExecutionResult
\* so downstream bookkeeping remains consistent" (_execute_level): an
\* exception that leaves a node does not leave execute().  The code breaks
\* it: the result is filed under the exception's text, and looking that up
\* in self.nodes raises KeyError.
ExceptionsConverted == stage # "crashed"
=============================================================================
