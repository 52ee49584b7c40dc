--------------------------- MODULE RecursiveFlow ----------------------------
(***************************************************************************)
(* One level of a workflow with recursive nodes: the concurrent executor   *)
(* calls (BuiltinExecutors), then _handle_recursive_flows, which re-runs   *)
(* the sources of every recursive node that asks for it, depth first, and  *)
(* the collection of the level's results by Workflow.execute.              *)
(***************************************************************************)
EXTENDS BuiltinExecutors, Sequences, SequencesExt

CONSTANT Source  \* the possible recursive_sources: sequences of nodes

VARIABLES
  sources,     \* recursive_sources of each node, those that are nodes
  phase,       \* "level", "recursing" or "collected"
  level,       \* level_results: what each node returned in the level
  results,     \* accumulated_results
  pending      \* the recursive executions still to run, each a node and the
               \* _recursive_iteration its context carries

flowVars == <<execVars, sources, phase, level, results, pending>>

\* A result, as far as the flow reads it: whether its output says _can_recurse
\* and not converged, and its _recursive_iteration.
Outcome == {"none", "again", "converged", "exhausted", "other"}
Result == [out : Outcome, at : 0..MaxIterations]
NoResult == [out |-> "none", at |-> 0]

FlowTypeOK ==
  /\ ExecTypeOK
  /\ sources \in [Node -> Source]
  /\ phase \in {"level", "recursing", "collected"}
  /\ level \in [Node -> Result]
  /\ results \in [Node -> Result]
  /\ pending \in Seq(Node \X (0..MaxIterations))

FlowInit ==
  /\ ExecInit
  /\ sources \in [Node -> Source]
  /\ \A n \in Node : Kinds(n) # "recursive" => sources[n] = <<>>
  /\ phase = "level"
  /\ level = [n \in Node |-> NoResult]
  /\ results = [n \in Node |-> NoResult]
  /\ pending = <<>>

\* recursive_node_executor run with _recursive_iteration = i: the iteration
\* guard, the convergence condition, then the inner agent or workflow, whose
\* output (also that of a failure, which is an empty mapping) is marked
\* _can_recurse; "other" is an output that is no mapping, or an exception.
RecursiveResults(i) ==
  IF i >= MaxIterations THEN {[out |-> "exhausted", at |-> i]}
  ELSE {[out |-> "converged", at |-> i], [out |-> "again", at |-> i + 1],
        [out |-> "other", at |-> i]}

\* The executor's own body in the level itself, where the context carries no
\* iteration.
RecursiveBody(n) ==
  /\ pc[n] = "body"
  /\ Kinds(n) = "recursive"
  /\ \E r \in RecursiveResults(0) : level' = [level EXCEPT ![n] = r]
  /\ Return(n, "ok")
  /\ NetworkUntouched
  /\ UNCHANGED <<sources, phase, results, pending>>

RunLevel(n) ==
  /\ phase = "level"
  /\ \/ RecursiveBody(n)
     \/ /\ ExecStep(n)
        /\ level' = IF Returned(n)' THEN [level EXCEPT ![n].out = "other"] ELSE level
        /\ UNCHANGED <<sources, phase, results, pending>>

\* The recursive executions one result asks for: its node's sources, in order.
Asked(n, r) ==
  IF Kinds(n) = "recursive" /\ r.out = "again"
  THEN [i \in 1..Len(sources[n]) |-> <<sources[n][i], r.at>>]
  ELSE <<>>

\* gather has returned: the level's results are complete and the executions
\* of all its recursive nodes are listed before the first of them runs.
Gathered ==
  /\ phase = "level"
  /\ \A n \in Node : Returned(n)
  /\ phase' = "recursing"
  /\ LET order == SetToSeq(Node)
     IN  pending' = FlattenSeq([i \in 1..Len(order) |-> Asked(order[i], level[order[i]])])
  /\ UNCHANGED <<execVars, sources, level, results>>

\* Fault: an execution that the iteration guard refuses is tried again.
ExecuteRecursiveRetries ==
  /\ phase = "recursing"
  /\ pending # <<>>
  /\ LET n == Head(pending)[1]
         i == Head(pending)[2]
     IN  \E r \in IF Kinds(n) = "recursive" THEN RecursiveResults(i)
                  ELSE {[out |-> "other", at |-> i]} :
           /\ results' = [results EXCEPT ![n] = r]
           /\ pending' = IF r.out = "exhausted" THEN pending ELSE Asked(n, r) \o Tail(pending)
  /\ UNCHANGED <<execVars, sources, phase, level>>

\* _execute_recursive_node: run the node in the recursive context and record
\* its result, or an error result; a recursive node that asks again has its
\* sources run before the remaining executions.
ExecuteRecursive ==
  /\ phase = "recursing"
  /\ pending # <<>>
  /\ LET n == Head(pending)[1]
         i == Head(pending)[2]
     IN  \E r \in IF Kinds(n) = "recursive" THEN RecursiveResults(i)
                  ELSE {[out |-> "other", at |-> i]} :
           /\ results' = [results EXCEPT ![n] = r]
           /\ pending' = Asked(n, r) \o Tail(pending)
  /\ UNCHANGED <<execVars, sources, phase, level>>

\* Workflow.execute stores the level's own results over the accumulated ones.
Collect ==
  /\ phase = "recursing"
  /\ pending = <<>>
  /\ phase' = "collected"
  /\ results' = level
  /\ UNCHANGED <<execVars, sources, level, pending>>

Done == phase = "collected" /\ UNCHANGED flowVars

FlowNext == Gathered \/ ExecuteRecursive \/ Collect \/ Done \/ \E n \in Node : RunLevel(n)

\* Every task of the event loop that can run is run, and every awaited
\* implementation answers or is timed out by the node executor.
FlowFairness ==
  /\ \A n \in Node : WF_flowVars(RunLevel(n))
  /\ WF_flowVars(Gathered) /\ WF_flowVars(ExecuteRecursive) /\ WF_flowVars(Collect)

FlowSpec == FlowInit /\ [][FlowNext]_flowVars /\ FlowFairness

---------------------------------------------------------------------------
(* Properties.                                                             *)

\* The recursive executions of a level end: whatever sources the recursive
\* nodes name, themselves and each other included, the iteration carried in
\* the context reaches max_iterations and the chain stops
\* (recursive_node_executor 3., _execute_recursive_node).
RecursionEnds == <>(phase = "collected")
=============================================================================
