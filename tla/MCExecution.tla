---------------------------- MODULE MCExecution ----------------------------
(* Small instances of what one execution meets on its way: the blueprint   *)
(* it is made from, its record in three stores, the retry loops around a   *)
(* node, the builtin executors with the recursive flow, and the sandbox of *)
(* a call.  They share no state, so a behaviour runs one of them.          *)
EXTENDS ExecutionService, BlueprintStore, MCNodeExecutor, RecursiveFlow, ResourceSandbox

CONSTANTS s1, s2, s3, s4

\* Every kind of node, registered or not; the network flag matters to code.
MCConfig ==
  {c \in ConfigType : c.network => c.kind = "code"}

\* No source, the other node, itself, both.
MCSource == {<<>>, <<n1>>, <<n1, n2>>}

\* Four sandboxes with limits below, at and above what the process has.
MCSandboxes == {s1, s2, s3, s4}
MCLimit == s1 :> 1 @@ s2 :> 2 @@ s3 :> 3 @@ s4 :> 4

VARIABLE part  \* the component this behaviour runs

storeVars == <<executionVars, blueprintVars>>
mcVars == <<storeVars, vars, flowVars, sandboxVars, part>>

\* The other components start in one of their initial states.
MCInit ==
  /\ ExecutionInit /\ BlueprintInit /\ Init /\ FlowInit /\ SandboxInit
  /\ part \in {"executions", "blueprints", "retries", "flow", "sandbox"}
  /\ part # "blueprints" => cached = {} /\ \A c \in Clients : op[c] = "update"
  /\ part # "flow" => ~production /\ \A n \in Node : Kinds(n) = "llm" /\ ~cfg[n].registered
  /\ part # "sandbox" => ~privileged

InExecutions(A) ==
  part = "executions" /\ A /\ UNCHANGED <<blueprintVars, vars, flowVars, sandboxVars, part>>
InBlueprints(A) ==
  part = "blueprints" /\ A /\ UNCHANGED <<executionVars, vars, flowVars, sandboxVars, part>>
InRetries(A) == part = "retries" /\ A /\ UNCHANGED <<storeVars, flowVars, sandboxVars, part>>
InFlow(A) == part = "flow" /\ A /\ UNCHANGED <<storeVars, vars, sandboxVars, part>>
InSandbox(A) == part = "sandbox" /\ A /\ UNCHANGED <<storeVars, vars, flowVars, part>>

MCNext ==
  \/ InExecutions(ExecutionNext)
  \/ InBlueprints(BlueprintNext)
  \/ InRetries(Next)
  \/ InFlow(FlowNext)
  \/ InSandbox(SandboxNext)

\* The fairness of each component, in the behaviours that run it.
MCFairness ==
  /\ \A e \in Execs : /\ WF_mcVars(InExecutions(Work(e)))
                      /\ WF_mcVars(InExecutions(CancelRedis(e)))
  /\ \A n \in Nodes : WF_mcVars(InRetries(Step(n)))
  /\ \A n \in Node : WF_mcVars(InFlow(RunLevel(n)))
  /\ WF_mcVars(InFlow(Gathered))
  /\ WF_mcVars(InFlow(ExecuteRecursive))
  /\ WF_mcVars(InFlow(Collect))

MCSpec == MCInit /\ [][MCNext]_mcVars /\ MCFairness

\* EveryNodeEnds (execute_node) and RecursionEnds (_execute_recursive_node),
\* in the behaviours that run their component.
RetriesEnd == part = "retries" => EveryNodeEnds
FlowEnds == part = "flow" => RecursionEnds
=============================================================================
