----------------------------- MODULE NodeModels -----------------------------
(***************************************************************************)
(* What the node configuration models accept: the validators that run when *)
(* a configuration is constructed, and runtime_validate, which the API     *)
(* calls on submission and the engine before every execution of a node.    *)
(*                                                                         *)
(* A configuration is a record of what the validators tell apart.          *)
(***************************************************************************)
EXTENDS Naturals, FiniteSets, Sequences

CONSTANT InlineCode  \* ICE_ENABLE_INLINE_CODE=1

Nestable ==
  {"tool", "llm", "agent", "condition", "workflow", "loop", "parallel", "recursive", "code"}

\* _NODE_TYPE_MAP: the discriminated union, and the three types outside it.
NodeTypes == Nestable \cup {"human", "monitor", "swarm"}

\* "none" is an empty mapping; a mapping without JSON-schema keywords is
\* converted, so only a malformed JSON schema is invalid.
Schemas == {"none", "simple", "json", "malformed"}
SchemaValid(s) == s \in {"simple", "json"}

\* A well-formed configuration of each type; authors vary it.
WellFormed(t) ==
  [type |-> t,
   complete |-> TRUE,      \* the required fields are given, with their types
   bounded |-> TRUE,       \* the numeric fields satisfy their ge / le
   extra |-> FALSE,        \* a field the model does not declare
   schemas |-> "json",     \* the worse of input_schema and output_schema
   model |-> "allowed",    \* llm_config.model: "allowed", "refused" or "none"
   nodeModel |-> TRUE,     \* the node's own model is given
   impls |-> {"agent"},    \* recursive: agent_package, workflow_ref
   sources |-> {},         \* recursive: recursive_sources
   named |-> TRUE,         \* code: a non-blank name
   inline |-> FALSE,       \* code: non-blank code
   nested |-> {},          \* condition, loop, parallel: the types inside
   text |-> "good",        \* human, monitor: "empty", "blank", "bad" or "good"
   roles |-> <<"r1", "r2">>, \* swarm: the agents' roles
   choices |-> 2,          \* human: options of a choice
   choosing |-> FALSE,
   timeout |-> 0, auto |-> 0,  \* human: 0 is not set
   channels |-> "known"]   \* monitor: alert_channels

(***************************************************************************)
(* Construction                                                            *)
(***************************************************************************)
\* Declared fields, bounds, and no others (extra="forbid").
BaseNodeConfig(c) == c.complete /\ c.bounded /\ ~c.extra

\* _no_self_dependency
NoSelfDependency(id, deps) == id \notin deps

\* The model of llm_config is checked where it is given; the one copied from
\* the node by _synchronize_llm_config is not.
LLMConfig(c) == c.model # "refused"
LLMNodeConfig(c) == LLMConfig(c)

AgentNodeConfig(c) == LLMConfig(c) /\ (c.model = "allowed" \/ c.nodeModel)

RecursiveNodeConfig(c) == Cardinality(c.impls) = 1 /\ c.sources # {}

CodeNodeConfig(c) ==
  /\ c.named \/ (InlineCode /\ c.inline)
  /\ SchemaValid(c.schemas)

\* Conditions, loops and parallel branches hold members of the union.
Nesting(c) == c.nested \subseteq Nestable

SwarmNodeConfig(c) == Len(c.roles) >= 2

\* min_length=1 on prompt_message and metric_expression.
NonEmptyText(c) == c.text # "empty"

Constructs(c) ==
  /\ c.type \in NodeTypes
  /\ BaseNodeConfig(c)
  /\ c.type = "llm" => LLMNodeConfig(c)
  /\ c.type = "agent" => AgentNodeConfig(c)
  /\ c.type = "recursive" => RecursiveNodeConfig(c)
  /\ c.type = "code" => CodeNodeConfig(c)
  /\ c.type \in {"condition", "loop", "parallel"} => Nesting(c)
  /\ c.type = "swarm" => SwarmNodeConfig(c)
  /\ c.type \in {"human", "monitor"} => NonEmptyText(c)

(***************************************************************************)
(* runtime_validate                                                        *)
(***************************************************************************)
SwarmRuntime(c) ==
  \A i, j \in 1..Len(c.roles) : c.roles[i] # "" /\ (i # j => c.roles[i] # c.roles[j])

HumanRuntime(c) ==
  /\ c.text # "blank"
  /\ c.choosing => c.choices >= 2
  /\ c.auto > 0 => c.timeout > 0 /\ c.auto < c.timeout

MonitorRuntime(c) == c.text \notin {"blank", "bad"} /\ c.channels = "known"

\* Tools, agents, conditions, recursive and code nodes must have schemas; an
\* llm node is given the default.
RuntimeValidate(c, schemas) ==
  /\ c.type \in {"tool", "agent", "condition", "recursive", "code"} => SchemaValid(schemas)
  /\ c.type = "swarm" => SwarmRuntime(c)
  /\ c.type = "human" => HumanRuntime(c)
  /\ c.type = "monitor" => MonitorRuntime(c)
=============================================================================
