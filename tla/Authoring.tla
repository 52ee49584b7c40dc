------------------------------ MODULE Authoring -----------------------------
(***************************************************************************)
(* From a draft to a workflow that runs.  An author lists nodes with the   *)
(* WorkflowBuilder or hands over configurations; the API validates a       *)
(* blueprint, or an execution is started without that; the Workflow        *)
(* constructor builds the dependency graph; and execute first asks of      *)
(* every node, level by level, whether it is active.  The registry of      *)
(* tools changes meanwhile.                                                *)
(***************************************************************************)
EXTENDS NodeModels, DependencyGraph, SequencesExt

CONSTANTS
  Kinds,           \* names of the configurations authors write
  Config,          \* Config[k]: the configuration (see WellFormed)
  Mapping,         \* Mapping[k]: input_mappings, as <<source id, key in schema>>
  Tool,            \* Tool[k]: the tool a tool node names
  Broken,          \* tools whose factory raises a ValueError
  Lists,           \* lists of configurations, handed over directly or as a blueprint
  DraftKinds,      \* kinds the builder is used with
  DraftIds,        \* ids the builder is used with
  MaxNodes,        \* bound on the nodes of a draft
  MaxLinks,        \* bound on the connections of a draft
  RecursionLimit   \* depth at which Python raises RecursionError

Entry == [id : Ids, kind : Kinds, deps : SUBSET Ids, schemas : Schemas]

ASSUME AuthoringAssumption ==
  /\ Lists \subseteq Seq(Entry)
  /\ DraftIds \subseteq Ids /\ DraftKinds \subseteq Kinds
  /\ \A k \in Kinds : Config[k].schemas \in Schemas /\ Config[k].sources \subseteq Ids

VARIABLES
  phase,
  draft,      \* the builder's nodes: id, kind, deps, schemas
  links,      \* the builder's edges
  built,      \* the nodes come from build()
  validated,  \* the API has accepted the blueprint
  why,        \* what refused it
  tools,      \* registered tools
  indegree, ready, processed,  \* validate_blueprint
  stack,      \* the calls of is_node_active, innermost last
  active,     \* _active_cache
  gated,      \* the nodes execute has asked for
  analysis    \* what the graph analysis has answered

draftVars == <<draft, links, built>>
checkVars == <<indegree, ready, processed>>
gateVars == <<stack, active, gated>>
vars == <<graphVars, phase, draftVars, validated, why, tools, checkVars, gateVars, analysis>>

TypeOK ==
  /\ GraphTypeOK
  /\ phase \in {"drafting", "blueprint", "kahn", "stored", "nodes", "graph", "built", "running",
                "raised", "refused"}
  /\ draft \in Seq(Entry)
  /\ links \subseteq Ids \X Ids
  /\ built \in BOOLEAN /\ validated \in BOOLEAN
  /\ why \in {"none", "dependency", "version", "circular", "node", "cycle", "mapping"}
  /\ tools \subseteq {Tool[k] : k \in Kinds}
  /\ indegree \in [Ids -> Int] /\ ready \subseteq Ids /\ processed \in Nat
  /\ stack \in Seq(Ids) /\ active \subseteq Ids /\ gated \subseteq Ids

\* Configurations are constructed one by one; Blueprint validates that the
\* dependencies are listed and leaves the rest to the conversion.
AllConstruct(d) ==
  \A i \in DOMAIN d : Constructs(Config[d[i].kind]) /\ NoSelfDependency(d[i].id, d[i].deps)
Closed(d) == \A i \in DOMAIN d : d[i].deps \subseteq {d[j].id : j \in DOMAIN d}

Init ==
  /\ \/ phase = "drafting" /\ draft = <<>>
     \/ phase = "nodes" /\ draft \in Lists /\ AllConstruct(draft)
     \/ phase = "blueprint" /\ draft \in Lists /\ Closed(draft)
  /\ links = {} /\ built = FALSE /\ validated = FALSE /\ why = "none"
  /\ tools = {Tool[k] : k \in Kinds}
  /\ indegree = [n \in Ids |-> 0] /\ ready = {} /\ processed = 0
  /\ stack = <<>> /\ active = {} /\ gated = {}
  /\ analysis = "none"
  /\ nodes = {} /\ deps = [n \in Ids |-> {}] /\ edges = {}
  /\ sources = [n \in Ids |-> {}] /\ recursive = {}
  /\ stage = "none" /\ todo = {} /\ removed = {} /\ level = [n \in Ids |-> -1]

Entries == 1..Len(draft)
Listed == {draft[i].id : i \in Entries}

Refuse(reason) ==
  /\ phase' = "refused"
  /\ why' = reason

(***************************************************************************)
(* WorkflowBuilder                                                         *)
(***************************************************************************)
NewEntry(id, k) == [id |-> id, kind |-> k, deps |-> {}, schemas |-> Config[k].schemas]

\* Each add_... constructs the configuration, which may raise; nothing keeps
\* an id from being used twice.
AddNode(id, k) ==
  /\ phase = "drafting" /\ Len(draft) < MaxNodes
  /\ Constructs(Config[k])
  /\ draft' = Append(draft, NewEntry(id, k))
  /\ UNCHANGED <<links, built, phase, why>>

Linked(d, f, t) ==
  [i \in DOMAIN d |-> IF d[i].id = t THEN [d[i] EXCEPT !.deps = @ \cup {f}] ELSE d[i]]

\* Before its target is added, a connection is only remembered.
Connect(f, t) ==
  /\ phase = "drafting" /\ Cardinality(links) < MaxLinks
  /\ links' = links \cup {<<f, t>>}
  /\ draft' = Linked(draft, f, t)
  /\ UNCHANGED <<built, phase, why>>

\* _apply_connections
Applied ==
  [i \in Entries |-> [draft[i] EXCEPT !.deps = {f \in Ids : <<f, draft[i].id>> \in links}]]

Preview ==
  /\ phase = "drafting"
  /\ draft' = Applied
  /\ UNCHANGED <<links, built, phase, why>>

\* Fault: the dependencies are taken as they are.
BuildUnapplied ==
  /\ phase = "drafting" /\ draft # <<>>
  /\ built' = TRUE
  /\ IF Closed(draft)
     THEN phase' = "blueprint" /\ UNCHANGED why
     ELSE Refuse("dependency")
  /\ UNCHANGED <<draft, links>>

\* build, and Blueprint._validate_node_dependencies.
Build ==
  /\ phase = "drafting" /\ draft # <<>>
  /\ draft' = Applied
  /\ built' = TRUE
  /\ IF Closed(Applied)
     THEN phase' = "blueprint" /\ UNCHANGED why
     ELSE Refuse("dependency")
  /\ UNCHANGED links

\* The workflow is made of the builder's nodes as they are.
ToWorkflow ==
  /\ phase = "drafting" /\ draft # <<>>
  /\ phase' = "nodes"
  /\ UNCHANGED <<draftVars, why>>

Draft ==
  /\ \/ \E id \in DraftIds, k \in DraftKinds : AddNode(id, k)
     \/ \E f, t \in DraftIds : Connect(f, t)
     \/ Preview \/ Build \/ ToWorkflow
  /\ UNCHANGED <<graphVars, validated, tools, checkVars, gateVars, analysis>>

(***************************************************************************)
(* The registry                                                            *)
(***************************************************************************)
\* A tool is gone after a restart that could not bring it back.
LoseTool(t) ==
  /\ phase = "stored"
  /\ t \in tools
  /\ tools' = tools \ {t}
  /\ UNCHANGED <<graphVars, phase, draftVars, validated, why, checkVars, gateVars, analysis>>

(***************************************************************************)
(* validate_blueprint and the conversion                                   *)
(***************************************************************************)
Times(d, n) == Cardinality({i \in Entries : draft[i].id = n /\ d \in draft[i].deps})

StartCheck ==
  /\ phase = "blueprint"
  /\ phase' = "kahn"
  /\ indegree' = [n \in Ids |->
       Cardinality({e \in Entries \X Ids : draft[e[1]].id = n /\ e[2] \in draft[e[1]].deps})]
  /\ ready' = {n \in Listed : indegree'[n] = 0}
  /\ processed' = 0
  /\ UNCHANGED <<graphVars, draftVars, validated, why, tools, gateVars, analysis>>

VersionRefused ==
  /\ phase = "blueprint"
  /\ Refuse("version")
  /\ UNCHANGED <<graphVars, draftVars, validated, tools, checkVars, gateVars, analysis>>

\* Fault: a neighbour is queued when its first dependency has been processed.
VisitEager(n) ==
  /\ phase = "kahn" /\ n \in ready
  /\ indegree' = [m \in Ids |-> indegree[m] - Times(n, m)]
  /\ ready' = (ready \ {n}) \cup {m \in Ids : Times(n, m) > 0 /\ indegree[m] > 0}
  /\ processed' = processed + 1

Visit(n) ==
  /\ phase = "kahn" /\ n \in ready
  /\ indegree' = [m \in Ids |-> indegree[m] - Times(n, m)]
  /\ ready' = (ready \ {n}) \cup {m \in Ids : Times(n, m) > 0 /\ indegree'[m] = 0}
  /\ processed' = processed + 1

Check ==
  /\ \E n \in ready : Visit(n)
  /\ UNCHANGED <<graphVars, phase, draftVars, validated, why, tools, gateVars, analysis>>

\* populate_tool_node_schemas: a tool node without schemas asks the registry
\* for those of its tool, which raises where the tool is not registered; the
\* placeholder is for tools whose factory raises a ValueError.
Populates(e) == Config[e.kind].type = "tool" /\ e.schemas = "none"
Resolvable(e) == Populates(e) => Tool[e.kind] \in tools
Populated(e) == IF Populates(e) THEN [e EXCEPT !.schemas = "json"] ELSE e

\* convert_node_specs
Convertible(e) ==
  /\ Constructs(Config[e.kind])
  /\ NoSelfDependency(e.id, e.deps)
  /\ Resolvable(e) \/ Tool[e.kind] \in Broken

ConvertAll(d) == [i \in DOMAIN d |-> Populated(d[i])]

\* The rest of create_blueprint: count, conversion, runtime_validate.
Accept ==
  /\ phase = "kahn" /\ ready = {}
  /\ IF processed # Len(draft) THEN Refuse("circular") /\ UNCHANGED validated
     ELSE IF \A i \in Entries : /\ Convertible(draft[i])
                                /\ RuntimeValidate(Config[draft[i].kind], Populated(draft[i]).schemas)
          THEN phase' = "stored" /\ validated' = TRUE /\ UNCHANGED why
          ELSE Refuse("node") /\ UNCHANGED validated
  /\ UNCHANGED <<graphVars, draftVars, tools, checkVars, gateVars, analysis>>

\* execute_blueprint converts again, validated or not.
Execute ==
  /\ phase \in {"blueprint", "stored"}
  /\ IF \A i \in Entries : Convertible(draft[i])
     THEN phase' = "nodes" /\ draft' = ConvertAll(draft) /\ UNCHANGED why
     ELSE Refuse("node") /\ UNCHANGED draft
  /\ UNCHANGED <<graphVars, links, built, validated, tools, checkVars, gateVars, analysis>>

(***************************************************************************)
(* Workflow.__init__                                                       *)
(***************************************************************************)
\* Of two nodes with one id the last counts, in nodes, node_map and levels.
LastOf(id) == {i \in Entries : draft[i].id = id /\ \A j \in Entries : draft[j].id = id => j <= i}

\* _populate_missing_schemas, then the first half of DependencyGraph.
Construct ==
  /\ phase = "nodes"
  /\ IF \E i \in Entries : ~(Resolvable(draft[i]) \/ Tool[draft[i].kind] \in Broken)
     THEN Refuse("node") /\ UNCHANGED <<graphVars, draft>>
     ELSE IF ~Closed(draft)
     THEN Refuse("dependency") /\ UNCHANGED <<graphVars, draft>>
     ELSE /\ phase' = "graph"
          /\ draft' = ConvertAll(draft)
          /\ nodes' = Listed
          /\ deps' = [n \in Ids |-> UNION {draft[i].deps : i \in LastOf(n)}]
          /\ edges' = UNION {draft[i].deps \X {draft[i].id} : i \in Entries}
          /\ recursive' = {n \in Listed : \E i \in LastOf(n) : Config[draft[i].kind].type = "recursive"}
          /\ sources' = [n \in Ids |-> UNION {Config[draft[i].kind].sources : i \in LastOf(n)}]
          /\ stage' = "cycles"
          /\ UNCHANGED <<todo, removed, level, why>>
  /\ UNCHANGED <<links, built, validated, tools, checkVars, gateVars, analysis>>

GraphStep ==
  /\ phase = "graph" /\ GraphNext
  /\ UNCHANGED <<phase, draftVars, validated, why, tools, checkVars, gateVars, analysis>>

\* validate_schema_alignment: a mapping names a direct dependency and a key of
\* its output schema.
Aligned(n) ==
  \A i \in LastOf(n) : \A m \in Mapping[draft[i].kind] : <<m[1], n>> \in edges /\ m[2]

Constructed ==
  /\ phase = "graph" /\ stage \in {"cyclic", "done"}
  /\ IF stage = "cyclic" THEN Refuse("cycle")
     ELSE IF \E i \in Entries : ~Aligned(draft[i].id) THEN Refuse("mapping")
     ELSE phase' = "built" /\ UNCHANGED why
  /\ UNCHANGED <<graphVars, draftVars, validated, tools, checkVars, gateVars, analysis>>

(***************************************************************************)
(* GraphAnalyzer                                                           *)
(***************************************************************************)
Preds(n) == {e[1] : e \in {f \in edges : f[2] = n}}
Roots == {n \in nodes : Preds(n) = {}}
Cyclic == SimpleCycles # {}

\* _compute_levels, defined where the graph has no cycle.
AnalyzerLevels ==
  LET at[n \in nodes] == IF Preds(n) = {} THEN 0
                         ELSE 1 + CHOOSE l \in 0..Cardinality(Ids) :
                                    /\ \E p \in Preds(n) : at[p] = l
                                    /\ \A p \in Preds(n) : at[p] <= l
  IN  at

\* get_metrics: max() compares the views of two roots' distances, which is a
\* TypeError; the sort of a cyclic graph raises NetworkXUnfeasible, which is
\* no NetworkXError.
Metrics ==
  IF Cardinality(Roots) > 1 THEN "TypeError" ELSE IF Cyclic THEN "Unfeasible" ELSE "ok"

Analyze ==
  /\ phase = "built" /\ analysis = "none"
  /\ analysis' = Metrics
  /\ UNCHANGED <<graphVars, phase, draftVars, validated, why, tools, checkVars, gateVars>>

(***************************************************************************)
(* Workflow.execute, as far as it asks which nodes are active              *)
(***************************************************************************)
\* Asked for, a node is found in the cache, or is_node_active is called.
Ask(n) ==
  /\ IF n \in active
     THEN gated' = gated \cup {n} /\ UNCHANGED stack
     ELSE stack' = <<n>> /\ UNCHANGED gated
  /\ UNCHANGED <<phase, active>>

\* Fault: the levels are taken in any order.
GateAnyLevel(n) ==
  /\ phase = "built" /\ stack = <<>>
  /\ n \in nodes \ gated
  /\ Ask(n)

\* The next node of the lowest level not gated yet.
Gate(n) ==
  /\ phase = "built" /\ stack = <<>>
  /\ n \in nodes \ gated
  /\ \A m \in nodes \ gated : level[n] <= level[m]
  /\ Ask(n)

\* is_node_active looks at the predecessors in the whole graph, and caches a
\* node when it returns.
Recurse(p) ==
  /\ stack # <<>> /\ phase = "built"
  /\ p \in Preds(Last(stack)) \ active
  /\ IF Len(stack) = RecursionLimit THEN phase' = "raised" /\ UNCHANGED stack
     ELSE stack' = Append(stack, p) /\ UNCHANGED phase
  /\ UNCHANGED <<active, gated>>

Return ==
  /\ stack # <<>> /\ phase = "built"
  /\ Preds(Last(stack)) \subseteq active
  /\ active' = active \cup {Last(stack)}
  /\ gated' = IF Len(stack) = 1 THEN gated \cup {stack[1]} ELSE gated
  /\ stack' = Front(stack)
  /\ UNCHANGED phase

Conditions == {n \in nodes : \E i \in LastOf(n) : Config[draft[i].kind].type = "condition"}

\* A level has been gated and executed, and one of its condition nodes has
\* answered with a result: the cache is dropped.
record_decision(n) ==
  /\ phase = "built" /\ stack = <<>>
  /\ n \in Conditions \cap gated
  /\ \A m \in nodes : m \in gated <=> level[m] <= level[n]
  /\ active' = {}
  /\ UNCHANGED <<phase, stack, gated>>

AllGated ==
  /\ phase = "built" /\ gated = nodes /\ stack = <<>>
  /\ phase' = "running"
  /\ UNCHANGED gateVars

Gating ==
  /\ \/ \E n \in nodes : Gate(n)
     \/ \E p \in nodes : Recurse(p)
     \/ Return \/ AllGated
     \/ \E n \in nodes : record_decision(n)
  /\ UNCHANGED <<graphVars, draftVars, validated, why, tools, checkVars, analysis>>

Next ==
  \/ Draft
  \/ \E t \in tools : LoseTool(t)
  \/ StartCheck \/ VersionRefused \/ Check \/ Accept \/ Execute
  \/ Construct \/ GraphStep \/ Constructed
  \/ Analyze
  \/ Gating

Spec == Init /\ [][Next]_vars

(***************************************************************************)
(* Properties                                                              *)
(***************************************************************************)
Distinct == Cardinality(Listed) = Len(draft)

\* Whatever edges of recursive cycles are taken out, in whatever order, what
\* is left has a topological order, so the fallback for unsortable graphs
\* never decides a level; only edges of cycles at recursive nodes are taken
\* out, and no such edge that stays is on a cycle; and without a cycle the
\* levels are the longest paths GraphAnalyzer computes on its own.
\* (_check_cycles_with_recursive_support, _assign_levels,
\* GraphAnalyzer._compute_levels)
LevelsSound ==
  /\ stage = "levels" /\ todo = {} /\ (\E n \in nodes : ~Visited(n)) => \E n \in nodes : Ready(n)
  /\ OnlyCyclesCut /\ OnePassBreaks
  /\ stage = "done" /\ Distinct /\ ~Cyclic => \A n \in nodes : level[n] = AnalyzerLevels[n]

\* What the API has validated also starts: its nodes pass runtime_validate,
\* Workflow refuses it only over a mapping, which validation does not look at,
\* or a tool lost since, and the gating of its nodes returns, unless a
\* condition node lies so deep in it that walking up to it from the level
\* below exceeds Python's recursion limit.  A blueprint refused as circular
\* has a cycle or an id twice.  (validate_blueprint, convert_node_specs,
\* Workflow.__init__, is_node_active)
ValidatedStarts ==
  /\ validated =>
       /\ Distinct
       /\ phase = "refused" => why = "mapping" \/ (why = "node" /\ \E k \in Kinds : Tool[k] \notin tools)
       /\ phase = "raised" => \E n \in Conditions : level[n] + 1 >= RecursionLimit
       /\ \A i \in Entries : RuntimeValidate(Config[draft[i].kind], Populated(draft[i]).schemas)
  /\ why = "circular" =>
       \/ ~Distinct
       \/ \E i \in Entries : \E d \in draft[i].deps :
            HasPath({e \in Ids \X Ids : Times(e[1], e[2]) > 0}, draft[i].id, d)

\* While the graph has no cycle and no id twice, is_node_active descends only
\* where the answer of a condition node has dropped the cache, and then only
\* from that condition's level: the levels gated since are in the cache again,
\* so without conditions the depth does not grow with the length of the
\* workflow.  (Workflow.execute, record_decision, is_node_active)
GatingShallow ==
  Distinct /\ removed = {} /\ Len(stack) > 1 =>
    \E n \in Conditions : level[n] < level[stack[1]] /\ Len(stack) <= level[n] + 2

\* Every connection between nodes of a built workflow is an order of their
\* levels, whether connect was called before or after the nodes were added,
\* unless a recursive cycle gave it up.  (WorkflowBuilder.connect, build)
ConnectionsOrdered ==
  built /\ phase \in {"built", "running", "raised"} =>
    \A l \in links : l[2] \in nodes => l \in removed \/ level[l[1]] < level[l[2]]

\* "Allow controlled cycles for recursive nodes": what the constructor accepts
\* comes to execute its first level.
AcceptedExecutes == phase # "raised"
=============================================================================
