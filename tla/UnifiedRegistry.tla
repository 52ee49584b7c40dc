---------------------------- MODULE UnifiedRegistry -------------------------
(***************************************************************************)
(* The process-wide registry: factories by name, the caches of resolved    *)
(* factories, data-first agent definitions, classes and chains of plugin   *)
(* manifests, and the module "dynamic_workflows" in sys.modules that the   *)
(* registered workflows are looked up in.                                  *)
(*                                                                         *)
(* A definition is abstracted to: its identity, whether the static checks  *)
(* of the component validator accept it ("sound"), the factory code and    *)
(* the class code it carries, and the tools an agent refers to.  Code is   *)
(* "good" when executing it yields what a registration needs.  A tool may  *)
(* carry both kinds of code, either or none.                               *)
(***************************************************************************)
EXTENDS Naturals, Sequences, SequencesExt, FiniteSets

CONSTANTS
  Components,  \* names of components
  TypeOf,      \* "tool", "agent", "workflow" or "code"
  Defs,        \* definitions: [id, sound, factory, class, tools]
  Manifest     \* the components of the plugin manifest, in order

ASSUME RegistryAssumption ==
  /\ TypeOf \in [Components -> {"tool", "agent", "workflow", "code"}]
  /\ Manifest \in Seq(Components)

VARIABLE reg

\* What the class of a packaged component makes.
Packaged == [id |-> 0, sound |-> TRUE, factory |-> "none", class |-> "good", tools |-> {}]
None == [of |-> "none", def |-> Packaged, form |-> "none"]
\* A factory that raises when it is called.
Broken == [of |-> "broken", def |-> Packaged, form |-> "none"]

\* What a factory makes: an instance of this component's definition, of its
\* factory code ("factory"), its class ("class") or its data.
Forms == {"factory", "class", "data"}
Made(c, d, form) == [of |-> c, def |-> d, form |-> form]
Impl == {Made(c, d, form) : c \in Components, d \in Defs \cup {Packaged}, form \in Forms} \cup {Broken}

IsTool(c) == TypeOf[c] = "tool"

RegistryTypeOK ==
  /\ DOMAIN reg = {"tools", "paths", "classes", "agents", "agentDefs", "workflows",
                   "wfCache", "dynamic", "chains", "code", "codeCache"}
  /\ \A f \in {"tools", "agentDefs", "wfCache", "dynamic", "code", "codeCache"} :
       reg[f] \in [Components -> Impl \cup {None}]
  /\ \A f \in {"paths", "classes", "agents", "workflows", "chains"} : reg[f] \subseteq Components

Empty == [c \in Components |-> None]
NewRegistry ==
  [tools |-> Empty, paths |-> {}, classes |-> {}, agents |-> {}, agentDefs |-> Empty,
   workflows |-> {}, wfCache |-> Empty, dynamic |-> Empty, chains |-> {},
   code |-> Empty, codeCache |-> Empty]

has_tool(g, c) == c \in g.paths \/ g.tools[c] # None \/ c \in g.classes

\* register_tool_factory: a second import path for a name is refused (the
\* path of an inline factory is new every time); the factory is cached.
register_tool_factory(g, c, d) ==
  IF c \in g.paths THEN g
  ELSE [g EXCEPT !.paths = @ \cup {c}, !.tools[c] = Made(c, d, "factory")]

\* register_tool_factory_callable overwrites the cache.
register_tool_factory_callable(g, c, i) == [g EXCEPT !.tools[c] = i]

\* A data-first definition replaces the one of that name.
register_agent_definition(g, c, d) == [g EXCEPT !.agentDefs[c] = Made(c, d, "data")]

\* The import path of a workflow name is always the same, so that registering it
\* again changes nothing.
register_workflow_factory(g, c) == [g EXCEPT !.workflows = @ \cup {c}]

has_code_factory(g, c) == g.code[c] # None \/ g.codeCache[c] # None
register_code_factory(g, c, d) ==
  IF has_code_factory(g, c) THEN g ELSE [g EXCEPT !.code[c] = Made(c, d, "factory")]

(***************************************************************************)
(* Instances: the cached factory first, then the import path, whose        *)
(* resolution is cached.                                                   *)
(***************************************************************************)

\* get_tool_instance: every registration of a tool fills the cache.
ToolFactory(g, c) == g.tools[c]

\* get_workflow_instance: the path resolves only while the module registered
\* last is the workflow's own.
WorkflowFactory(g, c) ==
  IF c \notin g.workflows THEN None
  ELSE IF g.wfCache[c] # None THEN g.wfCache[c] ELSE g.dynamic[c]

\* get_code_instance and _resolve_factory.
CodeFactory(g, c) == IF g.codeCache[c] # None THEN g.codeCache[c] ELSE g.code[c]

Resolved(g, c) ==
  CASE IsTool(c) -> ToolFactory(g, c)
    [] TypeOf[c] = "agent" -> g.agentDefs[c]
    [] TypeOf[c] = "workflow" -> WorkflowFactory(g, c)
    [] TypeOf[c] = "code" -> CodeFactory(g, c)

Resolve(g, c) ==
  CASE TypeOf[c] = "workflow" -> [g EXCEPT !.wfCache[c] = Resolved(g, c)]
    [] TypeOf[c] = "code" -> [g EXCEPT !.codeCache[c] = Resolved(g, c)]
    [] OTHER -> g

\* The entries of a manifest, in order; a second chain of a name raises, which
\* ends the loading.
Entries(g) ==
  LET Raises(k) == /\ TypeOf[Manifest[k]] = "workflow"
                   /\ Manifest[k] \in g.chains \/ \E j \in 1..(k - 1) : Manifest[j] = Manifest[k]
  IN  {Manifest[k] : k \in {n \in 1..Len(Manifest) : \A j \in 1..n : ~Raises(j)}}

\* The class of a name already registered is kept, but the factory that
\* get_tool_instance prefers is replaced; an agent is registered by import path.
LoadTools(g, loaded) ==
  [g EXCEPT !.classes = @ \cup loaded,
            !.tools = [c \in Components |-> IF c \in loaded THEN Made(c, Packaged, "class") ELSE g.tools[c]]]

load_plugins(g) ==
  LET entries == Entries(g)
      tools == {c \in entries : IsTool(c)}
      agents == {c \in entries : TypeOf[c] = "agent"}
  IN  [LoadTools(g, tools) EXCEPT !.agents = @ \cup agents,
                                  !.chains = @ \cup (entries \ (tools \cup agents))]
=============================================================================
