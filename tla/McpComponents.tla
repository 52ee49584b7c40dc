----------------------------- MODULE McpComponents --------------------------
(***************************************************************************)
(* The component life cycle of the MCP API: validate, register, update,    *)
(* delete and read a definition, compose an agent, use what is registered, *)
(* load a plugin manifest, and the rehydration of the registry from the    *)
(* repository when the process starts again.                               *)
(*                                                                         *)
(* The repository is a hash per component in Redis with an index hash, or  *)
(* a table of a database.  A lock is the digest of a record that holds its *)
(* timestamps: it is identified with the request that wrote the record.    *)
(***************************************************************************)
EXTENDS UnifiedRegistry

CONSTANTS
  NoLock,
  Requests,
  Areas,    \* parts of the API
  Load,     \* how many requests an area is sent
  Offered   \* the components that the requests to an area are about

ASSUME RequestsAssumption ==
  /\ NoLock \notin Requests
  /\ Offered \in [Areas -> SUBSET Components]

VARIABLES
  req,     \* the state of each request
  area,    \* the part of the API that the requests of this behaviour use
  sql,     \* a database URL is configured
  stored,  \* the record of each component
  index,   \* the keys of component:index
  boots    \* how often the process was started

(***************************************************************************)
(* The request handlers of the API server.  Every request is a coroutine   *)
(* of one event loop: what it does between two awaits is one step, and any *)
(* other request may run at an await.  A request is a record whose field   *)
(* "at" names the await it is suspended at; the other fields are its local *)
(* variables.  A request is used once and keeps its answer.                *)
(***************************************************************************)
Idle == [at |-> "idle"]

RequestsInit == req = [r \in Requests |-> Idle] /\ area \in Areas

In(a) == area = a
Here == Offered[area]

At(r, label) == req[r].at = label

\* The request is suspended at an await with these locals.
Goto(r, local) == req' = [req EXCEPT ![r] = local]

\* The request ends with a response of this kind.
Answer(r, code) == req' = [req EXCEPT ![r] = [at |-> "done", code |-> code]]

Answered(r, code) == req[r].at = "done" /\ req[r].code = code

InFlight(r) == req[r].at \notin {"idle", "done", "lost"}

\* The process died with these requests under way.
Abort == req' = [r \in Requests |-> IF InFlight(r) THEN [at |-> "lost"] ELSE req[r]]

(***************************************************************************)
(* The repository of components                                            *)
(***************************************************************************)
componentVars == <<reg, sql, stored, index, boots>>

NoRecord == [version |-> 0, def |-> Packaged, by |-> NoLock]
Absent(c) == stored[c] = NoRecord

ComponentsTypeOK ==
  /\ RegistryTypeOK
  /\ sql \in BOOLEAN
  /\ stored \in [Components -> [version : 1..Cardinality(Requests), def : Defs,
                                by : Requests] \cup {NoRecord}]
  /\ index \subseteq Components
  /\ boots \in Nat

ComponentsInit ==
  /\ reg = NewRegistry
  /\ sql \in BOOLEAN
  /\ stored = [c \in Components |-> NoRecord]
  /\ index = {}
  /\ boots = 0

Indexed == IF sql THEN {c \in Components : ~Absent(c)} ELSE index

(***************************************************************************)
(* validate_component.  Only tools, agents with an import path and code    *)
(* have a conflict: the conflict check of workflows compares a pair that   *)
(* is never listed, and a data-first agent definition is no conflict.      *)
(***************************************************************************)

ValidTool(c) == ~has_tool(reg, c)
ValidAgent(c, d) == c \notin reg.agents /\ \A t \in d.tools : has_tool(reg, t)
\* The look-up caches the factory it finds, which changes no later look-up.
ValidCode(c) == CodeFactory(reg, c) = None

\* Fault: a tool of that name is not looked up.
ValidRegardless(c, d) == d.sound /\ (TypeOf[c] = "agent" => ValidAgent(c, d))

Valid(c, d) ==
  /\ d.sound
  /\ IsTool(c) => ValidTool(c)
  /\ TypeOf[c] = "agent" => ValidAgent(c, d)
  /\ TypeOf[c] = "code" => ValidCode(c)

(***************************************************************************)
(* The registration in validate_component_definition.  Code that yields    *)
(* nothing to register leaves a warning.                                   *)
(***************************************************************************)

\* Factory code goes first: where it is bad, the class is not tried.
RegisterToolCode(g, c, d) ==
  CASE d.factory = "good" -> register_tool_factory(g, c, d)
    [] d.factory = "none" /\ d.class = "good" -> register_tool_factory_callable(g, c, Made(c, d, "class"))
    [] OTHER -> g
RegisterInlineCode(g, c, d) == IF d.factory = "good" THEN register_code_factory(g, c, d) ELSE g
RegisterAgentData(g, c, d) == register_agent_definition(g, c, d)

\* Registering a workflow puts a new module "dynamic_workflows" that has this
\* one factory into sys.modules.
RegisterWorkflowNodes(g, c, d) ==
  register_workflow_factory([g EXCEPT !.dynamic = [Empty EXCEPT ![c] = Made(c, d, "data")]], c)

Registered(g, c, d) ==
  CASE TypeOf[c] = "agent" -> RegisterAgentData(g, c, d)
    [] TypeOf[c] = "workflow" -> RegisterWorkflowNodes(g, c, d)
    [] TypeOf[c] = "tool" -> RegisterToolCode(g, c, d)
    [] TypeOf[c] = "code" -> RegisterInlineCode(g, c, d)

IsRegistered(c, d) ==
  \/ TypeOf[c] \in {"agent", "workflow"}
  \/ d.factory = "good"
  \/ TypeOf[c] = "tool" /\ d.factory = "none" /\ d.class = "good"

\* POST /components/validate and components/validate of the JSON-RPC server:
\* nothing in it suspends.
ValidateComponent(r) ==
  \E c \in Here, d \in Defs, auto \in BOOLEAN :
    /\ At(r, "idle")
    /\ reg' = IF Valid(c, d) /\ auto THEN Registered(reg, c, d) ELSE reg
    /\ Answer(r, IF Valid(c, d) THEN "valid" ELSE "invalid")
    /\ UNCHANGED <<sql, stored, index, boots>>

\* POST /components/register and /agents/compose, up to the first await.
RegisterComponent(r) ==
  \E c \in Here, d \in Defs, auto \in BOOLEAN, compose \in BOOLEAN :
    /\ At(r, "idle")
    /\ compose => auto /\ TypeOf[c] = "agent"
    /\ IF Valid(c, d)
       THEN Goto(r, [at |-> "get", c |-> c, d |-> d, auto |-> auto, compose |-> compose])
       ELSE Answer(r, "invalid")
    /\ UNCHANGED componentVars

\* ComponentService.register reads the record for its version ...
ReadVersion(r) ==
  /\ At(r, "get")
  /\ Goto(r, [at |-> "put", c |-> req[r].c, d |-> req[r].d, auto |-> req[r].auto,
              compose |-> req[r].compose, version |-> stored[req[r].c].version + 1])
  /\ UNCHANGED componentVars

\* ... writes the next one ...
PutRecord(r) ==
  /\ At(r, "put")
  /\ stored' = [stored EXCEPT ![req[r].c] = [version |-> req[r].version, def |-> req[r].d, by |-> r]]
  /\ Goto(r, [req[r] EXCEPT !.at = "index"])
  /\ UNCHANGED <<reg, sql, index, boots>>

\* Fault: the key that delete_component uses, not the one that is listed.
SetIndexElsewhere(r) ==
  /\ At(r, "index")
  /\ UNCHANGED index
  /\ IF req[r].auto
     THEN Goto(r, [req[r] EXCEPT !.at = "runtime"])
     ELSE Answer(r, "stored")
  /\ UNCHANGED <<reg, sql, stored, boots>>

\* ... and the index, which a database derives from the rows.
SetIndex(r) ==
  /\ At(r, "index")
  /\ index' = IF sql THEN index ELSE index \cup {req[r].c}
  /\ IF req[r].auto
     THEN Goto(r, [req[r] EXCEPT !.at = "runtime"])
     ELSE Answer(r, "stored")
  /\ UNCHANGED <<reg, sql, stored, boots>>

\* register_component then validates again and registers; the result of this
\* second validation is the response.
RegisterRuntime(r) ==
  /\ At(r, "runtime")
  /\ LET c == req[r].c  d == req[r].d
     IN  /\ reg' = IF Valid(c, d) THEN Registered(reg, c, d) ELSE reg
         /\ IF Valid(c, d) /\ IsRegistered(c, d)
            THEN Goto(r, [at |-> "done", code |-> "registered", c |-> c, d |-> d])
            ELSE Answer(r, IF Valid(c, d) THEN "stored" ELSE "invalid")
  /\ UNCHANGED <<sql, stored, index, boots>>

\* The store fails at one of these awaits.  compose_agent registers the agent in
\* the process when the error names Redis; any other request ends with a 500.
StoreError(r) ==
  /\ req[r].at \in {"get", "put", "index"}
  /\ IF req[r].compose /\ ~sql
     THEN /\ reg' = register_agent_definition(reg, req[r].c, req[r].d)
          /\ Answer(r, "inmemory")
     ELSE Answer(r, "error") /\ UNCHANGED reg
  /\ UNCHANGED <<sql, stored, index, boots>>

\* PUT /components/...: the lock is read from Redis and compared with the
\* client's; the definition is not validated.
UpdateComponent(r) ==
  \E c \in Here, d \in Defs, lock \in {"none", "current", "stale"} :
    /\ At(r, "idle")
    /\ IF sql \/ Absent(c) THEN Answer(r, "404")
       ELSE IF lock = "none" THEN Answer(r, "428")
       ELSE IF lock = "stale" THEN Answer(r, "409")
       ELSE Goto(r, [at |-> "update", c |-> c, d |-> d])
    /\ UNCHANGED componentVars

\* The record starts over at version 1.
WriteUpdate(r) ==
  /\ At(r, "update")
  /\ stored' = [stored EXCEPT ![req[r].c] = [version |-> 1, def |-> req[r].d, by |-> r]]
  /\ Answer(r, "updated")
  /\ UNCHANGED <<reg, sql, index, boots>>

\* DELETE /components/...: the record in Redis; the index key it then clears is
\* not the one that set_index writes.
DeleteComponent(r) ==
  \E c \in Here :
    /\ At(r, "idle")
    /\ stored' = IF sql THEN stored ELSE [stored EXCEPT ![c] = NoRecord]
    /\ Answer(r, "204")
    /\ UNCHANGED <<reg, sql, index, boots>>

\* GET /components/... and GET /components: the records, their locks and the
\* names in the registry.
GetComponent(r) ==
  \E c \in Here :
    /\ At(r, "idle")
    /\ Answer(r, IF Absent(c) THEN "404" ELSE "200")
    /\ UNCHANGED componentVars

\* A node resolves a registered component.
UseComponent(r) ==
  \E c \in Here :
    /\ At(r, "idle")
    /\ reg' = Resolve(reg, c)
    /\ Answer(r, "used")
    /\ UNCHANGED <<sql, stored, index, boots>>

\* A manifest is loaded when a tool is missing.
LoadPlugins ==
  /\ \E k \in 1..Len(Manifest) : IsTool(Manifest[k]) /\ ~has_tool(reg, Manifest[k])
  /\ reg' = load_plugins(reg)
  /\ UNCHANGED <<req, sql, stored, index, boots>>

\* Lifespan: every indexed tool and code component is registered again; agents
\* and workflows are not.  Of a tool the class code goes first here.  The
\* factories of class-based tools close over one variable, which at the end
\* holds what the last of them left there: its class, or nothing when its code
\* has none.
Present(type) == {c \in Indexed : ~Absent(c) /\ TypeOf[c] = type}
ClassBased == {c \in Present("tool") : stored[c].def.class # "none"}

Rehydrate(last) ==
  LET def(c) == stored[c].def
      bound == IF def(last).class = "good" THEN Made(last, def(last), "class") ELSE Broken
      byFactory(c) == IF def(c).factory = "good" THEN Made(c, def(c), "factory") ELSE None
  IN  [NewRegistry EXCEPT
         !.tools = [c \in Components |->
                      CASE c \in ClassBased -> IF def(c).class = "good" THEN bound ELSE None
                        [] c \in Present("tool") \ ClassBased -> byFactory(c)
                        [] OTHER -> None],
         !.code = [c \in Components |-> IF c \in Present("code") THEN byFactory(c) ELSE None]]

\* The index has no order of its own: any class-based tool may come last.
Lasts == IF ClassBased = {} THEN Components ELSE ClassBased

Restart ==
  /\ boots < 1
  /\ boots' = boots + 1
  /\ \E last \in Lasts : reg' = Rehydrate(last)
  /\ Abort
  /\ UNCHANGED <<sql, stored, index>>

ComponentsBegin(r) ==
  \/ ValidateComponent(r) \/ RegisterComponent(r) \/ UpdateComponent(r) \/ DeleteComponent(r)
  \/ GetComponent(r) \/ UseComponent(r)
ComponentsContinue(r) ==
  \/ ReadVersion(r) \/ PutRecord(r) \/ SetIndex(r) \/ RegisterRuntime(r) \/ StoreError(r)
  \/ WriteUpdate(r)

(***************************************************************************)
(* Properties.                                                             *)
(***************************************************************************)

\* A tool whose registration was confirmed, whose definition carries factory
\* code and no class, and whose record nobody has written since, is what a
\* restart would bring back: the record is complete and listed before the
\* response, whatever other requests did in between.  (A definition that
\* carries both is registered by its factory and comes back as a class.)
RegisteredSurvives ==
  \A r \in Requests :
    Answered(r, "registered") =>
      LET c == req[r].c  d == req[r].d
      IN  TypeOf[c] = "tool" /\ d.class = "none" /\ stored[c].by = r =>
            \A last \in Lasts : Rehydrate(last).tools[c] = Made(c, d, "factory")

\* A registered tool is exchanged for another definition only by a restart, or
\* when a manifest that names it is loaded because some tool is missing: then
\* the factory cache is overwritten even where the registered class is kept.
\* No request does it: of two registrations that race to the registry, the
\* second one is refused there.
ToolsNeverReplaced ==
  [][\A c \in Components :
       IsTool(c) /\ reg.tools[c] # None /\ reg'.tools[c] # reg.tools[c] =>
         \/ boots' # boots
         \/ /\ UNCHANGED req
            /\ c \in Range(Manifest) /\ reg'.tools[c] = Made(c, Packaged, "class")]_<<reg, boots>>
=============================================================================
