------------------------------- MODULE McpRuns ------------------------------
(***************************************************************************)
(* Runs started through the MCP API, and its JSON-RPC face.  A run is named *)
(* after the request that starts it.  Its result is kept in the process,   *)
(* its one event in a stream of Redis, or of the in-memory stub that takes *)
(* its place in tests and in builds without the redis package.             *)
(***************************************************************************)
EXTENDS McpComponents

VARIABLES
  stub,    \* Redis is the in-memory stub
  rpc,     \* the one MCPSession: the client whose capabilities it holds
  result,  \* _RUNS
  stream   \* entries of stream:<run>

runVars == <<stub, rpc, result, stream>>

Nobody == "nobody"
RunsTypeOK ==
  /\ stub \in BOOLEAN
  /\ rpc \in Requests \cup {Nobody}
  /\ result \in [Requests -> {"none", "ok", "failed"}]
  /\ stream \in [Requests -> 0..1]

\* get_redis: the stub when it is asked for, in tests and without the package.
FakeRedis(asked, package) == asked \/ ~package

RunsInit ==
  /\ \E asked \in BOOLEAN, package \in BOOLEAN : stub = FakeRedis(asked, package)
  /\ rpc = Nobody
  /\ result = [r \in Requests |-> "none"]
  /\ stream = [r \in Requests |-> 0]

(***************************************************************************)
(* Requests of the JSON-RPC server that never suspend.                     *)
(***************************************************************************)

\* handle_initialize overwrites the shared session; any other method
\* initializes it on first use, with no capabilities.
Initialize(r) ==
  /\ At(r, "idle")
  /\ rpc' = r
  /\ Answer(r, "result")
  /\ UNCHANGED <<componentVars, stub, result, stream>>

Touched(r) == IF rpc = Nobody THEN r ELSE rpc

\* A malformed body, an invalid request, a notification or an unknown method.
RpcRefused(r) ==
  \E why \in {"parse", "invalid", "notification", "unknown"} :
    /\ At(r, "idle")
    /\ rpc' = IF why = "unknown" THEN Touched(r) ELSE rpc
    /\ Answer(r, IF why = "notification" THEN "empty" ELSE "error")
    /\ UNCHANGED <<componentVars, stub, result, stream>>

\* The names tools/list offers and tools/call accepts.  Tools and workflows that
\* have only a factory, and data-first agents, are not among them.
Listed == {c \in Components : IsTool(c) /\ c \in reg.classes} \cup reg.agents
Always == {"human:approval", "monitor:metrics", "swarm:consensus"}

ListTools(r) ==
  /\ At(r, "idle")
  /\ rpc' = Touched(r)
  /\ Answer(r, "result")
  /\ UNCHANGED <<componentVars, stub, result, stream>>

\* resources/*: a fixed list; a template or document of another name is an error.
ReadResource(r) ==
  \E known \in BOOLEAN :
    /\ At(r, "idle")
    /\ rpc' = Touched(r)
    /\ Answer(r, IF known THEN "result" ELSE "error")
    /\ UNCHANGED <<componentVars, stub, result, stream>>

\* prompts/*: a fixed list; an unknown name or a missing argument is an error.
ReadPrompt(r) ==
  \E known \in BOOLEAN :
    /\ At(r, "idle")
    /\ rpc' = Touched(r)
    /\ Answer(r, IF known THEN "result" ELSE "error")
    /\ UNCHANGED <<componentVars, stub, result, stream>>

(***************************************************************************)
(* Runs.                                                                   *)
(***************************************************************************)

\* tools/call builds a blueprint of one node and starts it like start_run does.
\* A chain cannot be converted; a human, monitor or swarm node always exists.
CallTool(r) ==
  \E name \in Here \cup Always \cup {"chain", "nonsense"} :
    /\ At(r, "idle")
    /\ rpc' = Touched(r)
    /\ IF name \in Listed \cup Always
       THEN Goto(r, [at |-> "running", call |-> TRUE])
       ELSE Answer(r, "error")
    /\ UNCHANGED <<componentVars, stub, result, stream>>

\* POST /runs: a missing, unknown, invalid or too expensive blueprint is
\* refused; any other is executed within the request.
StartRun(r) ==
  \E verdict \in {"400", "402", "404", "ok"} :
    /\ At(r, "idle")
    /\ IF verdict = "ok" THEN Goto(r, [at |-> "running", call |-> FALSE])
       ELSE Answer(r, verdict)
    /\ UNCHANGED <<componentVars, runVars>>

\* WorkflowService.execute: the run succeeds whenever the workflow returns,
\* whatever its own result says, and fails when it raises.
Executed(end) == IF end = "raises" THEN "failed" ELSE "ok"

RunEnds(r) ==
  /\ At(r, "running")
  /\ \E end \in {"succeeds", "does not succeed", "raises"} :
       result' = [result EXCEPT ![r] = Executed(end)]
  /\ Goto(r, [req[r] EXCEPT !.at = "publish"])
  /\ UNCHANGED <<componentVars, stub, rpc, stream>>

\* wait_for_completion of a tools/call finds the result at its first look.
Completion(r) == IF result[r] = "ok" THEN "result" ELSE "error"

\* The terminal event, the only one a stream gets, then the response.
PublishRun(r) ==
  /\ At(r, "publish")
  /\ stream' = [stream EXCEPT ![r] = @ + 1]
  /\ Answer(r, IF req[r].call THEN Completion(r) ELSE "202")
  /\ UNCHANGED <<componentVars, stub, rpc, result>>

PublishFails(r) ==
  /\ At(r, "publish") /\ ~stub
  /\ Answer(r, "error")
  /\ UNCHANGED <<componentVars, runVars>>

GetResult(r) ==
  \E run \in Requests :
    /\ At(r, "idle")
    /\ Answer(r, IF result[run] = "none" THEN "202" ELSE "200")
    /\ UNCHANGED <<componentVars, runVars>>

\* Every request makes a WorkflowService of its own, whose cache of workflows is
\* empty; execute enters the run in the cache of the service that ran it.
NewCache == {}
CachedWorkflow(cache, run) == run \in cache

\* GET /workflows/<id>/graph and /nodes: metrics, layout, analysis, impact,
\* suggestions and patterns.
InspectWorkflow(r) ==
  \E run \in Requests :
    /\ At(r, "idle")
    /\ Answer(r, IF CachedWorkflow(NewCache, run) THEN "200" ELSE "404")
    /\ UNCHANGED <<componentVars, runVars>>

\* GET /runs/<id>/events, if the stream exists; the reader starts after 0-0.
Subscribe(r) ==
  \E run \in Requests :
    /\ At(r, "idle")
    /\ IF stream[run] = 0 THEN Answer(r, "404")
       ELSE Goto(r, [at |-> "streaming", run |-> run, last |-> 0])
    /\ UNCHANGED <<componentVars, runVars>>

\* The id of the k-th entry: the stub counts from 0, so that its first entry is
\* 0-0 itself.
EntryId(k) == IF stub THEN k - 1 ELSE k

\* xread hands out what has a greater id than the last one seen; the terminal
\* event ends the response.
Deliver(r) ==
  /\ At(r, "streaming")
  /\ \E k \in 1..stream[req[r].run] :
       EntryId(k) > req[r].last /\ Answer(r, "finished")
  /\ UNCHANGED <<componentVars, runVars>>

\* The stub's xread neither blocks nor suspends: a reader it has nothing for
\* loops without ever returning to the event loop.
Starved ==
  stub /\ \E r \in Requests :
            At(r, "streaming") /\ \A k \in 1..stream[req[r].run] : EntryId(k) <= req[r].last

RunsBegin(r) ==
  \/ Initialize(r) \/ RpcRefused(r) \/ ListTools(r) \/ ReadResource(r) \/ ReadPrompt(r)
  \/ CallTool(r) \/ StartRun(r) \/ GetResult(r) \/ Subscribe(r) \/ InspectWorkflow(r)
RunsContinue(r) == RunEnds(r) \/ PublishRun(r) \/ PublishFails(r) \/ Deliver(r)
=============================================================================
