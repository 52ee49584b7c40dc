------------------------------ MODULE IceClient -----------------------------
(***************************************************************************)
(* IceClient against the API: starting an execution (registering the       *)
(* bundle when the server does not know it) and polling its persisted      *)
(* status, submitting a run to the MCP endpoint and asking for its result, *)
(* and the plain calls, of which those on a partial blueprint carry the    *)
(* version lock of the last read.                                          *)
(***************************************************************************)
EXTENDS Naturals

CONSTANTS
  Patience,   \* polls that fit into a timeout
  MaxLock     \* bound: versions of the partial blueprint

VARIABLES
  client,     \* "idle", the request it awaits, "sleeping", or how the call ended
  api,        \* the endpoint in use: "executions" or "mcp"
  limited,    \* a timeout was given
  elapsed,    \* sleeps so far, up to Patience + 1
  yaml,       \* "none", "given" or "used": run_bundle's file
  known,      \* the server knows the blueprint
  runState,   \* the run in the server
  row,        \* what the server answers for it: the row of the execution, or
              \* the entry of _RUNS
  outcomeLost,  \* the server has lost the outcome, or will
  heldLock,   \* the version lock the client has read, 0 for none
  version     \* the lock of the partial blueprint

clientVars == <<client, api, limited, elapsed, yaml, known, runState, row, outcomeLost, heldLock, version>>

Final == {"completed", "failed"}
Ended == {"returned", "raised", "timedOut"}
Awaiting == {"starting", "registering", "submitting", "asking", "streaming", "calling"}

ClientTypeOK ==
  /\ client \in {"idle", "sleeping"} \cup Awaiting \cup Ended
  /\ api \in {"executions", "mcp"}
  /\ limited \in BOOLEAN /\ known \in BOOLEAN /\ outcomeLost \in BOOLEAN
  /\ elapsed \in 0..Patience + 1
  /\ yaml \in {"none", "given", "used"}
  /\ runState \in {"none", "pending", "running"} \cup Final
  /\ row \in {"none", "pending", "running"} \cup Final
  /\ heldLock \in 0..MaxLock /\ version \in 1..MaxLock

ClientInit ==
  /\ client = "idle" /\ api = "executions" /\ limited = FALSE /\ elapsed = 0
  /\ yaml = "none"
  /\ known \in BOOLEAN
  /\ runState = "none" /\ row = "none" /\ outcomeLost = FALSE
  /\ heldLock = 0 /\ version = 1

serverVars == <<known, runState, row, outcomeLost>>
lockVars == <<heldLock, version>>

(***************************************************************************)
(* Executions                                                              *)
(***************************************************************************)
\* run_bundle, or run followed by poll_until_complete.
RunBundle(withYaml, withTimeout) ==
  /\ client = "idle"
  /\ client' = "starting" /\ api' = "executions"
  /\ limited' = withTimeout
  /\ yaml' = IF withYaml THEN "given" ELSE "none"
  /\ UNCHANGED <<elapsed, serverVars, lockVars>>

\* start_execution: an unknown blueprint is a 404, a budget or a project that
\* does not allow it is refused; otherwise the row is written, if the database
\* can, and the workflow runs in a task.
StartAnswered ==
  /\ client = "starting"
  /\ \/ /\ ~known
        /\ client' = IF yaml = "given" THEN "registering" ELSE "raised"
        /\ UNCHANGED serverVars
     \/ /\ known
        /\ client' = "asking"
        /\ runState' = "pending"
        /\ \/ row' = "pending" /\ UNCHANGED outcomeLost
           \/ row' = "none" /\ outcomeLost' = TRUE
        /\ UNCHANGED known
  /\ UNCHANGED <<api, limited, elapsed, yaml, lockVars>>

\* create_blueprint; the second run does not fall back again.
Registered ==
  /\ client = "registering"
  /\ client' = "starting" /\ yaml' = "used" /\ known' = TRUE
  /\ UNCHANGED <<api, limited, elapsed, runState, row, outcomeLost, lockVars>>

\* get_execution_status reads the row only.
Answered == IF row = "none" THEN "404" ELSE row

\* One turn of poll_until_complete or wait_for_completion.
Ask ==
  /\ client = "asking"
  /\ client' = CASE Answered = "404" -> "raised"
                 [] Answered \in Final -> "returned"
                 [] OTHER -> "sleeping"
  /\ UNCHANGED <<api, limited, elapsed, yaml, serverVars, lockVars>>

\* Fault: the timeout is looked at only while the run makes progress.
SleepPatiently ==
  /\ client = "sleeping"
  /\ elapsed' = IF elapsed <= Patience THEN elapsed + 1 ELSE elapsed
  /\ client' = IF limited /\ row # "pending" /\ elapsed' > Patience THEN "timedOut" ELSE "asking"
  /\ UNCHANGED <<api, limited, yaml, serverVars, lockVars>>

\* The timeout is looked at after the sleep.
Sleep ==
  /\ client = "sleeping"
  /\ elapsed' = IF elapsed <= Patience THEN elapsed + 1 ELSE elapsed
  /\ client' = IF limited /\ elapsed' > Patience THEN "timedOut" ELSE "asking"
  /\ UNCHANGED <<api, limited, yaml, serverVars, lockVars>>

(***************************************************************************)
(* MCP runs                                                                *)
(***************************************************************************)
\* submit_blueprint, as run_and_wait and run_and_stream call it.
Submit(withTimeout) ==
  /\ client = "idle" /\ known
  /\ client' = "submitting" /\ api' = "mcp"
  /\ limited' = withTimeout
  /\ runState' = "pending"
  /\ UNCHANGED <<elapsed, yaml, known, row, outcomeLost, lockVars>>

\* The server answers when the run is over and its result is in _RUNS.
SubmitAnswered ==
  /\ client = "submitting" /\ runState \in Final
  /\ client' \in {"asking", "streaming"}
  /\ UNCHANGED <<api, limited, elapsed, yaml, serverVars, lockVars>>

\* The events of a finished run end with it.
Streamed ==
  /\ client = "streaming"
  /\ client' = IF row = "none" THEN "raised" ELSE "returned"
  /\ UNCHANGED <<api, limited, elapsed, yaml, serverVars, lockVars>>

\* A status that is no success, and what httpx raises: the run in the server
\* goes on.
RequestFails ==
  /\ client \in Awaiting
  /\ client' = "raised"
  /\ UNCHANGED <<api, limited, elapsed, yaml, serverVars, lockVars>>

(***************************************************************************)
(* Plain calls                                                             *)
(***************************************************************************)
\* Components and agents: one request each.
PlainCall ==
  /\ client = "idle"
  /\ client' = "calling"
  /\ UNCHANGED <<api, limited, elapsed, yaml, serverVars, lockVars>>

\* A file that cannot be read raises before anything is sent.
UploadFiles ==
  /\ client = "idle"
  /\ client' \in {"calling", "raised"}
  /\ UNCHANGED <<api, limited, elapsed, yaml, serverVars, lockVars>>

PlainAnswered ==
  /\ client = "calling"
  /\ client' = "idle"
  /\ UNCHANGED <<api, limited, elapsed, yaml, serverVars, lockVars>>

\* A partial blueprint is read with its lock, and updated, committed to or
\* finalised with the one last read, which another client may have overtaken.
ReadPartial ==
  /\ client = "idle"
  /\ heldLock' = version
  /\ UNCHANGED <<client, api, limited, elapsed, yaml, serverVars, version>>

UpdatePartial ==
  /\ client = "idle" /\ heldLock > 0 /\ version < MaxLock
  /\ IF heldLock = version
     THEN version' = version + 1 /\ heldLock' = version' /\ UNCHANGED client
     ELSE client' = "raised" /\ UNCHANGED lockVars
  /\ UNCHANGED <<api, limited, elapsed, yaml, serverVars>>

FinalizePartial ==
  /\ client = "idle" /\ heldLock > 0
  /\ IF heldLock = version THEN heldLock' = 0 /\ UNCHANGED client
     ELSE client' = "raised" /\ UNCHANGED heldLock
  /\ UNCHANGED <<api, limited, elapsed, yaml, serverVars, version>>

Overtaken ==
  /\ version < MaxLock
  /\ version' = version + 1
  /\ UNCHANGED <<client, api, limited, elapsed, yaml, serverVars, heldLock>>

(***************************************************************************)
(* The server                                                              *)
(***************************************************************************)
\* _run_workflow_async writes each status to the database, and goes on when it
\* cannot; the result of an MCP run is a dictionary entry made at the end.
Progress(s) ==
  /\ runState' = s
  /\ IF api = "mcp" THEN row' = (IF s \in Final THEN s ELSE row) /\ UNCHANGED outcomeLost
     ELSE \/ row' = (IF row = "none" THEN "none" ELSE s) /\ UNCHANGED outcomeLost
          \/ UNCHANGED row /\ outcomeLost' = (outcomeLost \/ s \in Final)
  /\ UNCHANGED <<client, api, limited, elapsed, yaml, known, lockVars>>

RunStarts == runState = "pending" /\ Progress("running")
RunEnds == runState = "running" /\ \E s \in Final : Progress(s)

\* A restart forgets the task and _RUNS, and leaves the row as it is.
Restart ==
  /\ runState # "none"
  /\ runState' = "none"
  /\ row' = IF api = "mcp" THEN "none" ELSE row
  /\ outcomeLost' = (outcomeLost \/ row \notin Final)
  /\ UNCHANGED <<client, api, limited, elapsed, yaml, known, lockVars>>

\* Another client cancels: while the task's record is in memory the row stays,
\* afterwards it becomes "failed".
CancelStored ==
  /\ api = "executions" /\ runState = "none" /\ row # "none"
  /\ row' = "failed"
  /\ UNCHANGED <<client, api, limited, elapsed, yaml, known, runState, outcomeLost, lockVars>>

ClientStep ==
  \/ StartAnswered \/ Registered \/ Ask \/ Sleep
  \/ SubmitAnswered \/ Streamed \/ PlainAnswered \/ RequestFails
ServerStep == RunStarts \/ RunEnds

ClientNext ==
  \/ \E y, t \in BOOLEAN : RunBundle(y, t)
  \/ \E t \in BOOLEAN : Submit(t)
  \/ PlainCall \/ UploadFiles \/ ReadPartial \/ UpdatePartial \/ FinalizePartial \/ Overtaken
  \/ ClientStep \/ ServerStep \/ Restart \/ CancelStored

\* A call that waits for a run comes to an end: with the final status, an
\* error or its timeout.  Only a poll without a timeout can go on for ever,
\* and only when the server has lost the outcome.  (poll_until_complete, wait_for_completion, run_bundle)
WaitEnds ==
  client \in {"starting", "submitting", "asking", "sleeping"}
    ~> (client \in Ended \/ (outcomeLost /\ ~limited))
=============================================================================
