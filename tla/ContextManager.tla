---------------------------- MODULE ContextManager --------------------------
(***************************************************************************)
(* GraphContextManager, which every Workflow of a process shares through   *)
(* rt.context_manager: one current GraphContext, the least-recently-used   *)
(* map of sessions, the branch contexts of the asynchronous variant, and   *)
(* the node contexts it keeps in a store (the file of ContextStore or the  *)
(* hash of RedisContextStore).  Its callers are the runs of workflows: the *)
(* constructor sets the context, execute_workflow injects inputs, every    *)
(* node reads the current context and stores its output.                   *)
(***************************************************************************)
EXTENDS ContextStore, Sequences, SequencesExt

CONSTANTS
  Main,         \* the process whose manager is modelled
  Run,          \* runs of workflows in that process
  Branch,       \* branch ids
  Output,       \* what nodes return, by how update_node_context treats it
  MaxSessions   \* max_sessions

ASSUME ManagerAssumption ==
  /\ Main \in Proc /\ ScopeOf[Main] = NoScope
  /\ MaxSessions \in Nat
  /\ "cuttext" \in Value /\ Output \subseteq Value \cup {"longtext", "opaque"}
  /\ {"run", "none"} \cap Run = {}

VARIABLES
  backend,   \* CONTEXT_STORE_BACKEND
  hash,      \* the Redis hash
  how,       \* the entry point of each run, once it has one: a blueprint, a
             \* Workflow made for it, or one that was executed before
  run,       \* "new", "built", "running", "ended"
  contexts,  \* _contexts, oldest first
  current,   \* _context, or NoContext
  branches,  \* _branch_stores: the inputs each branch context was copied with
  seen,      \* the runs whose inputs the nodes of each run were given
  rotated    \* history: runs whose context another run has replaced

managerVars == <<backend, hash, how, run, contexts, current, branches, seen, rotated>>
vars == <<storeVars, managerVars>>

\* A GraphContext: its session (execute_workflow asks for that named "run") and the runs whose inputs its metadata holds.
Session == Run \cup {"run"}
Context == [session : Session, inputs : SUBSET Run]
NoContext == [session |-> "none", inputs |-> {}]

TypeOK ==
  /\ StoreTypeOK
  /\ backend \in {"file", "redis"}
  /\ hash \in Contents
  /\ how \in [Run -> {"none", "blueprint", "workflow", "again"}]
  /\ run \in [Run -> {"new", "built", "running", "ended", "died"}]
  /\ contexts \in Seq(Context)
  /\ Len(contexts) <= MaxSessions
  /\ current \in Context \cup {NoContext}
  /\ branches \in [Branch -> [inputs : SUBSET Run, made : BOOLEAN]]
  /\ seen \in [Run -> SUBSET Run]
  /\ rotated \in SUBSET Run

NoBranch == [inputs |-> {}, made |-> FALSE]

ManagerInit ==
  /\ contexts = <<>>
  /\ current = NoContext
  /\ branches = [b \in Branch |-> NoBranch]

Init ==
  /\ StoreInit
  /\ ManagerInit
  /\ backend \in {"file", "redis"}
  /\ hash = Nothing
  /\ how = [r \in Run |-> "none"]
  /\ run = [r \in Run |-> "new"]
  /\ seen = [r \in Run |-> {}]
  /\ rotated = {}

\* The manager's process runs one piece of Python at a time.
InMain == doing[Main] = "idle"

\* Runs under way, whose nodes may still read the current context.
Active == {r \in Run : run[r] \in {"built", "running"}}

\* _register_context: the session moves to the newest end, and the oldest are
\* evicted above max_sessions; evicting the current one leaves none.
RegisterContext(c) ==
  LET others == SelectSeq(contexts, LAMBDA d : d.session # c.session)
      all == Append(others, c)
      kept == SubSeq(all, Len(all) - MaxSessions + 1, Len(all))
  IN  /\ contexts' = IF Len(all) > MaxSessions THEN kept ELSE all
      /\ current' = IF MaxSessions = 0 THEN NoContext ELSE c

\* Other runs under way find another context than the one they left.
Replaces(r) == rotated' = rotated \cup (Active \ {r})

\* BaseWorkflow.__init__: set_context with the session of the workflow.  A
\* blueprint is executed at once, with the inputs of the run, if it has any,
\* as metadata; a ready Workflow waits for execute_workflow.
Construct(r) ==
  /\ InMain /\ run[r] = "new"
  /\ \/ /\ how' = [how EXCEPT ![r] = "blueprint"]
        /\ run' = [run EXCEPT ![r] = "running"]
        /\ \E given \in {{}, {r}} : RegisterContext([session |-> r, inputs |-> given])
     \/ /\ how' = [how EXCEPT ![r] = "workflow"]
        /\ run' = [run EXCEPT ![r] = "built"]
        /\ RegisterContext([session |-> r, inputs |-> {}])
  /\ Replaces(r)
  /\ UNCHANGED <<storeVars, backend, hash, branches, seen>>

\* execute_workflow is called with a Workflow made for this run, or with one
\* that has been executed before.
Executes(r) ==
  \/ run[r] = "built" /\ UNCHANGED how
  \/ /\ run[r] = "new"
     /\ \E q \in Run : how[q] = "workflow" /\ run[q] \in {"running", "ended"}
     /\ how' = [how EXCEPT ![r] = "again"]

\* Fault: get_context takes the session's registered context when there is one.
InjectReusing(r) ==
  /\ InMain /\ Executes(r)
  /\ LET mine == SelectSeq(contexts, LAMBDA d : d.session = "run")
         c == IF current.session = "run" THEN current
              ELSE IF mine # <<>> THEN Last(mine)
              ELSE [session |-> "run", inputs |-> {}]
     IN  RegisterContext([c EXCEPT !.inputs = @ \cup {r}])
  /\ run' = [run EXCEPT ![r] = "running"]
  /\ Replaces(r)
  /\ UNCHANGED <<storeVars, backend, hash, branches, seen>>

\* execute_workflow: get_context("run") keeps the current context when it is
\* that session's, and starts a new one otherwise, registered or not; the
\* inputs go into its metadata.  Without inputs the current context stays,
\* whoever set it.  There is no await before the run's first node.
Inject(r) ==
  /\ InMain /\ Executes(r)
  /\ \/ UNCHANGED <<contexts, current, rotated>>
     \/ /\ IF current.session = "run"
           THEN /\ current' = [current EXCEPT !.inputs = @ \cup {r}]
                /\ contexts' = Append(Front(contexts), current')
           ELSE RegisterContext([session |-> "run", inputs |-> {r}])
        /\ Replaces(r)
  /\ run' = [run EXCEPT ![r] = "running"]
  /\ UNCHANGED <<storeVars, backend, hash, branches, seen>>

\* _build_node_context: get_context() without a session, and its metadata
\* merged into the node's inputs.
BuildNodeContext(r) ==
  /\ InMain /\ run[r] = "running"
  /\ seen' = [seen EXCEPT ![r] = @ \cup current.inputs]
  /\ UNCHANGED <<storeVars, backend, hash, how, run, contexts, current, branches, rotated>>

\* update_node_context, up to the store: what is kept of an output.  Oversized
\* text is cut; the SerializationError of an oversized object is caught by the
\* handler around the token estimate, whose fallback trims text only.
Kept(o) == IF o = "longtext" THEN "cuttext" ELSE o

\* RedisContextStore.update: one field of the hash; a Redis error is logged.
RedisUpdate(k, v) ==
  /\ hash' \in {hash, [hash EXCEPT ![k] = v]}
  /\ UNCHANGED storeVars

\* RedisContextStore.clear of one node, or of the whole hash.
RedisClear ==
  /\ InMain /\ backend = "redis"
  /\ hash' \in {hash, Nothing} \cup {[hash EXCEPT ![k] = Absent] : k \in OwnKeys(Main)}
  /\ UNCHANGED <<storeVars, backend, how, run, contexts, current, branches, seen, rotated>>

\* A node's result is stored under its id, or not at all: what json.dumps
\* refuses raises SerializationError, which the executor ignores.
UpdateNodeContext(r) ==
  /\ InMain /\ run[r] = "running"
  /\ \E o \in Output \ {"opaque"}, k \in OwnKeys(Main) :
       IF backend = "file" THEN Update(Main, k, Kept(o)) /\ UNCHANGED hash
       ELSE RedisUpdate(k, Kept(o))
  /\ UNCHANGED <<backend, how, run, contexts, current, branches, seen, rotated>>

EndRun(r) ==
  /\ InMain /\ run[r] = "running"
  /\ run' = [run EXCEPT ![r] = "ended"]
  /\ UNCHANGED <<storeVars, backend, hash, how, contexts, current, branches, seen, rotated>>

\* get_branch_context and update_branch_context: the branch context is a copy
\* of the context that is current when it is first asked for.
EnsureBranch(b) ==
  /\ InMain /\ ~branches[b].made
  /\ branches' = [branches EXCEPT ![b] = [inputs |-> current.inputs, made |-> TRUE]]
  /\ UNCHANGED <<storeVars, backend, hash, how, run, contexts, current, seen, rotated>>

ClearBranch(b) ==
  /\ InMain /\ branches[b].made
  /\ branches' = [branches EXCEPT ![b] = NoBranch]
  /\ UNCHANGED <<storeVars, backend, hash, how, run, contexts, current, seen, rotated>>

\* The process dies with its runs and its manager.
MainCrash ==
  /\ Crash(Main)
  /\ contexts' = <<>>
  /\ current' = NoContext
  /\ branches' = [b \in Branch |-> NoBranch]
  /\ run' = [r \in Run |-> IF run[r] = "new" THEN "new" ELSE "died"]
  /\ UNCHANGED <<backend, hash, how, seen, rotated>>

\* The other processes of the deployment, with the same backend.
OtherProcess(p) ==
  /\ p # Main /\ backend = "file"
  /\ StoreOp(p) \/ Crash(p)
  /\ UNCHANGED managerVars

OwnSteps(p) ==
  /\ StoreStep(p) \/ Restart(p)
  /\ UNCHANGED managerVars

Next ==
  \/ \E r \in Run : Construct(r) \/ Inject(r) \/ BuildNodeContext(r)
                      \/ UpdateNodeContext(r) \/ EndRun(r)
  \/ \E b \in Branch : EnsureBranch(b) \/ ClearBranch(b)
  \/ RedisClear
  \/ MainCrash
  \/ \E p \in Proc : OtherProcess(p) \/ OwnSteps(p)

Spec == Init /\ [][Next]_vars

---------------------------------------------------------------------------
(* Properties.                                                             *)

\* The first execution of a workflow is given the inputs of no other run, as
\* long as no other run has been constructed or injected while it was under
\* way: the context a former run left behind, with the session "run" or any
\* other, is not the one its nodes read.  A workflow that is executed again
\* is not covered: its constructor sets no new context, so that it reads what
\* the last run left, and its inputs are merged over those of the session.
UndisturbedSeesOwn ==
  \A r \in Run : how[r] # "again" /\ r \notin rotated => seen[r] \subseteq {r}
=============================================================================
