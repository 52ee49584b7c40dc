--------------------------- MODULE BlueprintStore ---------------------------
(***************************************************************************)
(* Concurrent clients that patch, replace or delete one stored blueprint   *)
(* through the blueprints API, with the X-Version-Lock check.  The body of *)
(* a blueprint is the set of clients whose change it contains, and the     *)
(* lock, a hash of the body, is the body.  A handler loads the blueprint   *)
(* and checks the lock without a break, but the write to the database and  *)
(* the write to the Redis cache are awaited separately.                    *)
(*                                                                         *)
(* The blueprint exists in the initial states (create_blueprint has        *)
(* answered); clone_blueprint writes another id and is left out.           *)
(***************************************************************************)
EXTENDS Integers, FiniteSets

CONSTANTS
  Clients,
  CallsMayFail,  \* database and Redis calls can fail
  MaxTries       \* bound: how often a client reads the blueprint and tries

ASSUME StoreAssumption ==
  /\ CallsMayFail \in BOOLEAN
  /\ MaxTries \in Nat

\* What a store holds of the blueprint: nothing ({}) or one body ({b}).
Bodies == SUBSET Clients
Stored == {{}} \cup {{b} : b \in Bodies}

VARIABLES
  op,         \* what each client wants: "update" (PATCH, PUT) or "delete"
  row,        \* the row in the database
  cached,     \* the cached JSON; deletion stores an empty string
  at,         \* where each client or its handler is
  tries,      \* times the client has read the blueprint
  seen,       \* the lock the client sends
  loaded,     \* what its handler loaded
  acked,      \* clients whose update was answered with success
  committed,  \* every body the database has held
  raced,      \* a handler passed the check while another one was past it
  stale,      \* a handler worked on something that was not the row
  deleted     \* the row has been deleted

blueprintVars ==
  <<op, row, cached, at, tries, seen, loaded, acked, committed, raced, stale, deleted>>

BlueprintInit ==
  /\ op \in [Clients -> {"update", "delete"}]
  /\ row = {{}}
  /\ cached \in {{}, {{}}}       \* caching the new blueprint is best effort
  /\ at = [c \in Clients |-> "idle"]
  /\ tries = [c \in Clients |-> 0]
  /\ seen = [c \in Clients |-> {}]
  /\ loaded = [c \in Clients |-> {}]
  /\ acked = {}
  /\ committed = {{}}
  /\ raced = FALSE
  /\ stale = FALSE
  /\ deleted = FALSE

Proceed(c, l) == at' = [at EXCEPT ![c] = l]

\* _load_blueprint: the row; the cache if there is none or the database
\* fails; {} is the 404.
Views == (IF row # {} THEN {row} ELSE {cached}) \cup (IF CallsMayFail THEN {cached, {}} ELSE {})

\* get_blueprint: the client learns body and lock.
Get(c) ==
  /\ at[c] = "idle"
  /\ tries[c] < MaxTries
  /\ tries' = [tries EXCEPT ![c] = @ + 1]
  /\ \E view \in Views :
       /\ seen' = [seen EXCEPT ![c] = view]
       /\ Proceed(c, IF view = {} THEN "done" ELSE "ready")
  /\ UNCHANGED <<op, row, cached, loaded, acked, committed, raced, stale, deleted>>

\* Fault: the lock is not compared.
CheckNothing(c) ==
  /\ at[c] = "ready"
  /\ \E view \in Views :
       /\ loaded' = [loaded EXCEPT ![c] = seen[c]]
       /\ Proceed(c, IF view = {} THEN "done" ELSE "checked")
       /\ stale' = (stale \/ view # row)
       /\ raced' = (raced \/ \E d \in Clients : at[d] = "checked")
  /\ UNCHANGED <<op, row, cached, tries, seen, acked, committed, deleted>>

\* The handler loads the blueprint and checks the lock: 404, 409 (the client
\* reads again) or go on with what was loaded.
Check(c) ==
  /\ at[c] = "ready"
  /\ \E view \in Views :
       \/ view = {} /\ Proceed(c, "done") /\ UNCHANGED <<loaded, raced, stale>>
       \/ /\ view # {} /\ view # seen[c]
          /\ Proceed(c, "idle")
          /\ UNCHANGED <<loaded, raced, stale>>
       \/ /\ view # {} /\ view = seen[c]
          /\ Proceed(c, "checked")
          /\ loaded' = [loaded EXCEPT ![c] = view]
          /\ raced' = (raced \/ \E d \in Clients : at[d] = "checked")
          /\ stale' = (stale \/ view # row)
  /\ UNCHANGED <<op, row, cached, tries, seen, acked, committed, deleted>>

\* The body the handler of an update writes: _merge_nodes, or the payload a
\* client made from the body it read.
Updated(c) == {b \cup {c} : b \in loaded[c]}

\* Fault: the cache is refreshed before the database commits.
SaveCacheFirst(c) ==
  /\ at[c] = "checked"
  /\ op[c] = "update"
  /\ cached' = Updated(c)
  /\ \/ /\ row' = Updated(c)
        /\ committed' = committed \cup Updated(c)
        /\ Proceed(c, "caching")
     \/ CallsMayFail /\ Proceed(c, "done") /\ UNCHANGED <<row, committed>>
  /\ UNCHANGED <<op, tries, seen, loaded, acked, raced, stale, deleted>>

\* patch_blueprint and replace_blueprint: write the body, whatever the row
\* holds by now; a missing row is created again.  A failing database call is
\* the answer 503 or 500.
Save(c) ==
  /\ at[c] = "checked"
  /\ op[c] = "update"
  /\ \/ /\ row' = Updated(c)
        /\ committed' = committed \cup Updated(c)
        /\ Proceed(c, "caching")
     \/ CallsMayFail /\ Proceed(c, "done") /\ UNCHANGED <<row, committed>>
  /\ UNCHANGED <<op, cached, tries, seen, loaded, acked, raced, stale, deleted>>

\* delete_blueprint.
Delete(c) ==
  /\ at[c] = "checked"
  /\ op[c] = "delete"
  /\ \/ row' = {} /\ deleted' = TRUE /\ Proceed(c, "caching")
     \/ CallsMayFail /\ Proceed(c, "done") /\ UNCHANGED <<row, deleted>>
  /\ UNCHANGED <<op, cached, tries, seen, loaded, acked, committed, raced, stale>>

\* Refresh or invalidate the cache, best effort, and answer.
Cache(c) ==
  /\ at[c] = "caching"
  /\ \/ cached' = IF op[c] = "update" THEN Updated(c) ELSE {}
     \/ CallsMayFail /\ UNCHANGED cached
  /\ acked' = IF op[c] = "update" THEN acked \cup {c} ELSE acked
  /\ Proceed(c, "done")
  /\ UNCHANGED <<op, row, tries, seen, loaded, committed, raced, stale, deleted>>

BlueprintNext == \E c \in Clients : Get(c) \/ Check(c) \/ Save(c) \/ Delete(c) \/ Cache(c)

BlueprintSpec == BlueprintInit /\ [][BlueprintNext]_blueprintVars

-----------------------------------------------------------------------------
(***************************************************************************)
(* Properties                                                              *)
(***************************************************************************)
\* The stores, the handlers and the history kept of them.
BlueprintTypeOK ==
  /\ op \in [Clients -> {"update", "delete"}]
  /\ row \in Stored
  /\ cached \in Stored
  /\ at \in [Clients -> {"idle", "ready", "checked", "caching", "done"}]
  /\ tries \in [Clients -> Nat]
  /\ seen \in [Clients -> Stored]
  /\ loaded \in [Clients -> Stored]
  /\ acked \subseteq Clients
  /\ committed \subseteq Bodies
  /\ raced \in BOOLEAN
  /\ stale \in BOOLEAN
  /\ deleted \in BOOLEAN

\* Every acknowledged change is in the row, unless the row was deleted.
UpdatesKept == ~deleted => \A c \in acked : \E b \in row : c \in b

\* The version lock keeps every acknowledged change as long as no handler
\* passes its check between another one's check and write, and none works on
\* a cached body: later clients with an old lock are turned away.
SerialUpdatesKept == ~raced /\ ~stale => UpdatesKept

\* The cache never serves a body the database has not committed.
CacheOnlyCommitted == cached \subseteq committed
=============================================================================
