----------------------------- MODULE ContextStore ---------------------------
(***************************************************************************)
(* The node contexts kept in one JSON file by ContextStore and             *)
(* ScopedContextStore (context/store.py, context/scoped_context_store.py), *)
(* shared by several processes.  Every process has a cache of its own and  *)
(* a single thread; update, set and clear rewrite the whole file in steps  *)
(* that other processes see: open(..., "w") truncates the file before the  *)
(* exclusive lock is asked for, and the buffered text reaches the file     *)
(* when it is closed, after the lock has been given up.                    *)
(***************************************************************************)
EXTENDS Naturals, FiniteSets

CONSTANTS
  Proc,        \* the processes, each with one store instance
  Scope,       \* the prefix a scoped store puts before a node id
  NoScope,     \* a plain ContextStore uses the node id as it is
  ScopeOf,     \* the scope of each process's store
  NodeId,      \* node ids
  Value,       \* node contexts as stored
  MaxOps,      \* bound: store operations in a behaviour
  MaxCrashes   \* bound: crashes in a behaviour

ASSUME ScopesAssumption ==
  /\ NoScope \notin Scope
  /\ ScopeOf \in [Proc -> Scope \cup {NoScope}]
  /\ MaxOps \in Nat /\ MaxCrashes \in Nat

CONSTANTS Absent, Free
ASSUME DistinctAssumption == Absent \notin Value /\ Free \notin Proc

Key == (Scope \cup {NoScope}) \X NodeId
Contents == [Key -> Value \cup {Absent}]
Nothing == [k \in Key |-> Absent]

VARIABLES
  file,     \* what the file holds: contents, or text that does not parse
  lock,     \* the process holding the exclusive flock across two steps
  cache,    \* context_cache of each process
  data,     \* the contents an operation is about to write
  todo,     \* the keys a clear has still to remove
  doing,    \* where each process is in its operation
  ops, crashes,
  acked,    \* history: the last value written under each key
  harmed    \* history: why acknowledged values may be missing from the file

storeVars == <<file, lock, cache, data, todo, doing, ops, crashes, acked, harmed>>

\* An empty file and one with another writer's tail behind it: neither parses.
Unparsable == {"empty", "torn"}
Harm == {"overlap", "crash", "whole cache"}

StoreTypeOK ==
  /\ file \in [state : {"json"}, is : Contents] \cup [state : Unparsable]
  /\ lock \in Proc \cup {Free}
  /\ cache \in [Proc -> Contents]
  /\ data \in [Proc -> Contents]
  /\ todo \in [Proc -> SUBSET Key]
  /\ doing \in [Proc -> {"down", "idle", "open", "dump", "dump unlocked", "open unlocked",
                         "clearing", "rewrite"}]
  /\ ops \in 0..MaxOps /\ crashes \in 0..MaxCrashes
  /\ acked \in Contents
  /\ harmed \in SUBSET Harm

\* json.load, with the recovery every reader has: text that does not parse is
\* an empty store.
Parsed == IF file.state = "json" THEN file.is ELSE Nothing

StoreInit ==
  /\ file = [state |-> "json", is |-> Nothing]
  /\ lock = Free
  /\ cache = [p \in Proc |-> Nothing]
  /\ data = [p \in Proc |-> Nothing]
  /\ todo = [p \in Proc |-> {}]
  /\ doing = [p \in Proc |-> "idle"]
  /\ ops = 0 /\ crashes = 0
  /\ acked = Nothing
  /\ harmed = {}

\* An operation of p begins: the history notes another one under way, and why
\* the operation itself may drop what other processes wrote.
Begins(p, harm) ==
  /\ doing[p] = "idle"
  /\ ops < MaxOps
  /\ ops' = ops + 1
  /\ harmed' = harmed \cup harm \cup
       (IF \E q \in Proc \ {p} : doing[q] \notin {"idle", "down"} THEN {"overlap"} ELSE {})

OwnKeys(p) == {k \in Key : k[1] = ScopeOf[p]}

\* Fault: update writes the process's whole cache, as set does.
UpdateCached(p, k, v) ==
  /\ Begins(p, {})
  /\ lock = Free
  /\ cache' = [cache EXCEPT ![p][k] = v]
  /\ data' = [data EXCEPT ![p] = cache'[p]]
  /\ acked' = [acked EXCEPT ![k] = v]
  /\ doing' = [doing EXCEPT ![p] = "open"]
  /\ UNCHANGED <<file, lock, todo, crashes>>

\* update: the cache entry is replaced, the file is read under a shared lock,
\* and what it holds, with this entry, is to be written.
Update(p, k, v) ==
  /\ Begins(p, {})
  /\ lock = Free
  /\ cache' = [cache EXCEPT ![p][k] = v]
  /\ data' = [data EXCEPT ![p] = [Parsed EXCEPT ![k] = v]]
  /\ acked' = [acked EXCEPT ![k] = v]
  /\ doing' = [doing EXCEPT ![p] = "open"]
  /\ UNCHANGED <<file, lock, todo, crashes>>

\* set and _save_context: the whole cache is to be written.
Set(p, k, v) ==
  /\ Begins(p, {"whole cache"})
  /\ cache' = [cache EXCEPT ![p][k] = v]
  /\ data' = [data EXCEPT ![p] = cache'[p]]
  /\ acked' = [acked EXCEPT ![k] = v]
  /\ doing' = [doing EXCEPT ![p] = "open"]
  /\ UNCHANGED <<file, lock, todo, crashes>>

\* clear() of a plain store: an empty mapping, written without any lock.
ClearAll(p) ==
  /\ ScopeOf[p] = NoScope
  /\ Begins(p, {})
  /\ cache' = [cache EXCEPT ![p] = Nothing]
  /\ data' = [data EXCEPT ![p] = Nothing]
  /\ acked' = Nothing
  /\ doing' = [doing EXCEPT ![p] = "open unlocked"]
  /\ UNCHANGED <<file, lock, todo, crashes>>

\* clear(node_id) of either store, and clear() of a scoped one, which clears
\* the keys of its scope that its own cache has, one after the other.
Clear(p) ==
  \E ks \in {{k} : k \in OwnKeys(p)} \cup
            (IF ScopeOf[p] = NoScope THEN {}
             ELSE {{k \in OwnKeys(p) : cache[p][k] # Absent}}) :
    /\ Begins(p, {})
    /\ todo' = [todo EXCEPT ![p] = ks]
    /\ doing' = [doing EXCEPT ![p] = "clearing"]
    /\ UNCHANGED <<file, lock, cache, data, crashes, acked>>

\* One key of a clear: read and rewrite in place, under the exclusive lock.
ClearRead(p) ==
  /\ doing[p] = "clearing"
  /\ lock = Free
  /\ \E k \in todo[p] :
       /\ cache' = [cache EXCEPT ![p][k] = Absent]
       /\ acked' = [acked EXCEPT ![k] = Absent]
       /\ data' = [data EXCEPT ![p] = [Parsed EXCEPT ![k] = Absent]]
       /\ todo' = [todo EXCEPT ![p] = @ \ {k}]
  /\ lock' = p
  /\ doing' = [doing EXCEPT ![p] = "rewrite"]
  /\ UNCHANGED <<file, ops, crashes, harmed>>

Rewrite(p) ==
  /\ doing[p] = "rewrite"
  /\ file' = [state |-> "json", is |-> data[p]]
  /\ lock' = Free
  /\ doing' = [doing EXCEPT ![p] = "clearing"]
  /\ UNCHANGED <<cache, data, todo, ops, crashes, acked, harmed>>

Cleared(p) ==
  /\ doing[p] = "clearing"
  /\ todo[p] = {}
  /\ doing' = [doing EXCEPT ![p] = "idle"]
  /\ UNCHANGED <<file, lock, cache, data, todo, ops, crashes, acked, harmed>>

\* open(path, "w"): the file is truncated, whoever holds the lock.
Open(p) ==
  /\ doing[p] \in {"open", "open unlocked"}
  /\ file' = [state |-> "empty"]
  /\ doing' = [doing EXCEPT ![p] = IF @ = "open" THEN "dump" ELSE "dump unlocked"]
  /\ UNCHANGED <<lock, cache, data, todo, ops, crashes, acked, harmed>>

\* flock, dump and close: the text goes over whatever another writer has put
\* into the file since, and a longer text keeps its tail.
Dump(p) ==
  /\ \/ doing[p] = "dump" /\ lock = Free
     \/ doing[p] = "dump unlocked"
  /\ \/ file' = [state |-> "json", is |-> data[p]]
     \/ file.state # "empty" /\ file' = [state |-> "torn"]
  /\ doing' = [doing EXCEPT ![p] = "idle"]
  /\ UNCHANGED <<lock, cache, data, todo, ops, crashes, acked, harmed>>

\* The process dies; the file stays as it is and the lock is released.
Crash(p) ==
  /\ doing[p] # "down"
  /\ crashes < MaxCrashes
  /\ crashes' = crashes + 1
  /\ harmed' = IF doing[p] = "idle" THEN harmed ELSE harmed \cup {"crash"}
  /\ lock' = IF lock = p THEN Free ELSE lock
  /\ doing' = [doing EXCEPT ![p] = "down"]
  /\ cache' = [cache EXCEPT ![p] = Nothing]
  /\ data' = [data EXCEPT ![p] = Nothing]
  /\ todo' = [todo EXCEPT ![p] = {}]
  /\ UNCHANGED <<file, ops, acked>>

\* __init__ and _load_context.
Restart(p) ==
  /\ doing[p] = "down"
  /\ lock = Free
  /\ cache' = [cache EXCEPT ![p] = Parsed]
  /\ doing' = [doing EXCEPT ![p] = "idle"]
  /\ UNCHANGED <<file, lock, data, todo, ops, crashes, acked, harmed>>

StoreOp(p) ==
  \/ \E k \in OwnKeys(p), v \in Value : Update(p, k, v) \/ Set(p, k, v)
  \/ ClearAll(p)
  \/ Clear(p)

StoreStep(p) == ClearRead(p) \/ Rewrite(p) \/ Cleared(p) \/ Open(p) \/ Dump(p)

---------------------------------------------------------------------------
(* Properties.                                                             *)

\* Updates and clears of any number of processes, whatever their scopes, keep
\* every acknowledged value as long as the operations do not overlap, no
\* process dies in one and none writes its whole cache with set: when all are
\* at rest the file holds the last value of every key, caches of other
\* processes notwithstanding (store.py update merges into the file it reads).
SerialUpdatesDurable ==
  (\A p \in Proc : doing[p] \in {"idle", "down"}) /\ harmed = {}
    => file = [state |-> "json", is |-> acked]
=============================================================================
