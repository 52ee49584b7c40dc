------------------------------ MODULE SharedPools ---------------------------
(***************************************************************************)
(* Shared memory pools: agents get a pool by name and keep it; a pool      *)
(* holds working, episodic and semantic entries.  SharedMemoryPool         *)
(* .initialize awaits coroutines that never suspend, so get_pool is one    *)
(* step; the episodic store runs on its dictionary, because awaiting the   *)
(* synchronous Redis client raises.                                        *)
(***************************************************************************)
EXTENDS Naturals, Sequences, SequencesExt, FiniteSets

CONSTANTS
  Agents,
  PoolNames,
  PoolKeys,
  MaxPools,       \* bound: pools created
  MaxContent,     \* bound: entries of all pools together
  PoolListLimit   \* how many keys list_keys of a store returns

VARIABLES
  pools,      \* _pools: the pool of each name, 0 for none
  created,    \* how many pools were created; they are numbered
  held,       \* the pool each agent has for a name
  content     \* per pool and memory type the keys, in the store's order

poolVars == <<pools, created, held, content>>

PoolIds == 1..MaxPools
\* The episodic and the semantic memory are dictionaries to a pool.
Memories == {"working", "lasting"}
EmptyPool == [m \in Memories |-> <<>>]

PoolsTypeOK ==
  /\ pools \in [PoolNames -> 0..created]
  /\ created \in 0..MaxPools
  /\ held \in [Agents -> [PoolNames -> 0..created]]
  /\ content \in [PoolIds -> [Memories -> Seq(PoolKeys)]]

PoolsInit ==
  /\ pools = [n \in PoolNames |-> 0]
  /\ created = 0
  /\ held = [a \in Agents |-> [n \in PoolNames |-> 0]]
  /\ content = [p \in PoolIds |-> EmptyPool]

Hold(a, n, p) == held' = [held EXCEPT ![a][n] = p] /\ UNCHANGED content

\* get_pool; without auto_create a missing pool is an error.
GetPool(a, n) ==
  IF pools[n] # 0
  THEN Hold(a, n, pools[n]) /\ UNCHANGED <<pools, created>>
  ELSE /\ created < MaxPools
       /\ created' = created + 1
       /\ pools' = [pools EXCEPT ![n] = created + 1]
       /\ Hold(a, n, created + 1)

\* A key stored again moves to the end of the working memory and keeps its place
\* in the dictionaries of the others.
Placed(s, m, k) ==
  IF m = "working" THEN Append(Remove(s, k), k)
  ELSE IF k \in Range(s) THEN s ELSE Append(s, k)

Entries == Cardinality({e \in PoolIds \X Memories \X PoolKeys : e[3] \in Range(content[e[1]][e[2]])})

PutIntoPool(a, n) ==
  \E m \in Memories, k \in PoolKeys :
    LET p == held[a][n]
    IN  /\ p # 0
        /\ k \in Range(content[p][m]) \/ Entries < MaxContent
        /\ content' = [content EXCEPT ![p][m] = Placed(@, m, k)]
        /\ UNCHANGED <<pools, created, held>>

RetrieveFromPool(a, n) ==
  \E k \in PoolKeys :
    LET p == held[a][n]
    IN  /\ p # 0
        /\ k \in Range(content[p]["working"])
        /\ content' = [content EXCEPT ![p]["working"] = Append(Remove(@, k), k)]
        /\ UNCHANGED <<pools, created, held>>

DeleteFromPool(a, n) ==
  \E m \in Memories, k \in PoolKeys :
    LET p == held[a][n]
    IN  /\ p # 0
        /\ k \in Range(content[p][m])
        /\ content' = [content EXCEPT ![p][m] = Remove(@, k)]
        /\ UNCHANGED <<pools, created, held>>

\* clear deletes the keys that list_keys returns, no others.
Cleared(s) == IF Len(s) <= PoolListLimit THEN <<>> ELSE SubSeq(s, PoolListLimit + 1, Len(s))

ClearedPool(p, types) == [m \in Memories |-> IF m \in types THEN Cleared(content[p][m]) ELSE content[p][m]]

ClearPool(a, n) ==
  \E types \in {{m} : m \in Memories} \cup {Memories} :
    LET p == held[a][n]
        rest == ClearedPool(p, types)
    IN  /\ p # 0
        /\ content' = [content EXCEPT ![p] = rest]
        /\ UNCHANGED <<pools, created, held>>

\* delete_pool clears the pool and forgets it; shutdown deletes every pool.  An
\* agent that has it goes on using it.
DeletePools(names) ==
  LET gone == {n \in names : pools[n] # 0}
      rest(p) == IF \E n \in gone : pools[n] = p THEN ClearedPool(p, Memories) ELSE content[p]
  IN  /\ gone # {}
      /\ content' = [p \in PoolIds |-> rest(p)]
      /\ pools' = [n \in PoolNames |-> IF n \in gone THEN 0 ELSE pools[n]]
      /\ UNCHANGED <<created, held>>

PoolsNext ==
  \/ \E a \in Agents, n \in PoolNames :
       \/ GetPool(a, n) \/ PutIntoPool(a, n) \/ RetrieveFromPool(a, n)
       \/ DeleteFromPool(a, n) \/ ClearPool(a, n)
  \/ \E n \in PoolNames : DeletePools({n})
  \/ DeletePools(PoolNames)

\* "Delete a shared memory pool and all its data" (delete_pool): an agent that
\* still has a deleted pool finds nothing in it.  The code breaks it, because
\* clear deletes the keys one call of list_keys returns.
DeletedWithData ==
  [][\A n \in PoolNames :
       pools[n] # 0 /\ pools'[n] = 0 => content'[pools[n]] = EmptyPool]_poolVars
=============================================================================
