---------------------------- MODULE WorkingMemory ---------------------------
(***************************************************************************)
(* The working memory: entries in the order of their last use, the oldest  *)
(* evicted beyond max_entries, and each dropped when it is found to be     *)
(* older than its time to live.  No operation suspends, so each is a step; *)
(* the cleanup loop runs between them.                                     *)
(***************************************************************************)
EXTENDS Naturals, FiniteSets

CONSTANTS
  Keys,
  Probe,       \* the key that get_performance_metrics stores and deletes
  MaxEntries,  \* max_entries of the configuration, 0 for none
  TTL,         \* ttl_seconds in ticks, 0 for none
  ListLimit    \* how many keys list_keys returns at most

ASSUME WorkingAssumption ==
  /\ IsFiniteSet(Keys) /\ Probe \notin Keys
  /\ MaxEntries \in Nat /\ TTL \in Nat /\ ListLimit \in Nat

VARIABLES
  entries,   \* _store, an OrderedDict: its keys, and which keys are behind each
  age,       \* ticks since each entry's timestamp
  live,      \* keys stored and since then neither deleted nor expired
  since      \* which other keys were used after each key's last use

workingVars == <<entries, age, live, since>>

AnyKey == Keys \cup {Probe}
Dicts == [keys : SUBSET AnyKey, behind : [AnyKey -> SUBSET AnyKey]]

\* Of two keys one is behind the other, and a key that is not there has no place.
Ordered(d) ==
  /\ \A k \in AnyKey : k \notin d.behind[k] /\ d.behind[k] \subseteq d.keys
  /\ \A k \in AnyKey \ d.keys : d.behind[k] = {}
  /\ \A j, k \in d.keys : j # k =>
       /\ j \in d.behind[k] <=> k \notin d.behind[j]
       /\ j \in d.behind[k] => d.behind[j] \subseteq d.behind[k]

WorkingTypeOK ==
  /\ entries \in Dicts /\ Ordered(entries) /\ Probe \notin entries.keys
  /\ MaxEntries # 0 => Cardinality(entries.keys) <= MaxEntries
  /\ age \in [Keys -> 0..(TTL + 1)]
  /\ live \subseteq Keys
  /\ since \in [Keys -> SUBSET AnyKey]

WorkingInit ==
  /\ entries = [keys |-> {}, behind |-> [k \in AnyKey |-> {}]]
  /\ age = [k \in Keys |-> 0]
  /\ live = {}
  /\ since = [k \in Keys |-> {}]

Expired(k) == TTL # 0 /\ age[k] > TTL

\* These keys are deleted.
Without(d, S) ==
  [keys |-> d.keys \ S,
   behind |-> [k \in AnyKey |-> IF k \in S THEN {} ELSE d.behind[k] \ S]]

\* These keys are put at the end, those that were there in the order they had.
AtEnd(d, S) ==
  [keys |-> d.keys \cup S,
   behind |-> [k \in AnyKey |-> IF k \in S THEN d.behind[k] \cap S
                                ELSE IF k \in d.keys THEN d.behind[k] \cup S ELSE {}]]

\* _enforce_size_limit pops from the front.
Fitted(d) ==
  IF MaxEntries = 0 THEN d
  ELSE Without(d, {k \in d.keys : Cardinality(d.behind[k]) >= MaxEntries})

\* These keys were used, in any order, and no key outside them.
Used(S) == since' = [k \in Keys |-> IF k \in S THEN S \ {k} ELSE since[k] \cup S]

StoreEntry(k) ==
  /\ entries' = Fitted(AtEnd(entries, {k}))
  /\ age' = [age EXCEPT ![k] = 0]
  /\ live' = live \cup {k}
  /\ Used({k})

\* Fault: a retrieved entry keeps its place.
RetrieveEntryInPlace(k) ==
  /\ k \in entries.keys
  /\ IF Expired(k)
     THEN entries' = Without(entries, {k}) /\ live' = live \ {k} /\ UNCHANGED since
     ELSE Used({k}) /\ UNCHANGED <<entries, live>>
  /\ UNCHANGED age

RetrieveEntry(k) ==
  /\ k \in entries.keys
  /\ IF Expired(k)
     THEN entries' = Without(entries, {k}) /\ live' = live \ {k} /\ UNCHANGED since
     ELSE entries' = AtEnd(entries, {k}) /\ Used({k}) /\ UNCHANGED live
  /\ UNCHANGED age

DeleteEntry(k) ==
  /\ k \in entries.keys
  /\ entries' = Without(entries, {k})
  /\ live' = live \ {k}
  /\ UNCHANGED <<age, since>>

\* clear: all keys, or those with a prefix.
ClearEntries ==
  \E prefixed \in SUBSET Keys :
    /\ entries' = Without(entries, prefixed)
    /\ live' = live \ prefixed
    /\ UNCHANGED <<age, since>>

\* list_keys returns the front of the store.
ListKeys(d) == {k \in d.keys : Cardinality({j \in d.keys : k \in d.behind[j]}) < ListLimit}

\* UnifiedMemory.get_working_context retrieves every key that list_keys returns,
\* which makes them the ones used last.
GetWorkingContext ==
  /\ LET listed == ListKeys(entries)
         old == {k \in listed : Expired(k)}
     IN  /\ listed # {}
         /\ entries' = Without(AtEnd(entries, listed \ old), old)
         /\ live' = live \ old
         /\ Used(listed \ old)
  /\ UNCHANGED age

\* get_performance_metrics stores a key of its own, which may evict another
\* entry, and deletes it.
ProbeWorking ==
  /\ entries' = Without(Fitted(AtEnd(entries, {Probe})), {Probe})
  /\ Used({Probe})
  /\ UNCHANGED <<age, live>>

\* Time passes; _cleanup_expired drops what is too old.
Tick ==
  /\ age' = [k \in Keys |-> IF k \in entries.keys /\ ~Expired(k) THEN age[k] + 1 ELSE age[k]]
  /\ live' = live \ {k \in Keys : Expired(k)'}
  /\ UNCHANGED <<entries, since>>

CleanupExpired ==
  /\ TTL # 0
  /\ entries' = Without(entries, {k \in entries.keys : Expired(k)})
  /\ UNCHANGED <<age, live, since>>

WorkingNext ==
  \/ \E k \in Keys : StoreEntry(k) \/ RetrieveEntry(k) \/ DeleteEntry(k)
  \/ ClearEntries \/ GetWorkingContext \/ ProbeWorking
  \/ TTL # 0 /\ Tick
  \/ CleanupExpired

\* An entry is kept as long as fewer than max_entries other keys were used after
\* it, however stores, retrievals, listings, deletions and the cleanup are mixed:
\* the eviction of _enforce_size_limit takes the least recently used one, and
\* without a limit nothing is evicted.
RecentRetrievable ==
  \A k \in live : MaxEntries = 0 \/ Cardinality(since[k]) < MaxEntries => k \in entries.keys
=============================================================================
