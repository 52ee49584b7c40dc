---------------------------- MODULE SemanticMemory --------------------------
(***************************************************************************)
(* The semantic memory: facts, the index of facts by domain and entity,    *)
(* the relationships by type, and the embeddings.  An index list may hold  *)
(* a key more than once: it is the number of times the key is listed.      *)
(***************************************************************************)
EXTENDS Naturals, FiniteSetsExt

CONSTANTS
  Facts,      \* keys of facts
  Domains,
  General,    \* the domain of a fact that names none
  Entities,
  Types,      \* types of relationships
  MaxListed   \* bound: how often a key is listed, under all entities together

ASSUME GeneralIsADomain == General \in Domains

VARIABLES
  facts,      \* _facts_store: the metadata of each fact
  index,      \* _entity_index
  related,    \* _relationships: the facts that have one of a type
  embedded,   \* _embeddings: the facts that have one, maybe of an earlier content
  clearing,   \* the keys that clear has still to delete
  vectors     \* whether vectors are enabled, and then whether the digest is as
              \* long as the configured dimension

semanticVars == <<facts, index, related, embedded, clearing, vectors>>

Metadata == [domain : Domains, entities : SUBSET Entities, types : SUBSET Types]
NoFact == [domain |-> General, entities |-> {}, types |-> {"none"}]
Known(fs, k) == fs[k] # NoFact

SemanticTypeOK ==
  /\ facts \in [Facts -> Metadata \cup {NoFact}]
  /\ index \in [Domains -> [Entities -> [Facts -> 0..MaxListed]]]
  /\ related \in [Types -> SUBSET Facts]
  /\ embedded \subseteq Facts /\ clearing \subseteq Facts
  /\ vectors \in {"off", "fit", "mismatch"}

SemanticInit ==
  /\ facts = [k \in Facts |-> NoFact]
  /\ index = [d \in Domains |-> [e \in Entities |-> [k \in Facts |-> 0]]]
  /\ related = [t \in Types |-> {}]
  /\ embedded = {} /\ clearing = {}
  /\ vectors \in {"off", "fit", "mismatch"}

\* The store as a value, so that merge_facts and learn_from_interaction are
\* sequences of its operations; "raised" ends such a sequence.
Store == [facts |-> facts, index |-> index, related |-> related, embedded |-> embedded,
          raised |-> FALSE]

Becomes(s) ==
  /\ facts' = s.facts /\ index' = s.index /\ related' = s.related /\ embedded' = s.embedded
  /\ UNCHANGED vectors

\* One occurrence of a key more, or less, in the lists of these entities.
Added(lists, es, k) ==
  [e \in Entities |-> IF e \in es THEN [lists[e] EXCEPT ![k] = @ + 1] ELSE lists[e]]
TakenOff(lists, es, k) ==
  [e \in Entities |-> IF e \in es THEN [lists[e] EXCEPT ![k] = IF @ = 0 THEN 0 ELSE @ - 1]
                      ELSE lists[e]]

\* store: the fact, its entries in the index and its relationships, and then the
\* embedding, which raises when its length is not the dimension, or when the
\* content cannot be serialized.
Stored(s, k, m, serializable) ==
  IF s.raised THEN s ELSE
  LET embeds == vectors = "fit" /\ serializable
  IN  [facts |-> [s.facts EXCEPT ![k] = m],
       index |-> [s.index EXCEPT ![m.domain] = Added(s.index[m.domain], m.entities, k)],
       related |-> [t \in Types |-> IF t \in m.types THEN s.related[t] \cup {k} ELSE s.related[t]],
       embedded |-> IF embeds THEN s.embedded \cup {k} ELSE s.embedded,
       raised |-> vectors # "off" /\ ~embeds]

\* Fault: delete drops the entity's list.
DeletedWithList(s, k) ==
  IF s.raised \/ ~Known(s.facts, k) THEN s ELSE
  LET m == s.facts[k]
  IN  [s EXCEPT !.facts[k] = NoFact,
                !.index[m.domain] = [e \in Entities |->
                   IF e \in m.entities THEN [j \in Facts |-> 0] ELSE @[e]],
                !.related = [t \in Types |-> IF t \in m.types THEN @[t] \ {k} ELSE @[t]],
                !.embedded = @ \ {k}]

\* delete takes the key off the lists of the metadata stored last, once; a list
\* of other keys raises.
Deleted(s, k) ==
  IF s.raised \/ ~Known(s.facts, k) THEN s ELSE
  LET m == s.facts[k]
      raises(list) == list[k] = 0 /\ \E j \in Facts : list[j] > 0
  IN  IF \E e \in m.entities : raises(s.index[m.domain][e]) THEN [s EXCEPT !.raised = TRUE]
      ELSE [s EXCEPT !.facts[k] = NoFact,
                !.index[m.domain] = TakenOff(s.index[m.domain], m.entities, k),
                !.related = [t \in Types |-> IF t \in m.types THEN @[t] \ {k} ELSE @[t]],
                !.embedded = @ \ {k}]

Bounded(s) ==
  \A k \in Facts :
    MapThenSumSet(LAMBDA d : MapThenSumSet(LAMBDA e : s.index[d][e][k], Entities), Domains) <= MaxListed

\* It matters only when an embedding is made.
Serializable == IF vectors = "fit" THEN BOOLEAN ELSE {TRUE}

StoreFact ==
  \E k \in Facts, m \in Metadata, serializable \in Serializable :
    LET s == Stored(Store, k, m, serializable) IN Bounded(s) /\ Becomes(s)

DeleteFact == \E k \in Facts : Known(facts, k) /\ Becomes(Deleted(Store, k))

\* clear deletes one key after the other, until one raises; it never suspends.
ClearFacts ==
  /\ \E prefixed \in SUBSET Facts : clearing' = {k \in prefixed : Known(facts, k)}
  /\ UNCHANGED <<facts, index, related, embedded, vectors>>

ClearNext(k) ==
  LET s == Deleted(Store, k)
  IN  Becomes(s) /\ clearing' = IF s.raised THEN {} ELSE clearing \ {k}

\* merge_facts stores the union under the merged key, in the general domain, and
\* then deletes the keys, the merged one too when it is one of them.
MergeFacts ==
  \E i, j \in Facts, merged \in Facts, serializable \in Serializable :
    LET found == {k \in {i, j} : Known(facts, k)}
        union == [domain |-> General,
                  entities |-> UNION {facts[k].entities : k \in found},
                  types |-> UNION {facts[k].types : k \in found}]
        s == Stored(Store, merged, union, serializable)
    IN  /\ found # {}
        /\ Bounded(s)
        /\ Becomes(Deleted(Deleted(s, i), j))

\* learn_from_interaction: a pricing pattern and a customer preference; when the
\* first raises, the second is not stored.
LearnFromInteraction ==
  \E pricing, customer \in Facts, item, person \in Entities, d \in Domains \ {General}, serializable \in Serializable :
    LET s == Stored(Stored(Store, pricing, [domain |-> d, entities |-> {item}, types |-> {}], TRUE),
                    customer, [domain |-> d, entities |-> {person}, types |-> {}], serializable)
    IN  pricing # customer /\ Bounded(s) /\ Becomes(s)

SemanticNext ==
  \/ /\ clearing = {}
     /\ \/ (StoreFact \/ DeleteFact \/ MergeFacts \/ LearnFromInteraction) /\ UNCHANGED clearing
        \/ ClearFacts
  \/ \E k \in clearing : ClearNext(k)

\* get_facts_for_entity_in_domain and get_knowledge_graph find every fact that
\* is stored: a fact is listed under each entity of its current metadata and
\* under each of its relationship types, whatever was stored, replaced, merged,
\* deleted or left half done before, so that the unguarded list.remove of delete
\* never raises.
FactsListed ==
  \A k \in Facts : Known(facts, k) =>
    /\ \A e \in facts[k].entities : index[facts[k].domain][e][k] > 0
    /\ \A t \in facts[k].types : k \in related[t]
=============================================================================
