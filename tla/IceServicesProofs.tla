-------------------------- MODULE IceServicesProofs --------------------------
(***************************************************************************)
(* Proofs about IceServices.  A behaviour uses one service, so the         *)
(* inductive invariant of each speaks of its own variables only: a step of *)
(* the specification is a step of the service or leaves it alone.          *)
(***************************************************************************)
EXTENDS IceServices, FiniteSetTheorems, TLAPS

(***************************************************************************)
(* NetworkTasks                                                            *)
(***************************************************************************)
OpenCalls ==
  [at : {"lock", "in", "awaiting", "done", "raised"}, op : {"start", "cancel", "shutdown"},
   network : Networks \cup {NoTask}, todo : SUBSET Networks, task : Callers \cup {NoTask}]

CallStates == {[at |-> "idle"]} \cup OpenCalls

TaskTypes ==
  /\ call \in [Callers -> CallStates]
  /\ tasks \in [Networks -> Callers \cup {NoTask}]
  /\ task \in [Callers -> {"none", "running", "ended", "cancelled"}]

\* The lock has one holder.
OneHolder == \A c, d \in Callers : Holding(c) /\ Holding(d) => c = d

\* A call that has not finished knows its network; one that is about to create the
\* task has taken its predecessor out of the table; the task of a call is created
\* by its last step.
CallShape(c) ==
  /\ call[c].at = "lock" => (call[c].todo = {} <=> call[c].op = "shutdown")
  /\ call[c].at = "awaiting" => call[c].task \in Callers
  /\ call[c].at \in {"lock", "in", "awaiting", "done"} /\ call[c].op = "start" =>
       call[c].network \in Networks /\ call[c].todo \subseteq {call[c].network}
  /\ Holding(c) /\ call[c].op = "start" /\ call[c].todo = {} => tasks[call[c].network] = NoTask
  /\ call[c].at = "awaiting" /\ call[c].op = "start" => call[c].todo = {}
  /\ task[c] = "running" => call[c].at = "done" /\ call[c].op = "start"

CallShapes == \A c \in Callers : CallShape(c)

TasksInv == TaskTypes /\ OneHolder /\ CallShapes /\ NoStrayTask

LEMMA TasksInvInit == TasksInit => TasksInv
BY DEF TasksInit, TasksInv, TaskTypes, CallStates, OneHolder, Holding, CallShapes, CallShape, NoStrayTask

LEMMA TasksInvStep == TasksInv /\ TasksNext => TasksInv'
<1> SUFFICES ASSUME TasksInv, TasksNext PROVE TasksInv'
  OBVIOUS
<1> USE NoTaskIsNoCaller
<1>0. /\ call \in [Callers -> CallStates]
      /\ tasks \in [Networks -> Callers \cup {NoTask}]
      /\ task \in [Callers -> {"none", "running", "ended", "cancelled"}]
      /\ OneHolder /\ NoStrayTask /\ \A c \in Callers : CallShape(c)
  BY DEF TasksInv, TaskTypes, CallShapes
<1>1. ASSUME NEW c \in Callers, CallManager(c) PROVE TasksInv'
  <2>1. PICK next \in Calls : call' = [call EXCEPT ![c] = next]
    BY <1>1 DEF CallManager
  <2>2. next \in CallStates /\ next.at = "lock" /\ (next.todo = {} <=> next.op = "shutdown")
        /\ (next.op = "start" => next.network \in Networks /\ next.todo = {next.network})
    BY DEF Calls, CallStates, OpenCalls
  <2>3. tasks' = tasks /\ task' = task /\ call[c].at = "idle"
    BY <1>1 DEF CallManager
  <2>4. TaskTypes'
    BY <1>0, <2>1, <2>2, <2>3 DEF TaskTypes
  <2>5. OneHolder'
    BY <1>0, <2>1, <2>2, <2>3 DEF OneHolder, Holding
  <2>6. CallShapes'
    BY <1>0, <2>1, <2>2, <2>3 DEF CallShapes, CallShape, Holding
  <2>7. NoStrayTask'
    BY <1>0, <2>1, <2>2, <2>3 DEF NoStrayTask, CallShape
  <2> QED BY <2>4, <2>5, <2>6, <2>7 DEF TasksInv
<1>2. ASSUME NEW c \in Callers, Acquire(c) PROVE TasksInv'
  <2> DEFINE open == Entered(call[c])
  <2>1. call' = [call EXCEPT ![c] = open] /\ tasks' = tasks /\ task' = task
    BY <1>2 DEF Acquire
  <2>2. call[c].at = "lock" /\ \A d \in Callers : ~Holding(d)
    BY <1>2 DEF Acquire
  <2>3. /\ open \in CallStates /\ open.at = "in" /\ open.op = call[c].op
        /\ open.network = call[c].network
        /\ open.op = "start" => open.todo = call[c].todo /\ open.todo # {}
    <3>1. call[c] \in OpenCalls
      BY <1>0, <2>2 DEF CallStates
    <3>2. call[c].op = "start" => call[c].todo # {}
      BY <1>0, <2>2 DEF CallShape
    <3> QED BY <3>1, <3>2 DEF OpenCalls, CallStates, Entered
  <2> HIDE DEF open
  <2>4. TaskTypes'
    BY <1>0, <2>1, <2>3 DEF TaskTypes
  <2>5. OneHolder'
    BY <1>0, <2>1, <2>2, <2>3 DEF OneHolder, Holding
  <2>6. CallShapes'
    BY <1>0, <2>1, <2>2, <2>3 DEF CallShapes, CallShape, Holding
  <2>7. NoStrayTask'
    BY <1>0, <2>1, <2>2, <2>3 DEF NoStrayTask, CallShape
  <2> QED BY <2>4, <2>5, <2>6, <2>7 DEF TasksInv
<1>3. ASSUME NEW c \in Callers, CancelNext(c) PROVE TasksInv'
  <2>1. PICK n \in call[c].todo :
          /\ tasks' = [tasks EXCEPT ![n] = NoTask]
          /\ call' = [call EXCEPT ![c] = Cancelling(call[c], n)]
    BY <1>3 DEF CancelNext
  <2> DEFINE left == Cancelling(call[c], n)
  <2>2. call[c].at = "in" /\ task' = task /\ call' = [call EXCEPT ![c] = left]
    BY <1>3, <2>1 DEF CancelNext
  <2>3. n \in Networks
    BY <1>0, <2>1, <2>2 DEF CallStates, OpenCalls
  <2>4. /\ left \in CallStates /\ left.op = call[c].op /\ left.network = call[c].network
        /\ left.task = tasks[n] /\ left.todo = call[c].todo \ {n}
        /\ left.at = IF tasks[n] = NoTask THEN "in" ELSE "awaiting"
    <3>1. call[c] \in OpenCalls /\ tasks[n] \in Callers \cup {NoTask}
      BY <1>0, <2>2, <2>3 DEF CallStates
    <3> QED BY <3>1 DEF OpenCalls, CallStates, Cancelling
  <2>5. left.op = "start" => left.network = n /\ left.todo = {} /\ tasks'[n] = NoTask
    BY <1>0, <2>1, <2>2, <2>3, <2>4 DEF CallShape
  <2> HIDE DEF left
  <2>6. TaskTypes'
    BY <1>0, <2>1, <2>2, <2>3, <2>4 DEF TaskTypes
  <2>7. \A d \in Callers : Holding(d)' <=> Holding(d)
    BY <1>0, <2>2, <2>4 DEF Holding
  <2>8. OneHolder'
    BY <1>0, <2>7 DEF OneHolder
  <2>9. \A d \in Callers : CallShape(d)'
    <3>1. CallShape(c)'
      BY <1>0, <2>1, <2>2, <2>3, <2>4, <2>5 DEF CallShape, Holding
    <3>2. ASSUME NEW d \in Callers, d # c PROVE CallShape(d)'
      <4>1. ~Holding(d) /\ call'[d] = call[d]
        BY <1>0, <2>2, <3>2 DEF OneHolder, Holding
      <4> QED BY <1>0, <2>2, <4>1 DEF CallShape, Holding
    <3> QED BY <3>1, <3>2
  <2>10. NoStrayTask'
    <3> SUFFICES ASSUME NEW t \in Callers, task'[t] = "running"
                 PROVE  tasks'[call'[t].network] = t
                        \/ \E d \in Callers : call'[d].at = "awaiting" /\ call'[d].task = t
      BY DEF NoStrayTask
    <3>1. call'[t].network = call[t].network /\ call[t].network \in Networks
      BY <1>0, <2>2, <2>4 DEF CallShape
    <3>2. tasks[call[t].network] = t
      BY <1>0, <2>2 DEF NoStrayTask, OneHolder, Holding
    <3> QED BY <1>0, <2>1, <2>2, <2>3, <2>4, <3>1, <3>2
  <2> QED BY <2>6, <2>8, <2>9, <2>10 DEF TasksInv, CallShapes
<1>4. ASSUME NEW c \in Callers, Awaited(c) PROVE TasksInv'
  <2> DEFINE next == [call[c] EXCEPT !.at = IF task[call[c].task] = "cancelled" THEN "raised" ELSE "in"]
  <2>1. /\ call' = [call EXCEPT ![c] = next] /\ tasks' = tasks /\ task' = task
        /\ call[c].at = "awaiting" /\ task[call[c].task] # "running"
    BY <1>4 DEF Awaited
  <2>2. /\ next \in CallStates /\ next.op = call[c].op /\ next.network = call[c].network
        /\ next.todo = call[c].todo /\ next.at \in {"raised", "in"}
    BY <1>0, <2>1 DEF CallStates, OpenCalls
  <2> HIDE DEF next
  <2>3. TaskTypes'
    BY <1>0, <2>1, <2>2 DEF TaskTypes
  <2>4. OneHolder'
    BY <1>0, <2>1, <2>2 DEF OneHolder, Holding
  <2>5. CallShapes'
    BY <1>0, <2>1, <2>2 DEF CallShapes, CallShape, Holding
  <2>6. NoStrayTask'
    BY <1>0, <2>1, <2>2 DEF NoStrayTask
  <2> QED BY <2>3, <2>4, <2>5, <2>6 DEF TasksInv
<1>5. ASSUME NEW c \in Callers, Release(c) PROVE TasksInv'
  <2> DEFINE next == [call[c] EXCEPT !.at = "done"]
  <2>1. /\ call' = [call EXCEPT ![c] = next] /\ call[c].at = "in" /\ call[c].todo = {}
        /\ next \in CallStates /\ next.op = call[c].op /\ next.network = call[c].network
        /\ next.todo = {} /\ next.at = "done"
    BY <1>0, <1>5 DEF Release, CallStates, OpenCalls
  <2> HIDE DEF next
  <2>2. OneHolder' /\ \A d \in Callers : Holding(d)' => d # c /\ Holding(d)
    BY <1>0, <2>1 DEF OneHolder, Holding
  <2>3. CASE call[c].op = "start"
    <3>1. /\ tasks' = [tasks EXCEPT ![call[c].network] = c]
          /\ task' = [task EXCEPT ![c] = "running"]
          /\ call[c].network \in Networks
          /\ tasks[call[c].network] = NoTask
      BY <1>0, <1>5, <2>1, <2>3 DEF Release, CallShape, Holding
    <3>2. TaskTypes'
      BY <1>0, <2>1, <3>1 DEF TaskTypes
    <3>3. CallShapes'
      <4>1. CallShape(c)'
        BY <1>0, <2>1, <2>3, <3>1 DEF CallShape, Holding
      <4>2. ASSUME NEW d \in Callers, d # c PROVE CallShape(d)'
        <5>1. ~Holding(d) /\ call'[d] = call[d] /\ task'[d] = task[d]
          BY <1>0, <2>1, <3>1, <4>2 DEF OneHolder, Holding
        <5> QED BY <1>0, <5>1 DEF CallShape, Holding
      <4> QED BY <4>1, <4>2 DEF CallShapes
    <3>4. NoStrayTask'
      BY <1>0, <2>1, <3>1 DEF NoStrayTask, CallShape
    <3> QED BY <2>2, <3>2, <3>3, <3>4 DEF TasksInv
  <2>4. CASE call[c].op # "start"
    <3>1. tasks' = tasks /\ task' = task
      BY <1>5, <2>4 DEF Release
    <3>2. TaskTypes' /\ CallShapes' /\ NoStrayTask'
      BY <1>0, <2>1, <2>2, <2>4, <3>1 DEF TaskTypes, CallShapes, CallShape, NoStrayTask, Holding
    <3> QED BY <2>2, <3>2 DEF TasksInv
  <2> QED BY <2>3, <2>4
<1>6. ASSUME NEW t \in Callers, TaskEnds(t) \/ TaskCancelled(t) PROVE TasksInv'
  <2>1. /\ call' = call /\ tasks' = tasks
        /\ task' = [task EXCEPT ![t] = "ended"] \/ task' = [task EXCEPT ![t] = "cancelled"]
    BY <1>6 DEF TaskEnds, TaskCancelled
  <2>2. TaskTypes' /\ OneHolder'
    BY <1>0, <2>1 DEF TaskTypes, OneHolder, Holding
  <2>3. CallShapes' /\ NoStrayTask'
    BY <1>0, <2>1 DEF CallShapes, CallShape, NoStrayTask, Holding
  <2> QED BY <2>2, <2>3 DEF TasksInv
<1> QED
  BY <1>1, <1>2, <1>3, <1>4, <1>5, <1>6 DEF TasksNext

LEMMA TasksInvIdle == TasksInv /\ UNCHANGED taskVars => TasksInv'
BY DEF TasksInv, TaskTypes, OneHolder, Holding, CallShapes, CallShape, NoStrayTask, taskVars

(***************************************************************************)
(* SemanticMemory                                                          *)
(***************************************************************************)
StoreValues ==
  [facts : [Facts -> Metadata \cup {NoFact}],
   index : [Domains -> [Entities -> [Facts -> Nat]]],
   related : [Types -> SUBSET Facts], embedded : SUBSET Facts, raised : BOOLEAN]

\* FactsListed of a value of the store.
ListedIn(s) ==
  \A k \in Facts : Known(s.facts, k) =>
    /\ \A e \in s.facts[k].entities : s.index[s.facts[k].domain][e][k] > 0
    /\ \A t \in s.facts[k].types : k \in s.related[t]

SemanticInv == Store \in StoreValues /\ clearing \subseteq Facts /\ FactsListed

LEMMA StoreListed == FactsListed <=> ListedIn(Store)
BY DEF FactsListed, ListedIn, Store

LEMMA StoredListed ==
  ASSUME NEW s \in StoreValues, ListedIn(s), NEW k \in Facts, NEW m \in Metadata,
         NEW serializable \in BOOLEAN
  PROVE  Stored(s, k, m, serializable) \in StoreValues /\ ListedIn(Stored(s, k, m, serializable))
<1>1. CASE s.raised
  BY <1>1 DEF Stored
<1>2. CASE ~s.raised
  <2> DEFINE t == Stored(s, k, m, serializable)
  <2>1. /\ t.facts = [s.facts EXCEPT ![k] = m]
        /\ t.index = [s.index EXCEPT ![m.domain] = Added(s.index[m.domain], m.entities, k)]
        /\ t.related = [y \in Types |-> IF y \in m.types THEN s.related[y] \cup {k} ELSE s.related[y]]
        /\ t \in StoreValues
    BY <1>2 DEF Stored, StoreValues, Added, Metadata
  <2>2. ListedIn(t)
    BY <2>1 DEF ListedIn, Known, StoreValues, Added, Metadata
  <2> QED BY <2>1, <2>2
<1> QED BY <1>1, <1>2

LEMMA DeletedListed ==
  ASSUME NEW s \in StoreValues, ListedIn(s), NEW k \in Facts
  PROVE  Deleted(s, k) \in StoreValues /\ ListedIn(Deleted(s, k))
<1> DEFINE t == Deleted(s, k)
<1>1. CASE t = s \/ t = [s EXCEPT !.raised = TRUE]
  BY <1>1 DEF StoreValues, ListedIn, Known
<1>2. CASE ~(t = s \/ t = [s EXCEPT !.raised = TRUE])
  <2> DEFINE m == s.facts[k]
  <2>1. m \in Metadata
    BY <1>2 DEF Deleted, StoreValues, Known
  <2>2. /\ t.facts = [s.facts EXCEPT ![k] = NoFact]
        /\ t.index = [s.index EXCEPT ![m.domain] = TakenOff(s.index[m.domain], m.entities, k)]
        /\ t.related = [y \in Types |-> IF y \in m.types THEN s.related[y] \ {k} ELSE s.related[y]]
        /\ t.embedded = s.embedded \ {k} /\ t.raised = s.raised
        /\ t = [facts |-> t.facts, index |-> t.index, related |-> t.related,
                embedded |-> t.embedded, raised |-> t.raised]
    BY <1>2 DEF Deleted, StoreValues
  <2> HIDE DEF t
  <2>3. TakenOff(s.index[m.domain], m.entities, k) \in [Entities -> [Facts -> Nat]]
    BY <2>1 DEF StoreValues, TakenOff, Metadata
  <2>4. t \in StoreValues
    <3>1. t.facts \in [Facts -> Metadata \cup {NoFact}]
      BY <2>2 DEF StoreValues
    <3>2. t.index \in [Domains -> [Entities -> [Facts -> Nat]]]
      BY <2>1, <2>2, <2>3 DEF StoreValues, Metadata
    <3>3. t.related \in [Types -> SUBSET Facts] /\ t.embedded \in SUBSET Facts /\ t.raised \in BOOLEAN
      BY <2>2 DEF StoreValues
    <3> QED BY <2>2, <3>1, <3>2, <3>3 DEF StoreValues
  <2>5. ASSUME NEW j \in Facts, Known(t.facts, j)
        PROVE  /\ j # k /\ Known(s.facts, j) /\ t.facts[j] = s.facts[j] /\ s.facts[j] \in Metadata
    BY <2>2, <2>5 DEF Known, StoreValues
  <2>6. ASSUME NEW j \in Facts, j # k, NEW d \in Domains, NEW e \in Entities
        PROVE  t.index[d][e][j] = s.index[d][e][j]
    <3>1. s.index \in [Domains -> [Entities -> [Facts -> Nat]]]
      BY DEF StoreValues
    <3>2. m.domain \in Domains
      BY <2>1 DEF Metadata
    <3>3. TakenOff(s.index[m.domain], m.entities, k)[e][j] = s.index[m.domain][e][j]
      BY <2>6, <3>1, <3>2 DEF TakenOff
    <3> QED BY <2>2, <3>1, <3>2, <3>3
  <2>7. ListedIn(t)
    BY <2>2, <2>5, <2>6 DEF ListedIn, StoreValues, Metadata
  <2> QED BY <2>4, <2>7 DEF t
<1> QED BY <1>1, <1>2

LEMMA SemanticInvInit == SemanticInit => SemanticInv
BY DEF SemanticInit, SemanticInv, StoreValues, Store, FactsListed, Known

LEMMA BecomesListed ==
  ASSUME NEW s \in StoreValues, ListedIn(s), Becomes(s), clearing' \subseteq Facts
  PROVE  SemanticInv'
<1>1. Store' \in StoreValues
  BY DEF Becomes, Store, StoreValues
<1>2. FactsListed'
  BY DEF Becomes, FactsListed, ListedIn, Known
<1> QED BY <1>1, <1>2 DEF SemanticInv

LEMMA SemanticInvStep == SemanticInv /\ SemanticNext => SemanticInv'
<1> SUFFICES ASSUME SemanticInv, SemanticNext PROVE SemanticInv'
  OBVIOUS
<1>0. Store \in StoreValues /\ ListedIn(Store) /\ clearing \subseteq Facts
  BY StoreListed DEF SemanticInv
<1>a. Serializable \subseteq BOOLEAN
  BY DEF Serializable
<1>1. ASSUME StoreFact, UNCHANGED clearing PROVE SemanticInv'
  <2>1. PICK k \in Facts, m \in Metadata, serializable \in Serializable :
          Becomes(Stored(Store, k, m, serializable))
    BY <1>1 DEF StoreFact
  <2> QED BY <1>0, <1>a, <1>1, <2>1, StoredListed, BecomesListed
<1>2. ASSUME DeleteFact, UNCHANGED clearing PROVE SemanticInv'
  BY <1>0, <1>2, DeletedListed, BecomesListed DEF DeleteFact
<1>3. ASSUME MergeFacts, UNCHANGED clearing PROVE SemanticInv'
  <2>1. PICK i \in Facts, j \in Facts, merged \in Facts, serializable \in Serializable :
          LET found == {k \in {i, j} : Known(facts, k)}
              union == [domain |-> General,
                        entities |-> UNION {facts[k].entities : k \in found},
                        types |-> UNION {facts[k].types : k \in found}]
          IN  Becomes(Deleted(Deleted(Stored(Store, merged, union, serializable), i), j))
    BY <1>3 DEF MergeFacts
  <2> DEFINE found == {k \in {i, j} : Known(facts, k)}
             union == [domain |-> General,
                       entities |-> UNION {facts[k].entities : k \in found},
                       types |-> UNION {facts[k].types : k \in found}]
             s == Stored(Store, merged, union, serializable)
  <2>2. \A k \in found : facts[k] \in Metadata
    BY <1>0 DEF Known, Store, StoreValues
  <2>3. union \in Metadata
    BY <2>2, GeneralIsADomain DEF Metadata
  <2>4. Becomes(Deleted(Deleted(s, i), j))
    BY <2>1
  <2> HIDE DEF found, union
  <2>5. s \in StoreValues /\ ListedIn(s)
    BY <1>0, <1>a, <2>3, StoredListed
  <2> HIDE DEF s
  <2>6. Deleted(s, i) \in StoreValues /\ ListedIn(Deleted(s, i))
    BY <2>5, DeletedListed
  <2>7. Deleted(Deleted(s, i), j) \in StoreValues /\ ListedIn(Deleted(Deleted(s, i), j))
    BY <2>6, DeletedListed
  <2> QED BY <1>0, <1>3, <2>4, <2>7, BecomesListed
<1>4. ASSUME LearnFromInteraction, UNCHANGED clearing PROVE SemanticInv'
  <2>1. PICK pricing \in Facts, customer \in Facts, item \in Entities, person \in Entities,
             d \in Domains, serializable \in Serializable :
          Becomes(Stored(Stored(Store, pricing, [domain |-> d, entities |-> {item}, types |-> {}], TRUE),
                         customer, [domain |-> d, entities |-> {person}, types |-> {}], serializable))
    BY <1>4 DEF LearnFromInteraction
  <2> DEFINE s == Stored(Store, pricing, [domain |-> d, entities |-> {item}, types |-> {}], TRUE)
  <2>2. \A e \in Entities : [domain |-> d, entities |-> {e}, types |-> {}] \in Metadata
    BY DEF Metadata
  <2>3. s \in StoreValues /\ ListedIn(s)
    BY <1>0, <2>2, StoredListed
  <2> HIDE DEF s
  <2>4. Becomes(Stored(s, customer, [domain |-> d, entities |-> {person}, types |-> {}], serializable))
    BY <2>1 DEF s
  <2> QED BY <1>0, <1>a, <1>4, <2>2, <2>3, <2>4, StoredListed, BecomesListed
<1>5. ASSUME ClearFacts PROVE SemanticInv'
  BY <1>0, <1>5 DEF ClearFacts, SemanticInv, Store, FactsListed, Known
<1>6. ASSUME NEW k \in clearing, ClearNext(k) PROVE SemanticInv'
  BY <1>0, <1>6, DeletedListed, BecomesListed DEF ClearNext
<1> QED
  BY <1>1, <1>2, <1>3, <1>4, <1>5, <1>6 DEF SemanticNext

LEMMA SemanticInvIdle == SemanticInv /\ UNCHANGED semanticVars => SemanticInv'
BY DEF SemanticInv, Store, FactsListed, Known, semanticVars

(***************************************************************************)
(* ProceduralMemory                                                        *)
(***************************************************************************)
ProceduralTypes ==
  /\ procedures \in [Procedures -> [category : Categories, contexts : SUBSET Contexts,
                                    uses : Nat, rate : Rates] \cup {NoProcedure}]
  /\ byCategory \in [Categories -> [Procedures -> Nat]]
  /\ byContext \in [Contexts -> [Procedures -> Nat]]
  /\ usage \in [Procedures -> Nat]

ProceduralInv == ProceduralTypes /\ ProceduresListed

LEMMA ProceduralInvInit == ProceduralInit => ProceduralInv
BY DEF ProceduralInit, ProceduralInv, ProceduralTypes, ProceduresListed, Present

LEMMA PutListed ==
  ASSUME ProceduralInv, NEW k \in Procedures, NEW category \in Categories,
         NEW contexts \in SUBSET Contexts, Put(k, category, contexts)
  PROVE  ProceduralInv'
<1> DEFINE new == [category |-> category, contexts |-> contexts, uses |-> 0, rate |-> "declared"]
<1>1. /\ procedures' = [procedures EXCEPT ![k] = new]
      /\ byCategory' = [byCategory EXCEPT ![category][k] = @ + 1]
      /\ byContext' = [c \in Contexts |-> IF c \in contexts THEN [byContext[c] EXCEPT ![k] = @ + 1]
                                          ELSE byContext[c]]
      /\ usage' = usage
  BY DEF Put
<1>2. /\ new \in [category : Categories, contexts : SUBSET Contexts, uses : Nat, rate : Rates]
      /\ new.category = category /\ new.contexts = contexts
  BY DEF Rates
<1> HIDE DEF new
<1>3. ProceduralTypes'
  BY <1>1, <1>2 DEF ProceduralInv, ProceduralTypes
<1>4. ASSUME NEW j \in Procedures
      PROVE  /\ \A c \in Categories : byCategory'[c][j] >= byCategory[c][j]
             /\ \A c \in Contexts : byContext'[c][j] >= byContext[c][j]
  BY <1>1 DEF ProceduralInv, ProceduralTypes
<1>5. byCategory'[category][k] > 0 /\ \A c \in contexts : byContext'[c][k] > 0
  BY <1>1 DEF ProceduralInv, ProceduralTypes
<1>6. ASSUME NEW j \in Procedures, Present(j)'
      PROVE  /\ byCategory'[procedures'[j].category][j] > 0
             /\ \A c \in procedures'[j].contexts : byContext'[c][j] > 0
  <2>1. CASE j = k
    BY <1>1, <1>2, <1>5, <2>1 DEF ProceduralInv, ProceduralTypes
  <2>2. CASE j # k
    <3>1. procedures'[j] = procedures[j] /\ Present(j)
      BY <1>1, <1>6, <2>2 DEF ProceduralInv, ProceduralTypes, Present
    <3>2. procedures[j].category \in Categories /\ procedures[j].contexts \subseteq Contexts
      BY <3>1 DEF ProceduralInv, ProceduralTypes, Present
    <3>3. /\ byCategory[procedures[j].category][j] > 0
          /\ \A c \in procedures[j].contexts : byContext[c][j] > 0
      BY <3>1 DEF ProceduralInv, ProceduresListed
    <3> QED BY <1>3, <1>4, <3>1, <3>2, <3>3 DEF ProceduralInv, ProceduralTypes
  <2> QED BY <2>1, <2>2
<1> QED BY <1>3, <1>6 DEF ProceduralInv, ProceduresListed

LEMMA GoneListed ==
  ASSUME ProceduralInv, NEW keys \in SUBSET Procedures, Gone(keys)
  PROVE  ProceduralInv'
<1>1. \A c \in Categories, k \in Procedures : Less(byCategory[c][k]) \in Nat
  BY DEF ProceduralInv, ProceduralTypes, Less
<1>2. \A c \in Contexts, k \in Procedures : Less(byContext[c][k]) \in Nat
  BY DEF ProceduralInv, ProceduralTypes, Less
<1>3. ProceduralTypes'
  BY <1>1, <1>2 DEF Gone, ProceduralInv, ProceduralTypes
<1>4. ASSUME NEW k \in Procedures, Present(k)'
      PROVE  /\ procedures'[k] = procedures[k] /\ Present(k)
             /\ \A c \in Categories : byCategory'[c][k] = byCategory[c][k]
             /\ \A c \in Contexts : byContext'[c][k] = byContext[c][k]
  BY <1>4 DEF Gone, Present
<1>5. ProceduresListed'
  BY <1>4 DEF ProceduralInv, ProceduralTypes, ProceduresListed, Present
<1> QED BY <1>3, <1>5 DEF ProceduralInv

LEMMA ProceduralInvStep == ProceduralInv /\ ProceduralNext => ProceduralInv'
<1> SUFFICES ASSUME ProceduralInv, ProceduralNext PROVE ProceduralInv'
  OBVIOUS
<1>1. CASE StoreProcedure
  BY <1>1, PutListed DEF StoreProcedure
<1>2. CASE CreateComposite
  <2>1. PICK k \in Procedures, components \in SUBSET Procedures :
          Put(k, Composite, UNION {procedures[p].contexts : p \in {q \in components : Present(q)}})
    BY <1>2 DEF CreateComposite
  <2>2. UNION {procedures[p].contexts : p \in {q \in components : Present(q)}} \in SUBSET Contexts
    BY DEF ProceduralInv, ProceduralTypes, Present
  <2> QED BY <2>1, <2>2, PutListed, CompositeIsACategory
<1>3. CASE DeleteProcedure
  BY <1>3, GoneListed DEF DeleteProcedure
<1>4. CASE ClearProcedures
  BY <1>4, GoneListed DEF ClearProcedures
<1>5. CASE RecordExecution
  <2>1. PICK k \in Procedures, score \in {"good", "bad"} :
          /\ Present(k)
          /\ usage' = [usage EXCEPT ![k] = @ + 1]
          /\ procedures' = [procedures EXCEPT ![k].uses = usage[k] + 1,
                                              ![k].rate = IF scores[k] > 0 THEN score ELSE @]
          /\ UNCHANGED <<byCategory, byContext>>
    BY <1>5 DEF RecordExecution
  <2> DEFINE rate == IF scores[k] > 0 THEN score ELSE procedures[k].rate
             r == [procedures[k] EXCEPT !.uses = usage[k] + 1, !.rate = rate]
  <2>2. procedures[k] \in [category : Categories, contexts : SUBSET Contexts, uses : Nat, rate : Rates]
        /\ rate \in Rates /\ usage[k] + 1 \in Nat
    BY <2>1 DEF ProceduralInv, ProceduralTypes, Present, Rates
  <2> HIDE DEF rate
  <2>3. r \in [category : Categories, contexts : SUBSET Contexts, uses : Nat, rate : Rates]
        /\ r.category = procedures[k].category /\ r.contexts = procedures[k].contexts
    BY <2>2
  <2>4. procedures' = [procedures EXCEPT ![k] = r]
    BY <2>1, <2>2 DEF ProceduralInv, ProceduralTypes, rate
  <2> HIDE DEF r
  <2>5. ProceduralTypes'
    <3>1. /\ usage' = [usage EXCEPT ![k] = usage[k] + 1]
          /\ byCategory' = byCategory /\ byContext' = byContext
      BY <2>1
    <3> QED BY <2>2, <2>3, <2>4, <3>1 DEF ProceduralInv, ProceduralTypes
  <2>6. ASSUME NEW j \in Procedures, Present(j)'
        PROVE  /\ Present(j) /\ procedures'[j].category = procedures[j].category
               /\ procedures'[j].contexts = procedures[j].contexts
    <3>1. CASE j = k
      BY <2>1, <2>3, <2>4, <3>1 DEF ProceduralInv, ProceduralTypes
    <3>2. CASE j # k
      BY <2>4, <2>6, <3>2 DEF ProceduralInv, ProceduralTypes, Present
    <3> QED BY <3>1, <3>2
  <2> QED BY <2>1, <2>5, <2>6 DEF ProceduralInv, ProceduresListed
<1> QED
  BY <1>1, <1>2, <1>3, <1>4, <1>5 DEF ProceduralNext

LEMMA ProceduralInvIdle == ProceduralInv /\ UNCHANGED proceduralVars => ProceduralInv'
BY DEF ProceduralInv, ProceduralTypes, ProceduresListed, Present, proceduralVars

(***************************************************************************)
(* Shelf                                                                   *)
(***************************************************************************)
WriterStates ==
  {[at |-> a] : a \in {"new", "done", "persisting", "mirroring"}}
  \cup [at : {"adding"}, item : Collections \X Workflows]
  \cup [at : {"indexing"}, revision : Revisions]

ShelfTypes == ShelfTypeOK /\ writer \in [Writers -> WriterStates]

\* Nothing is in the dictionaries of the process.
NothingKept ==
  /\ orgs["kv"] = FALSE
  /\ collections["kv"] = {} /\ items["kv"] = {} /\ favorites["kv"] = {}
  /\ revisions["kv"] = {} /\ blobs["kv"] = {}
  /\ copies["app"] = {}

\* What a request that is under way has done so far.
Underway ==
  /\ \A w \in Writers : writer[w].at = "indexing" => writer[w].revision \in blobs["redis"]
  /\ \A w \in Writers : writer[w].at = "mirroring" =>
       /\ ~failed => w \in copies["rows"]
       /\ ~restarted => Found(w)

ShelfInv == ShelfTypes /\ ShelfWhole /\ Underway /\ (~failed => NothingKept)

LEMMA ShelfInvInit == ShelfInit => ShelfInv
<1> SUFFICES ASSUME ShelfInit PROVE ShelfInv
  OBVIOUS
<1>1. ShelfTypes
  BY DEF ShelfInit, ShelfTypes, ShelfTypeOK, WriterStates, Nothing, Stores
<1>2. Underway /\ NothingKept
  BY DEF ShelfInit, Underway, NothingKept, Nothing, Stores
<1>3. ShelfWhole
  BY DEF ShelfInit, ShelfWhole, ListRevisions, Nothing, Stores
<1> QED BY <1>1, <1>2, <1>3 DEF ShelfInv

\* Nothing is taken out of a store.
Grows ==
  /\ \A s \in Stores :
       /\ orgs[s] => orgs'[s]
       /\ collections[s] \subseteq collections'[s] /\ items[s] \subseteq items'[s]
       /\ favorites[s] \subseteq favorites'[s] /\ revisions[s] \subseteq revisions'[s]
       /\ blobs[s] \subseteq blobs'[s]
  /\ \A b \in {"rows", "app", "redis"} : copies[b] \subseteq copies'[b]

LEMMA FoundStays == ShelfTypes /\ ShelfTypes' /\ Grows => \A w \in Writers : Found(w) => Found(w)'
BY DEF ShelfTypes, ShelfTypeOK, Grows, Found

LEMMA ListedGrows ==
  ASSUME ShelfTypes, ShelfTypes', Grows, NothingKept, NothingKept'
  PROVE  Listed("redis") \subseteq Listed("redis")'
<1>1. ListOrgs("redis") => ListOrgs("redis")'
  BY DEF Grows, NothingKept, ListOrgs, Stores
<1>2. ListCollections("redis") \subseteq ListCollections("redis")'
  BY DEF Grows, NothingKept, ListCollections, Stores
<1>3. /\ ListItems("redis") \subseteq ListItems("redis")'
      /\ ListRevisions("redis") \subseteq ListRevisions("redis")'
      /\ ListFavorites("redis") \subseteq ListFavorites("redis")'
  BY DEF Grows, ListItems, ListRevisions, ListFavorites, Stores
<1> QED BY <1>1, <1>2, <1>3, FoundStays DEF Listed

\* A step that takes nothing out and acknowledges only what can be found.
LEMMA GrowthKeepsShelf ==
  ASSUME ShelfInv, ShelfTypes', Grows, Underway', restarted' = restarted, failed => failed',
         ~failed' => NothingKept',
         NEW X, acked' = acked \cup X,
         ~failed' => X \subseteq Listed("redis")',
         \A w \in Writers : <<"blueprint", w>> \in X /\ ~restarted => Found(w)',
         \A s \in Stores : revisions'[s] \subseteq blobs'[s]
  PROVE  ShelfInv'
<1>1. ~failed' => acked' \subseteq Listed("redis")'
  BY ListedGrows DEF ShelfInv, ShelfWhole
<1>2. ~restarted' => \A w \in Writers : <<"blueprint", w>> \in acked' => Found(w)'
  BY FoundStays DEF ShelfInv, ShelfWhole
<1>3. ShelfWhole'
  BY <1>1, <1>2 DEF ShelfWhole, ListRevisions
<1> QED BY <1>3 DEF ShelfInv

LEMMA QuietKeepsShelf ==
  ASSUME ShelfInv, ShelfTypes', Grows, Underway', restarted' = restarted, failed => failed',
         ~failed' => NothingKept', acked' = acked,
         \A s \in Stores : revisions'[s] \subseteq blobs'[s]
  PROVE  ShelfInv'
<1>1. ~failed' => acked' \subseteq Listed("redis")'
  BY ListedGrows DEF ShelfInv, ShelfWhole
<1>2. ~restarted' => \A w \in Writers : <<"blueprint", w>> \in acked' => Found(w)'
  BY FoundStays DEF ShelfInv, ShelfWhole
<1>3. ShelfWhole'
  BY <1>1, <1>2 DEF ShelfWhole, ListRevisions
<1> QED BY <1>3 DEF ShelfInv

\* Redis answers, or something has failed.
LEMMA PlaceFails ==
  ASSUME ShelfTypes, NEW s, Place(s)
  PROVE  failed' \in BOOLEAN /\ (failed => failed') /\ (~failed' => s = "redis" /\ ~failed)
BY DEF Place, ShelfTypes, ShelfTypeOK, Stores

\* A request that is not at one of the two awaits that Underway speaks of.
LEMMA UnderwayStays ==
  ASSUME ShelfInv, ShelfTypes', Grows, restarted' = restarted, failed => failed',
         NEW w \in Writers, NEW local, writer' = [writer EXCEPT ![w] = local],
         local.at \notin {"indexing", "mirroring"}
  PROVE  Underway'
BY FoundStays DEF ShelfInv, ShelfTypes, ShelfTypeOK, Underway, Grows, Stores

LEMMA ShelfInvStep == ShelfInv /\ ShelfNext => ShelfInv'
<1> SUFFICES ASSUME ShelfInv, ShelfNext PROVE ShelfInv'
  OBVIOUS
<1>0. ShelfTypes /\ ShelfWhole /\ Underway /\ (~failed => NothingKept)
  BY DEF ShelfInv
<1>1. ASSUME NEW w \in Writers, NEW s \in Stores, CreateOrg(w, s)
     PROVE  ShelfInv'
  <2>1. /\ orgs' = [orgs EXCEPT ![s] = TRUE]
        /\ acked' = acked \cup {<<"org">>}
        /\ writer' = [writer EXCEPT ![w] = Done]
        /\ UNCHANGED <<copies, collections, items, favorites, blobs, revisions, restarted>>
    BY <1>1 DEF CreateOrg, Finished, Acknowledge
  <2>2. failed' \in BOOLEAN /\ (failed => failed') /\ (~failed' => s = "redis" /\ ~failed)
    BY <1>0, <1>1, PlaceFails DEF CreateOrg
  <2>3. ShelfTypes'
    BY <1>0, <2>1, <2>2 DEF ShelfTypes, ShelfTypeOK, WriterStates, PutIn, Done
  <2>4. Grows
    BY <1>0, <2>1 DEF Grows, ShelfTypes, ShelfTypeOK, PutIn
  <2>5. Underway'
    BY <2>1, <2>2, <2>3, <2>4, UnderwayStays DEF Done
  <2>6. ~failed' => NothingKept' /\ ListOrgs("redis")'
    BY <1>0, <2>1, <2>2 DEF NothingKept, ListOrgs, ShelfTypes, ShelfTypeOK, Stores, PutIn
  <2>7. ~failed' => {<<"org">>} \subseteq Listed("redis")'
    BY <2>6 DEF Listed
  <2>8. \A v \in Writers : <<"blueprint", v>> \notin {<<"org">>}
    OBVIOUS
  <2>9. \A r \in Stores : revisions'[r] \subseteq blobs'[r]
    BY <1>0, <2>1 DEF ShelfWhole, ListRevisions
  <2> QED BY <2>1, <2>2, <2>3, <2>4, <2>5, <2>6, <2>7, <2>8, <2>9, GrowthKeepsShelf
<1>2. ASSUME NEW w \in Writers, NEW c \in Collections, NEW s \in Stores, CreateCollection(w, c, s)
     PROVE  ShelfInv'
  <2>1. /\ collections' = PutIn(collections, s, c)
        /\ acked' = acked \cup {<<"collection", c>>}
        /\ writer' = [writer EXCEPT ![w] = Done]
        /\ UNCHANGED <<copies, orgs, items, favorites, blobs, revisions, restarted>>
    BY <1>2 DEF CreateCollection, Finished, Acknowledge
  <2>2. failed' \in BOOLEAN /\ (failed => failed') /\ (~failed' => s = "redis" /\ ~failed)
    BY <1>0, <1>2, PlaceFails DEF CreateCollection
  <2>3. ShelfTypes'
    BY <1>0, <2>1, <2>2 DEF ShelfTypes, ShelfTypeOK, WriterStates, PutIn, Done
  <2>4. Grows
    BY <1>0, <2>1 DEF Grows, ShelfTypes, ShelfTypeOK, PutIn
  <2>5. Underway'
    BY <2>1, <2>2, <2>3, <2>4, UnderwayStays DEF Done
  <2>6. ~failed' => NothingKept' /\ c \in ListCollections("redis")'
    BY <1>0, <2>1, <2>2 DEF NothingKept, ListCollections, ShelfTypes, ShelfTypeOK, Stores, PutIn
  <2>7. ~failed' => {<<"collection", c>>} \subseteq Listed("redis")'
    BY <2>6 DEF Listed
  <2>8. \A v \in Writers : <<"blueprint", v>> \notin {<<"collection", c>>}
    OBVIOUS
  <2>9. \A r \in Stores : revisions'[r] \subseteq blobs'[r]
    BY <1>0, <2>1 DEF ShelfWhole, ListRevisions
  <2> QED BY <2>1, <2>2, <2>3, <2>4, <2>5, <2>6, <2>7, <2>8, <2>9, GrowthKeepsShelf
<1>3. ASSUME NEW w \in Writers, NEW s \in Stores, AddItem(w, s)
     PROVE  ShelfInv'
  <2>1. /\ items' = PutIn(items, s, writer[w].item)
        /\ acked' = acked \cup {<<"item", writer[w].item>>}
        /\ writer' = [writer EXCEPT ![w] = Done]
        /\ UNCHANGED <<copies, orgs, collections, favorites, blobs, revisions, restarted>>
    BY <1>3 DEF AddItem, Finished, Acknowledge
  <2>2. failed' \in BOOLEAN /\ (failed => failed') /\ (~failed' => s = "redis" /\ ~failed)
    BY <1>0, <1>3, PlaceFails DEF AddItem
  <2>3. ShelfTypes'
    <3>1. writer[w].item \in Collections \X Workflows
      BY <1>0, <1>3 DEF AddItem, ShelfTypes, WriterStates
    <3> QED BY <1>0, <2>1, <2>2, <3>1 DEF ShelfTypes, ShelfTypeOK, WriterStates, PutIn, Done
  <2>4. Grows
    BY <1>0, <2>1 DEF Grows, ShelfTypes, ShelfTypeOK, PutIn
  <2>5. Underway'
    BY <2>1, <2>2, <2>3, <2>4, UnderwayStays DEF Done
  <2>6. ~failed' => NothingKept' /\ writer[w].item \in ListItems("redis")'
    BY <1>0, <2>1, <2>2 DEF NothingKept, ListItems, ShelfTypes, ShelfTypeOK, Stores, PutIn
  <2>7. ~failed' => {<<"item", writer[w].item>>} \subseteq Listed("redis")'
    BY <2>6 DEF Listed
  <2>8. \A v \in Writers : <<"blueprint", v>> \notin {<<"item", writer[w].item>>}
    OBVIOUS
  <2>9. \A r \in Stores : revisions'[r] \subseteq blobs'[r]
    BY <1>0, <2>1 DEF ShelfWhole, ListRevisions
  <2> QED BY <2>1, <2>2, <2>3, <2>4, <2>5, <2>6, <2>7, <2>8, <2>9, GrowthKeepsShelf
<1>4. ASSUME NEW w \in Writers, NEW u \in Users, NEW x \in Workflows, NEW s \in Stores, AddFavorite(w, u, x, s)
     PROVE  ShelfInv'
  <2>1. /\ favorites' = PutIn(favorites, s, <<u, x>>)
        /\ acked' = acked \cup {<<"favorite", <<u, x>>>>}
        /\ writer' = [writer EXCEPT ![w] = Done]
        /\ UNCHANGED <<copies, orgs, collections, items, blobs, revisions, restarted>>
    BY <1>4 DEF AddFavorite, Finished, Acknowledge
  <2>2. failed' \in BOOLEAN /\ (failed => failed') /\ (~failed' => s = "redis" /\ ~failed)
    BY <1>0, <1>4, PlaceFails DEF AddFavorite
  <2>3. ShelfTypes'
    BY <1>0, <2>1, <2>2 DEF ShelfTypes, ShelfTypeOK, WriterStates, PutIn, Done
  <2>4. Grows
    BY <1>0, <2>1 DEF Grows, ShelfTypes, ShelfTypeOK, PutIn
  <2>5. Underway'
    BY <2>1, <2>2, <2>3, <2>4, UnderwayStays DEF Done
  <2>6. ~failed' => NothingKept' /\ <<u, x>> \in ListFavorites("redis")'
    BY <1>0, <2>1, <2>2 DEF NothingKept, ListFavorites, ShelfTypes, ShelfTypeOK, Stores, PutIn
  <2>7. ~failed' => {<<"favorite", <<u, x>>>>} \subseteq Listed("redis")'
    BY <2>6 DEF Listed
  <2>8. \A v \in Writers : <<"blueprint", v>> \notin {<<"favorite", <<u, x>>>>}
    OBVIOUS
  <2>9. \A r \in Stores : revisions'[r] \subseteq blobs'[r]
    BY <1>0, <2>1 DEF ShelfWhole, ListRevisions
  <2> QED BY <2>1, <2>2, <2>3, <2>4, <2>5, <2>6, <2>7, <2>8, <2>9, GrowthKeepsShelf
<1>5. ASSUME NEW w \in Writers, NEW local \in WriterStates, local.at \notin {"indexing", "mirroring"},
            writer' = [writer EXCEPT ![w] = local], failed' \in {failed, TRUE},
            UNCHANGED <<copies, orgs, collections, items, favorites, blobs, revisions, restarted, acked>>
     PROVE  ShelfInv'
  <2>0. failed' \in BOOLEAN /\ (failed => failed') /\ (~failed' => ~failed)
        /\ copies' = copies /\ orgs' = orgs /\ collections' = collections /\ items' = items
        /\ favorites' = favorites /\ revisions' = revisions /\ blobs' = blobs
        /\ restarted' = restarted /\ acked' = acked
    <3>1. CASE failed' = failed
      BY <1>0, <1>5, <3>1 DEF ShelfTypes, ShelfTypeOK
    <3>2. CASE failed' = TRUE
      BY <1>0, <1>5, <3>2 DEF ShelfTypes, ShelfTypeOK
    <3> QED BY <1>5, <3>1, <3>2
  <2>1. ShelfTypes'
    BY <1>0, <1>5, <2>0 DEF ShelfTypes, ShelfTypeOK
  <2>2. Grows
    BY <2>0 DEF Grows
  <2>3. Underway'
    BY <1>5, <2>0, <2>1, <2>2, UnderwayStays
  <2>4. ~failed' => NothingKept'
    BY <1>0, <2>0 DEF NothingKept
  <2>5. \A r \in Stores : revisions'[r] \subseteq blobs'[r]
    BY <1>0, <2>0 DEF ShelfWhole, ListRevisions
  <2> QED BY <2>0, <2>1, <2>2, <2>3, <2>4, <2>5, QuietKeepsShelf
<1>6. ASSUME NEW w \in Writers, NEW c \in Collections, NEW x \in Workflows, NEW s \in Stores,
             FindCollection(w, c, x, s)
     PROVE  ShelfInv'
  <2> DEFINE local == IF Loaded(collections, c, s) THEN [at |-> "adding", item |-> <<c, x>>] ELSE Done
  <2>1. local \in WriterStates /\ local.at \notin {"indexing", "mirroring"}
    BY DEF WriterStates, Done
  <2>2. writer' = [writer EXCEPT ![w] = local] /\ failed' \in {failed, TRUE}
    BY <1>0, <1>6 DEF FindCollection, Place, ShelfTypes, ShelfTypeOK
  <2> QED BY <1>5, <1>6, <2>1, <2>2 DEF FindCollection
<1>7. ASSUME NEW w \in Writers, FromTemplate(w) PROVE ShelfInv'
  <2>1. PICK local \in {[at |-> "persisting"], Done} : writer' = [writer EXCEPT ![w] = local]
    BY <1>7 DEF FromTemplate
  <2>2. local \in WriterStates /\ local.at \notin {"indexing", "mirroring"}
    BY DEF WriterStates, Done
  <2> QED BY <1>5, <1>7, <2>1, <2>2 DEF FromTemplate
<1>8. ASSUME NEW w \in Writers, NEW b \in {"rows", "app"}, PersistBlueprint(w, b) PROVE ShelfInv'
  <2>1. /\ copies' = PutIn(copies, b, w) /\ acked' = acked
        /\ writer' = [writer EXCEPT ![w] = [at |-> "mirroring"]]
        /\ orgs' = orgs /\ collections' = collections /\ items' = items /\ favorites' = favorites
        /\ revisions' = revisions /\ blobs' = blobs /\ restarted' = restarted
    BY <1>8 DEF PersistBlueprint
  <2>2. failed' \in BOOLEAN /\ (failed => failed') /\ (~failed' => ~failed /\ b = "rows")
    BY <1>0, <1>8 DEF PersistBlueprint, ShelfTypes, ShelfTypeOK
  <2>3. ShelfTypes'
    BY <1>0, <2>1, <2>2 DEF ShelfTypes, ShelfTypeOK, WriterStates, PutIn
  <2>4. Grows
    BY <1>0, <2>1 DEF Grows, ShelfTypes, ShelfTypeOK, PutIn
  <2>5. w \in copies'[b] /\ Found(w)'
    BY <1>0, <2>1 DEF Found, ShelfTypes, ShelfTypeOK, PutIn
  <2>6. Underway'
    BY <1>0, <2>1, <2>2, <2>4, <2>3, <2>5, FoundStays DEF Underway, Grows, ShelfTypes, ShelfTypeOK, Stores
  <2>7. ~failed' => NothingKept'
    BY <1>0, <2>1, <2>2 DEF NothingKept, ShelfTypes, ShelfTypeOK, PutIn
  <2>8. \A r \in Stores : revisions'[r] \subseteq blobs'[r]
    BY <1>0, <2>1 DEF ShelfWhole, ListRevisions
  <2> QED BY <2>1, <2>2, <2>3, <2>4, <2>6, <2>7, <2>8, QuietKeepsShelf
<1>9. ASSUME NEW w \in Writers, MirrorBlueprint(w) PROVE ShelfInv'
  <2>1. /\ copies' \in {copies, PutIn(copies, "redis", w)} /\ acked' = acked \cup {<<"blueprint", w>>}
        /\ writer' = [writer EXCEPT ![w] = Done] /\ writer[w].at = "mirroring"
        /\ orgs' = orgs /\ collections' = collections /\ items' = items /\ favorites' = favorites
        /\ revisions' = revisions /\ blobs' = blobs /\ restarted' = restarted /\ failed' = failed
    BY <1>9 DEF MirrorBlueprint, Finished, Acknowledge
  <2>2. ShelfTypes'
    BY <1>0, <2>1 DEF ShelfTypes, ShelfTypeOK, WriterStates, PutIn, Done
  <2>3. Grows
    BY <1>0, <2>1 DEF Grows, ShelfTypes, ShelfTypeOK, PutIn
  <2>4. Underway'
    BY <2>1, <2>2, <2>3, UnderwayStays DEF Done
  <2>5. ~failed' => NothingKept'
    BY <1>0, <2>1 DEF NothingKept, ShelfTypes, ShelfTypeOK, PutIn
  <2>6. (~failed => Found(w)) /\ (~restarted => Found(w))
    BY <1>0, <2>1 DEF Underway, Found, ShelfTypes, ShelfTypeOK
  <2>7. (~failed => Found(w)') /\ (~restarted => Found(w)')
    BY <1>0, <2>2, <2>3, <2>6, FoundStays
  <2>8. ~failed' => {<<"blueprint", w>>} \subseteq Listed("redis")'
    BY <2>1, <2>7 DEF Listed
  <2>9. \A r \in Stores : revisions'[r] \subseteq blobs'[r]
    BY <1>0, <2>1 DEF ShelfWhole, ListRevisions
  <2>10. \A v \in Writers : <<"blueprint", v>> \in {<<"blueprint", w>>} /\ ~restarted => Found(v)'
    BY <2>7
  <2> QED BY <2>1, <2>2, <2>3, <2>4, <2>5, <2>8, <2>9, <2>10, GrowthKeepsShelf
<1>10. ASSUME NEW w \in Writers, NEW r \in Revisions, SaveBlob(w, r) PROVE ShelfInv'
  <2>1. /\ blobs' = PutIn(blobs, "redis", r) /\ acked' = acked
        /\ writer' = [writer EXCEPT ![w] = [at |-> "indexing", revision |-> r]]
        /\ orgs' = orgs /\ collections' = collections /\ items' = items /\ favorites' = favorites
        /\ revisions' = revisions /\ copies' = copies /\ restarted' = restarted /\ failed' = failed
    BY <1>10 DEF SaveBlob
  <2>2. ShelfTypes'
    BY <1>0, <2>1 DEF ShelfTypes, ShelfTypeOK, WriterStates, PutIn
  <2>3. Grows /\ r \in blobs'["redis"]
    BY <1>0, <2>1 DEF Grows, ShelfTypes, ShelfTypeOK, PutIn, Stores
  <2>4. Underway'
    BY <1>0, <2>1, <2>2, <2>3, FoundStays DEF Underway, Grows, ShelfTypes, ShelfTypeOK, Stores
  <2>5. ~failed' => NothingKept'
    BY <1>0, <2>1 DEF NothingKept, ShelfTypes, ShelfTypeOK, PutIn
  <2>6. \A s \in Stores : revisions'[s] \subseteq blobs'[s]
    BY <1>0, <2>1, <2>3 DEF ShelfWhole, ListRevisions, Grows
  <2> QED BY <2>1, <2>2, <2>3, <2>4, <2>5, <2>6, QuietKeepsShelf
<1>11. ASSUME NEW w \in Writers, IndexRevision(w) PROVE ShelfInv'
  <2> DEFINE r == writer[w].revision
  <2>1. /\ revisions' = PutIn(revisions, "redis", r) /\ acked' = acked \cup {<<"revision", r>>}
        /\ writer' = [writer EXCEPT ![w] = Done] /\ writer[w].at = "indexing"
        /\ orgs' = orgs /\ collections' = collections /\ items' = items /\ favorites' = favorites
        /\ blobs' = blobs /\ copies' = copies /\ restarted' = restarted /\ failed' = failed
    BY <1>11 DEF IndexRevision, Finished, Acknowledge
  <2>2. r \in Revisions /\ r \in blobs["redis"]
    BY <1>0, <2>1 DEF ShelfTypes, WriterStates, Underway
  <2> HIDE DEF r
  <2>3. ShelfTypes'
    BY <1>0, <2>1, <2>2 DEF ShelfTypes, ShelfTypeOK, WriterStates, PutIn, Done
  <2>4. Grows /\ r \in revisions'["redis"]
    BY <1>0, <2>1 DEF Grows, ShelfTypes, ShelfTypeOK, PutIn, Stores
  <2>5. Underway'
    BY <2>1, <2>3, <2>4, UnderwayStays DEF Done
  <2>6. ~failed' => NothingKept'
    BY <1>0, <2>1 DEF NothingKept, ShelfTypes, ShelfTypeOK, PutIn
  <2>7. {<<"revision", r>>} \subseteq Listed("redis")'
    BY <2>4 DEF Listed, ListRevisions
  <2>8. \A s \in Stores : revisions'[s] \subseteq blobs'[s]
    BY <1>0, <2>1, <2>2 DEF ShelfWhole, ListRevisions, ShelfTypes, ShelfTypeOK, PutIn
  <2>9. \A v \in Writers : <<"blueprint", v>> \notin {<<"revision", r>>}
    OBVIOUS
  <2> QED BY <2>1, <2>3, <2>4, <2>5, <2>6, <2>7, <2>8, <2>9, GrowthKeepsShelf
<1>12. ASSUME NEW w \in Writers, NEW r \in Revisions, KeepRevision(w, r) PROVE ShelfInv'
  <2>1. /\ revisions' = PutIn(revisions, "kv", r) /\ blobs' = PutIn(blobs, "kv", r)
        /\ writer' = [writer EXCEPT ![w] = Done] /\ acked' = acked \cup {<<"revision", r>>}
        /\ orgs' = orgs /\ collections' = collections /\ items' = items /\ favorites' = favorites
        /\ copies' = copies /\ restarted' = restarted /\ failed' = TRUE
    BY <1>12 DEF KeepRevision, Finished, Acknowledge
  <2>2. ShelfTypes'
    BY <1>0, <2>1 DEF ShelfTypes, ShelfTypeOK, WriterStates, PutIn, Done
  <2>3. Grows
    BY <1>0, <2>1 DEF Grows, ShelfTypes, ShelfTypeOK, PutIn
  <2>4. Underway'
    BY <2>1, <2>2, <2>3, UnderwayStays DEF Done
  <2>5. \A s \in Stores : revisions'[s] \subseteq blobs'[s]
    BY <1>0, <2>1 DEF ShelfWhole, ListRevisions, ShelfTypes, ShelfTypeOK, PutIn
  <2>6. \A v \in Writers : <<"blueprint", v>> \notin {<<"revision", r>>}
    OBVIOUS
  <2> QED BY <2>1, <2>2, <2>3, <2>4, <2>5, <2>6, GrowthKeepsShelf
<1>13. CASE ShelfRestart
  <2>1. /\ orgs' = [orgs EXCEPT !["kv"] = FALSE] /\ collections' = [collections EXCEPT !["kv"] = {}]
        /\ items' = [items EXCEPT !["kv"] = {}] /\ favorites' = [favorites EXCEPT !["kv"] = {}]
        /\ blobs' = [blobs EXCEPT !["kv"] = {}] /\ revisions' = [revisions EXCEPT !["kv"] = {}]
        /\ copies' = [copies EXCEPT !["app"] = {}]
        /\ writer' = [w \in Writers |-> IF writer[w].at = "new" THEN writer[w] ELSE Done]
        /\ restarted' = TRUE /\ failed' = failed /\ acked' = acked
    BY <1>13 DEF ShelfRestart
  <2>2. ShelfTypes'
    BY <1>0, <2>1 DEF ShelfTypes, ShelfTypeOK, WriterStates, Done, Stores
  <2>3. NothingKept'
    BY <1>0, <2>1 DEF NothingKept, ShelfTypes, ShelfTypeOK, Stores
  <2>4. Underway'
    BY <2>1 DEF Underway, Done
  <2>5. ASSUME ~failed PROVE acked' \subseteq Listed("redis")'
    <3>1. Grows /\ NothingKept
      BY <1>0, <2>1, <2>5 DEF Grows, NothingKept, ShelfTypes, ShelfTypeOK, Stores
    <3> QED BY <1>0, <2>1, <2>2, <2>3, <2>5, <3>1, ListedGrows DEF ShelfWhole
  <2>6. \A s \in Stores : revisions'[s] \subseteq blobs'[s]
    BY <1>0, <2>1 DEF ShelfWhole, ListRevisions, ShelfTypes, ShelfTypeOK, Stores
  <2>7. ShelfWhole'
    BY <2>1, <2>5, <2>6 DEF ShelfWhole, ListRevisions
  <2> QED BY <2>1, <2>2, <2>3, <2>4, <2>7 DEF ShelfInv
<1> QED
  BY <1>1, <1>2, <1>3, <1>4, <1>6, <1>7, <1>8, <1>9, <1>10, <1>11, <1>12, <1>13 DEF ShelfNext

LEMMA ShelfInvIdle == ShelfInv /\ UNCHANGED shelfVars => ShelfInv'
BY DEF ShelfInv, ShelfTypes, ShelfTypeOK, ShelfWhole, Underway, NothingKept, Found, Listed, ListOrgs,
       ListCollections, ListItems, ListRevisions, ListFavorites, shelfVars

(***************************************************************************)
(* WorkingMemory                                                           *)
(***************************************************************************)
\* A live entry that has not been evicted has behind it only keys that were used
\* after it; one that has been was overtaken by max_entries of them.
PushedOut(S) == MaxEntries # 0 /\ Cardinality(S) >= MaxEntries
Kept(k) ==
  \/ k \in entries.keys /\ entries.behind[k] \subseteq since[k]
  \/ PushedOut(since[k])

WorkingInv ==
  /\ entries \in Dicts
  /\ \A k \in AnyKey : k \notin entries.behind[k]
  /\ age \in [Keys -> Nat] /\ live \subseteq Keys /\ since \in [Keys -> SUBSET AnyKey]
  /\ \A k \in live : ~Expired(k) /\ Kept(k)

LEMMA UsersCounted ==
  ASSUME NEW S \in SUBSET AnyKey, NEW T \in SUBSET S
  PROVE  Cardinality(S) \in Nat /\ Cardinality(T) \in Nat /\ Cardinality(T) <= Cardinality(S)
<1>1. IsFiniteSet(AnyKey)
  BY WorkingAssumption, FS_AddElement DEF AnyKey
<1>2. IsFiniteSet(S)
  BY <1>1, FS_Subset
<1> QED BY <1>2, FS_Subset, FS_CardinalityType

LEMMA WithoutIsDict ==
  ASSUME NEW d \in Dicts, NEW S
  PROVE  /\ Without(d, S) \in Dicts /\ Without(d, S).keys = d.keys \ S
         /\ \A k \in AnyKey : Without(d, S).behind[k] \subseteq d.behind[k]
BY DEF Dicts, Without

LEMMA WithoutNothing == ASSUME NEW d \in Dicts PROVE Without(d, {}) = d
<1>1. d = [keys |-> d.keys, behind |-> d.behind] /\ d.behind \in [AnyKey -> SUBSET AnyKey]
  BY DEF Dicts
<1>2. \A k \in AnyKey : (IF k \in {} THEN {} ELSE d.behind[k] \ {}) = d.behind[k]
  OBVIOUS
<1>3. [k \in AnyKey |-> IF k \in {} THEN {} ELSE d.behind[k] \ {}] = d.behind
  BY <1>1, <1>2
<1>4. d.keys \ {} = d.keys
  OBVIOUS
<1> QED BY <1>1, <1>3, <1>4 DEF Without

LEMMA AtEndIsDict ==
  ASSUME NEW d \in Dicts, NEW S \in SUBSET AnyKey
  PROVE  /\ AtEnd(d, S) \in Dicts /\ AtEnd(d, S).keys = d.keys \cup S
         /\ \A k \in S : AtEnd(d, S).behind[k] = d.behind[k] \cap S
         /\ \A k \in d.keys \ S : AtEnd(d, S).behind[k] = d.behind[k] \cup S
         /\ \A k \in AnyKey \ (d.keys \cup S) : AtEnd(d, S).behind[k] = {}
BY DEF Dicts, AtEnd

LEMMA FittedIsDict ==
  ASSUME NEW d \in Dicts
  PROVE  /\ Fitted(d) \in Dicts
         /\ \A k \in AnyKey : Fitted(d).behind[k] \subseteq d.behind[k]
         /\ \A k \in d.keys : k \in Fitted(d).keys \/ PushedOut(d.behind[k])
BY WithoutIsDict DEF Fitted, PushedOut

LEMMA WorkingInvInit == WorkingInit => WorkingInv
BY DEF WorkingInit, WorkingInv, Dicts, AnyKey

\* The keys of S are used: all else that is live is overtaken by them.
LEMMA UseKeeps ==
  ASSUME WorkingInv, NEW S \in SUBSET AnyKey, Used(S),
         NEW k \in Keys, k \in live \/ k \in S
  PROVE  \/ k \in AtEnd(entries, S).keys /\ AtEnd(entries, S).behind[k] \subseteq since'[k]
         \/ PushedOut(since'[k])
<1>1. k \in AnyKey /\ entries \in Dicts /\ k \notin entries.behind[k]
  BY DEF WorkingInv, AnyKey
<1>2. CASE k \in S
  BY <1>1, <1>2, AtEndIsDict DEF Used
<1>3. CASE k \notin S /\ k \in entries.keys /\ entries.behind[k] \subseteq since[k]
  BY <1>1, <1>3, AtEndIsDict DEF Used
<1>4. CASE k \notin S /\ PushedOut(since[k])
  <2>1. since'[k] = since[k] \cup S /\ since[k] \subseteq AnyKey
    BY <1>4 DEF Used, WorkingInv
  <2> QED BY <1>4, <2>1, UsersCounted, WorkingAssumption DEF PushedOut
<1> QED BY <1>2, <1>3, <1>4 DEF WorkingInv, Kept

LEMMA FitKeeps ==
  ASSUME NEW d \in Dicts, NEW S \in SUBSET AnyKey, NEW k \in AnyKey,
         (k \in d.keys /\ d.behind[k] \subseteq S) \/ PushedOut(S)
  PROVE  (k \in Fitted(d).keys /\ Fitted(d).behind[k] \subseteq S) \/ PushedOut(S)
<1>1. CASE k \in d.keys /\ d.behind[k] \subseteq S
  <2>1. CASE k \in Fitted(d).keys
    BY <1>1, <2>1, FittedIsDict
  <2>2. CASE PushedOut(d.behind[k])
    BY <1>1, <2>2, UsersCounted, WorkingAssumption DEF PushedOut
  <2> QED BY <1>1, <2>1, <2>2, FittedIsDict
<1> QED BY <1>1

LEMMA AtEndIrreflexive ==
  ASSUME WorkingInv, NEW S \in SUBSET AnyKey
  PROVE  \A k \in AnyKey : k \notin AtEnd(entries, S).behind[k]
BY AtEndIsDict DEF WorkingInv

LEMMA UsedIsTyped ==
  ASSUME WorkingInv, NEW S \in SUBSET AnyKey, Used(S)
  PROVE  since' \in [Keys -> SUBSET AnyKey]
BY DEF WorkingInv, Used

LEMMA WorkingInvStep == WorkingInv /\ WorkingNext => WorkingInv'
<1> SUFFICES ASSUME WorkingInv, WorkingNext PROVE WorkingInv'
  OBVIOUS
<1>0. /\ entries \in Dicts /\ \A k \in AnyKey : k \notin entries.behind[k]
      /\ age \in [Keys -> Nat] /\ live \subseteq Keys /\ since \in [Keys -> SUBSET AnyKey]
      /\ \A k \in live : ~Expired(k) /\ Kept(k)
      /\ Keys \subseteq AnyKey /\ MaxEntries \in Nat /\ TTL \in Nat
  BY WorkingAssumption DEF WorkingInv, AnyKey
<1>1. ASSUME NEW k \in Keys, StoreEntry(k) PROVE WorkingInv'
  <2> DEFINE d == AtEnd(entries, {k})
  <2>1. entries' = Fitted(d) /\ age' = [age EXCEPT ![k] = 0] /\ live' = live \cup {k} /\ Used({k})
    BY <1>1 DEF StoreEntry
  <2>2. d \in Dicts /\ \A j \in AnyKey : j \notin d.behind[j]
    BY <1>0, AtEndIsDict, AtEndIrreflexive
  <2>3. since' \in [Keys -> SUBSET AnyKey]
    BY <1>0, <2>1, UsedIsTyped
  <2>4. ASSUME NEW j \in live'
        PROVE  (j \in d.keys /\ d.behind[j] \subseteq since'[j]) \/ PushedOut(since'[j])
    BY <1>0, <2>1, <2>4, UseKeeps
  <2>5. \A j \in live' : ~Expired(j)'
    BY <1>0, <2>1 DEF Expired
  <2> HIDE DEF d
  <2>6. ASSUME NEW j \in live' PROVE Kept(j)'
    <3>1. j \in AnyKey /\ since'[j] \in SUBSET AnyKey
      BY <1>0, <2>1, <2>3, <2>6
    <3> QED BY <2>1, <2>2, <2>4, <2>6, <3>1, FitKeeps DEF Kept
  <2>7. entries' \in Dicts /\ \A j \in AnyKey : j \notin entries'.behind[j]
    BY <2>1, <2>2, FittedIsDict
  <2>8. age' \in [Keys -> Nat] /\ live' \subseteq Keys
    BY <1>0, <2>1
  <2> QED BY <2>3, <2>5, <2>6, <2>7, <2>8 DEF WorkingInv
\* Keys that are not live any more are dropped.
<1>2. ASSUME NEW S, entries' = Without(entries, S), age' = age, live' \subseteq live \ S, since' = since
      PROVE  WorkingInv'
  <2>1. /\ entries' \in Dicts /\ entries'.keys = entries.keys \ S
        /\ \A k \in AnyKey : entries'.behind[k] \subseteq entries.behind[k]
    BY <1>0, <1>2, WithoutIsDict
  <2>2. ASSUME NEW k \in live' PROVE ~Expired(k)' /\ Kept(k)'
    BY <1>0, <1>2, <2>1, <2>2 DEF Expired, Kept
  <2> QED BY <1>0, <1>2, <2>1, <2>2 DEF WorkingInv
\* The others of S are used.
<1>3. ASSUME NEW S \in SUBSET AnyKey, NEW T, entries' = Without(AtEnd(entries, S), T), Used(S),
             age' = age, live' \subseteq live \ T
      PROVE  WorkingInv'
  <2> DEFINE d == AtEnd(entries, S)
  <2>1. d \in Dicts /\ \A j \in AnyKey : j \notin d.behind[j]
    BY <1>0, AtEndIsDict, AtEndIrreflexive
  <2>2. ASSUME NEW k \in live'
        PROVE  (k \in d.keys /\ d.behind[k] \subseteq since'[k]) \/ PushedOut(since'[k])
    BY <1>0, <1>3, <2>2, UseKeeps
  <2>3. since' \in [Keys -> SUBSET AnyKey]
    BY <1>0, <1>3, UsedIsTyped
  <2>4. entries' = Without(d, T)
    BY <1>3
  <2> HIDE DEF d
  <2>5. /\ entries' \in Dicts /\ entries'.keys = d.keys \ T
        /\ \A k \in AnyKey : entries'.behind[k] \subseteq d.behind[k]
    BY <2>1, <2>4, WithoutIsDict
  <2>6. ASSUME NEW k \in live' PROVE ~Expired(k)' /\ Kept(k)'
    <3>1. ~Expired(k)'
      BY <1>0, <1>3, <2>6 DEF Expired
    <3>2. Kept(k)'
      BY <1>0, <1>3, <2>2, <2>5, <2>6 DEF Kept
    <3> QED BY <3>1, <3>2
  <2> QED BY <1>0, <1>3, <2>1, <2>3, <2>5, <2>6 DEF WorkingInv
<1>4. ASSUME NEW k \in Keys, RetrieveEntry(k) PROVE WorkingInv'
  <2>1. CASE Expired(k)
    BY <1>2, <1>4, <2>1 DEF RetrieveEntry
  <2>2. CASE ~Expired(k)
    <3>1. AtEnd(entries, {k}) = Without(AtEnd(entries, {k}), {})
      BY <1>0, AtEndIsDict, WithoutNothing
    <3> QED BY <1>0, <1>3, <1>4, <2>2, <3>1 DEF RetrieveEntry
  <2> QED BY <2>1, <2>2
<1>5. ASSUME NEW k \in Keys, DeleteEntry(k) PROVE WorkingInv'
  BY <1>2, <1>5 DEF DeleteEntry
<1>6. CASE ClearEntries
  BY <1>2, <1>6 DEF ClearEntries
<1>7. CASE GetWorkingContext
  <2> DEFINE listed == ListKeys(entries)
             old == {k \in listed : Expired(k)}
  <2>1. /\ entries' = Without(AtEnd(entries, listed \ old), old) /\ live' = live \ old
        /\ Used(listed \ old) /\ age' = age
    BY <1>7 DEF GetWorkingContext
  <2>2. listed \ old \in SUBSET AnyKey
    BY <1>0 DEF ListKeys, Dicts
  <2> QED BY <1>3, <2>1, <2>2
<1>8. CASE ProbeWorking
  <2> DEFINE d == AtEnd(entries, {Probe})
  <2>1. /\ entries' = Without(Fitted(d), {Probe}) /\ Used({Probe})
        /\ age' = age /\ live' = live
    BY <1>8 DEF ProbeWorking
  <2>2. {Probe} \in SUBSET AnyKey /\ Probe \notin live
    BY <1>0, WorkingAssumption DEF AnyKey
  <2>3. d \in Dicts /\ \A j \in AnyKey : j \notin d.behind[j]
    BY <1>0, <2>2, AtEndIsDict, AtEndIrreflexive
  <2>4. ASSUME NEW k \in live
        PROVE  (k \in d.keys /\ d.behind[k] \subseteq since'[k]) \/ PushedOut(since'[k])
    BY <1>0, <2>1, <2>2, <2>4, UseKeeps
  <2>5. since' \in [Keys -> SUBSET AnyKey]
    BY <1>0, <2>1, <2>2, UsedIsTyped
  <2> HIDE DEF d
  <2>6. Fitted(d) \in Dicts /\ \A k \in AnyKey : Fitted(d).behind[k] \subseteq d.behind[k]
    BY <2>3, FittedIsDict
  <2>7. /\ entries' \in Dicts /\ entries'.keys = Fitted(d).keys \ {Probe}
        /\ \A k \in AnyKey : entries'.behind[k] \subseteq Fitted(d).behind[k]
    BY <2>1, <2>6, WithoutIsDict
  <2>8. ASSUME NEW k \in live PROVE Kept(k)'
    <3>1. k \in AnyKey /\ since'[k] \in SUBSET AnyKey /\ k # Probe
      BY <1>0, <2>2, <2>5, <2>8
    <3>2. (k \in Fitted(d).keys /\ Fitted(d).behind[k] \subseteq since'[k])
          \/ PushedOut(since'[k])
      BY <2>3, <2>4, <2>8, <3>1, FitKeeps
    <3> QED BY <2>7, <3>1, <3>2 DEF Kept
  <2>9. \A k \in live : ~Expired(k)'
    BY <1>0, <2>1 DEF Expired
  <2> QED BY <1>0, <2>1, <2>3, <2>5, <2>6, <2>7, <2>8, <2>9 DEF WorkingInv
<1>9. CASE Tick
  <2>1. /\ age' \in [Keys -> Nat] /\ live' = live \ {k \in Keys : Expired(k)'}
        /\ entries' = entries /\ since' = since
    BY <1>0, <1>9 DEF Tick
  <2>2. \A k \in live' : k \in live /\ ~Expired(k)' /\ Kept(k)'
    BY <1>0, <2>1 DEF Kept
  <2> QED BY <1>0, <2>1, <2>2 DEF WorkingInv
<1>10. CASE CleanupExpired
  <2>1. live' \subseteq live \ {k \in entries.keys : Expired(k)}
    BY <1>0, <1>10 DEF CleanupExpired
  <2> QED BY <1>2, <1>10, <2>1 DEF CleanupExpired
<1> QED
  BY <1>1, <1>4, <1>5, <1>6, <1>7, <1>8, <1>9, <1>10 DEF WorkingNext

LEMMA WorkingInvIdle == WorkingInv /\ UNCHANGED workingVars => WorkingInv'
BY DEF WorkingInv, Kept, Expired, workingVars

LEMMA WorkingInvRecent == WorkingInv => RecentRetrievable
<1> SUFFICES ASSUME WorkingInv, NEW k \in live, MaxEntries = 0 \/ Cardinality(since[k]) < MaxEntries
             PROVE  k \in entries.keys
  BY DEF RecentRetrievable
<1>1. Cardinality(since[k]) \in Nat
  BY UsersCounted DEF WorkingInv
<1> QED BY <1>1, WorkingAssumption DEF WorkingInv, Kept, PushedOut

(***************************************************************************)
(* Copilot                                                                 *)
(***************************************************************************)
\* What run_plan has seen is needed, and what the included nodes depend on has
\* been seen; a plan of everything has nothing left to see.
PlanInv ==
  LET ns == plan.nodes
      seen == plan.include \cup plan.stack
  IN  /\ plan = [nodes |-> plan.nodes, selection |-> plan.selection, stack |-> plan.stack,
                 include |-> plan.include]
      /\ plan.selection = {} => plan.stack = {} /\ plan.include = IdsOf(ns)
      /\ plan.selection # {} =>
           /\ seen \subseteq Mentioned(ns, plan.selection) /\ plan.selection \subseteq seen
           /\ \A n \in seen : Needs(ns, plan.selection, n)
           /\ \A n \in plan.include : DepsOf(ns, n) \subseteq seen

LEMMA DepsAreMentioned ==
  ASSUME NEW ns, NEW s, NEW n
  PROVE  DepsOf(ns, n) \subseteq Mentioned(ns, s)
BY DEF DepsOf, Mentioned

LEMMA NoPlanInv == plan' = NoPlan => PlanInv'
BY DEF PlanInv, NoPlan, IdsOf

LEMMA PlanInvInit == CopilotInit => PlanInv
BY DEF CopilotInit, PlanInv, NoPlan, IdsOf

LEMMA PlanInvStep == PlanInv /\ CopilotNext => PlanInv'
<1> SUFFICES ASSUME PlanInv, CopilotNext PROVE PlanInv'
  OBVIOUS
<1>1. ASSUME NEW s, RunPlan(s) PROVE PlanInv'
  <2>1. plan' = [nodes |-> canvas, selection |-> s, stack |-> s,
                 include |-> IF s = {} THEN IdsOf(canvas) ELSE {}]
    BY <1>1 DEF RunPlan
  <2>2. s \subseteq Mentioned(canvas, s)
    BY DEF Mentioned
  <2>3. \A n \in s : Needs(canvas, s, n)
    BY DEF Needs
  <2> QED BY <2>1, <2>2, <2>3 DEF PlanInv
<1>2. ASSUME NEW n \in plan.stack, Include(n) PROVE PlanInv'
  <2> DEFINE ns == plan.nodes
             s == plan.selection
             more == IF n \in plan.include THEN {} ELSE DepsOf(ns, n)
             seen == plan.include \cup plan.stack
  <2>1. plan = [nodes |-> ns, selection |-> s, stack |-> plan.stack, include |-> plan.include]
    BY DEF PlanInv
  <2>2. /\ plan'.nodes = ns /\ plan'.selection = s /\ plan'.include = plan.include \cup {n}
        /\ plan'.stack = (plan.stack \ {n}) \cup more
        /\ plan' = [nodes |-> ns, selection |-> s, stack |-> plan'.stack, include |-> plan'.include]
    BY <1>2, <2>1 DEF Include
  <2>3. /\ s # {}
        /\ seen \subseteq Mentioned(ns, s) /\ s \subseteq seen
        /\ \A m \in seen : Needs(ns, s, m)
        /\ \A m \in plan.include : DepsOf(ns, m) \subseteq seen
    BY DEF PlanInv
  <2>4. plan'.include \cup plan'.stack = seen \cup more
    BY <2>2
  <2>5. DepsOf(ns, n) \subseteq Mentioned(ns, s)
    BY DepsAreMentioned
  <2>6. \A m \in more : Needs(ns, s, m)
    BY <2>3 DEF Needs
  <2>7. \A m \in plan'.include : DepsOf(ns, m) \subseteq seen \cup more
    BY <2>2, <2>3
  <2> HIDE DEF ns, s
  <2>8. \A m \in seen \cup more : Needs(ns, s, m)
    BY <2>3, <2>6
  <2>9. seen \cup more \subseteq Mentioned(ns, s)
    BY <2>3, <2>5
  <2> HIDE DEF more, seen
  <2> QED BY <2>2, <2>3, <2>4, <2>7, <2>8, <2>9 DEF PlanInv
<1>3. ASSUME plan' = NoPlan PROVE PlanInv'
  BY <1>3, NoPlanInv
<1> QED
  BY <1>1, <1>2, <1>3
  DEF CopilotNext, CopilotSuggest, FrostySuggest, BuilderSuggest, Suggest, Propose, CopilotValidate,
      FrostyValidate, Validate, CopilotSimulate, FrostySimulate, BuilderApply, Simulate

LEMMA PlanInvIdle == PlanInv /\ UNCHANGED copilotVars => PlanInv'
BY DEF PlanInv, copilotVars

LEMMA PlanInvRunnable == PlanInv => PlanRunnable
<1> SUFFICES ASSUME PlanInv, plan.stack = {}, "missing_dep" \notin Violations(plan.nodes, <<>>)
             PROVE  /\ \A n \in Expected : DepsOf(plan.nodes, n) \subseteq Expected
                    /\ plan.selection # {} =>
                         Expected = {n \in IdsOf(plan.nodes) : Needs(plan.nodes, plan.selection, n)}
  BY DEF PlanRunnable
<1> DEFINE ns == plan.nodes
<1>1. \A i \in DOMAIN ns : ns[i].deps \subseteq IdsOf(ns)
  BY DEF Violations
<1>2. \A n : DepsOf(ns, n) \subseteq IdsOf(ns)
  BY <1>1 DEF DepsOf
<1>3. CASE plan.selection = {}
  BY <1>2, <1>3 DEF PlanInv, Expected
<1>4. CASE plan.selection # {}
  <2>1. /\ plan.include \in SUBSET Mentioned(ns, plan.selection) /\ plan.selection \subseteq plan.include
        /\ \A n \in plan.include : Needs(ns, plan.selection, n)
        /\ \A n \in plan.include : DepsOf(ns, n) \subseteq plan.include
    BY <1>4 DEF PlanInv
  <2>2. \A n : Needs(ns, plan.selection, n) => n \in plan.include
    BY <2>1 DEF Needs
  <2> QED BY <1>2, <2>1, <2>2 DEF Expected
<1> QED BY <1>3, <1>4

(***************************************************************************)
(* The services together                                                   *)
(***************************************************************************)
ServicesInv ==
  /\ WorkingInv /\ SemanticInv /\ ProceduralInv
  /\ TasksInv /\ ShelfInv /\ PlanInv

LEMMA ServicesInvInit == Init => ServicesInv
BY WorkingInvInit, SemanticInvInit, ProceduralInvInit, TasksInvInit, ShelfInvInit,
   PlanInvInit DEF Init, ServicesInv

\* A step of one service is a step that the others do not see.
LEMMA OneServiceSteps ==
  ASSUME [Next]_vars
  PROVE  /\ WorkingNext \/ UNCHANGED workingVars
         /\ SemanticNext \/ UNCHANGED semanticVars
         /\ ProceduralNext \/ UNCHANGED proceduralVars
         /\ TasksNext \/ UNCHANGED taskVars
         /\ ShelfNext \/ UNCHANGED shelfVars
         /\ CopilotNext \/ UNCHANGED copilotVars
BY DEF Next, vars, moreVars, servedVars, Working, Semantic, Procedural, Pools, Tasks, Gateway,
       GatewayUnchanged, Client, ClientUnchanged, Shelving, Assisting

LEMMA ServicesInvStep == ServicesInv /\ [Next]_vars => ServicesInv'
<1> SUFFICES ASSUME ServicesInv, [Next]_vars PROVE ServicesInv'
  OBVIOUS
<1>1. WorkingInv'
  BY OneServiceSteps, WorkingInvStep, WorkingInvIdle DEF ServicesInv
<1>2. SemanticInv'
  BY OneServiceSteps, SemanticInvStep, SemanticInvIdle DEF ServicesInv
<1>3. ProceduralInv'
  BY OneServiceSteps, ProceduralInvStep, ProceduralInvIdle DEF ServicesInv
<1>4. TasksInv'
  BY OneServiceSteps, TasksInvStep, TasksInvIdle DEF ServicesInv
<1>5. ShelfInv'
  BY OneServiceSteps, ShelfInvStep, ShelfInvIdle DEF ServicesInv
<1>6. PlanInv'
  BY OneServiceSteps, PlanInvStep, PlanInvIdle DEF ServicesInv
<1> QED BY <1>1, <1>2, <1>3, <1>4, <1>5, <1>6 DEF ServicesInv

LEMMA ServicesInvAlways == Spec => []ServicesInv
BY ServicesInvInit, ServicesInvStep, PTL DEF Spec

\* A live entry of the working memory can be retrieved as long as fewer than
\* max_entries other keys were used after it.  (working_memory_store.py,
\* _enforce_size_limit)
THEOREM WorkingMemoryKeepsRecent == Spec => []RecentRetrievable
BY ServicesInvAlways, WorkingInvRecent, PTL DEF ServicesInv

\* Every stored fact and procedure is found through each of its indexes, however
\* stores, merges and deletions are mixed, and whichever of them raise.
\* (semantic_memory_store.py; procedural_memory_store.py)
THEOREM IndexesAlwaysComplete == Spec => []IndexesComplete
<1>1. ServicesInv => IndexesComplete
  BY DEF ServicesInv, SemanticInv, ProceduralInv, IndexesComplete
<1> QED BY <1>1, ServicesInvAlways, PTL

\* A running network task is in the table, or is being cancelled by the holder of
\* the lock.  (task_manager.py)
THEOREM TasksNeverStray == Spec => []NoStrayTask
<1>1. ServicesInv => NoStrayTask
  BY DEF ServicesInv, TasksInv
<1> QED BY <1>1, ServicesInvAlways, PTL

\* What was acknowledged is listed as long as nothing failed, and a listed revision
\* has its body.  (ia.py; templates.py)
THEOREM ShelfStaysWhole == Spec => []ShelfWhole
<1>1. ServicesInv => ShelfWhole
  BY DEF ServicesInv, ShelfInv
<1> QED BY <1>1, ServicesInvAlways, PTL

\* The plan of a selection holds what the selection needs, and nothing else.
\* (copilot_actions.py, run_plan)
THEOREM PlansAreRunnable == Spec => []PlanRunnable
<1>1. ServicesInv => PlanRunnable
  BY PlanInvRunnable DEF ServicesInv
<1> QED BY <1>1, ServicesInvAlways, PTL
=============================================================================
