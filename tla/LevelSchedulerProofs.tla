------------------------ MODULE LevelSchedulerProofs ------------------------
(***************************************************************************)
(* Proofs about LevelScheduler for any number of nodes, any max_parallel   *)
(* and any bound on the LLM nodes of the level.                            *)
(***************************************************************************)
EXTENDS LevelScheduler, FiniteSetTheorems, TLAPS

\* What a task holds is determined by where it is in process_node.
HeldByPc ==
  \A n \in Nodes :
    /\ pc[n] \in {"created", "done"} => held[n] = 0
    /\ pc[n] = "waiting" => held[n] < Weight(n)
    /\ pc[n] = "running" => held[n] = Weight(n)

\* The deque holds exactly the tasks that wait.
QueueIsWaiting ==
  /\ \A i \in 1..Len(waiters) : pc[waiters[i]] = "waiting"
  /\ \A i, j \in 1..Len(waiters) : waiters[i] = waiters[j] => i = j

\* The inductive invariant.
IInv ==
  /\ TypeOK
  /\ SlotConservation
  /\ NoLostWakeup
  /\ HeldByPc
  /\ QueueIsWaiting

-----------------------------------------------------------------------------
(***************************************************************************)
(* Counting held slots                                                     *)
(***************************************************************************)
\* Every set of nodes of the level is finite.
LEMMA NodesFinite ==
  ASSUME NEW S \in SUBSET Nodes
  PROVE  IsFiniteSet(S) /\ Cardinality(S) \in Nat
<1>1. IsFiniteSet(Nodes)
  BY FS_Interval, SchedulerAssumption DEF Nodes
<1>2. IsFiniteSet(S)
  BY <1>1, FS_Subset
<1>3. QED
  BY <1>2, FS_CardinalityType

\* Adding an element to a finite set, and removing one.
LEMMA CardinalityWithWithout ==
  ASSUME NEW S, IsFiniteSet(S), NEW x
  PROVE  /\ Cardinality(S \cup {x}) = Cardinality(S) + (IF x \in S THEN 0 ELSE 1)
         /\ Cardinality(S \ {x}) = Cardinality(S) - (IF x \in S THEN 1 ELSE 0)
<1>1. Cardinality(S) \in Nat
  BY FS_CardinalityType
<1>2. CASE x \in S
  <2>1. Cardinality(S \cup {x}) = Cardinality(S)
    <3>1. S \cup {x} = S
      BY <1>2
    <3>2. QED
      BY <3>1, Zenon
  <2>2. Cardinality(S \ {x}) = Cardinality(S) - 1
    BY <1>2, FS_RemoveElement
  <2>3. QED
    BY <1>1, <1>2, <2>1, <2>2
<1>3. CASE x \notin S
  <2>1. Cardinality(S \ {x}) = Cardinality(S)
    <3>1. S \ {x} = S
      BY <1>3
    <3>2. QED
      BY <3>1, Zenon
  <2>2. Cardinality(S \cup {x}) = Cardinality(S) + 1
    BY <1>3, FS_AddElement
  <2>3. QED
    BY <1>1, <1>3, <2>1, <2>2
<1>4. QED
  BY <1>2, <1>3

\* Giving task n exactly h slots changes the number of held slots by the
\* difference.
LEMMA HeldSlotsChange ==
  ASSUME TypeOK, NEW n \in Nodes, NEW h \in 0..2,
         held' = [held EXCEPT ![n] = h]
  PROVE  /\ HeldSlots \in Nat /\ HeldSlots' \in Nat
         /\ HeldSlots' = HeldSlots - held[n] + h
<1>1. held \in [Nodes -> 0..2] /\ held[n] \in 0..2
  BY DEF TypeOK
<1>2. ASSUME NEW k \in 1..2
      PROVE  /\ Cardinality(Holding(k)) \in Nat
             /\ Cardinality(Holding(k)') \in Nat
             /\ Cardinality(Holding(k)') = Cardinality(Holding(k))
                  - (IF held[n] >= k THEN 1 ELSE 0)
                  + (IF h >= k THEN 1 ELSE 0)
  <2>1. Holding(k) \in SUBSET Nodes /\ Holding(k)' \in SUBSET Nodes
    BY DEF Holding, Nodes
  <2>2. /\ IsFiniteSet(Holding(k)) /\ IsFiniteSet(Holding(k)')
        /\ Cardinality(Holding(k)) \in Nat /\ Cardinality(Holding(k)') \in Nat
    BY <2>1, NodesFinite
  <2>3. n \in Holding(k) <=> held[n] >= k
    BY DEF Holding
  <2>4. CASE h >= k
    <3>1. Holding(k)' = Holding(k) \cup {n}
      BY <1>1, <2>4 DEF Holding, Nodes
    <3>2. Cardinality(Holding(k) \cup {n}) = Cardinality(Holding(k))
                                          + (IF n \in Holding(k) THEN 0 ELSE 1)
      BY <2>2, CardinalityWithWithout, Zenon
    <3>3. Cardinality(Holding(k)') = Cardinality(Holding(k) \cup {n})
      BY <3>1, Zenon
    <3>4. QED
      BY <3>2, <3>3, <2>2, <2>3, <2>4, <1>1
  <2>5. CASE ~(h >= k)
    <3>1. Holding(k)' = Holding(k) \ {n}
      BY <1>1, <2>5 DEF Holding, Nodes
    <3>2. Cardinality(Holding(k) \ {n}) = Cardinality(Holding(k))
                                          - (IF n \in Holding(k) THEN 1 ELSE 0)
      BY <2>2, CardinalityWithWithout, Zenon
    <3>3. Cardinality(Holding(k)') = Cardinality(Holding(k) \ {n})
      BY <3>1, Zenon
    <3>4. QED
      BY <3>2, <3>3, <2>2, <2>3, <2>5, <1>1
  <2>6. QED
    BY <2>4, <2>5, <2>2
<1>3. QED
  BY <1>1, <1>2 DEF HeldSlots

-----------------------------------------------------------------------------
(***************************************************************************)
(* The two operators of the semaphore                                      *)
(***************************************************************************)
\* The acquire() calls of __aenter__: what the task took came from the free
\* slots; it either has its weight, or it queued behind a locked semaphore.
LEMMA AcquireFacts ==
  ASSUME TypeOK, NEW n \in Nodes, NEW h \in 0..2, h <= Weight(n),
         NEW v \in Nat, NEW q \in Seq(Nodes),
         AcquireSlots(n, h, v, q)
  PROVE  \E t \in 0..2 :
           /\ t <= v /\ h + t <= Weight(n)
           /\ value' = v - t /\ value' \in Nat
           /\ held' = [held EXCEPT ![n] = h + t]
           /\ \/ /\ h + t = Weight(n)
                 /\ waiters' = q
                 /\ pc' = [pc EXCEPT ![n] = "running"]
              \/ /\ h + t < Weight(n)
                 /\ waiters' = Append(q, n)
                 /\ pc' = [pc EXCEPT ![n] = "waiting"]
                 /\ value' = 0 \/ q # <<>>
<1> DEFINE t == IF Locked(v, q) THEN 0 ELSE MinOf(v, Weight(n) - h)
<1>1. Weight(n) \in 1..2
  BY DEF Weight
<1>2. /\ t \in 0..2 /\ t <= v /\ h + t <= Weight(n)
      /\ h + t < Weight(n) => v - t = 0 \/ q # <<>>
  BY <1>1 DEF MinOf, Locked
<1>3. /\ held' = [held EXCEPT ![n] = h + t]
      /\ value' = v - t
      /\ IF h + t = Weight(n)
           THEN waiters' = q /\ pc' = [pc EXCEPT ![n] = "running"]
           ELSE waiters' = Append(q, n) /\ pc' = [pc EXCEPT ![n] = "waiting"]
  BY DEF AcquireSlots
<1> HIDE DEF t
<1>4. QED
  <2>1. t \in 0..2
    BY <1>2
  <2>2. WITNESS t \in 0..2
  <2>3. QED
    BY <1>1, <1>2, <1>3

\* What Append does to a queue.
LEMMA AppendFacts ==
  ASSUME NEW q \in Seq(Nodes), NEW n \in Nodes
  PROVE  /\ Append(q, n) \in Seq(Nodes)
         /\ Len(Append(q, n)) = Len(q) + 1 /\ Len(q) \in Nat
         /\ \A i \in 1..Len(q) : Append(q, n)[i] = q[i]
         /\ Append(q, n)[Len(q) + 1] = n
OBVIOUS

-----------------------------------------------------------------------------
(***************************************************************************)
(* The invariant                                                           *)
(***************************************************************************)
\* A fresh semaphore has all its slots and nobody waits.
LEMMA InitIInv == Init => IInv
<1> SUFFICES ASSUME Init PROVE IInv
  OBVIOUS
<1> USE DEF Init
<1>1. TypeOK
  <2>1. waiters \in Seq(Nodes) /\ Len(waiters) = 0 /\ woken \in 0..Len(waiters)
    OBVIOUS
  <2>2. heavy \subseteq Nodes /\ value \in Nat /\ returned \in BOOLEAN
    BY SchedulerAssumption
  <2>3. /\ held \in [Nodes -> 0..2]
        /\ pc \in [Nodes -> {"created", "waiting", "running", "done"}]
        /\ outcome \in [Nodes -> Outcomes \cup {"none"}]
    OBVIOUS
  <2>4. QED
    BY <2>1, <2>2, <2>3 DEF TypeOK
<1>2. Holding(1) = {} /\ Holding(2) = {}
  BY DEF Holding
<1>3. Cardinality(Holding(1)) = 0 /\ Cardinality(Holding(2)) = 0
  BY <1>2, FS_EmptySet, Zenon
<1>4. QED
  BY <1>1, <1>3, SchedulerAssumption
  DEF HeldSlots, IInv, SlotConservation, NoLostWakeup, HeldByPc, QueueIsWaiting

\* A task that acquires (its first step, or a resumption with the slot it
\* was handed) keeps the slots conserved and the tasks' bookkeeping right.
LEMMA StartPreserves ==
  ASSUME IInv, NEW n \in Nodes, Start(n)
  PROVE  IInv'
<1> USE DEF IInv
<1>1. held[n] = 0 /\ Weight(n) \in 1..2 /\ waiters \in Seq(Nodes) /\ value \in Nat
  BY DEF Start, HeldByPc, TypeOK, Weight
<1>2. PICK t \in 0..2 :
           /\ t <= value /\ 0 + t <= Weight(n)
           /\ value' = value - t /\ value' \in Nat
           /\ held' = [held EXCEPT ![n] = 0 + t]
           /\ \/ /\ 0 + t = Weight(n)
                 /\ waiters' = waiters
                 /\ pc' = [pc EXCEPT ![n] = "running"]
              \/ /\ 0 + t < Weight(n)
                 /\ waiters' = Append(waiters, n)
                 /\ pc' = [pc EXCEPT ![n] = "waiting"]
                 /\ value' = 0 \/ waiters # <<>>
  BY <1>1, AcquireFacts DEF Start
<1>3. UNCHANGED <<heavy, woken, outcome, returned>>
  BY DEF Start
<1>4. \A i \in 1..Len(waiters) : waiters[i] # n
  BY DEF Start, QueueIsWaiting
<1>5. TypeOK'
  <2>1. waiters' \in Seq(Nodes) /\ Len(waiters') >= Len(waiters)
    BY <1>1, <1>2
  <2>2. woken' \in 0..Len(waiters')
    BY <2>1, <1>1, <1>3 DEF TypeOK
  <2>3. held' \in [Nodes -> 0..2]
    BY <1>2 DEF TypeOK
  <2>4. QED
    BY <2>1, <2>2, <2>3, <1>2, <1>3 DEF TypeOK
<1>6. HeldSlots \in Nat /\ HeldSlots' = HeldSlots + t
  <2>1. held' = [held EXCEPT ![n] = t]
    BY <1>2
  <2>2. HeldSlots \in Nat /\ HeldSlots' = HeldSlots - held[n] + t
    BY <2>1, HeldSlotsChange, Zenon
  <2>3. QED
    BY <2>2, <1>1
<1>7. SlotConservation'
  BY <1>2, <1>3, <1>6, SchedulerAssumption DEF SlotConservation, TypeOK
<1>8. NoLostWakeup'
  BY <1>1, <1>2, <1>3 DEF NoLostWakeup, TypeOK
<1>9. HeldByPc'
  BY <1>1, <1>2, <1>3 DEF HeldByPc, TypeOK, Weight
<1>10. QueueIsWaiting'
  <2>1. \A i \in 1..Len(waiters) : waiters[i] \in Nodes /\ pc[waiters[i]] = "waiting"
    BY <1>1 DEF QueueIsWaiting
  <2>2. CASE waiters' = waiters /\ pc' = [pc EXCEPT ![n] = "running"]
    BY <2>1, <2>2, <1>4 DEF QueueIsWaiting, TypeOK
  <2>3. CASE waiters' = Append(waiters, n) /\ pc' = [pc EXCEPT ![n] = "waiting"]
    BY <2>1, <2>3, <1>1, <1>4, AppendFacts DEF QueueIsWaiting, TypeOK
  <2>4. QED
    BY <2>2, <2>3, <1>2
<1>12. QED
  BY <1>5, <1>7, <1>8, <1>9, <1>10

\* A woken task that takes its slot and wakes k others keeps the invariant.
LEMMA ResumePreserves ==
  ASSUME IInv, Resume
  PROVE  IInv'
<1> USE DEF IInv
<1> DEFINE n == Head(waiters)  q == Tail(waiters)
<1>1. /\ woken > 0 /\ woken \in Nat /\ value \in Nat
      /\ waiters \in Seq(Nodes) /\ Len(waiters) > 0 /\ woken <= Len(waiters)
  BY DEF Resume, TypeOK
<1>2. /\ n \in Nodes /\ q \in Seq(Nodes) /\ Len(q) = Len(waiters) - 1
      /\ n = waiters[1]
      /\ \A i \in 1..Len(q) : q[i] = waiters[i + 1]
  BY <1>1
<1>3. pc[n] = "waiting"
  BY <1>1, <1>2 DEF QueueIsWaiting
<1>4. Weight(n) \in 1..2 /\ held[n] \in 0..1 /\ held[n] + 1 <= Weight(n)
  BY <1>2, <1>3 DEF HeldByPc, TypeOK, Weight
<1>5. PICK k \in FurtherWakes :
        /\ woken' = woken - 1 + k
        /\ AcquireSlots(n, held[n] + 1, value - k, q)
  BY DEF Resume
<1>6. /\ k \in Nat /\ k <= value /\ k <= Len(waiters) - woken
      /\ k = 0 => value = 0 \/ Len(waiters) = woken
  BY <1>1 DEF FurtherWakes, MinOf
<1>7. value - k \in Nat /\ held[n] + 1 \in 0..2
  BY <1>1, <1>4, <1>6
<1> HIDE DEF n, q
<1>8. PICK t \in 0..2 :
           /\ t <= value - k /\ held[n] + 1 + t <= Weight(n)
           /\ value' = value - k - t /\ value' \in Nat
           /\ held' = [held EXCEPT ![n] = held[n] + 1 + t]
           /\ \/ /\ held[n] + 1 + t = Weight(n)
                 /\ waiters' = q
                 /\ pc' = [pc EXCEPT ![n] = "running"]
              \/ /\ held[n] + 1 + t < Weight(n)
                 /\ waiters' = Append(q, n)
                 /\ pc' = [pc EXCEPT ![n] = "waiting"]
                 /\ value' = 0 \/ q # <<>>
  BY <1>2, <1>4, <1>5, <1>7, AcquireFacts
<1>9. UNCHANGED <<heavy, outcome, returned>>
  BY DEF Resume
<1>10. \A i \in 1..Len(q) : q[i] # n
  BY <1>1, <1>2 DEF QueueIsWaiting
<1>11. TypeOK'
  <2>1. held[n] + 1 + t \in 0..2
    BY <1>4, <1>8
  <2>2. held' \in [Nodes -> 0..2]
    BY <2>1, <1>8 DEF TypeOK
  <2>3. waiters' \in Seq(Nodes) /\ Len(waiters') >= Len(q)
    BY <1>2, <1>8
  <2>4. woken' \in 0..Len(waiters')
    BY <2>3, <1>1, <1>2, <1>5, <1>6
  <2>5. QED
    BY <2>2, <2>3, <2>4, <1>2, <1>8, <1>9 DEF TypeOK
<1>12. HeldSlots \in Nat /\ HeldSlots' = HeldSlots + 1 + t
  <2>1. held[n] + 1 + t \in 0..2
    BY <1>4, <1>8
  <2>2. /\ HeldSlots \in Nat
        /\ HeldSlots' = HeldSlots - held[n] + (held[n] + 1 + t)
    BY <2>1, <1>2, <1>8, HeldSlotsChange, Zenon
  <2>3. QED
    BY <2>2, <1>4
<1>13. SlotConservation'
  BY <1>1, <1>5, <1>6, <1>8, <1>12, SchedulerAssumption DEF SlotConservation
<1>14. NoLostWakeup'
  <2>1. SUFFICES ASSUME value' > 0, woken' < Len(waiters')
                 PROVE  woken' > 0
    BY DEF NoLostWakeup
  <2>2. CASE k = 0
    <3>1. value > 0 /\ Len(waiters) = woken
      BY <2>1, <2>2, <1>1, <1>6, <1>8
    <3>2. woken' = Len(q)
      BY <3>1, <2>2, <1>1, <1>2, <1>5
    <3>3. q # <<>>
      BY <3>2, <2>1, <1>8, <1>2
    <3>4. QED
      BY <3>2, <3>3, <1>2
  <2>3. CASE k > 0
    BY <2>3, <1>1, <1>5, <1>6
  <2>4. QED
    BY <2>2, <2>3, <1>6
<1>15. HeldByPc'
  BY <1>2, <1>4, <1>8, <1>9 DEF HeldByPc, TypeOK, Weight
<1>16. QueueIsWaiting'
  <2>1. \A i \in 1..Len(q) : pc[q[i]] = "waiting" /\ q[i] # n /\ q[i] \in Nodes
    BY <1>1, <1>2, <1>10 DEF QueueIsWaiting
  <2>2. \A i, j \in 1..Len(q) : q[i] = q[j] => i = j
    <3>1. SUFFICES ASSUME NEW i \in 1..Len(q), NEW j \in 1..Len(q), q[i] = q[j]
                   PROVE  i = j
      OBVIOUS
    <3>2. i + 1 \in 1..Len(waiters) /\ j + 1 \in 1..Len(waiters)
      BY <1>1, <1>2
    <3>3. waiters[i + 1] = waiters[j + 1]
      BY <3>1, <1>2
    <3>4. i + 1 = j + 1
      BY <3>2, <3>3 DEF QueueIsWaiting
    <3>5. QED
      BY <3>4
  <2>3. CASE waiters' = q /\ pc' = [pc EXCEPT ![n] = "running"]
    BY <2>1, <2>2, <2>3, <1>2 DEF QueueIsWaiting, TypeOK
  <2>4. CASE waiters' = Append(q, n) /\ pc' = [pc EXCEPT ![n] = "waiting"]
    <3>1. /\ Len(waiters') = Len(q) + 1 /\ Len(q) \in Nat
          /\ \A i \in 1..Len(q) : waiters'[i] = q[i]
          /\ waiters'[Len(q) + 1] = n
      BY <2>4, <1>2, AppendFacts
    <3>2. \A i \in 1..Len(waiters') : i \in 1..Len(q) \/ i = Len(q) + 1
      BY <3>1
    <3>3. \A i \in 1..Len(waiters') : pc'[waiters'[i]] = "waiting"
      BY <3>1, <3>2, <2>1, <2>4, <1>2 DEF TypeOK
    <3>4. \A i, j \in 1..Len(waiters') : waiters'[i] = waiters'[j] => i = j
      BY <3>1, <3>2, <2>1, <2>2
    <3>5. QED
      BY <3>3, <3>4 DEF QueueIsWaiting
  <2>5. QED
    BY <2>3, <2>4, <1>8
<1>18. QED
  BY <1>11, <1>13, <1>14, <1>15, <1>16

\* Leaving the WeightedSemaphore hands the slots to waiters or frees them.
LEMMA FinishPreserves ==
  ASSUME IInv, NEW n \in Nodes, NEW o \in Outcomes, Finish(n, o)
  PROVE  IInv'
<1> USE DEF IInv
<1> DEFINE w == Weight(n)  g == MinOf(w, Len(waiters) - woken)
<1>1. /\ pc[n] = "running" /\ held[n] = w /\ w \in 1..2
      /\ value \in Nat /\ woken \in Nat /\ waiters \in Seq(Nodes)
      /\ Len(waiters) \in Nat /\ woken <= Len(waiters)
  BY DEF Finish, HeldByPc, TypeOK, Weight
<1>2. /\ g \in Nat /\ g <= w /\ g <= Len(waiters) - woken
      /\ g = w \/ g = Len(waiters) - woken
  BY <1>1 DEF MinOf
<1>3. /\ value' = value + w - g
      /\ woken' = woken + g
      /\ held' = [held EXCEPT ![n] = 0]
      /\ pc' = [pc EXCEPT ![n] = "done"]
      /\ outcome' = [outcome EXCEPT ![n] = o]
      /\ UNCHANGED <<waiters, heavy, returned>>
  BY DEF Finish, ReleaseSlots
<1> HIDE DEF w, g
<1>4. TypeOK'
  <2>1. woken' \in 0..Len(waiters') /\ value' \in Nat
    BY <1>1, <1>2, <1>3
  <2>2. held' \in [Nodes -> 0..2]
    BY <1>3 DEF TypeOK
  <2>3. outcome' \in [Nodes -> Outcomes \cup {"none"}]
    BY <1>3 DEF TypeOK
  <2>4. QED
    BY <2>1, <2>2, <2>3, <1>3 DEF TypeOK
<1>5. HeldSlots \in Nat /\ HeldSlots' \in Nat /\ HeldSlots' = HeldSlots - w
  <2>1. 0 \in 0..2
    OBVIOUS
  <2>2. /\ HeldSlots \in Nat /\ HeldSlots' \in Nat
        /\ HeldSlots' = HeldSlots - held[n] + 0
    BY <2>1, <1>3, HeldSlotsChange, Zenon
  <2>3. QED
    BY <2>2, <1>1
<1>6. SlotConservation'
  BY <1>1, <1>2, <1>3, <1>5, SchedulerAssumption DEF SlotConservation
<1>7. NoLostWakeup'
  BY <1>1, <1>2, <1>3 DEF NoLostWakeup
<1>8. HeldByPc'
  BY <1>1, <1>3 DEF HeldByPc, TypeOK, Weight
<1>9. QueueIsWaiting'
  BY <1>1, <1>3 DEF QueueIsWaiting, TypeOK
<1>11. QED
  BY <1>4, <1>6, <1>7, <1>8, <1>9

\* Every step of the event loop, and stuttering, preserves the invariant.
LEMMA NextIInv == IInv /\ [Next]_vars => IInv'
<1> SUFFICES ASSUME IInv, [Next]_vars PROVE IInv'
  OBVIOUS
<1>1. ASSUME NEW n \in Nodes, Start(n) PROVE IInv'
  BY <1>1, StartPreserves
<1>2. CASE Resume
  BY <1>2, ResumePreserves
<1>3. ASSUME NEW n \in Nodes, NEW o \in Outcomes, Finish(n, o) PROVE IInv'
  BY <1>3, FinishPreserves
<1>4. ASSUME UNCHANGED <<heavy, value, waiters, woken, held, pc, outcome>>,
             returned' \in BOOLEAN
      PROVE  IInv'
  BY <1>4 DEF IInv, TypeOK, SlotConservation, HeldSlots, Holding, NoLostWakeup,
              HeldByPc, Weight, QueueIsWaiting
<1>5. CASE Gather
  BY <1>4, <1>5 DEF Gather, semaphore
<1>6. CASE UNCHANGED vars
  BY <1>4, <1>6 DEF vars, IInv, TypeOK
<1>7. QED
  BY <1>1, <1>2, <1>3, <1>5, <1>6 DEF Next, Returned

\* The three parts together: the inductive invariant holds in every state.
LEMMA Invariant == Spec => []IInv
BY InitIInv, NextIInv, PTL DEF Spec

-----------------------------------------------------------------------------
(***************************************************************************)
(* The theorems                                                            *)
(***************************************************************************)
\* Type correctness of the scheduler's state.
THEOREM TypeCorrect == Spec => []TypeOK
<1>1. IInv => TypeOK
  BY DEF IInv
<1>2. QED
  BY <1>1, Invariant, PTL

\* No slot of the semaphore is lost or invented by any interleaving.
THEOREM SlotsConserved == Spec => []SlotConservation
<1>1. IInv => SlotConservation
  BY DEF IInv
<1>2. QED
  BY <1>1, Invariant, PTL

\* No wake-up is lost: a free slot always has a woken task that passes it on.
THEOREM WakeupsNotLost == Spec => []NoLostWakeup
<1>1. IInv => NoLostWakeup
  BY DEF IInv
<1>2. QED
  BY <1>1, Invariant, PTL

\* A level with fewer LLM nodes than max_parallel never wedges: if everyone
\* waited, the tasks would hold at most one slot each and only the LLM ones
\* any, so a slot would be free and somebody woken.
LEMMA IInvNoWedge == IInv => NoWedge
<1> SUFFICES ASSUME IInv, FewerHeavyThanSlots, Wedged PROVE FALSE
  BY DEF NoWedge
<1> USE DEF IInv
<1>1. /\ heavy \in SUBSET Nodes /\ value \in Nat /\ woken = 0
      /\ waiters \in Seq(Nodes) /\ Len(waiters) > 0
  BY DEF TypeOK, Wedged
<1>2. Holding(2) = {}
  BY DEF Holding, Wedged, HeldByPc, Weight, TypeOK
<1>3. Holding(1) \subseteq heavy
  BY DEF Holding, Wedged, HeldByPc, Weight, TypeOK
<1>4. /\ IsFiniteSet(heavy) /\ Cardinality(heavy) \in Nat
  BY <1>1, NodesFinite
<1>5. Cardinality(Holding(1)) <= Cardinality(heavy) /\ Cardinality(Holding(1)) \in Nat
  BY <1>3, <1>4, FS_Subset, FS_CardinalityType
<1>6. Cardinality(Holding(2)) = 0
  BY <1>2, FS_EmptySet, Zenon
<1>7. value > 0
  BY <1>1, <1>4, <1>5, <1>6, SchedulerAssumption
  DEF SlotConservation, HeldSlots, FewerHeavyThanSlots
<1>8. QED
  BY <1>1, <1>7 DEF NoLostWakeup

\* A level with fewer LLM nodes than max_parallel never wedges.
THEOREM NeverWedged == Spec => []NoWedge
BY IInvNoWedge, Invariant, PTL

-----------------------------------------------------------------------------
(***************************************************************************)
(* Refinement of SlotPool                                                  *)
(***************************************************************************)
\* Running nodes own all their slots, so their load fits max_parallel.
LEMMA LoadWithinMax == IInv => Pool!Load(Running) <= MaxParallel
<1> SUFFICES ASSUME IInv PROVE Pool!Load(Running) <= MaxParallel
  OBVIOUS
<1> USE DEF IInv
<1>1. Running \in SUBSET Nodes /\ Running \cap heavy \in SUBSET Nodes
      /\ Holding(1) \in SUBSET Nodes /\ Holding(2) \in SUBSET Nodes
  BY DEF Running, Holding
<1>2. Running \subseteq Holding(1) /\ Running \cap heavy \subseteq Holding(2)
  BY DEF Running, Holding, HeldByPc, Weight, TypeOK
<1>3. IsFiniteSet(Holding(1)) /\ IsFiniteSet(Holding(2))
  BY <1>1, NodesFinite
<1>4. Cardinality(Running) <= Cardinality(Holding(1))
  BY <1>2, <1>3, FS_Subset
<1>5. Cardinality(Running \cap heavy) <= Cardinality(Holding(2))
  BY <1>2, <1>3, FS_Subset
<1>6. /\ Cardinality(Running) \in Nat /\ Cardinality(Running \cap heavy) \in Nat
      /\ Cardinality(Holding(1)) \in Nat /\ Cardinality(Holding(2)) \in Nat
  BY <1>1, NodesFinite
<1>7. value \in Nat /\ woken \in Nat
  BY DEF TypeOK
<1>8. value + woken + (Cardinality(Holding(1)) + Cardinality(Holding(2)))
        = MaxParallel
  BY DEF SlotConservation, HeldSlots
<1>9. Pool!Load(Running) = Cardinality(Running) + Cardinality(Running \cap heavy)
  BY Zenon DEF Pool!Load, Pool!Cardinality, Cardinality
<1>10. QED
  BY <1>4, <1>5, <1>6, <1>7, <1>8, <1>9, SchedulerAssumption

\* Nobody runs before the first task starts: the pool is empty.
LEMMA InitRefines == Init => Pool!PoolInit
BY DEF Init, Pool!PoolInit, Running, Done, Nodes

\* A task that gets its last slot enters the pool; one that queues does not.
LEMMA AcquireRefines ==
  ASSUME IInv, IInv', NEW n \in Nodes, pc[n] \in {"created", "waiting"},
         UNCHANGED heavy,
         \/ pc' = [pc EXCEPT ![n] = "running"]
         \/ pc' = [pc EXCEPT ![n] = "waiting"]
  PROVE  [Pool!PoolNext]_(Pool!poolVars)
<1>1. pc \in [Nodes -> {"created", "waiting", "running", "done"}]
  BY DEF IInv, TypeOK
<1>2. CASE pc' = [pc EXCEPT ![n] = "running"]
  <2>1. Running' = Running \cup {n} /\ Done' = Done /\ n \notin Running \cup Done
    BY <1>1, <1>2 DEF Running, Done
  <2>2. (Pool!Load(Running) <= MaxParallel)'
    BY LoadWithinMax, PTL
  <2>3. Pool!Load(Running \cup {n}) <= MaxParallel
    BY <2>1, <2>2, Zenon DEF Pool!Load
  <2>4. Pool!Enter(n)
    BY <2>1, <2>3 DEF Pool!Enter
  <2>5. QED
    BY <2>4 DEF Pool!PoolNext, Nodes
<1>3. CASE pc' = [pc EXCEPT ![n] = "waiting"]
  <2>1. Running' = Running /\ Done' = Done
    BY <1>1, <1>3 DEF Running, Done
  <2>2. QED
    BY <2>1 DEF Pool!poolVars
<1>4. QED
  BY <1>2, <1>3

\* Every step of the scheduler is a step of the pool or leaves it alone.
LEMMA NextRefines ==
  IInv /\ IInv' /\ [Next]_vars => [Pool!PoolNext]_(Pool!poolVars)
<1> SUFFICES ASSUME IInv, IInv', [Next]_vars
             PROVE  [Pool!PoolNext]_(Pool!poolVars)
  OBVIOUS
<1>1. pc \in [Nodes -> {"created", "waiting", "running", "done"}]
  BY DEF IInv, TypeOK
<1>2. ASSUME NEW n \in Nodes, Start(n)
      PROVE  [Pool!PoolNext]_(Pool!poolVars)
  <2>1. \/ pc' = [pc EXCEPT ![n] = "running"]
        \/ pc' = [pc EXCEPT ![n] = "waiting"]
    BY <1>2 DEF Start, AcquireSlots
  <2>2. QED
    BY <2>1, <1>2, AcquireRefines DEF Start
<1>3. CASE Resume
  <2>1. Head(waiters) \in Nodes /\ pc[Head(waiters)] = "waiting"
    BY <1>3 DEF Resume, IInv, TypeOK, QueueIsWaiting
  <2>2. \/ pc' = [pc EXCEPT ![Head(waiters)] = "running"]
        \/ pc' = [pc EXCEPT ![Head(waiters)] = "waiting"]
    BY <1>3 DEF Resume, AcquireSlots
  <2>3. QED
    BY <2>1, <2>2, <1>3, AcquireRefines DEF Resume
<1>4. ASSUME NEW n \in Nodes, NEW o \in Outcomes, Finish(n, o)
      PROVE  [Pool!PoolNext]_(Pool!poolVars)
  <2>1. Running' = Running \ {n} /\ Done' = Done \cup {n} /\ n \in Running
    BY <1>1, <1>4 DEF Finish, Running, Done
  <2>2. Pool!Leave(n)
    BY <2>1, <1>4 DEF Pool!Leave, Finish
  <2>3. QED
    BY <2>2 DEF Pool!PoolNext, Nodes
<1>5. ASSUME UNCHANGED <<heavy, pc>>
      PROVE  [Pool!PoolNext]_(Pool!poolVars)
  BY <1>5 DEF Pool!poolVars, Running, Done
<1>6. QED
  BY <1>2, <1>3, <1>4, <1>5 DEF Next, Gather, Returned, vars

\* One-at-a-time acquisition implements admission with all slots at once.
THEOREM ImplementsSlotPool == Spec => AdmitsAtomically
BY InitRefines, NextRefines, Invariant, PTL DEF Spec, AdmitsAtomically, Pool!PoolSpec
=============================================================================
