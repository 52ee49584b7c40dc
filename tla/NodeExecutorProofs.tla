------------------------- MODULE NodeExecutorProofs -------------------------
(***************************************************************************)
(* Proofs about NodeExecutor for any set of nodes, any retry limits and    *)
(* any budget.                                                             *)
(***************************************************************************)
EXTENDS NodeExecutor, FiniteSetTheorems, TLAPS

\* Each iteration the outer loop gave up cost at most MaxRetries[n] calls;
\* the current one has made attempt[n] calls, or one more once it called.
LoopInv ==
  \A n \in Nodes :
    /\ attempt[n] <= MaxRetries[n]
    /\ outer[n] <= MaxRetries[n]
    /\ stage[n] \in {"start", "idle"} =>
         calls[n] <= outer[n] * MaxRetries[n] + attempt[n]
    /\ calls[n] <= outer[n] * MaxRetries[n] + attempt[n] + 1

\* A node has no verdict before it is done.
Undecided == \A n \in Nodes : stage[n] # "done" => verdict[n] = "none"

\* The inductive invariant: every success has been charged to the budget.
IInv ==
  /\ TypeOK
  /\ LoopInv
  /\ Undecided
  /\ Cardinality(Succeeded) <= registered
  /\ BudgetBoundsSuccesses

-----------------------------------------------------------------------------
\* The products the call bound needs.
LEMMA Products ==
  /\ \A a, r \in Nat : (a + 1) * r = a * r + r /\ a * r \in Nat
  /\ \A a, r \in Nat : a <= r => a * r <= r * r
<1>1. \A a, r \in Nat : (a + 1) * r = a * r + r /\ a * r \in Nat
  OBVIOUS
<1>2. \A a, r \in Nat : a <= r => a * r <= r * r
  OBVIOUS
<1>3. QED
  BY <1>1, <1>2
-----------------------------------------------------------------------------
(***************************************************************************)
(* The two loops                                                           *)
(***************************************************************************)
\* LoopInv survives a step that only touches node n, if it holds of n after.
LEMMA LoopInvOfOne ==
  ASSUME TypeOK, LoopInv, NEW n \in Nodes,
         \A m \in Nodes \ {n} : /\ stage'[m] = stage[m]
                                /\ outer'[m] = outer[m]
                                /\ attempt'[m] = attempt[m]
                                /\ calls'[m] = calls[m],
         /\ attempt'[n] <= MaxRetries[n]
         /\ outer'[n] <= MaxRetries[n]
         /\ stage'[n] \in {"start", "idle"} =>
              calls'[n] <= outer'[n] * MaxRetries[n] + attempt'[n]
         /\ calls'[n] <= outer'[n] * MaxRetries[n] + attempt'[n] + 1
  PROVE  LoopInv'
<1> SUFFICES ASSUME NEW m \in Nodes
             PROVE  /\ attempt'[m] <= MaxRetries[m]
                    /\ outer'[m] <= MaxRetries[m]
                    /\ stage'[m] \in {"start", "idle"} =>
                         calls'[m] <= outer'[m] * MaxRetries[m] + attempt'[m]
                    /\ calls'[m] <= outer'[m] * MaxRetries[m] + attempt'[m] + 1
  BY DEF LoopInv
<1>1. CASE m = n
  BY <1>1
<1>2. CASE m # n
  <2>1. /\ stage'[m] = stage[m] /\ outer'[m] = outer[m]
        /\ attempt'[m] = attempt[m] /\ calls'[m] = calls[m]
    BY <1>2
  <2>2. /\ attempt[m] <= MaxRetries[m]
        /\ outer[m] <= MaxRetries[m]
        /\ stage[m] \in {"start", "idle"} =>
             calls[m] <= outer[m] * MaxRetries[m] + attempt[m]
        /\ calls[m] <= outer[m] * MaxRetries[m] + attempt[m] + 1
    BY DEF LoopInv
  <2>3. QED
    BY <2>1, <2>2, Zenon
<1>3. QED
  BY <1>1, <1>2

\* What holds of one node, with the numbers typed.
LEMMA LoopInvAt ==
  ASSUME TypeOK, LoopInv, NEW n \in Nodes
  PROVE  /\ MaxRetries[n] \in Nat /\ outer[n] \in Nat /\ attempt[n] \in Nat
         /\ calls[n] \in Nat /\ outer[n] * MaxRetries[n] \in Nat
         /\ attempt[n] <= MaxRetries[n]
         /\ outer[n] <= MaxRetries[n]
         /\ stage[n] \in {"start", "idle"} =>
              calls[n] <= outer[n] * MaxRetries[n] + attempt[n]
         /\ calls[n] <= outer[n] * MaxRetries[n] + attempt[n] + 1
<1>1. /\ MaxRetries[n] \in Nat /\ outer[n] \in Nat /\ attempt[n] \in Nat
      /\ calls[n] \in Nat
  BY ExecutorAssumption DEF TypeOK
<1>2. outer[n] * MaxRetries[n] \in Nat
  BY <1>1, Products
<1>3. QED
  BY <1>1, <1>2 DEF LoopInv

\* An exception after a successful inner loop: giving up changes no counter,
\* restarting trades at most MaxRetries[n] calls for one outer iteration.
LEMMA OuterExceptLoop ==
  ASSUME TypeOK, LoopInv, NEW n \in Nodes, stage[n] = "calling",
         OuterExcept(n), UNCHANGED calls
  PROVE  LoopInv'
<1>1. /\ MaxRetries[n] \in Nat /\ outer[n] \in Nat /\ attempt[n] \in Nat
      /\ calls[n] \in Nat /\ outer[n] * MaxRetries[n] \in Nat
      /\ attempt[n] <= MaxRetries[n]
      /\ outer[n] <= MaxRetries[n]
      /\ calls[n] <= outer[n] * MaxRetries[n] + attempt[n] + 1
  BY LoopInvAt
<1>2. CASE attempt[n] >= MaxRetries[n] \/ outer[n] = MaxRetries[n]
  <2>1. /\ UNCHANGED <<outer, attempt, calls>>
        /\ stage' = [stage EXCEPT ![n] = "done"]
    BY <1>2 DEF OuterExcept, Fail, End
  <2>2. stage'[n] = "done" /\ \A m \in Nodes \ {n} : stage'[m] = stage[m]
    BY <2>1 DEF TypeOK
  <2>3. /\ attempt'[n] <= MaxRetries[n]
        /\ outer'[n] <= MaxRetries[n]
        /\ stage'[n] \in {"start", "idle"} =>
              calls'[n] <= outer'[n] * MaxRetries[n] + attempt'[n]
        /\ calls'[n] <= outer'[n] * MaxRetries[n] + attempt'[n] + 1
    BY <1>1, <2>1, <2>2
  <2>4. QED
    BY <2>1, <2>2, <2>3, LoopInvOfOne
<1>3. CASE ~(attempt[n] >= MaxRetries[n] \/ outer[n] = MaxRetries[n])
  <2>1. /\ outer' = [outer EXCEPT ![n] = @ + 1]
        /\ attempt' = [attempt EXCEPT ![n] = 0]
        /\ stage' = [stage EXCEPT ![n] = "idle"]
    BY <1>3 DEF OuterExcept
  <2>2. /\ outer'[n] = outer[n] + 1 /\ attempt'[n] = 0 /\ calls'[n] = calls[n]
        /\ \A m \in Nodes \ {n} : /\ stage'[m] = stage[m]
                                  /\ outer'[m] = outer[m]
                                  /\ attempt'[m] = attempt[m]
                                  /\ calls'[m] = calls[m]
    BY <2>1 DEF TypeOK
  <2>3. (outer[n] + 1) * MaxRetries[n] = outer[n] * MaxRetries[n] + MaxRetries[n]
    BY <1>1, Products
  <2>4. calls[n] <= (outer[n] + 1) * MaxRetries[n] + 0
    BY <1>1, <1>3, <2>3
  <2>5. calls'[n] <= outer'[n] * MaxRetries[n] + attempt'[n]
    BY <2>2, <2>4, Zenon
  <2>6. calls'[n] <= outer'[n] * MaxRetries[n] + attempt'[n] + 1
    <3>1. calls[n] <= (outer[n] + 1) * MaxRetries[n] + 0 + 1
      BY <1>1, <2>3, <2>4
    <3>2. QED
      BY <3>1, <2>2, Zenon
  <2>7. attempt'[n] <= MaxRetries[n] /\ outer'[n] <= MaxRetries[n]
    <3>1. /\ MaxRetries[n] \in Nat /\ outer[n] \in Nat
          /\ outer[n] <= MaxRetries[n] /\ outer[n] # MaxRetries[n]
      BY <1>1, <1>3
    <3>2. 0 <= MaxRetries[n] /\ outer[n] + 1 <= MaxRetries[n]
      BY <3>1
    <3>3. QED
      BY <2>2, <3>2, Zenon
  <2>8. \A m \in Nodes \ {n} : /\ stage'[m] = stage[m]
                                /\ outer'[m] = outer[m]
                                /\ attempt'[m] = attempt[m]
                                /\ calls'[m] = calls[m]
    BY <2>2, Zenon
  <2>9. QED
    BY <2>5, <2>6, <2>7, <2>8, LoopInvOfOne, Zenon
<1>4. QED
  BY <1>2, <1>3

\* Every step of execute_node keeps the loop counters in relation.
LEMMA StepLoop ==
  ASSUME TypeOK, LoopInv, NEW n \in Nodes, Step(n)
  PROVE  LoopInv'
<1>1. /\ MaxRetries[n] \in Nat /\ outer[n] \in Nat /\ attempt[n] \in Nat
      /\ calls[n] \in Nat /\ outer[n] * MaxRetries[n] \in Nat
      /\ attempt[n] <= MaxRetries[n]
      /\ outer[n] <= MaxRetries[n]
      /\ stage[n] \in {"start", "idle"} =>
           calls[n] <= outer[n] * MaxRetries[n] + attempt[n]
      /\ calls[n] <= outer[n] * MaxRetries[n] + attempt[n] + 1
  BY LoopInvAt
<1> DEFINE LoopOk == /\ attempt'[n] <= MaxRetries[n]
                     /\ outer'[n] <= MaxRetries[n]
                     /\ stage'[n] \in {"start", "idle"} =>
                          calls'[n] <= outer'[n] * MaxRetries[n] + attempt'[n]
                     /\ calls'[n] <= outer'[n] * MaxRetries[n] + attempt'[n] + 1
           OthersSame == \A m \in Nodes \ {n} : /\ stage'[m] = stage[m]
                                                /\ outer'[m] = outer[m]
                                                /\ attempt'[m] = attempt[m]
                                                /\ calls'[m] = calls[m]
<1>2. LoopOk /\ OthersSame => LoopInv'
  BY LoopInvOfOne
<1>3. CASE Begin(n)
  <2>1. OthersSame
    BY <1>3 DEF Begin, Fail, End, TypeOK
  <2>2. LoopOk
    BY <1>1, <1>3 DEF Begin
  <2>3. QED
    BY <1>2, <2>1, <2>2
<1>4. CASE Invoke(n)
  <2>1. OthersSame /\ stage'[n] = "calling" /\ calls'[n] = calls[n] + 1
        /\ UNCHANGED <<outer, attempt>>
    BY <1>4 DEF Invoke, TypeOK
  <2>2. LoopOk
    BY <1>1, <1>4, <2>1 DEF Invoke
  <2>3. QED
    BY <1>2, <2>1, <2>2
<1>5. CASE ExecutorRaises(n)
  <2>1. OthersSame /\ UNCHANGED <<outer, calls>>
    BY <1>5 DEF ExecutorRaises, Fail, End, TypeOK
  <2>2. CASE attempt[n] = MaxRetries[n]
    <3>1. UNCHANGED attempt /\ stage'[n] = "done"
      BY <1>5, <2>2 DEF ExecutorRaises, Fail, End, TypeOK
    <3>2. QED
      BY <1>1, <1>2, <2>1, <3>1
  <2>3. CASE attempt[n] # MaxRetries[n]
    <3>1. attempt'[n] = attempt[n] + 1
      BY <1>5, <2>3 DEF ExecutorRaises, TypeOK
    <3>2. LoopOk
      BY <1>1, <2>1, <2>3, <3>1
    <3>3. QED
      BY <1>2, <2>1, <3>2
  <2>4. QED
    BY <2>2, <2>3
<1>6. ASSUME stage[n] = "calling", UNCHANGED calls, OuterExcept(n)
      PROVE  LoopInv'
  BY <1>6, OuterExceptLoop
<1>7. ASSUME NEW v, stage[n] = "calling", UNCHANGED <<outer, attempt, calls>>,
             End(n, v)
      PROVE  LoopInv'
  <2>1. OthersSame /\ stage'[n] = "done"
    BY <1>7 DEF End, TypeOK
  <2>2. QED
    BY <1>1, <1>2, <1>7, <2>1
<1>8. CASE ProcessingRaises(n)
  BY <1>6, <1>8 DEF ProcessingRaises
<1>9. CASE ReplyCharged(n)
  BY <1>6, <1>7, <1>9 DEF ReplyCharged
<1>10. CASE ReplyEmpty(n)
  BY <1>7, <1>10 DEF ReplyEmpty
<1>11. QED
  BY <1>3, <1>4, <1>5, <1>8, <1>9, <1>10 DEF Step
-----------------------------------------------------------------------------
(***************************************************************************)
(* Types, verdicts and the budget                                          *)
(***************************************************************************)
\* Every step keeps the types.
LEMMA StepType ==
  ASSUME TypeOK, NEW n \in Nodes, Step(n)
  PROVE  TypeOK'
<1>1. \A v \in Verdicts \ {"none"} :
        End(n, v) => /\ stage' \in [Nodes -> {"start", "idle", "calling", "done"}]
                     /\ verdict' \in [Nodes -> Verdicts]
  BY DEF End, TypeOK
<1>2. \A v \in Verdicts \ {"none"} :
        Fail(n, v) => /\ stage' \in [Nodes -> {"start", "idle", "calling", "done"}]
                      /\ verdict' \in [Nodes -> Verdicts]
  BY <1>1 DEF Fail, Verdicts
<1>3. CASE Begin(n)
  BY <1>2, <1>3 DEF Begin, TypeOK, budget, Verdicts
<1>4. CASE Invoke(n)
  BY <1>4 DEF Invoke, TypeOK, budget
<1>5. CASE ExecutorRaises(n)
  BY <1>2, <1>5 DEF ExecutorRaises, TypeOK, budget, Verdicts
<1>6. OuterExcept(n) => /\ stage' \in [Nodes -> {"start", "idle", "calling", "done"}]
                        /\ verdict' \in [Nodes -> Verdicts]
                        /\ outer' \in [Nodes -> Nat]
                        /\ attempt' \in [Nodes -> Nat]
  BY <1>2 DEF OuterExcept, TypeOK, Verdicts
<1>7. CASE ProcessingRaises(n)
  BY <1>6, <1>7 DEF ProcessingRaises, TypeOK, budget
<1>8. CASE ReplyCharged(n)
  <2>1. registered' \in Nat /\ calls' \in [Nodes -> Nat]
    BY <1>8 DEF ReplyCharged, TypeOK
  <2>2. overspent' \in BOOLEAN
    BY <1>8 DEF ReplyCharged, TypeOK
  <2>3. /\ stage' \in [Nodes -> {"start", "idle", "calling", "done"}]
        /\ verdict' \in [Nodes -> Verdicts]
        /\ outer' \in [Nodes -> Nat]
        /\ attempt' \in [Nodes -> Nat]
    BY <1>1, <1>6, <1>8 DEF ReplyCharged, TypeOK, Verdicts
  <2>4. QED
    BY <2>1, <2>2, <2>3 DEF TypeOK
<1>9. CASE ReplyEmpty(n)
  BY <1>1, <1>9 DEF ReplyEmpty, TypeOK, budget, Verdicts
<1>10. QED
  BY <1>3, <1>4, <1>5, <1>7, <1>8, <1>9 DEF Step

\* A step of node n decides at most n, and decides "ok" only by charging a
\* reply that violates no budget, or any reply of an enforcer that fails open.
LEMMA StepDecides ==
  ASSUME TypeOK, Undecided, NEW n \in Nodes, Step(n)
  PROVE  /\ Undecided'
         /\ \/ Succeeded' = Succeeded /\ registered' \in {registered, registered + 1}
            \/ /\ Succeeded' = Succeeded \cup {n}
               /\ n \notin Succeeded
               /\ registered' = registered + 1
               /\ FailClosed => registered' <= MaxCalls
<1>0. TypeOK'
  BY StepType
<1>1. ASSUME NEW v \in Verdicts \ {"none"}, End(n, v), stage[n] # "done"
      PROVE  /\ Undecided'
             /\ v # "ok" => Succeeded' = Succeeded
             /\ v = "ok" => Succeeded' = Succeeded \cup {n} /\ n \notin Succeeded
  <2>1. /\ \A m \in Nodes \ {n} : verdict'[m] = verdict[m] /\ stage'[m] = stage[m]
        /\ verdict'[n] = v /\ stage'[n] = "done" /\ verdict[n] = "none"
    BY <1>1 DEF End, TypeOK, Undecided
  <2>2. QED
    BY <2>1 DEF Undecided, Succeeded
<1>2. ASSUME UNCHANGED verdict, NEW p \in {"idle", "calling"},
             stage[n] # "done", stage' = [stage EXCEPT ![n] = p]
      PROVE  Undecided' /\ Succeeded' = Succeeded
  BY <1>2 DEF Undecided, Succeeded, TypeOK
<1>3. ASSUME NEW v \in {"exhausted", "invalid"}, Fail(n, v), stage[n] # "done"
      PROVE  Undecided' /\ Succeeded' = Succeeded
  <2>1. v \in Verdicts \ {"none"} /\ "raised" \in Verdicts \ {"none"}
    BY DEF Verdicts
  <2>2. End(n, v) \/ End(n, "raised")
    BY <1>3 DEF Fail
  <2>3. QED
    BY <1>1, <1>3, <2>1, <2>2
<1>4. ASSUME OuterExcept(n), stage[n] = "calling"
      PROVE  Undecided' /\ Succeeded' = Succeeded
  BY <1>2, <1>3, <1>4 DEF OuterExcept
<1>5. CASE Begin(n)
  BY <1>2, <1>3, <1>5 DEF Begin, budget
<1>6. CASE Invoke(n)
  BY <1>2, <1>6 DEF Invoke, budget
<1>7. CASE ExecutorRaises(n)
  BY <1>2, <1>3, <1>7 DEF ExecutorRaises, budget
<1>8. CASE ProcessingRaises(n)
  BY <1>4, <1>8 DEF ProcessingRaises, budget
<1>9. CASE ReplyEmpty(n)
  <2>1. "returned" \in Verdicts \ {"none"}
    BY DEF Verdicts
  <2>2. QED
    BY <1>1, <1>9, <2>1 DEF ReplyEmpty, budget
<1>10. CASE ReplyCharged(n)
  <2>1. registered' = registered + 1 /\ stage[n] = "calling"
    BY <1>10 DEF ReplyCharged
  <2>2. CASE OuterExcept(n)
    BY <1>4, <2>1, <2>2
  <2>3. CASE ~OuterExcept(n)
    <3>1. PICK v \in {"ok", "returned"} : End(n, v)
      BY <1>10, <2>3 DEF ReplyCharged
    <3>2. FailClosed => registered' <= MaxCalls
      <4>1. ~(Violation /\ FailClosed)
        BY <1>10, <2>3 DEF ReplyCharged
      <4>2. registered' \in Nat /\ MaxCalls \in Nat
        BY <1>0, ExecutorAssumption DEF TypeOK
      <4>3. QED
        BY <4>1, <4>2 DEF Violation
    <3>3. v \in Verdicts \ {"none"}
      BY DEF Verdicts
    <3>4. QED
      BY <1>1, <2>1, <3>1, <3>2, <3>3
  <2>4. QED
    BY <2>2, <2>3
<1>11. QED
  BY <1>5, <1>6, <1>7, <1>8, <1>9, <1>10 DEF Step
\* The successes of a finite set of nodes are finite, and one more node adds
\* exactly one to their number.
LEMMA SuccessesCount ==
  ASSUME TypeOK
  PROVE  /\ IsFiniteSet(Succeeded)
         /\ Cardinality(Succeeded) \in Nat
         /\ \A n : n \notin Succeeded =>
              Cardinality(Succeeded \cup {n}) = Cardinality(Succeeded) + 1
<1>1. IsFiniteSet(Succeeded)
  <2>1. Succeeded \subseteq Nodes
    BY DEF Succeeded
  <2>2. QED
    BY <2>1, ExecutorAssumption, FS_Subset
<1>2. Cardinality(Succeeded) \in Nat
  BY <1>1, FS_CardinalityType
<1>3. \A n : n \notin Succeeded =>
        Cardinality(Succeeded \cup {n}) = Cardinality(Succeeded) + 1
  BY <1>1, FS_AddElement
<1>4. QED
  BY <1>1, <1>2, <1>3

\* Every step keeps the successes within what was charged, and what a
\* fail-closed enforcer lets through within its budget.
LEMMA StepBudget ==
  ASSUME TypeOK, Undecided, Cardinality(Succeeded) <= registered,
         BudgetBoundsSuccesses, NEW n \in Nodes, Step(n)
  PROVE  /\ Cardinality(Succeeded') <= registered'
         /\ FailClosed => Cardinality(Succeeded') <= MaxCalls
<1>1. /\ Cardinality(Succeeded) \in Nat
      /\ n \notin Succeeded =>
           Cardinality(Succeeded \cup {n}) = Cardinality(Succeeded) + 1
  BY SuccessesCount, Zenon
<1>2. registered \in Nat /\ MaxCalls \in Nat
  BY ExecutorAssumption DEF TypeOK
<1>3. CASE Succeeded' = Succeeded /\ registered' \in {registered, registered + 1}
  <2>1. Cardinality(Succeeded') = Cardinality(Succeeded)
    BY <1>3, Zenon
  <2>2. QED
    BY <1>1, <1>2, <1>3, <2>1 DEF BudgetBoundsSuccesses
<1>4. CASE /\ Succeeded' = Succeeded \cup {n}
           /\ n \notin Succeeded
           /\ registered' = registered + 1
           /\ FailClosed => registered' <= MaxCalls
  <2>1. Cardinality(Succeeded') = Cardinality(Succeeded) + 1
    BY <1>1, <1>4, Zenon
  <2>2. Cardinality(Succeeded') <= registered' /\ registered' \in Nat
    BY <1>1, <1>2, <1>4, <2>1
  <2>3. QED
    BY <1>1, <1>2, <1>4, <2>1, <2>2
<1>5. QED
  BY <1>3, <1>4, StepDecides, Zenon
-----------------------------------------------------------------------------
(***************************************************************************)
(* The theorems                                                            *)
(***************************************************************************)
\* Nothing has been called, charged or decided in the initial state.
LEMMA InitIInv == Init => IInv
<1> SUFFICES ASSUME Init PROVE IInv
  OBVIOUS
<1>1. TypeOK /\ Undecided
  BY DEF Init, TypeOK, Undecided, Verdicts
<1>2. LoopInv
  <2> SUFFICES ASSUME NEW n \in Nodes
               PROVE  /\ 0 <= MaxRetries[n]
                      /\ 0 <= 0 * MaxRetries[n] + 0
                      /\ 0 <= 0 * MaxRetries[n] + 0 + 1
    BY DEF LoopInv, Init
  <2>1. MaxRetries[n] \in Nat
    BY ExecutorAssumption
  <2>2. QED
    BY <2>1
<1>3. Cardinality(Succeeded) = 0
  <2>1. Succeeded = {}
    BY DEF Succeeded, Init
  <2>2. QED
    BY <2>1, FS_EmptySet, Zenon
<1>4. Cardinality(Succeeded) <= registered /\ BudgetBoundsSuccesses
  BY <1>3, ExecutorAssumption DEF Init, BudgetBoundsSuccesses
<1>5. QED
  BY <1>1, <1>2, <1>4 DEF IInv

\* Every step, and stuttering, preserves the inductive invariant.
LEMMA NextIInv == IInv /\ [Next]_vars => IInv'
<1> SUFFICES ASSUME IInv, [Next]_vars PROVE IInv'
  OBVIOUS
<1>1. ASSUME NEW n \in Nodes, Step(n)
      PROVE  IInv'
  <2>1. TypeOK' /\ LoopInv'
    BY <1>1, StepType, StepLoop DEF IInv
  <2>2. Undecided'
    BY <1>1, StepDecides DEF IInv
  <2>3. /\ Cardinality(Succeeded') <= registered'
        /\ FailClosed => Cardinality(Succeeded') <= MaxCalls
    BY <1>1, StepBudget DEF IInv
  <2>4. QED
    BY <2>1, <2>2, <2>3 DEF IInv, BudgetBoundsSuccesses
<1>2. CASE UNCHANGED vars
  <2>1. Succeeded' = Succeeded
    BY <1>2 DEF vars, Succeeded
  <2>2. (Cardinality(Succeeded) <= registered)' /\ BudgetBoundsSuccesses'
    <3>1. registered' = registered
      BY <1>2 DEF vars, budget
    <3>2. QED
      BY <2>1, <3>1, Zenon DEF IInv, BudgetBoundsSuccesses
  <2>3. TypeOK' /\ LoopInv' /\ Undecided'
    BY <1>2 DEF IInv, vars, budget, TypeOK, LoopInv, Undecided
  <2>4. QED
    BY <2>2, <2>3 DEF IInv
<1>3. QED
  BY <1>1, <1>2 DEF Next, AllDone

\* The inductive invariant holds throughout.
LEMMA Invariant == Spec => []IInv
  BY InitIInv, NextIInv, PTL DEF Spec

\* The loops at the worst: every outer iteration makes R further calls.
LEMMA IInvCallsBounded == IInv => CallsBounded
<1> SUFFICES ASSUME TypeOK, LoopInv, NEW n \in Nodes
             PROVE  calls[n] <= MaxRetries[n] * MaxRetries[n] + MaxRetries[n] + 1
  BY DEF IInv, CallsBounded
<1>1. /\ MaxRetries[n] \in Nat /\ outer[n] \in Nat /\ attempt[n] \in Nat
      /\ calls[n] \in Nat /\ outer[n] * MaxRetries[n] \in Nat
      /\ attempt[n] <= MaxRetries[n]
      /\ outer[n] <= MaxRetries[n]
      /\ calls[n] <= outer[n] * MaxRetries[n] + attempt[n] + 1
  BY LoopInvAt
<1>2. outer[n] * MaxRetries[n] <= MaxRetries[n] * MaxRetries[n]
  BY <1>1, Products
<1>3. MaxRetries[n] * MaxRetries[n] \in Nat
  BY <1>1, Products
<1>4. QED
  BY <1>1, <1>2, <1>3

\* The inner loop alone, while the outer one has not gone round.
LEMMA IInvWithinPolicy == IInv => InnerLoopWithinPolicy
<1> SUFFICES ASSUME TypeOK, LoopInv, NEW n \in Nodes, outer[n] = 0
             PROVE  calls[n] <= MaxRetries[n] + 1
  BY DEF IInv, InnerLoopWithinPolicy
<1>1. /\ MaxRetries[n] \in Nat /\ attempt[n] \in Nat /\ calls[n] \in Nat
      /\ attempt[n] <= MaxRetries[n]
      /\ calls[n] <= outer[n] * MaxRetries[n] + attempt[n] + 1
  BY LoopInvAt
<1>2. calls[n] <= 0 * MaxRetries[n] + attempt[n] + 1
  BY <1>1, Zenon
<1>3. QED
  BY <1>1, <1>2

\* Type correctness of execute_node's state.
THEOREM TypeCorrect == Spec => []TypeOK
<1>1. IInv => TypeOK
  BY DEF IInv
<1>2. QED
  BY <1>1, Invariant, PTL

\* For every retry limit the nested loops of execute_node invoke the
\* executor at most R*R + R + 1 times, R being max_attempts - 1: the price of
\* starting the inner loop again is bounded.
THEOREM CallsAreBounded == Spec => []CallsBounded
  BY Invariant, IInvCallsBounded, PTL

\* For every retry limit an executor whose replies never fail afterwards is
\* invoked no more often than max_attempts says.
THEOREM InnerLoopKeepsPolicy == Spec => []InnerLoopWithinPolicy
  BY Invariant, IInvWithinPolicy, PTL

\* For every number of concurrent nodes and every budget, a BudgetEnforcer
\* that fails closed lets no more nodes succeed than it has calls.
THEOREM BudgetHolds == Spec => []BudgetBoundsSuccesses
<1>1. IInv => BudgetBoundsSuccesses
  BY DEF IInv
<1>2. QED
  BY <1>1, Invariant, PTL
=============================================================================
