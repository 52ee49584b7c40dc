------------------------ MODULE WorkflowEngineProofs ------------------------
(***************************************************************************)
(* What Workflow.execute guarantees for every DAG, policy and ceiling:     *)
(* nodes run after their dependencies, HALT stops, nothing is left out     *)
(* without a reason, and success means that everything succeeded.          *)
(***************************************************************************)
EXTENDS WorkflowEngine, WellFoundedInduction, TLAPS

\* What the constructor checked and assigned; execute() never changes it.
GraphInv ==
  /\ IsLevelling(level, deps)
  /\ \A n \in Nodes : mapped[n] \subseteq deps[n]

\* Earlier levels have run, later ones have not, and the present one is where
\* the stage says.
ShapeInv ==
  /\ \A n \in Nodes : level[n] < current => outcome[n] # "none"
  /\ \A n \in Nodes : level[n] > current => outcome[n] = "none" /\ results[n] = "absent"
  /\ stage \in {"guard", "returned"} =>
       \A n \in NodesAt(current) : outcome[n] = "none" /\ results[n] = "absent"
  /\ stage = "running" =>
       pending = NodesAt(current) /\ \A n \in pending : results[n] = "absent"
  /\ stage = "collecting" =>
       /\ pending \subseteq NodesAt(current)
       /\ \A n \in NodesAt(current) : outcome[n] # "none"
       /\ \A n \in NodesAt(current) : n \in pending <=> results[n] = "absent"

\* Errors and results tell the same story, and unless a ceiling was met every
\* node of the levels behind has a result.
ResultInv ==
  /\ \A n \in Nodes : n \in failed <=> results[n] = "failed"
  /\ aborted = {} => \A n \in Nodes : level[n] < current => results[n] # "absent"

\* Under HALT execute() goes on only as long as there is no error at all.
HaltInv ==
  policy = "HALT" =>
    /\ stage \in {"guard", "running"} => failed = {}
    /\ stage = "collecting" => failed \subseteq NodesAt(current)
    /\ stage # "returned" => aborted = {}

IInv ==
  /\ TypeOK /\ GraphInv /\ ShapeInv /\ ResultInv /\ HaltInv
  /\ DependenciesFirst /\ HaltStops /\ SuccessMeansAllOk /\ NothingSkipped

\* Every nonempty set of naturals has a least element.
LEMMA LeastNatural ==
  ASSUME NEW T \in SUBSET Nat, T # {}
  PROVE  \E x \in T : \A y \in T : x <= y
<1>1. PICK x \in T : \A y \in T : ~(<<y, x>> \in OpToRel(<, Nat))
    BY NatLessThanWellFounded, WFMin
<1>2. ASSUME NEW y \in T PROVE x <= y
  <2>1. ~(y < x)
      BY <1>1 DEF OpToRel
  <2> QED
      BY <2>1
<1> QED
    BY <1>2

\* Levels have no gaps: if no node is at level k, none is above it.
LEMMA NoGaps ==
  ASSUME TypeOK, IsLevelling(level, deps), NEW k \in Nat, NodesAt(k) = {}
  PROVE  \A n \in Nodes : level[n] < k
<1> SUFFICES ASSUME NEW n \in Nodes, ~(level[n] < k) PROVE FALSE
    OBVIOUS
<1> DEFINE T == {level[m] : m \in {x \in Nodes : level[x] >= k}}
<1>0. \A m \in Nodes : level[m] \in Nat
    BY EngineAssumption DEF TypeOK, Levels
<1>1. T \in SUBSET Nat /\ T # {}
    BY <1>0
<1> HIDE DEF T
<1>2. PICK least \in T : \A y \in T : least <= y
    BY <1>1, LeastNatural
<1>3. PICK m \in Nodes : level[m] = least /\ level[m] >= k
    BY <1>2 DEF T
<1>4. level[m] > k
    BY <1>0, <1>3 DEF NodesAt
<1>5. PICK d \in deps[m] : level[m] = level[d] + 1
    BY <1>0, <1>4 DEF IsLevelling
<1>6. d \in Nodes
    BY <1>5 DEF TypeOK
<1>7. level[d] \in T
    BY <1>0, <1>4, <1>5, <1>6 DEF T
<1> QED
    BY <1>0, <1>2, <1>3, <1>5, <1>6, <1>7

\* Nothing has run in the initial state.
LEMMA InitIInv == Init => IInv
<1> SUFFICES ASSUME Init PROVE IInv
    OBVIOUS
<1> USE DEF Init
<1>1. deps \in [Nodes -> SUBSET Nodes]
    BY EngineAssumption
<1>2. TypeOK
    BY <1>1, EngineAssumption DEF TypeOK, Nodes
<1>3. \A n \in Nodes : level[n] \in Nat
    BY EngineAssumption DEF Levels
<1>4. GraphInv
    BY DEF GraphInv
<1>5. ShapeInv
    BY <1>3 DEF ShapeInv, NodesAt
<1>6. ResultInv
    BY <1>3 DEF ResultInv
<1>7. HaltInv
    BY DEF HaltInv
<1>8. DependenciesFirst
    BY DEF DependenciesFirst
<1>9. HaltStops /\ SuccessMeansAllOk /\ NothingSkipped
    BY DEF HaltStops, SuccessMeansAllOk, NothingSkipped
<1> QED
    BY <1>2, <1>4, <1>5, <1>6, <1>7, <1>8, <1>9 DEF IInv

\* Levels are naturals, and the graph and its levels do not change.
LEMMA LevelsTyped ==
  ASSUME TypeOK
  PROVE  current \in Nat /\ \A n \in Nodes : level[n] \in Nat
BY EngineAssumption DEF TypeOK, Levels

\* The next level begins, or the depth guard or ceiling ends the run.
LEMMA EnterLevelPreserves == IInv /\ EnterLevel => IInv'
<1> SUFFICES ASSUME IInv, EnterLevel PROVE IInv'
    OBVIOUS
<1> USE DEF IInv, EnterLevel, workflow
<1>0. current \in Nat /\ \A n \in Nodes : level[n] \in Nat
    BY LevelsTyped
<1>1. TypeOK'
    BY DEF TypeOK, NodesAt
<1>2. GraphInv'
    BY DEF GraphInv, IsLevelling
<1>3. ShapeInv'
    BY <1>0 DEF ShapeInv, NodesAt
<1>4. ResultInv'
    BY <1>0 DEF ResultInv
<1>5. HaltInv'
    BY DEF HaltInv, NodesAt
<1>6. DependenciesFirst'
    BY DEF DependenciesFirst
<1>7. HaltStops'
    BY DEF HaltStops, HaltInv
<1>8. SuccessMeansAllOk' /\ NothingSkipped'
    BY DEF SuccessMeansAllOk, NothingSkipped, Success, Absent
<1> QED
    BY <1>1, <1>2, <1>3, <1>4, <1>5, <1>6, <1>7, <1>8

\* A node of the present level is executed.
LEMMA RunNodePreserves ==
  ASSUME IInv, NEW n \in Nodes, RunNode(n)
  PROVE  IInv'
<1> USE DEF IInv
<1>0. current \in Nat /\ \A m \in Nodes : level[m] \in Nat
    BY LevelsTyped
<1>1. PICK o \in {"ok", "failed", "raised"} :
        /\ ContextFails(n) => o = "raised"
        /\ outcome' = [outcome EXCEPT ![n] = o]
    BY DEF RunNode
<1>2. /\ stage = "running" /\ n \in pending
      /\ UNCHANGED <<policy, deps, mapped, level, stage, current, pending, results,
                     failed, aborted, tokens>>
    BY DEF RunNode, workflow
<1>3. level[n] = current
    BY <1>2 DEF ShapeInv, NodesAt
<1>4. /\ outcome'[n] = o
      /\ \A m \in Nodes \ {n} : outcome'[m] = outcome[m]
    BY <1>1 DEF TypeOK
<1>5. TypeOK'
    BY <1>1, <1>2 DEF TypeOK
<1>6. GraphInv'
    BY <1>2 DEF GraphInv, IsLevelling
<1>7. ShapeInv'
    BY <1>0, <1>2, <1>3, <1>4 DEF ShapeInv, NodesAt
<1>8. ResultInv'
    BY <1>2 DEF ResultInv
<1>9. HaltInv'
    BY <1>2 DEF HaltInv, NodesAt
<1>10. DependenciesFirst'
  <2>1. \A m \in Nodes : outcome[m] # "none" => outcome'[m] # "none"
      BY <1>1, <1>4
  <2>2. \A d \in deps[n] : outcome[d] # "none"
    <3>1. \A d \in deps[n] : d \in Nodes /\ level[d] < level[n]
        BY DEF GraphInv, IsLevelling, TypeOK
    <3> QED
        BY <1>3, <3>1 DEF ShapeInv
  <2>3. \A m \in Nodes : outcome'[m] # "none" => \A d \in deps[m] : outcome'[d] # "none"
    <3> SUFFICES ASSUME NEW m \in Nodes, outcome'[m] # "none", NEW d \in deps[m]
                 PROVE  outcome'[d] # "none"
        OBVIOUS
    <3>1. d \in Nodes
        BY DEF TypeOK
    <3>2. outcome[d] # "none"
        BY <1>4, <2>2 DEF DependenciesFirst
    <3> QED
        BY <2>1, <3>1, <3>2
  <2>4. \A m \in Nodes : outcome'[m] \in {"ok", "failed"} => \A d \in mapped[m] : results[d] = "ok"
      BY <1>1, <1>4 DEF DependenciesFirst, ContextFails
  <2> QED
      BY <1>2, <2>3, <2>4 DEF DependenciesFirst
<1>11. HaltStops'
    BY <1>2 DEF HaltStops, HaltInv
<1>12. SuccessMeansAllOk' /\ NothingSkipped'
    BY <1>2 DEF SuccessMeansAllOk, NothingSkipped
<1> QED
    BY <1>5, <1>6, <1>7, <1>8, <1>9, <1>10, <1>11, <1>12

\* gather returns: every node of the level has its outcome.
LEMMA GatherPreserves == IInv /\ Gather => IInv'
<1> SUFFICES ASSUME IInv, Gather PROVE IInv'
    OBVIOUS
<1> USE DEF IInv, Gather, workflow
<1>1. TypeOK'
    BY DEF TypeOK
<1>2. GraphInv'
    BY DEF GraphInv, IsLevelling
<1>3. ShapeInv'
    BY DEF ShapeInv, NodesAt
<1>4. ResultInv' /\ DependenciesFirst'
    BY DEF ResultInv, DependenciesFirst
<1>5. HaltInv' /\ HaltStops'
    BY DEF HaltInv, HaltStops, NodesAt
<1>6. SuccessMeansAllOk' /\ NothingSkipped'
    BY DEF SuccessMeansAllOk, NothingSkipped
<1> QED
    BY <1>1, <1>2, <1>3, <1>4, <1>5, <1>6

\* Recording the result r of the item n, whichever of the three kinds it is:
\* the loop goes on, or the level ends after its last item or the token break.
Records(n, r) ==
  /\ IsNext(n)
  /\ outcome[n] = r
  /\ results' = [results EXCEPT ![n] = r]
  /\ failed' = IF r = "failed" THEN failed \cup {n} ELSE failed
  /\ tokens' \in Nat
  /\ UNCHANGED <<policy, deps, mapped, level, outcome>>
  /\ \/ /\ pending # {n} /\ pending' = pending \ {n}
        /\ UNCHANGED <<stage, current, aborted>>
     \/ /\ pending = {n} /\ UNCHANGED aborted
        /\ EndLevel(failed', aborted')
     \/ /\ aborted' = aborted \cup {"token"}
        /\ EndLevel(failed', aborted')

\* The three kinds of results are recorded that way.
LEMMA CollectRecords ==
  ASSUME TypeOK, NEW n \in Nodes
  PROVE  /\ CollectOk(n) => Records(n, "ok")
         /\ \A u \in 0..MaxUsage : CollectUsage(n, u) => Records(n, "ok")
         /\ CollectFailed(n) => Records(n, "failed")
<1>1. CollectOk(n) => Records(n, "ok")
    BY DEF CollectOk, Records, NextItem, workflow, TypeOK
<1>2. ASSUME NEW u \in 0..MaxUsage, CollectUsage(n, u) PROVE Records(n, "ok")
  <2>1. tokens' \in Nat
      BY <1>2, EngineAssumption DEF CollectUsage, TypeOK
  <2> QED
      BY <1>2, <2>1 DEF CollectUsage, Records, NextItem, workflow
<1>3. CollectFailed(n) => Records(n, "failed")
    BY DEF CollectFailed, Records, NextItem, workflow, TypeOK
<1> QED
    BY <1>1, <1>2, <1>3

\* Recording a result preserves the invariant.
LEMMA RecordsPreserves ==
  ASSUME IInv, NEW n \in Nodes, NEW r \in {"ok", "failed"}, Records(n, r)
  PROVE  IInv'
<1> USE DEF IInv
<1>0. current \in Nat /\ \A m \in Nodes : level[m] \in Nat
    BY LevelsTyped
<1>1. /\ stage = "collecting" /\ n \in pending
      /\ UNCHANGED <<policy, deps, mapped, level, outcome>>
      /\ failed' = IF r = "failed" THEN failed \cup {n} ELSE failed
      /\ tokens' \in Nat
    BY DEF Records, IsNext
<1>2. level[n] = current /\ results[n] = "absent"
    BY <1>1 DEF ShapeInv, NodesAt
<1>3. /\ results'[n] = r
      /\ \A m \in Nodes \ {n} : results'[m] = results[m]
      /\ results' \in [Nodes -> {"absent", "ok", "failed"}]
    BY DEF Records, TypeOK
<1>4. \A m \in Nodes : m \in failed' <=> results'[m] = "failed"
    BY <1>1, <1>2, <1>3 DEF ResultInv
<1>5. GraphInv'
    BY <1>1 DEF GraphInv, IsLevelling
<1>6. DependenciesFirst'
  <2>1. \A d \in Nodes : results[d] = "ok" => results'[d] = "ok"
      BY <1>2, <1>3
  <2>2. \A m \in Nodes : mapped[m] \subseteq Nodes
      BY DEF TypeOK
  <2> QED
      BY <1>1, <2>1, <2>2 DEF DependenciesFirst
<1>7. ASSUME policy = "HALT", NEW m \in failed', NEW l \in Nodes, level[l] > level[m]
      PROVE  outcome[l] = "none"
  <2>1. m \in Nodes /\ level[m] = current
      BY <1>1, <1>2, <1>7 DEF HaltInv, NodesAt, TypeOK
  <2> QED
      BY <1>7, <2>1 DEF ShapeInv
<1>8. CASE pending # {n} /\ pending' = pending \ {n} /\ UNCHANGED <<stage, current, aborted>>
  <2>1. TypeOK'
      BY <1>1, <1>3, <1>8 DEF TypeOK
  <2>2. ShapeInv'
      BY <1>0, <1>1, <1>2, <1>3, <1>8 DEF ShapeInv, NodesAt
  <2>3. ResultInv'
      BY <1>0, <1>1, <1>2, <1>3, <1>4, <1>8 DEF ResultInv
  <2>4. HaltInv'
      BY <1>1, <1>2, <1>8 DEF HaltInv, NodesAt
  <2>5. HaltStops'
      BY <1>1, <1>7, <1>8 DEF HaltStops
  <2>6. SuccessMeansAllOk' /\ NothingSkipped'
      BY <1>1, <1>8 DEF SuccessMeansAllOk, NothingSkipped
  <2> QED
      BY <1>5, <1>6, <2>1, <2>2, <2>3, <2>4, <2>5, <2>6
<1>9. CASE /\ EndLevel(failed', aborted')
           /\ (pending = {n} /\ aborted' = aborted) \/ aborted' = aborted \cup {"token"}
  <2>0. /\ current' = current + 1 /\ pending' = {}
        /\ stage' = IF ShouldContinue(failed', aborted') THEN "guard" ELSE "returned"
      BY <1>9 DEF EndLevel
  <2>1. TypeOK'
    <3>1. current' \in Nat /\ stage' \in {"guard", "returned"} /\ pending' \subseteq Nodes
        BY <1>0, <2>0
    <3>2. aborted' \subseteq {"depth", "token"} /\ failed' \subseteq Nodes
        BY <1>1, <1>9 DEF TypeOK
    <3> QED
        BY <1>1, <1>3, <3>1, <3>2 DEF TypeOK
  <2>2. ShapeInv'
    <3>1. \A m \in Nodes : level[m] < current + 1 => outcome[m] # "none"
        BY <1>0, <1>1 DEF ShapeInv, NodesAt
    <3>2. \A m \in Nodes : level[m] >= current + 1 => outcome[m] = "none" /\ results'[m] = "absent"
        BY <1>0, <1>2, <1>3 DEF ShapeInv
    <3> QED
        BY <1>0, <1>1, <2>0, <3>1, <3>2 DEF ShapeInv, NodesAt
  <2>3. ResultInv'
    <3>1. ASSUME aborted' = {}, NEW m \in Nodes, level[m] < current + 1
          PROVE  results'[m] # "absent"
      <4>1. pending = {n} /\ aborted = {}
          BY <1>9, <3>1
      <4>2. CASE m = n
          BY <1>3, <4>2
      <4>3. CASE m # n /\ level[m] = current
          BY <1>1, <1>3, <4>1, <4>3 DEF ShapeInv, NodesAt
      <4>4. CASE level[m] < current
          BY <1>0, <1>2, <1>3, <4>1, <4>4 DEF ResultInv
      <4> QED
          BY <1>0, <3>1, <4>2, <4>3, <4>4
    <3> QED
        BY <1>1, <1>4, <2>0, <3>1 DEF ResultInv
  <2>4. policy = "HALT" => stage' = "returned" \/ (failed' = {} /\ aborted' = {})
      BY <2>0 DEF ShouldContinue
  <2>5. HaltInv'
      BY <1>1, <2>0, <2>4 DEF HaltInv
  <2>6. HaltStops'
      BY <1>1, <1>7, <2>0, <2>4 DEF HaltStops
  <2>7. SuccessMeansAllOk'
      BY <2>0 DEF SuccessMeansAllOk, Success, ShouldContinue
  <2>8. NothingSkipped'
    <3> SUFFICES ASSUME stage' = "returned", aborted' = {}, policy # "HALT",
                        NEW m \in Nodes, results'[m] = "absent"
                 PROVE  policy = "CONTINUE_POSSIBLE" /\ deps[m] \cap failed' # {}
        BY <1>1 DEF NothingSkipped, Absent
    <3>1. ~ShouldContinue(failed', aborted')
        BY <2>0
    <3>2. policy = "CONTINUE_POSSIBLE"
        BY <3>1 DEF ShouldContinue, TypeOK, Policies
    <3>3. m \notin failed'
        BY <1>4
    <3> QED
        BY <3>1, <3>2, <3>3 DEF ShouldContinue
  <2> QED
      BY <1>5, <1>6, <2>1, <2>2, <2>3, <2>5, <2>6, <2>7, <2>8
<1> QED
    BY <1>8, <1>9 DEF Records

\* An exception that gather returned ends execute() with another one.
LEMMA CollectRaisedPreserves ==
  ASSUME IInv, NEW n \in Nodes, CollectRaised(n)
  PROVE  IInv'
<1> USE DEF IInv, CollectRaised, IsNext, workflow
<1>1. TypeOK'
    BY DEF TypeOK
<1>2. GraphInv'
    BY DEF GraphInv, IsLevelling
<1>3. ShapeInv' /\ ResultInv' /\ DependenciesFirst'
    BY DEF ShapeInv, ResultInv, DependenciesFirst
<1>4. HaltInv' /\ HaltStops'
    BY DEF HaltInv, HaltStops
<1>5. SuccessMeansAllOk' /\ NothingSkipped'
    BY DEF SuccessMeansAllOk, NothingSkipped
<1> QED
    BY <1>1, <1>2, <1>3, <1>4, <1>5

\* After the last level every node has a result, or a ceiling was met.
LEMMA FinishPreserves == IInv /\ Finish => IInv'
<1> SUFFICES ASSUME IInv, Finish PROVE IInv'
    OBVIOUS
<1> USE DEF IInv, Finish, workflow
<1>0. current \in Nat /\ \A m \in Nodes : level[m] < current
    BY LevelsTyped, NoGaps DEF GraphInv
<1>1. TypeOK'
    BY DEF TypeOK
<1>2. GraphInv'
    BY DEF GraphInv, IsLevelling
<1>3. ShapeInv' /\ ResultInv' /\ DependenciesFirst'
    BY DEF ShapeInv, ResultInv, DependenciesFirst, NodesAt
<1>4. HaltInv' /\ HaltStops'
    BY DEF HaltInv, HaltStops
<1>5. aborted = {} => \A m \in Nodes : results[m] # "absent"
    BY <1>0 DEF ResultInv
<1>6. SuccessMeansAllOk'
    BY <1>5 DEF SuccessMeansAllOk, Success, ResultInv, TypeOK
<1>7. NothingSkipped'
    BY <1>5 DEF NothingSkipped, Absent
<1> QED
    BY <1>1, <1>2, <1>3, <1>4, <1>6, <1>7

\* Every step, and stuttering, preserves the inductive invariant.
LEMMA NextIInv == IInv /\ [Next]_vars => IInv'
<1> SUFFICES ASSUME IInv, [Next]_vars PROVE IInv'
    OBVIOUS
<1>1. CASE UNCHANGED vars
    BY <1>1 DEF vars, workflow, IInv, TypeOK, GraphInv, IsLevelling, ShapeInv, NodesAt,
                ResultInv, HaltInv, DependenciesFirst, HaltStops, SuccessMeansAllOk,
                Success, NothingSkipped, Absent
<1>2. CASE Over
    BY <1>1, <1>2 DEF Over
<1>3. CASE EnterLevel \/ Gather \/ Finish
    BY <1>3, EnterLevelPreserves, GatherPreserves, FinishPreserves
<1>4. ASSUME NEW n \in Nodes, RunNode(n) PROVE IInv'
    BY <1>4, RunNodePreserves
<1>5. ASSUME NEW n \in Nodes,
             CollectOk(n) \/ (\E u \in 0..MaxUsage : CollectUsage(n, u)) \/ CollectFailed(n)
      PROVE  IInv'
    BY <1>5, CollectRecords, RecordsPreserves DEF IInv
<1>6. ASSUME NEW n \in Nodes, CollectRaised(n) PROVE IInv'
    BY <1>6, CollectRaisedPreserves
<1> QED
    BY <1>1, <1>2, <1>3, <1>4, <1>5, <1>6 DEF Next, Step

\* The inductive invariant holds throughout.
LEMMA Invariant == Spec => []IInv
BY InitIInv, NextIInv, PTL DEF Spec

\* Type correctness of execute()'s locals.
THEOREM TypeCorrect == Spec => []TypeOK
<1>1. IInv => TypeOK
    BY DEF IInv
<1> QED
    BY <1>1, Invariant, PTL

\* WorkflowExecutionResult.success is true only if every node succeeded.
THEOREM SuccessIsHonest == Spec => []SuccessMeansAllOk
<1>1. IInv => SuccessMeansAllOk
    BY DEF IInv
<1> QED
    BY <1>1, Invariant, PTL

\* Levels respect the graph: no node runs before its dependencies, and mapped
\* inputs come from successes.
THEOREM RunsInOrder == Spec => []DependenciesFirst
<1>1. IInv => DependenciesFirst
    BY DEF IInv
<1> QED
    BY <1>1, Invariant, PTL

\* After a failure or the token ceiling, HALT runs no further level.
THEOREM HaltHolds == Spec => []HaltStops
<1>1. IInv => HaltStops
    BY DEF IInv
<1> QED
    BY <1>1, Invariant, PTL

\* Without an abort only HALT, or a failed dependency under CONTINUE_POSSIBLE,
\* leaves a node out.
THEOREM NoneSkipped == Spec => []NothingSkipped
<1>1. IInv => NothingSkipped
    BY DEF IInv
<1> QED
    BY <1>1, Invariant, PTL
=============================================================================
