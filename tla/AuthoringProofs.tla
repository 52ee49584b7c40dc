--------------------------- MODULE AuthoringProofs --------------------------
(***************************************************************************)
(* The levels of a dependency graph of any size, whatever the order in     *)
(* which its edges are inspected and its nodes sorted; and what becomes of *)
(* a draft of any size on its way to a workflow that runs.                 *)
(***************************************************************************)
EXTENDS Authoring, FiniteSetTheorems, SequenceTheorems, TLAPS

(***************************************************************************)
(* The graph                                                               *)
(***************************************************************************)
\* What the steps rest on: the graph does not change while it is levelled, and
\* nothing is inspected or removed but edges at recursive nodes.
GraphTyped ==
  /\ Given
  /\ todo \subseteq RecursiveEdges
  /\ removed \subseteq RecursiveEdges
  /\ level \in [Ids -> Int]

\* Levels are assigned when all edges have been inspected, in a graph whose
\* cycles have all been accepted.
Unlevelled == \A n \in Ids : level[n] = -1
GraphStages ==
  /\ stage \in {"none", "cycles", "levels", "cyclic", "done"}
  /\ stage \in {"levels", "done"} => \A C \in SimpleCycles : ValidCycle(C)
  /\ stage \in {"none", "cycles", "cyclic"} => todo = {} /\ removed = {} /\ Unlevelled
  /\ todo # {} => Unlevelled
  /\ stage = "done" => todo = {} /\ \A n \in nodes : Visited(n)

\* A level is no higher than a kept dependency calls for.
LevelsTight ==
  /\ \A n \in Ids : -1 <= level[n] /\ level[n] <= Cardinality(Ids)
  /\ \A n \in nodes : Visited(n) => level[n] = 0 \/ \E d \in Kept(n) : level[n] = level[d] + 1

GraphInv ==
  /\ GraphTyped /\ DependenciesBelow /\ OnlyCyclesCut /\ OnePassBreaks
  /\ GraphStages /\ LevelsTight

\* More edges, more paths.
LEMMA PathsGrow ==
  ASSUME NEW E, NEW F, E \subseteq F, NEW x, NEW y, HasPath(E, x, y)
  PROVE  HasPath(F, x, y)
BY DEF HasPath

LEMMA IdsCounted == Cardinality(Ids) \in Nat
BY IdsFinite, FS_CardinalityType

\* An empty graph, or one that nothing has been done to.
FreshGraph ==
  /\ Given /\ stage \in {"none", "cycles"}
  /\ todo = {} /\ removed = {} /\ level = [n \in Ids |-> -1]

LEMMA FreshInv == FreshGraph => GraphInv
<1> SUFFICES ASSUME FreshGraph PROVE GraphInv
  OBVIOUS
<1>1. GraphTyped
  BY DEF GraphTyped, FreshGraph
<1>2. Unlevelled /\ \A n \in nodes : ~Visited(n)
  BY DEF FreshGraph, Given, Visited, Unlevelled
<1>3. DependenciesBelow /\ LevelsTight
  BY <1>2, IdsCounted DEF DependenciesBelow, LevelsTight, Unlevelled
<1>4. OnlyCyclesCut /\ OnePassBreaks
  BY DEF OnlyCyclesCut, OnePassBreaks, FreshGraph
<1>5. GraphStages
  BY <1>2 DEF GraphStages, FreshGraph
<1> QED BY <1>1, <1>3, <1>4, <1>5 DEF GraphInv

LEMMA FreshInvNext == FreshGraph' => GraphInv'
BY FreshInv, PTL

LEMMA InitInv == GraphInit => GraphInv
BY FreshInv DEF GraphInit, FreshGraph

\* A step that leaves the graph alone leaves what is defined by it alone.
LEMMA GivenKept ==
  ASSUME Given, UNCHANGED given
  PROVE  /\ Given' /\ RecursiveEdges' = RecursiveEdges
         /\ nodes' = nodes /\ edges' = edges /\ deps' = deps /\ recursive' = recursive
         /\ SimpleCycles' = SimpleCycles
         /\ \A C : ValidCycle(C)' <=> ValidCycle(C)
BY DEF Given, given, RecursiveEdges, SimpleCycles, ValidCycle

LEMMA CheckInv == GraphInv /\ CheckCycles => GraphInv'
<1> SUFFICES ASSUME GraphInv, CheckCycles PROVE GraphInv'
  OBVIOUS
<1>1. UNCHANGED given /\ removed' = removed /\ level' = level /\ stage = "cycles"
  BY DEF CheckCycles
<1>2. /\ Given' /\ RecursiveEdges' = RecursiveEdges
      /\ nodes' = nodes /\ edges' = edges /\ deps' = deps /\ recursive' = recursive
      /\ SimpleCycles' = SimpleCycles
      /\ \A C : ValidCycle(C)' <=> ValidCycle(C)
  BY <1>1, GivenKept DEF GraphInv, GraphTyped
<1>3. \/ todo' = RecursiveEdges /\ stage' = "levels" /\ \A C \in SimpleCycles : ValidCycle(C)
      \/ todo' = todo /\ stage' = "cyclic"
  BY DEF CheckCycles
<1>4. GraphTyped'
  BY <1>1, <1>2, <1>3 DEF GraphInv, GraphTyped
<1>5. DependenciesBelow' /\ LevelsTight'
  BY <1>1, <1>2 DEF GraphInv, DependenciesBelow, LevelsTight, Visited, Kept
<1>6. OnlyCyclesCut'
  BY <1>1, <1>2 DEF GraphInv, OnlyCyclesCut, HasPath
<1>7. OnePassBreaks'
  BY <1>2, <1>3 DEF OnePassBreaks
<1>8. GraphStages'
  <2>1. todo = {} /\ removed = {} /\ Unlevelled /\ Unlevelled'
    BY <1>1 DEF GraphInv, GraphStages, Unlevelled
  <2> QED BY <1>1, <1>2, <1>3, <2>1 DEF GraphStages
<1> QED
  BY <1>4, <1>5, <1>6, <1>7, <1>8 DEF GraphInv

LEMMA InspectInv == ASSUME NEW e \in todo, GraphInv, InspectEdge(e) PROVE GraphInv'
<1>1. UNCHANGED given /\ stage' = stage /\ level' = level /\ todo' = todo \ {e} /\ stage = "levels"
  BY DEF InspectEdge
<1>2. \/ removed' = removed \cup {e} /\ HasPath(edges \ (removed \cup {e}), e[2], e[1])
      \/ removed' = removed /\ ~HasPath(edges \ (removed \cup {e}), e[2], e[1])
  BY DEF InspectEdge
<1>3. /\ Given' /\ RecursiveEdges' = RecursiveEdges
      /\ nodes' = nodes /\ edges' = edges /\ deps' = deps /\ recursive' = recursive
      /\ SimpleCycles' = SimpleCycles
      /\ \A C : ValidCycle(C)' <=> ValidCycle(C)
  BY <1>1, GivenKept DEF GraphInv, GraphTyped
<1>4. e \in RecursiveEdges /\ removed \subseteq removed'
  BY <1>2 DEF GraphInv, GraphTyped
<1>5. GraphTyped'
  BY <1>1, <1>2, <1>3, <1>4 DEF GraphInv, GraphTyped
<1>6. Unlevelled /\ Unlevelled'
  BY <1>1 DEF GraphInv, GraphStages, Unlevelled
<1>7. DependenciesBelow' /\ LevelsTight'
  <2>1. \A n \in nodes : ~Visited(n)'
    BY <1>6 DEF Visited, Unlevelled, GraphInv, GraphTyped, Given
  <2> QED BY <1>1, <1>3, <2>1 DEF GraphInv, DependenciesBelow, LevelsTight
<1>8. OnlyCyclesCut'
  <2> SUFFICES ASSUME NEW f \in removed'
               PROVE  /\ f[1] \in recursive \/ f[2] \in recursive
                      /\ HasPath(edges, f[2], f[1])
    BY <1>3 DEF OnlyCyclesCut, HasPath
  <2>1. CASE f \in removed
    BY <2>1 DEF GraphInv, OnlyCyclesCut
  <2>2. CASE f = e /\ HasPath(edges \ (removed \cup {e}), e[2], e[1])
    <3>1. HasPath(edges, e[2], e[1])
      BY <2>2, PathsGrow
    <3> QED
      BY <3>1, <2>2, <1>4 DEF RecursiveEdges
  <2> QED
    BY <2>1, <2>2, <1>2
<1>9. OnePassBreaks'
  <2> SUFFICES ASSUME NEW f \in RecursiveEdges \ (todo' \cup removed'),
                      HasPath(edges \ (removed' \cup {f}), f[2], f[1])
               PROVE  FALSE
    BY <1>1, <1>3 DEF OnePassBreaks, HasPath
  <2>1. HasPath(edges \ (removed \cup {f}), f[2], f[1])
    <3>1. edges \ (removed' \cup {f}) \subseteq edges \ (removed \cup {f})
      BY <1>4
    <3> QED
      BY <3>1, PathsGrow
  <2>2. CASE f = e
    BY <2>1, <2>2, <1>2
  <2>3. CASE f # e
    <3>1. f \in RecursiveEdges \ (todo \cup removed)
      BY <2>3, <1>1, <1>4
    <3> QED
      BY <3>1, <2>1, <1>1 DEF GraphInv, OnePassBreaks
  <2> QED
    BY <2>2, <2>3
<1>10. GraphStages'
  BY <1>1, <1>3, <1>6 DEF GraphInv, GraphStages
<1> QED
  BY <1>5, <1>7, <1>8, <1>9, <1>10 DEF GraphInv

LEMMA AssignInv == ASSUME NEW n \in Ids, GraphInv, AssignLevel(n) PROVE GraphInv'
<1>1. /\ UNCHANGED given /\ stage' = stage /\ todo' = todo /\ removed' = removed
      /\ stage = "levels" /\ todo = {}
  BY DEF AssignLevel
<1>2. PICK l \in 0..Cardinality(Ids) :
        /\ \A d \in Kept(n) : level[d] < l
        /\ l = 0 \/ \E d \in Kept(n) : l = level[d] + 1
        /\ level' = [level EXCEPT ![n] = l]
  BY DEF AssignLevel
<1>3. /\ Given' /\ RecursiveEdges' = RecursiveEdges
      /\ nodes' = nodes /\ edges' = edges /\ deps' = deps /\ recursive' = recursive
      /\ SimpleCycles' = SimpleCycles
      /\ \A C : ValidCycle(C)' <=> ValidCycle(C)
  BY <1>1, GivenKept DEF GraphInv, GraphTyped
<1>4. GraphTyped'
  BY <1>1, <1>2, <1>3 DEF GraphInv, GraphTyped
<1>5. 0 <= l /\ l <= Cardinality(Ids) /\ l \in Int
  BY <1>2, IdsCounted
<1>6. n \in nodes /\ ~Visited(n) /\ level \in [Ids -> Int] /\ nodes \subseteq Ids
  BY DEF AssignLevel, Ready, GraphInv, GraphTyped, Given
\* What a node depends on was visited before it and keeps its level.
<1>7. ASSUME NEW m \in nodes, Visited(m)', NEW d \in Kept(m)
      PROVE  /\ d \in nodes /\ d # n /\ Visited(d) /\ level'[d] = level[d] /\ level[d] < level'[m]
  <2>1. d \in deps[m] /\ d \in nodes /\ <<d, m>> \in edges \ removed
    BY <1>6, <1>7 DEF Kept, GraphInv, GraphTyped, Given
  <2>2. CASE m = n
    <3>1. Visited(d)
      BY <2>1, <2>2 DEF AssignLevel, Ready
    <3>2. d # n
      BY <3>1, <1>6
    <3> QED
      BY <3>1, <3>2, <2>1, <2>2, <1>2, <1>6, <1>7
  <2>3. CASE m # n
    <3>1. level'[m] = level[m] /\ Visited(m)
      BY <2>3, <1>2, <1>6, <1>7 DEF Visited
    <3>2. Visited(d) /\ level[d] < level[m]
      BY <3>1, <1>7 DEF GraphInv, DependenciesBelow
    <3>3. d # n
      BY <3>2, <1>6
    <3> QED
      BY <3>1, <3>2, <3>3, <2>1, <1>2, <1>6
  <2> QED
    BY <2>2, <2>3
<1>8. DependenciesBelow'
  BY <1>1, <1>3, <1>7 DEF DependenciesBelow, Visited, Kept
<1>9. LevelsTight'
  <2>1. \A m \in Ids : -1 <= level'[m] /\ level'[m] <= Cardinality(Ids)
    BY <1>2, <1>5, <1>6, IdsCounted DEF GraphInv, LevelsTight
  <2>2. ASSUME NEW m \in nodes, Visited(m)'
        PROVE  level'[m] = 0 \/ \E d \in Kept(m) : level'[m] = level'[d] + 1
    <3>1. CASE m = n
      BY <1>2, <1>6, <1>7, <2>2, <3>1
    <3>2. CASE m # n
      <4>1. level'[m] = level[m] /\ Visited(m)
        BY <1>2, <1>6, <2>2, <3>2 DEF Visited
      <4> QED BY <1>7, <2>2, <4>1 DEF GraphInv, LevelsTight
    <3> QED BY <3>1, <3>2
  <2> QED BY <1>1, <1>3, <2>1, <2>2 DEF LevelsTight, Visited, Kept
<1>10. OnlyCyclesCut' /\ OnePassBreaks'
  BY <1>1, <1>3 DEF GraphInv, OnlyCyclesCut, OnePassBreaks, HasPath
<1>11. GraphStages'
  BY <1>1, <1>3 DEF GraphInv, GraphStages
<1> QED
  BY <1>4, <1>8, <1>9, <1>10, <1>11 DEF GraphInv

LEMMA LevelledInv == GraphInv /\ Levelled => GraphInv'
<1> SUFFICES ASSUME GraphInv, Levelled PROVE GraphInv'
  OBVIOUS
<1>1. /\ UNCHANGED given /\ todo' = todo /\ removed' = removed /\ level' = level
      /\ stage = "levels" /\ stage' = "done" /\ todo = {} /\ \A n \in nodes : Visited(n)
  BY DEF Levelled
<1>2. /\ Given' /\ RecursiveEdges' = RecursiveEdges
      /\ nodes' = nodes /\ edges' = edges /\ deps' = deps /\ recursive' = recursive
      /\ SimpleCycles' = SimpleCycles
      /\ \A C : ValidCycle(C)' <=> ValidCycle(C)
  BY <1>1, GivenKept DEF GraphInv, GraphTyped
<1>3. GraphTyped'
  BY <1>1, <1>2 DEF GraphInv, GraphTyped
<1>4. DependenciesBelow' /\ LevelsTight'
  BY <1>1, <1>2 DEF GraphInv, DependenciesBelow, LevelsTight, Visited, Kept
<1>5. OnlyCyclesCut' /\ OnePassBreaks'
  BY <1>1, <1>2 DEF GraphInv, OnlyCyclesCut, OnePassBreaks, HasPath
<1>6. GraphStages'
  BY <1>1, <1>2 DEF GraphInv, GraphStages, Visited
<1> QED
  BY <1>3, <1>4, <1>5, <1>6 DEF GraphInv

LEMMA StutterInv == GraphInv /\ UNCHANGED graphVars => GraphInv'
<1> SUFFICES ASSUME GraphInv, UNCHANGED graphVars PROVE GraphInv'
  OBVIOUS
<1>1. /\ UNCHANGED given /\ todo' = todo /\ removed' = removed /\ level' = level
      /\ stage' = stage
  BY DEF graphVars
<1>2. /\ Given' /\ RecursiveEdges' = RecursiveEdges
      /\ nodes' = nodes /\ edges' = edges /\ deps' = deps /\ recursive' = recursive
      /\ SimpleCycles' = SimpleCycles
      /\ \A C : ValidCycle(C)' <=> ValidCycle(C)
  BY <1>1, GivenKept DEF GraphInv, GraphTyped
<1>3. GraphTyped'
  BY <1>1, <1>2 DEF GraphInv, GraphTyped
<1>4. DependenciesBelow' /\ LevelsTight'
  BY <1>1, <1>2 DEF GraphInv, DependenciesBelow, LevelsTight, Visited, Kept
<1>5. OnlyCyclesCut' /\ OnePassBreaks'
  BY <1>1, <1>2 DEF GraphInv, OnlyCyclesCut, OnePassBreaks, HasPath
<1>6. GraphStages'
  BY <1>1, <1>2 DEF GraphInv, GraphStages, Visited, Unlevelled
<1> QED
  BY <1>3, <1>4, <1>5, <1>6 DEF GraphInv

LEMMA GraphInvKept == GraphInv /\ [GraphNext]_graphVars => GraphInv'
BY CheckInv, InspectInv, AssignInv, LevelledInv, StutterInv DEF GraphNext

LEMMA GraphInvariant == GraphSpec => []GraphInv
BY InitInv, GraphInvKept, PTL DEF GraphSpec

(***************************************************************************)
(* Cycles                                                                  *)
(***************************************************************************)
\* Every member of S has a predecessor in S.
Preceded(E, S) == \A x \in S : \E y \in S : <<y, x>> \in E
Acyclic(E) == \A S \in SUBSET Ids : Preceded(E, S) => S = {}

\* next goes round all of C along E.
Round(E, C, next) ==
  /\ C # {} /\ next \in [C -> C]
  /\ \A x \in C : <<x, next[x]>> \in E
  /\ \A S \in SUBSET C : S # {} /\ (\A x \in S : next[x] \in S) => S = C

\* A set whose members all have a predecessor in it holds a smallest such set,
\* and that is the round of a cycle.
LEMMA LeastPreceded ==
  ASSUME NEW E, NEW S \in SUBSET Ids, S # {}, Preceded(E, S)
  PROVE  \E C \in SUBSET S :
           /\ C # {} /\ Preceded(E, C)
           /\ \A U \in SUBSET C : U # {} /\ Preceded(E, U) => U = C
<1> DEFINE P == {T \in SUBSET S : T # {} /\ Preceded(E, T)}
           R == StrictSubsetOrdering(S)
<1>1. IsFiniteSet(S)
  BY IdsFinite, FS_Subset
<1>2. IsWellFoundedOn(R, FiniteSubsetsOf(S))
  BY FS_StrictSubsetOrderingWellFounded
<1>3. P \subseteq FiniteSubsetsOf(S)
  BY <1>1, FS_Subset DEF FiniteSubsetsOf
<1>4. P # {}
  OBVIOUS
<1> HIDE DEF P, R
<1>5. PICK C \in P : \A U \in P : <<U, C>> \notin R
  BY <1>2, <1>3, <1>4, WFMin
<1>6. C \in SUBSET S /\ C # {} /\ Preceded(E, C)
  BY DEF P
<1>7. ASSUME NEW U \in SUBSET C, U # {}, Preceded(E, U) PROVE U = C
  <2>1. U \in P
    BY <1>6, <1>7 DEF P
  <2>2. <<U, C>> \notin R
    BY <1>5, <2>1
  <2> QED BY <1>6, <2>2 DEF R, StrictSubsetOrdering
<1> QED BY <1>6, <1>7

LEMMA RoundTrip ==
  ASSUME NEW E, NEW S \in SUBSET Ids, S # {}, Preceded(E, S)
  PROVE  \E C \in SUBSET S : \E next \in [C -> C] : Round(E, C, next)
<1>1. PICK C \in SUBSET S :
        /\ C # {} /\ Preceded(E, C)
        /\ \A U \in SUBSET C : U # {} /\ Preceded(E, U) => U = C
  BY LeastPreceded
<1> DEFINE p == [x \in C |-> CHOOSE y \in C : <<y, x>> \in E]
<1>2. p \in [C -> C] /\ \A x \in C : <<p[x], x>> \in E
  BY <1>1 DEF Preceded
<1> HIDE DEF p
<1>3. \A y \in C : \E x \in C : p[x] = y
  <2> DEFINE I == {p[x] : x \in C}
  <2>1. I \in SUBSET C /\ I # {}
    BY <1>1, <1>2
  <2>2. Preceded(E, I)
    BY <1>2 DEF Preceded
  <2> QED BY <1>1, <2>1, <2>2
<1> DEFINE next == [y \in C |-> CHOOSE x \in C : p[x] = y]
<1>4. next \in [C -> C] /\ \A y \in C : p[next[y]] = y
  BY <1>3
<1> HIDE DEF next
<1>5. \A y \in C : <<y, next[y]>> \in E
  BY <1>2, <1>4
<1>6. ASSUME NEW U \in SUBSET C, U # {}, \A x \in U : next[x] \in U PROVE U = C
  <2> DEFINE f == [x \in U |-> next[x]]
  <2>0. f \in [U -> U] /\ \A x, y \in U : f[x] = f[y] => x = y
    BY <1>4, <1>6
  <2>1. f \in Injection(U, U)
    BY <2>0 DEF Injection, IsInjective
  <2>2. IsFiniteSet(U)
    BY IdsFinite, FS_Subset
  <2>3. f \in Surjection(U, U)
    BY <2>1, <2>2, FS_Injection
  <2>4. \A x \in U : \E y \in U : next[y] = x
    BY <2>3 DEF Surjection
  <2>5. \A x \in U : p[x] \in U
    BY <1>4, <2>4
  <2>6. Preceded(E, U)
    BY <1>2, <2>5 DEF Preceded
  <2> QED BY <1>1, <1>6, <2>6
<1> QED BY <1>1, <1>4, <1>5, <1>6 DEF Round

\* On a round every node follows another, and is before it the long way.
LEMMA RoundPrecedes ==
  ASSUME NEW E, NEW C \in SUBSET Ids, NEW next, Round(E, C, next)
  PROVE  Preceded(E, C)
<1> DEFINE I == {next[x] : x \in C}
<1>1. I \in SUBSET C /\ I # {} /\ \A x \in I : next[x] \in I
  BY DEF Round
<1>2. I = C
  BY <1>1 DEF Round
<1> QED BY <1>2 DEF Round, Preceded

LEMMA RoundBack ==
  ASSUME NEW E, NEW C \in SUBSET Ids, NEW next, Round(E, C, next), NEW r \in C
  PROVE  \E q \in C : <<q, r>> \in E /\ HasPath(E \ {<<q, r>>}, r, q)
<1> DEFINE I == {next[x] : x \in C}
<1>1. I \in SUBSET C /\ I # {} /\ \A x \in I : next[x] \in I
  BY DEF Round
<1>2. I = C
  BY <1>1 DEF Round
<1>3. PICK q \in C : next[q] = r
  BY <1>2
<1>4. <<q, r>> \in E
  BY <1>3 DEF Round
<1>5. HasPath(E \ {<<q, r>>}, r, q)
  <2> SUFFICES ASSUME NEW S \in SUBSET Ids, r \in S,
                      \A e \in E \ {<<q, r>>} : e[1] \in S => e[2] \in S
               PROVE  q \in S
    BY DEF HasPath
  <2>1. ASSUME NEW x \in S \cap C PROVE next[x] \in S \cap C
    <3>1. next[x] \in C /\ <<x, next[x]>> \in E
      BY DEF Round
    <3>2. CASE x = q
      BY <1>3, <3>1, <3>2
    <3>3. CASE x # q
      <4>1. <<x, next[x]>> \in E \ {<<q, r>>}
        BY <3>1, <3>3
      <4>2. <<x, next[x]>>[1] \in S => <<x, next[x]>>[2] \in S
        BY <4>1
      <4> QED BY <3>1, <4>2
    <3> QED BY <3>2, <3>3
  <2>2. S \cap C = C
    BY <2>1 DEF Round
  <2> QED BY <2>2
<1> QED BY <1>4, <1>5

\* An edge whose ends are connected the other way round is on a cycle.
LEMMA PathCloses ==
  ASSUME NEW E, E \subseteq Ids \X Ids, NEW x \in Ids, NEW y \in Ids,
         <<x, y>> \in E, HasPath(E, y, x)
  PROVE  ~Acyclic(E)
<1> DEFINE S == {z \in Ids : HasPath(E, y, z) /\ HasPath(E, z, x)}
<1>1. HasPath(E, x, x) /\ HasPath(E, y, y)
  BY DEF HasPath
<1>2. x \in S /\ y \in S
  BY <1>1
<1>3. ASSUME NEW z \in S PROVE \E w \in S : <<w, z>> \in E
  <2>1. CASE z = y
    BY <1>2, <2>1
  <2>2. CASE z # y
    <3> DEFINE T == {w \in Ids : HasPath(E, y, w)} \ {z}
    <3>1. y \in T /\ z \notin T /\ T \in SUBSET Ids
      BY <1>1, <2>2
    <3>2. ~(\A e \in E : e[1] \in T => e[2] \in T)
      BY <3>1, <1>3 DEF HasPath
    <3>3. PICK e \in E : e[1] \in T /\ e[2] \notin T
      BY <3>2
    <3>4. e = <<e[1], e[2]>> /\ e[1] \in Ids /\ e[2] \in Ids
      BY <3>3
    <3>5. HasPath(E, y, e[1])
      BY <3>3
    <3>6. HasPath(E, y, e[2])
      BY <3>5 DEF HasPath
    <3>7. e[2] = z
      BY <3>3, <3>4, <3>6
    <3>8. HasPath(E, e[1], x)
      BY <1>3, <3>7 DEF HasPath
    <3> QED BY <3>4, <3>5, <3>7, <3>8
  <2> QED BY <2>1, <2>2
<1>4. Preceded(E, S) /\ S \in SUBSET Ids /\ S # {}
  BY <1>2, <1>3 DEF Preceded
<1> QED BY <1>4 DEF Acyclic

\* The simple cycles of the graph are the rounds of its edges.
LEMMA NoSimpleCycles ==
  ASSUME Given
  PROVE  SimpleCycles = {} <=> Acyclic(edges)
<1>1. ASSUME NEW C \in SimpleCycles PROVE ~Acyclic(edges)
  <2>1. PICK next \in [C -> C] : Round(edges, C, next)
    BY DEF SimpleCycles, Round
  <2>2. C \in SUBSET Ids /\ C # {}
    BY DEF SimpleCycles, Given
  <2> QED BY <2>1, <2>2, RoundPrecedes DEF Acyclic
<1>2. ASSUME ~Acyclic(edges) PROVE SimpleCycles # {}
  <2>1. PICK S \in SUBSET Ids : S # {} /\ Preceded(edges, S)
    BY <1>2 DEF Acyclic
  <2>2. PICK C \in SUBSET S : \E next \in [C -> C] : Round(edges, C, next)
    BY <2>1, RoundTrip
  <2>3. S \subseteq nodes
    BY <2>1 DEF Preceded, Given
  <2>4. C \in SimpleCycles
    BY <2>2, <2>3 DEF SimpleCycles, Round
  <2> QED BY <2>4
<1> QED BY <1>1, <1>2

\* A graph without cycles keeps all its edges.
LEMMA AcyclicKeeps ==
  ASSUME GraphInv, Acyclic(edges)
  PROVE  removed = {}
<1> SUFFICES ASSUME NEW e \in removed PROVE FALSE
  OBVIOUS
<1>1. e \in edges /\ edges \subseteq Ids \X Ids
  BY DEF GraphInv, GraphTyped, RecursiveEdges, Given
<1>2. e = <<e[1], e[2]>> /\ e[1] \in Ids /\ e[2] \in Ids
  BY <1>1
<1>3. HasPath(edges, e[2], e[1])
  BY DEF GraphInv, OnlyCyclesCut
<1> QED BY <1>1, <1>2, <1>3, PathCloses

\* What is left after the edges have been inspected has a topological order: a
\* cycle of it would be a cycle of the graph, which was accepted for a recursive
\* node on it, and the edge to that node would not have come back.
LEMMA RemainderAcyclic ==
  ASSUME GraphInv, stage \in {"levels", "done"}, todo = {}
  PROVE  Acyclic(edges \ removed)
<1> SUFFICES ASSUME NEW S \in SUBSET Ids, S # {}, Preceded(edges \ removed, S)
             PROVE  FALSE
  BY DEF Acyclic
<1>0. PICK C \in SUBSET S : \E next \in [C -> C] : Round(edges \ removed, C, next)
  BY RoundTrip
<1>1. PICK next \in [C -> C] : Round(edges \ removed, C, next)
  BY <1>0
<1>2. C \in SimpleCycles
  <2>1. Round(edges, C, next)
    BY <1>1 DEF Round
  <2>2. Preceded(edges, C)
    BY <2>1, RoundPrecedes
  <2>3. C \subseteq nodes
    BY <2>2 DEF Preceded, GraphInv, GraphTyped, Given
  <2> QED BY <2>1, <2>3 DEF SimpleCycles, Round
<1>3. PICK r \in C : r \in recursive
  BY <1>2 DEF GraphInv, GraphStages, ValidCycle
<1>4. PICK q \in C : /\ <<q, r>> \in edges \ removed
                     /\ HasPath((edges \ removed) \ {<<q, r>>}, r, q)
  BY <1>1, RoundBack
<1>5. <<q, r>> \in RecursiveEdges \ (todo \cup removed)
  BY <1>3, <1>4 DEF RecursiveEdges
<1>6. (edges \ removed) \ {<<q, r>>} = edges \ (removed \cup {<<q, r>>})
  OBVIOUS
<1>7. ~HasPath(edges \ (removed \cup {<<q, r>>}), <<q, r>>[2], <<q, r>>[1])
  BY <1>5 DEF GraphInv, OnePassBreaks
<1> QED BY <1>4, <1>6, <1>7

LEMMA SomeNodeReady ==
  ASSUME GraphInv, stage = "levels", todo = {}, NEW n \in nodes, ~Visited(n)
  PROVE  \E m \in nodes : Ready(m)
<1> DEFINE U == {m \in nodes : ~Visited(m)}
<1>1. nodes \subseteq Ids /\ edges \subseteq nodes \X nodes
  BY DEF GraphInv, GraphTyped, Given
<1>2. U \in SUBSET Ids /\ U # {}
  BY <1>1
<1>3. ~Preceded(edges \ removed, U)
  BY <1>2, RemainderAcyclic DEF Acyclic
<1>4. PICK m \in U : \A k \in U : <<k, m>> \notin edges \ removed
  BY <1>3 DEF Preceded
<1>5. ASSUME NEW e \in edges \ removed, e[2] = m PROVE Visited(e[1])
  <2>1. e = <<e[1], m>> /\ e[1] \in nodes
    BY <1>1, <1>5
  <2> QED BY <1>4, <2>1
<1> QED BY <1>4, <1>5 DEF Ready

\* Every nonempty set of naturals has a least element.
LEMMA LeastNatural ==
  ASSUME NEW T \in SUBSET Nat, T # {}
  PROVE  \E x \in T : \A y \in T : x <= y
<1>1. PICK x \in T : \A y \in T : ~(<<y, x>> \in OpToRel(<, Nat))
  BY NatLessThanWellFounded, WFMin
<1>2. ASSUME NEW y \in T PROVE x <= y
  <2>1. ~(y < x)
    BY <1>1 DEF OpToRel
  <2> QED BY <2>1
<1> QED BY <1>2

\* In a levelled graph without cycles, whose edges are the dependencies, a node
\* is one above the highest of its predecessors.
LEMMA LevelIsLongest ==
  ASSUME GraphInv, stage = "done", removed = {}, NEW n \in nodes, Preds(n) = deps[n]
  PROVE  /\ level[n] \in 0..Cardinality(Ids) /\ Preds(n) \subseteq nodes
         /\ Preds(n) = {} => level[n] = 0
         /\ \A p \in Preds(n) : level[p] \in 0..Cardinality(Ids) /\ level[p] < level[n]
         /\ Preds(n) # {} => \E p \in Preds(n) : level[n] = level[p] + 1
<1>1. /\ nodes \subseteq Ids /\ deps \in [Ids -> SUBSET nodes] /\ level \in [Ids -> Int]
      /\ Cardinality(Ids) \in Nat
  BY IdsCounted DEF GraphInv, GraphTyped, Given
<1>2. \A m \in nodes : Visited(m) /\ level[m] \in 0..Cardinality(Ids)
  BY <1>1 DEF GraphInv, GraphStages, LevelsTight, Visited
<1>3. Kept(n) = Preds(n) /\ Preds(n) \subseteq nodes
  BY <1>1 DEF Kept
<1>4. \A p \in Preds(n) : level[p] < level[n]
  BY <1>2, <1>3 DEF GraphInv, DependenciesBelow
<1>5. level[n] = 0 \/ \E p \in Preds(n) : level[n] = level[p] + 1
  BY <1>2, <1>3 DEF GraphInv, LevelsTight
<1>6. Preds(n) # {} => level[n] # 0
  BY <1>2, <1>3, <1>4
<1> QED BY <1>2, <1>3, <1>4, <1>5, <1>6

\* GraphAnalyzer computes the same levels: they solve its recursive equation,
\* which has one solution.
LEMMA AnalyzerAgrees ==
  ASSUME GraphInv, stage = "done", removed = {}, \A n \in nodes : Preds(n) = deps[n]
  PROVE  \A n \in nodes : level[n] = AnalyzerLevels[n]
<1> DEFINE Highest(f, n) ==
             CHOOSE l \in 0..Cardinality(Ids) :
               (\E p \in Preds(n) : f[p] = l) /\ (\A p \in Preds(n) : f[p] <= l)
           Solves(f) == f = [n \in nodes |-> IF Preds(n) = {} THEN 0 ELSE 1 + Highest(f, n)]
           w == [n \in nodes |-> level[n]]
<1>1. AnalyzerLevels = CHOOSE f : Solves(f)
  BY DEF AnalyzerLevels
<1> HIDE DEF Highest
\* A function that has the levels of the predecessors has that of the node.
<1>2. ASSUME NEW f, NEW n \in nodes, \A p \in Preds(n) : f[p] = level[p]
      PROVE  (IF Preds(n) = {} THEN 0 ELSE 1 + Highest(f, n)) = level[n]
  <2>1. CASE Preds(n) = {}
    BY <2>1, LevelIsLongest
  <2>2. CASE Preds(n) # {}
    <3>1. /\ level[n] \in 0..Cardinality(Ids)
          /\ \A p \in Preds(n) : level[p] \in 0..Cardinality(Ids) /\ level[p] < level[n]
          /\ Cardinality(Ids) \in Nat
      BY LevelIsLongest, IdsCounted
    <3>2. PICK q \in Preds(n) : level[n] = level[q] + 1
      BY <2>2, LevelIsLongest
    <3> DEFINE P(l) == (\E p \in Preds(n) : f[p] = l) /\ (\A p \in Preds(n) : f[p] <= l)
    <3>3. P(level[q])
      BY <1>2, <3>1, <3>2
    <3>4. ASSUME NEW l \in 0..Cardinality(Ids), P(l) PROVE l = level[q]
      BY <1>2, <3>1, <3>2, <3>4
    <3>5. Highest(f, n) = level[q]
      <4> HIDE DEF P
      <4>1. Highest(f, n) = CHOOSE l \in 0..Cardinality(Ids) : P(l)
        BY DEF Highest, P
      <4> QED BY <3>1, <3>3, <3>4, <4>1
    <3> QED BY <2>2, <3>1, <3>2, <3>5
  <2> QED BY <2>1, <2>2
<1>3. Solves(w)
  <2>1. ASSUME NEW n \in nodes
        PROVE  (IF Preds(n) = {} THEN 0 ELSE 1 + Highest(w, n)) = level[n]
    <3>1. \A p \in Preds(n) : w[p] = level[p]
      BY LevelIsLongest
    <3> HIDE DEF w
    <3> QED BY <1>2, <3>1
  <2> QED BY <2>1
<1>4. Solves(AnalyzerLevels)
  <2> HIDE DEF Solves, w
  <2> QED BY <1>1, <1>3
<1> DEFINE at == AnalyzerLevels
           D == {n \in nodes : at[n] # level[n]}
<1>5. D = {}
  <2> SUFFICES ASSUME D # {} PROVE FALSE
    OBVIOUS
  <2>1. \A n \in nodes : level[n] \in Nat
    BY LevelIsLongest, IdsCounted
  <2> DEFINE T == {level[n] : n \in D}
  <2>2. T \in SUBSET Nat /\ T # {}
    BY <2>1
  <2>3. PICK n \in D : \A m \in D : level[n] <= level[m]
    <3>1. PICK x \in T : \A y \in T : x <= y
      BY <2>2, LeastNatural
    <3> QED BY <3>1
  <2>4. \A p \in Preds(n) : p \in nodes /\ level[p] \in Int /\ level[n] \in Int /\ level[p] < level[n]
    BY LevelIsLongest, IdsCounted
  <2>5. \A p \in Preds(n) : at[p] = level[p]
    BY <2>3, <2>4
  <2>6. at[n] = IF Preds(n) = {} THEN 0 ELSE 1 + Highest(at, n)
    <3> HIDE DEF at
    <3>1. at = [m \in nodes |-> IF Preds(m) = {} THEN 0 ELSE 1 + Highest(at, m)]
      BY <1>4 DEF at
    <3> QED BY <3>1
  <2> HIDE DEF at
  <2>7. at[n] = level[n]
    BY <1>2, <2>5, <2>6
  <2> QED BY <2>7
<1> QED BY <1>5

(***************************************************************************)
(* From the draft to the workflow                                          *)
(***************************************************************************)
DraftEdges == UNION {draft[i].deps \X {draft[i].id} : i \in Entries}

AuthorTyped ==
  /\ phase \in {"drafting", "blueprint", "kahn", "stored", "nodes", "graph", "built", "running",
                "raised", "refused"}
  /\ why \in {"none", "dependency", "version", "circular", "node", "cycle", "mapping"}
  /\ draft \in Seq(Entry)
  /\ links \subseteq Ids \X Ids
  /\ built \in BOOLEAN /\ validated \in BOOLEAN
  /\ tools \subseteq {Tool[k] : k \in Kinds}
  /\ indegree \in [Ids -> Int] /\ ready \subseteq Ids /\ processed \in Nat
  /\ stack \in Seq(Ids) /\ active \subseteq Ids /\ gated \subseteq Ids

\* The graph is that of the draft.
FromDraft ==
  /\ nodes = Listed
  /\ deps = [n \in Ids |-> UNION {draft[i].deps : i \in LastOf(n)}]
  /\ edges = DraftEdges

StageInv ==
  /\ stage # "none" =>
       /\ FromDraft /\ Closed(draft)
       /\ phase \in {"graph", "built", "running", "raised", "refused"}
  /\ phase = "graph" => stage # "none"
  /\ phase \in {"built", "running", "raised"} => stage = "done"

\* What build() made has exactly the connections as dependencies.
BuildInv ==
  /\ phase = "drafting" => ~built
  /\ built => \A i \in Entries : draft[i].deps = {f \in Ids : <<f, draft[i].id>> \in links}

\* The dependencies of n that have not been processed.
Waiting(V, n) == {e \in Entries \X Ids : draft[e[1]].id = n /\ e[2] \in draft[e[1]].deps \ V}

\* V has been processed: its members are counted once, in an order of their
\* dependencies, and what depends on nothing else is ready.
Processed(V) ==
  /\ ready \subseteq Listed \ V
  /\ processed = Cardinality(V)
  /\ \A n \in Ids : indegree[n] = Cardinality(Waiting(V, n))
  /\ \A n \in Listed : indegree[n] = 0 => n \in V \cup ready
  /\ \A n \in V \cup ready : Waiting(V, n) = {}
  /\ \A S \in SUBSET V : Preceded(DraftEdges, S) => S = {}

KahnInv ==
  /\ phase \in {"blueprint", "kahn", "stored"} => Closed(draft)
  /\ phase = "kahn" => \E V \in SUBSET Listed : Processed(V)

Circular ==
  \/ ~Distinct
  \/ \E i \in Entries : \E d \in draft[i].deps :
       HasPath({e \in Ids \X Ids : Times(e[1], e[2]) > 0}, draft[i].id, d)

Lost == \E k \in Kinds : Tool[k] \notin tools

Sound(e) ==
  /\ Constructs(Config[e.kind]) /\ NoSelfDependency(e.id, e.deps)
  /\ RuntimeValidate(Config[e.kind], Populated(e).schemas)

ValidatedInv ==
  validated =>
    /\ phase \in {"stored", "nodes", "graph", "built", "running", "raised", "refused"}
    /\ phase = "refused" => why = "mapping" \/ (why = "node" /\ Lost)
    /\ Distinct /\ Closed(draft) /\ Acyclic(DraftEdges)
    /\ \A i \in Entries : Sound(draft[i])
    /\ stage # "cyclic"

CircularInv == why = "circular" => phase = "refused" /\ Circular

\* In a graph that kept all its edges: what has been gated and is not in the
\* cache lies no higher than a condition whose level is complete; the node
\* asked for is of the lowest level that is not; and the calls below it go
\* down from such a condition's level, one level at least with each.
Shallow ==
  /\ \A m \in gated \ active :
       \E n \in Conditions : level[m] <= level[n] /\ \A u \in nodes \ gated : level[n] < level[u]
  /\ stack # <<>> =>
       /\ stack[1] \in nodes \ gated
       /\ \A u \in nodes \ gated : level[stack[1]] <= level[u]
  /\ Len(stack) > 1 =>
       \E n \in Conditions :
         /\ level[n] < level[stack[1]]
         /\ \A i \in 2..Len(stack) : level[stack[i]] + i <= level[n] + 2
  /\ phase = "raised" => \E n \in Conditions : level[n] + 1 >= RecursionLimit

GateInv ==
  /\ phase \notin {"built", "raised"} => stack = <<>>
  /\ phase \notin {"built", "running", "raised"} => gated = {}
  /\ stack \in Seq(nodes) /\ gated \subseteq nodes
  /\ Distinct /\ removed = {} => Shallow

AuthoringInv ==
  /\ AuthorTyped /\ GraphInv /\ StageInv /\ BuildInv /\ KahnInv /\ ValidatedInv /\ CircularInv
  /\ GateInv

\* What is read of a draft besides the kinds and the schemas of its nodes.
LEMMA SameShape ==
  ASSUME draft \in Seq(Entry), draft' \in Seq(Entry), Len(draft') = Len(draft),
         \A i \in Entries : draft'[i].id = draft[i].id /\ draft'[i].deps = draft[i].deps
  PROVE  /\ Entries' = Entries /\ Listed' = Listed /\ DraftEdges' = DraftEdges
         /\ Distinct' <=> Distinct
         /\ Closed(draft)' <=> Closed(draft)
         /\ \A n : LastOf(n)' = LastOf(n)
         /\ \A d, n : Times(d, n)' = Times(d, n)
         /\ \A V, n : Waiting(V, n)' = Waiting(V, n)
<1>1. Entries' = Entries /\ DOMAIN draft = Entries /\ DOMAIN draft' = Entries
  BY DEF Entries
<1>2. Listed' = Listed /\ DraftEdges' = DraftEdges
  BY <1>1 DEF Listed, DraftEdges
<1>3. Distinct' <=> Distinct
  BY <1>2 DEF Distinct
<1>4. Closed(draft)' <=> Closed(draft)
  BY <1>1 DEF Closed
<1>5. \A n : LastOf(n)' = LastOf(n)
  BY <1>1 DEF LastOf
<1>6. \A d, n : Times(d, n)' = Times(d, n)
  BY <1>1 DEF Times
<1>7. \A V, n : Waiting(V, n)' = Waiting(V, n)
  BY <1>1 DEF Waiting
<1> QED BY <1>1, <1>2, <1>3, <1>4, <1>5, <1>6, <1>7

LEMMA DraftTyped ==
  ASSUME draft \in Seq(Entry)
  PROVE  /\ DOMAIN draft = Entries /\ Len(draft) \in Nat
         /\ IsFiniteSet(Entries) /\ Cardinality(Entries) = Len(draft)
         /\ \A i \in Entries : /\ draft[i] \in Entry /\ draft[i].id \in Ids /\ draft[i].kind \in Kinds
                               /\ draft[i].deps \subseteq Ids /\ draft[i].schemas \in Schemas
         /\ Listed \subseteq Ids /\ IsFiniteSet(Listed)
<1>1. DOMAIN draft = Entries /\ Len(draft) \in Nat /\ \A i \in Entries : draft[i] \in Entry
  BY DEF Entries
<1>2. IsFiniteSet(Entries) /\ Cardinality(Entries) = Len(draft)
  <2>1. IsFiniteSet(1..Len(draft)) /\ Cardinality(1..Len(draft)) = IF 1 > Len(draft) THEN 0 ELSE Len(draft) - 1 + 1
    BY <1>1, FS_Interval
  <2> QED BY <1>1, <2>1 DEF Entries
<1>3. \A i \in Entries : /\ draft[i].id \in Ids /\ draft[i].kind \in Kinds
                         /\ draft[i].deps \subseteq Ids /\ draft[i].schemas \in Schemas
  BY <1>1 DEF Entry
<1>4. Listed \subseteq Ids
  BY <1>3 DEF Listed
<1>5. IsFiniteSet(Listed)
  BY <1>4, IdsFinite, FS_Subset
<1> QED BY <1>1, <1>2, <1>3, <1>4, <1>5

LEMMA ConvertedTyped ==
  ASSUME draft \in Seq(Entry)
  PROVE  /\ ConvertAll(draft) \in Seq(Entry) /\ Len(ConvertAll(draft)) = Len(draft)
         /\ \A i \in Entries : /\ ConvertAll(draft)[i] = Populated(draft[i])
                               /\ ConvertAll(draft)[i].id = draft[i].id
                               /\ ConvertAll(draft)[i].deps = draft[i].deps
                               /\ Sound(ConvertAll(draft)[i]) <=> Sound(draft[i])
<1>1. ASSUME NEW e \in Entry
      PROVE  /\ Populated(e) \in Entry /\ Populated(e).id = e.id /\ Populated(e).deps = e.deps
             /\ Populated(e).kind = e.kind /\ Populated(Populated(e)) = Populated(e)
  <2>1. "json" \in Schemas
    BY DEF Schemas
  <2> DEFINE p == [e EXCEPT !.schemas = "json"]
  <2>2. p \in Entry /\ p.id = e.id /\ p.deps = e.deps /\ p.kind = e.kind /\ p.schemas = "json"
    BY <2>1 DEF Entry
  <2> HIDE DEF p
  <2>3. ~Populates(p)
    BY <2>2 DEF Populates
  <2>4. Populated(e) = IF Populates(e) THEN p ELSE e
    BY DEF Populated, p
  <2>5. Populated(p) = p
    BY <2>3 DEF Populated
  <2>6. ~Populates(e) => Populated(e) = e
    BY DEF Populated
  <2> QED BY <2>2, <2>4, <2>5, <2>6
<1>2. /\ DOMAIN draft = Entries /\ Len(draft) \in Nat /\ Entries = 1..Len(draft)
      /\ \A i \in Entries : draft[i] \in Entry
  BY DraftTyped DEF Entries
<1> DEFINE c == [i \in 1..Len(draft) |-> Populated(draft[i])]
<1>3. ConvertAll(draft) = c
  BY <1>2 DEF ConvertAll
<1>4. c \in Seq(Entry) /\ Len(c) = Len(draft)
  BY <1>1, <1>2
<1>5. \A i \in Entries : c[i] = Populated(draft[i])
  BY <1>2
<1> HIDE DEF c
<1>6. \A i \in Entries : Sound(c[i]) <=> Sound(draft[i])
  BY <1>1, <1>2, <1>5 DEF Sound
<1> QED BY <1>1, <1>2, <1>3, <1>4, <1>5, <1>6

\* Of several nodes with one id one is the last.
LEMMA LastExists ==
  ASSUME draft \in Seq(Entry), NEW n \in Listed
  PROVE  LastOf(n) # {}
<1> DEFINE S == {i \in Entries : draft[i].id = n}
           T == {Len(draft) - i : i \in S}
<1>1. S # {} /\ Len(draft) \in Nat /\ S \subseteq 1..Len(draft)
  BY DEF Listed, Entries
<1>2. T \in SUBSET Nat /\ T # {}
  BY <1>1
<1>3. PICK x \in T : \A y \in T : x <= y
  BY <1>2, LeastNatural
<1>4. PICK i \in S : x = Len(draft) - i
  OBVIOUS
<1>5. ASSUME NEW j \in S PROVE j <= i
  <2>1. Len(draft) - i <= Len(draft) - j
    BY <1>3, <1>4
  <2>2. i \in Int /\ j \in Int
    BY <1>1
  <2> QED BY <1>1, <2>1, <2>2
<1>6. i \in LastOf(n)
  BY <1>5 DEF LastOf
<1> QED BY <1>6

LEMMA DistinctIds ==
  ASSUME draft \in Seq(Entry), Distinct
  PROVE  \A i, j \in Entries : draft[i].id = draft[j].id => i = j
<1> DEFINE f == [i \in Entries |-> draft[i].id]
<1>1. f \in Surjection(Entries, Listed)
  BY DEF Surjection, Listed
<1>2. IsFiniteSet(Entries) /\ Cardinality(Entries) = Cardinality(Listed)
  BY DraftTyped DEF Distinct
<1>3. f \in Injection(Entries, Listed)
  BY <1>1, <1>2, FS_SurjSameCardinalityImpliesInj
<1> QED BY <1>3 DEF Injection, IsInjective

\* Without duplicates the edges are the dependencies.
LEMMA EdgesAreDeps ==
  ASSUME draft \in Seq(Entry), FromDraft, Distinct
  PROVE  \A n \in nodes : Preds(n) = deps[n]
<1> SUFFICES ASSUME NEW n \in nodes PROVE Preds(n) = deps[n]
  OBVIOUS
<1>1. n \in Listed /\ n \in Ids
  BY DraftTyped DEF FromDraft
<1>2. PICK i \in Entries : draft[i].id = n /\ \A j \in Entries : draft[j].id = n => j = i
  BY <1>1, DistinctIds DEF Listed
<1>3. LastOf(n) = {i}
  <2>1. i <= i
    BY <1>2 DEF Entries
  <2> QED BY <1>2, <2>1 DEF LastOf
<1>4. deps[n] = draft[i].deps
  BY <1>1, <1>3 DEF FromDraft
<1>5. \A d : <<d, n>> \in edges <=> d \in draft[i].deps
  BY <1>2 DEF FromDraft, DraftEdges
<1>6. edges \subseteq Ids \X Ids
  BY DraftTyped DEF FromDraft, DraftEdges
<1>7. \A d : d \in Preds(n) <=> <<d, n>> \in edges
  BY <1>6 DEF Preds
<1> QED BY <1>4, <1>5, <1>7

\* The graph that Construct takes from a closed draft.
DraftGraph ==
  /\ draft \in Seq(Entry) /\ Closed(draft) /\ FromDraft
  /\ recursive \subseteq nodes /\ sources \in [Ids -> SUBSET Ids]

LEMMA DraftIsGiven == DraftGraph => Given
<1> SUFFICES ASSUME DraftGraph PROVE Given
  OBVIOUS
<1>0. /\ draft \in Seq(Entry) /\ Closed(draft) /\ FromDraft
      /\ recursive \subseteq nodes /\ sources \in [Ids -> SUBSET Ids]
  BY DEF DraftGraph
<1>1. /\ DOMAIN draft = Entries /\ Listed \subseteq Ids
      /\ \A i \in Entries : draft[i].deps \subseteq Listed /\ draft[i].id \in Listed
  BY <1>0, DraftTyped DEF Closed, Listed
<1>2. \A n : LastOf(n) \subseteq Entries /\ \A i \in LastOf(n) : draft[i].id = n
  BY DEF LastOf
<1>3. deps \in [Ids -> SUBSET nodes]
  BY <1>0, <1>1, <1>2 DEF FromDraft
<1>4. edges \subseteq nodes \X nodes
  BY <1>0, <1>1 DEF FromDraft, DraftEdges
<1>5. ASSUME NEW n \in nodes, NEW d \in deps[n] PROVE <<d, n>> \in edges
  <2>1. PICK i \in LastOf(n) : d \in draft[i].deps
    BY <1>0, <1>1, <1>5 DEF FromDraft
  <2>2. i \in Entries /\ draft[i].id = n
    BY <1>2
  <2>3. <<d, n>> \in draft[i].deps \X {draft[i].id}
    BY <2>1, <2>2
  <2> QED BY <1>0, <2>2, <2>3 DEF FromDraft, DraftEdges
<1> QED BY <1>0, <1>1, <1>3, <1>4, <1>5 DEF Given, FromDraft

LEMMA DraftIsGivenNext == DraftGraph' => Given'
BY DraftIsGiven, PTL

(***************************************************************************)
(* validate_blueprint                                                      *)
(***************************************************************************)
LEMMA WaitingTyped ==
  ASSUME draft \in Seq(Entry), NEW V, NEW n
  PROVE  /\ IsFiniteSet(Waiting(V, n)) /\ Cardinality(Waiting(V, n)) \in Nat
         /\ Cardinality(Waiting(V, n)) = 0 <=> Waiting(V, n) = {}
<1>1. IsFiniteSet(Entries \X Ids)
  BY DraftTyped, IdsFinite, FS_Product
<1>2. Waiting(V, n) \subseteq Entries \X Ids
  BY DEF Waiting
<1>3. IsFiniteSet(Waiting(V, n))
  BY <1>1, <1>2, FS_Subset
<1> QED BY <1>3, FS_CardinalityType, FS_EmptySet

LEMMA TimesTyped ==
  ASSUME draft \in Seq(Entry), NEW d, NEW n
  PROVE  /\ Times(d, n) \in Nat
         /\ Times(d, n) > 0 <=> \E i \in Entries : draft[i].id = n /\ d \in draft[i].deps
<1> DEFINE A == {i \in Entries : draft[i].id = n /\ d \in draft[i].deps}
<1>1. IsFiniteSet(A)
  BY DraftTyped, FS_Subset
<1>2. Cardinality(A) \in Nat /\ (Cardinality(A) = 0 <=> A = {})
  BY <1>1, FS_CardinalityType, FS_EmptySet
<1>3. Times(d, n) = Cardinality(A)
  BY DEF Times
<1> QED BY <1>2, <1>3

\* When m has been processed each of its mentions is off the count.
LEMMA WaitingAfter ==
  ASSUME draft \in Seq(Entry), NEW V, NEW m \in Ids, m \notin V, NEW n
  PROVE  Cardinality(Waiting(V, n)) = Cardinality(Waiting(V \cup {m}, n)) + Times(m, n)
<1> DEFINE A == {i \in Entries : draft[i].id = n /\ m \in draft[i].deps}
           B == A \X {m}
           W == Waiting(V \cup {m}, n)
<1>1. IsFiniteSet(A) /\ IsFiniteSet({m}) /\ Cardinality({m}) = 1
  BY DraftTyped, FS_Subset, FS_Singleton
<1>2. IsFiniteSet(B) /\ Cardinality(B) = Cardinality(A) * 1 /\ Cardinality(A) \in Nat
  BY <1>1, FS_Product, FS_CardinalityType
<1>3. Waiting(V, n) = W \cup B /\ W \cap B = {}
  BY DEF Waiting
<1>4. IsFiniteSet(W) /\ Cardinality(W) \in Nat
  BY WaitingTyped
<1> HIDE DEF W, B
<1>5. Cardinality(Waiting(V, n)) = Cardinality(W) + Cardinality(B) - Cardinality(W \cap B)
  BY <1>2, <1>3, <1>4, FS_Union
<1>6. Cardinality(W \cap B) = 0
  BY <1>3, FS_EmptySet
<1>7. Times(m, n) = Cardinality(A)
  BY DEF Times
<1> QED BY <1>2, <1>4, <1>5, <1>6, <1>7 DEF W

\* A member of a draft's edge.
LEMMA DraftEdge ==
  ASSUME NEW d, NEW n
  PROVE  <<d, n>> \in DraftEdges <=> \E i \in Entries : draft[i].id = n /\ d \in draft[i].deps
BY DEF DraftEdges

LEMMA StartsProcessed ==
  ASSUME draft \in Seq(Entry), draft' = draft, NEW V, V = {}, StartCheck
  PROVE  Processed(V)'
<1>1. /\ Entries' = Entries /\ Listed' = Listed /\ DraftEdges' = DraftEdges
      /\ \A n : Waiting(V, n)' = Waiting(V, n)
  BY SameShape
<1>2. \A n \in Ids : {e \in Entries \X Ids : draft[e[1]].id = n /\ e[2] \in draft[e[1]].deps} = Waiting(V, n)
  BY DEF Waiting
<1>3. \A n \in Ids : indegree'[n] = Cardinality(Waiting(V, n))
  BY <1>2 DEF StartCheck
<1>4. ready' = {n \in Listed : indegree'[n] = 0} /\ processed' = 0
  BY DEF StartCheck
<1>5. \A n \in Ids : indegree'[n] = 0 <=> Waiting(V, n) = {}
  BY <1>3, WaitingTyped
<1>6. Cardinality(V) = 0 /\ Listed \subseteq Ids
  BY FS_EmptySet, DraftTyped
<1> QED BY <1>1, <1>3, <1>4, <1>5, <1>6 DEF Processed

LEMMA VisitProcesses ==
  ASSUME draft \in Seq(Entry), draft' = draft, NEW V \in SUBSET Listed, Processed(V),
         NEW m \in ready, Visit(m)
  PROVE  V \cup {m} \in SUBSET Listed /\ Processed(V \cup {m})'
<1> DEFINE W == V \cup {m}
<1>0. /\ Entries' = Entries /\ Listed' = Listed /\ DraftEdges' = DraftEdges
      /\ \A X, n : Waiting(X, n)' = Waiting(X, n)
  BY SameShape
<1>1. /\ ready \subseteq Listed \ V /\ processed = Cardinality(V)
      /\ \A n \in Ids : indegree[n] = Cardinality(Waiting(V, n))
      /\ \A n \in Listed : indegree[n] = 0 => n \in V \cup ready
      /\ \A n \in V \cup ready : Waiting(V, n) = {}
      /\ \A S \in SUBSET V : Preceded(DraftEdges, S) => S = {}
      /\ Listed \subseteq Ids
  BY DraftTyped DEF Processed
<1>2. m \in Ids /\ m \notin V /\ m \in Listed
  BY <1>1
<1>3. /\ indegree' = [n \in Ids |-> indegree[n] - Times(m, n)]
      /\ ready' = (ready \ {m}) \cup {n \in Ids : Times(m, n) > 0 /\ indegree'[n] = 0}
      /\ processed' = processed + 1
  BY DEF Visit
<1>4. \A n \in Ids : /\ indegree'[n] = Cardinality(Waiting(W, n))
                     /\ Times(m, n) \in Nat /\ Cardinality(Waiting(W, n)) \in Nat
                     /\ indegree[n] = indegree'[n] + Times(m, n)
                     /\ indegree'[n] = 0 <=> Waiting(W, n) = {}
  <2> SUFFICES ASSUME NEW n \in Ids
               PROVE  /\ indegree'[n] = Cardinality(Waiting(W, n))
                      /\ Times(m, n) \in Nat /\ Cardinality(Waiting(W, n)) \in Nat
                      /\ indegree[n] = indegree'[n] + Times(m, n)
                      /\ indegree'[n] = 0 <=> Waiting(W, n) = {}
    OBVIOUS
  <2>1. indegree[n] = Cardinality(Waiting(W, n)) + Times(m, n)
    BY <1>1, <1>2, WaitingAfter
  <2>2. Times(m, n) \in Nat /\ Cardinality(Waiting(W, n)) \in Nat
    BY TimesTyped, WaitingTyped
  <2>3. indegree'[n] = indegree[n] - Times(m, n)
    BY <1>3
  <2>4. Cardinality(Waiting(W, n)) = 0 <=> Waiting(W, n) = {}
    BY WaitingTyped
  <2> HIDE DEF W
  <2>5. indegree'[n] = Cardinality(Waiting(W, n))
    BY <2>1, <2>2, <2>3
  <2> QED BY <2>1, <2>2, <2>4, <2>5
\* What is queued now was waiting for m, so it is neither done nor queued yet.
<1>5. ASSUME NEW n \in Ids, Times(m, n) > 0
      PROVE  n \in Listed /\ n \notin V \cup ready
  <2>1. PICK i \in Entries : draft[i].id = n /\ m \in draft[i].deps
    BY <1>5, TimesTyped
  <2>2. <<i, m>> \in Waiting(V, n)
    BY <1>2, <2>1 DEF Waiting
  <2> QED BY <1>1, <2>1, <2>2 DEF Listed
<1>6. ready' \subseteq Listed \ W
  BY <1>1, <1>2, <1>3, <1>5
<1>7. processed' = Cardinality(W)
  <2>1. IsFiniteSet(V)
    BY <1>1, IdsFinite, FS_Subset
  <2> QED BY <1>1, <1>2, <1>3, <2>1, FS_AddElement
<1>8. \A n \in Listed : indegree'[n] = 0 => n \in W \cup ready'
  BY <1>1, <1>3, <1>4
<1>9. \A n \in W \cup ready' : Waiting(W, n) = {}
  <2>1. \A n : Waiting(W, n) \subseteq Waiting(V, n)
    BY DEF Waiting
  <2> QED BY <1>1, <1>2, <1>3, <1>4, <2>1
<1>10. ASSUME NEW S \in SUBSET W, Preceded(DraftEdges, S) PROVE S = {}
  <2>1. ASSUME NEW x \in S PROVE \E y \in S \cap V : <<y, x>> \in DraftEdges
    <3>1. PICK y \in S : <<y, x>> \in DraftEdges
      BY <1>10 DEF Preceded
    <3>2. PICK i \in Entries : draft[i].id = x /\ y \in draft[i].deps
      BY <3>1, DraftEdge
    <3>3. Waiting(V, x) = {}
      BY <1>1
    <3>4. y \in Ids
      BY <3>2, DraftTyped
    <3>5. <<i, y>> \in Entries \X Ids /\ <<i, y>>[1] = i /\ <<i, y>>[2] = y
      BY <3>4
    <3>6. y \in V
      BY <3>2, <3>3, <3>5 DEF Waiting
    <3> QED BY <3>1, <3>6
  <2>2. Preceded(DraftEdges, S \cap V)
    BY <2>1 DEF Preceded
  <2>3. S \cap V = {}
    BY <1>1, <2>2
  <2> QED BY <2>1, <2>3
<1>11. W \in SUBSET Listed
  BY <1>2
<1> HIDE DEF W
<1>12. Processed(W)'
  BY <1>0, <1>1, <1>4, <1>6, <1>7, <1>8, <1>9, <1>10 DEF Processed
<1> QED BY <1>11, <1>12 DEF W

\* The check has gone through as many nodes as are listed: no id is there twice
\* and no cycle.
LEMMA AllProcessed ==
  ASSUME draft \in Seq(Entry), NEW V \in SUBSET Listed, Processed(V), processed = Len(draft)
  PROVE  Distinct /\ Acyclic(DraftEdges)
<1> DEFINE f == [i \in Entries |-> draft[i].id]
<1>1. f \in Surjection(Entries, Listed)
  BY DEF Surjection, Listed
<1>2. IsFiniteSet(Entries) /\ Cardinality(Entries) = Len(draft) /\ IsFiniteSet(Listed)
      /\ Listed \subseteq Ids /\ Len(draft) \in Nat
  BY DraftTyped
<1>3. Cardinality(Listed) <= Len(draft)
  BY <1>1, <1>2, FS_Surjection
<1>4. Cardinality(V) = Len(draft) /\ Cardinality(V) <= Cardinality(Listed)
      /\ (Cardinality(Listed) = Cardinality(V) => Listed = V) /\ Cardinality(Listed) \in Nat
  BY <1>2, FS_Subset, FS_CardinalityType DEF Processed
<1>5. V = Listed /\ Cardinality(Listed) = Len(draft)
  BY <1>2, <1>3, <1>4
<1>6. ASSUME NEW S \in SUBSET Ids, Preceded(DraftEdges, S) PROVE S = {}
  <2>1. ASSUME NEW x \in S PROVE x \in Listed
    <3>1. PICK y \in S : <<y, x>> \in DraftEdges
      BY <1>6 DEF Preceded
    <3> QED BY <3>1, DraftEdge DEF Listed
  <2> QED BY <1>5, <1>6, <2>1 DEF Processed
<1> QED BY <1>5, <1>6 DEF Distinct, Acyclic

\* It has not, and nothing is ready: what is left waits for itself.
LEMMA NotAllProcessed ==
  ASSUME draft \in Seq(Entry), Closed(draft), NEW V \in SUBSET Listed, Processed(V),
         ready = {}, processed # Len(draft)
  PROVE  Circular
<1> SUFFICES ASSUME Distinct
             PROVE  \E i \in Entries : \E d \in draft[i].deps :
                      HasPath({e \in Ids \X Ids : Times(e[1], e[2]) > 0}, draft[i].id, d)
  BY DEF Circular
<1> DEFINE E == {e \in Ids \X Ids : Times(e[1], e[2]) > 0}
           U == Listed \ V
<1>1. U # {}
  <2>1. Cardinality(V) # Cardinality(Listed)
    BY DEF Processed, Distinct
  <2>2. U = {} => V = Listed
    OBVIOUS
  <2> HIDE DEF U
  <2> QED BY <2>1, <2>2
<1>2. Listed \subseteq Ids /\ DOMAIN draft = Entries
  BY DraftTyped
<1>3. ASSUME NEW n \in U PROVE \E d \in U : <<d, n>> \in E
  <2>1. indegree[n] # 0 /\ indegree[n] = Cardinality(Waiting(V, n))
    BY <1>2 DEF Processed
  <2>2. PICK e \in Waiting(V, n) : TRUE
    BY <2>1, WaitingTyped
  <2>3. e[1] \in Entries /\ draft[e[1]].id = n /\ e[2] \in draft[e[1]].deps /\ e[2] \notin V /\ e[2] \in Ids
    BY <2>2 DEF Waiting
  <2>4. e[2] \in Listed
    BY <1>2, <2>3 DEF Closed, Listed
  <2>5. Times(e[2], n) > 0
    BY <2>3, TimesTyped
  <2> QED BY <1>2, <2>3, <2>4, <2>5
<1>4. Preceded(E, U) /\ U \in SUBSET Ids
  BY <1>2, <1>3 DEF Preceded
<1> HIDE DEF E
<1>5. PICK C \in SUBSET U : \E next \in [C -> C] : Round(E, C, next)
  BY <1>1, <1>4, RoundTrip
<1>6. PICK next \in [C -> C] : Round(E, C, next)
  BY <1>5
<1>7. PICK r \in C : TRUE
  BY <1>6 DEF Round
<1>8. PICK q \in C : <<q, r>> \in E /\ HasPath(E \ {<<q, r>>}, r, q)
  BY <1>2, <1>6, RoundBack
<1>9. HasPath(E, r, q)
  BY <1>8, PathsGrow
<1>10. Times(q, r) > 0
  BY <1>8 DEF E
<1>11. PICK i \in Entries : draft[i].id = r /\ q \in draft[i].deps
  BY <1>10, TimesTyped
<1> QED BY <1>9, <1>11 DEF E

(***************************************************************************)
(* The steps before there is a graph                                       *)
(***************************************************************************)
\* Nothing has been gated yet.
LEMMA Ungated == phase # "raised" /\ stack = <<>> /\ gated = {} => GateInv
<1>1. Len(<<>>) = 0
  OBVIOUS
<1> QED BY <1>1 DEF GateInv, Shallow

LEMMA UngatedNext == (phase # "raised" /\ stack = <<>> /\ gated = {})' => GateInv'
BY Ungated, PTL

LEMMA AuthoringInitInv == Init => AuthoringInv
<1> SUFFICES ASSUME Init PROVE AuthoringInv
  OBVIOUS
<1>1. AuthorTyped
  <2>1. draft \in Seq(Entry)
    <3>1. draft = <<>> \/ draft \in Lists
      BY DEF Init
    <3>2. Lists \subseteq Seq(Entry) /\ <<>> \in Seq(Entry)
      BY AuthoringAssumption
    <3> QED BY <3>1, <3>2
  <2>2. /\ indegree \in [Ids -> Int] /\ ready \subseteq Ids /\ processed \in Nat
        /\ stack \in Seq(Ids) /\ active \subseteq Ids /\ gated \subseteq Ids
    BY DEF Init
  <2> QED BY <2>1, <2>2 DEF Init, AuthorTyped
<1>2. GraphInv
  <2>1. Given
    BY DEF Init, Given
  <2> QED BY <2>1, FreshInv DEF Init, FreshGraph
<1>3. StageInv /\ BuildInv /\ KahnInv /\ ValidatedInv /\ CircularInv /\ GateInv
  BY Ungated DEF Init, StageInv, BuildInv, KahnInv, ValidatedInv, CircularInv
<1> QED BY <1>1, <1>2, <1>3 DEF AuthoringInv

\* Until the graph is built, it and the gating are left alone.
LEMMA EarlyStep ==
  ASSUME AuthoringInv, UNCHANGED graphVars, UNCHANGED gateVars,
         phase \in {"drafting", "blueprint", "kahn", "stored", "nodes"},
         phase' \in {"drafting", "blueprint", "kahn", "stored", "nodes", "refused"}
  PROVE  stage = "none" /\ GraphInv' /\ StageInv' /\ GateInv'
<1>1. stage = "none" /\ stage' = stage /\ stack' = <<>> /\ gated' = {}
  BY DEF AuthoringInv, StageInv, GateInv, graphVars, gateVars
<1>2. GraphInv'
  BY StutterInv DEF AuthoringInv
<1>3. StageInv'
  BY <1>1 DEF StageInv
<1>4. GateInv'
  BY <1>1, UngatedNext
<1> QED BY <1>1, <1>2, <1>3, <1>4

LEMMA AppliedTyped ==
  ASSUME draft \in Seq(Entry)
  PROVE  /\ Applied \in Seq(Entry) /\ Len(Applied) = Len(draft)
         /\ \A i \in Entries : /\ Applied[i].id = draft[i].id
                               /\ Applied[i].deps = {f \in Ids : <<f, draft[i].id>> \in links}
<1>1. /\ Len(draft) \in Nat /\ Entries = 1..Len(draft) /\ \A i \in Entries : draft[i] \in Entry
  BY DraftTyped DEF Entries
<1> DEFINE with(i) == [draft[i] EXCEPT !.deps = {f \in Ids : <<f, draft[i].id>> \in links}]
<1>2. \A i \in Entries : /\ with(i) \in Entry /\ with(i).id = draft[i].id
                         /\ with(i).deps = {f \in Ids : <<f, draft[i].id>> \in links}
  BY <1>1 DEF Entry
<1>3. Applied = [i \in 1..Len(draft) |-> with(i)]
  BY <1>1 DEF Applied
<1> HIDE DEF with
<1> QED BY <1>1, <1>2, <1>3

LEMMA LinkedTyped ==
  ASSUME draft \in Seq(Entry), NEW f \in Ids, NEW t
  PROVE  Linked(draft, f, t) \in Seq(Entry)
<1>1. /\ Len(draft) \in Nat /\ DOMAIN draft = 1..Len(draft) /\ \A i \in 1..Len(draft) : draft[i] \in Entry
  BY DraftTyped DEF Entries
<1> DEFINE with(i) == IF draft[i].id = t THEN [draft[i] EXCEPT !.deps = @ \cup {f}] ELSE draft[i]
<1>2. \A i \in 1..Len(draft) : with(i) \in Entry
  BY <1>1 DEF Entry
<1>3. Linked(draft, f, t) = [i \in 1..Len(draft) |-> with(i)]
  BY <1>1 DEF Linked
<1> HIDE DEF with
<1> QED BY <1>1, <1>2, <1>3

LEMMA InvDraft == AuthoringInv /\ Draft => AuthoringInv'
<1> SUFFICES ASSUME AuthoringInv, Draft PROVE AuthoringInv'
  OBVIOUS
<1>1. /\ UNCHANGED <<graphVars, validated, tools, checkVars, gateVars>>
      /\ \/ \E id \in DraftIds, k \in DraftKinds : AddNode(id, k)
         \/ \E f, t \in DraftIds : Connect(f, t)
         \/ Preview \/ Build \/ ToWorkflow
  BY DEF Draft
<1>2. phase = "drafting"
  BY <1>1 DEF AddNode, Connect, Preview, Build, ToWorkflow
<1>3. AuthorTyped /\ ~built /\ ~validated /\ why # "circular" /\ draft \in Seq(Entry) /\ links \subseteq Ids \X Ids
  BY <1>2 DEF AuthoringInv, BuildInv, ValidatedInv, CircularInv, AuthorTyped
<1>4. /\ draft' \in Seq(Entry) /\ links' \subseteq Ids \X Ids
      /\ phase' = "drafting" /\ why' = why /\ built' = built
      \/ Build \/ ToWorkflow
  <2>1. ASSUME NEW id \in DraftIds, NEW k \in DraftKinds, AddNode(id, k)
        PROVE  /\ draft' \in Seq(Entry) /\ links' = links
               /\ phase' = phase /\ why' = why /\ built' = built
    <3>1. NewEntry(id, k) \in Entry
      BY AuthoringAssumption DEF NewEntry, Entry
    <3> QED BY <1>3, <2>1, <3>1 DEF AddNode
  <2>2. ASSUME NEW f \in DraftIds, NEW t \in DraftIds, Connect(f, t)
        PROVE  /\ draft' \in Seq(Entry) /\ links' \subseteq Ids \X Ids
               /\ phase' = phase /\ why' = why /\ built' = built
    BY <1>3, <2>2, LinkedTyped, AuthoringAssumption DEF Connect
  <2>3. ASSUME Preview
        PROVE  /\ draft' \in Seq(Entry) /\ links' = links
               /\ phase' = phase /\ why' = why /\ built' = built
    BY <1>3, <2>3, AppliedTyped DEF Preview
  <2> QED BY <1>1, <1>2, <1>3, <2>1, <2>2, <2>3
<1>5. ASSUME AuthorTyped', BuildInv', KahnInv', why' # "circular",
             phase' \in {"drafting", "blueprint", "nodes", "refused"}
      PROVE  AuthoringInv'
  <2>1. GraphInv' /\ StageInv' /\ GateInv'
    BY <1>1, <1>2, <1>5, EarlyStep
  <2>2. ValidatedInv' /\ CircularInv'
    BY <1>1, <1>3, <1>5 DEF ValidatedInv, CircularInv
  <2> QED BY <1>5, <2>1, <2>2 DEF AuthoringInv
<1>6. CASE /\ draft' \in Seq(Entry) /\ links' \subseteq Ids \X Ids
           /\ phase' = "drafting" /\ why' = why /\ built' = built
  <2>1. AuthorTyped'
    BY <1>1, <1>3, <1>6 DEF AuthorTyped, checkVars, gateVars
  <2>2. BuildInv' /\ KahnInv'
    BY <1>3, <1>6 DEF BuildInv, KahnInv
  <2> QED BY <1>3, <1>5, <1>6, <2>1, <2>2
<1>7. CASE Build
  <2>1. /\ draft' = Applied /\ built' = TRUE /\ links' = links
        /\ \/ Closed(Applied) /\ phase' = "blueprint" /\ why' = why
           \/ phase' = "refused" /\ why' = "dependency"
    BY <1>7 DEF Build, Refuse
  <2>2. /\ draft' \in Seq(Entry) /\ Len(draft') = Len(draft)
        /\ \A i \in Entries : /\ draft'[i].id = draft[i].id
                              /\ draft'[i].deps = {f \in Ids : <<f, draft[i].id>> \in links}
    BY <1>3, <2>1, AppliedTyped
  <2>3. AuthorTyped'
    BY <1>1, <1>3, <2>1, <2>2 DEF AuthorTyped, checkVars, gateVars
  <2>4. BuildInv'
    BY <2>1, <2>2 DEF BuildInv, Entries
  <2>5. KahnInv'
    BY <2>1 DEF KahnInv
  <2> QED BY <1>3, <1>5, <2>1, <2>3, <2>4, <2>5
<1>8. CASE ToWorkflow
  <2>1. phase' = "nodes" /\ draft' = draft /\ links' = links /\ built' = built /\ why' = why
    BY <1>8 DEF ToWorkflow, draftVars
  <2>2. AuthorTyped'
    BY <1>1, <1>3, <2>1 DEF AuthorTyped, checkVars, gateVars
  <2>3. BuildInv' /\ KahnInv'
    BY <1>3, <2>1 DEF BuildInv, KahnInv
  <2> QED BY <1>3, <1>5, <2>1, <2>2, <2>3
<1> QED BY <1>4, <1>6, <1>7, <1>8

\* With the draft nothing changes that is said of it.
LEMMA DraftKept ==
  ASSUME draft \in Seq(Entry), draft' = draft
  PROVE  /\ Entries' = Entries /\ Listed' = Listed /\ DraftEdges' = DraftEdges
         /\ Distinct' <=> Distinct
         /\ Closed(draft)' <=> Closed(draft)
         /\ \A n : LastOf(n)' = LastOf(n)
         /\ Circular' <=> Circular
<1>1. /\ Entries' = Entries /\ Listed' = Listed /\ DraftEdges' = DraftEdges
      /\ Distinct' <=> Distinct
      /\ Closed(draft)' <=> Closed(draft)
      /\ \A n : LastOf(n)' = LastOf(n)
      /\ \A d, n : Times(d, n)' = Times(d, n)
  BY SameShape
<1>2. {e \in Ids \X Ids : Times(e[1], e[2]) > 0}' = {e \in Ids \X Ids : Times(e[1], e[2]) > 0}
  BY <1>1
<1>3. Circular' <=> Circular
  BY <1>1, <1>2 DEF Circular, HasPath
<1> QED BY <1>1, <1>3

LEMMA BuildKept == BuildInv /\ phase' # "drafting" /\ UNCHANGED draftVars => BuildInv'
BY DEF BuildInv, draftVars, Entries

LEMMA InvLoseTool == ASSUME AuthoringInv, NEW t \in tools, LoseTool(t) PROVE AuthoringInv'
<1>1. /\ phase = "stored" /\ phase' = phase /\ tools' = tools \ {t}
      /\ UNCHANGED <<graphVars, draftVars, validated, why, checkVars, gateVars>>
      /\ draft' = draft /\ draft \in Seq(Entry) /\ AuthorTyped
  BY DEF LoseTool, draftVars, AuthoringInv, AuthorTyped
<1>2. AuthorTyped'
  BY <1>1 DEF AuthorTyped, checkVars, gateVars, draftVars
<1>3. stage = "none" /\ GraphInv' /\ StageInv' /\ GateInv'
  BY <1>1, EarlyStep
<1>4. BuildInv'
  BY <1>1, BuildKept DEF AuthoringInv
<1>5. KahnInv'
  BY <1>1, DraftKept DEF AuthoringInv, KahnInv
<1>6. ValidatedInv'
  BY <1>1, DraftKept DEF AuthoringInv, ValidatedInv, graphVars
<1>7. CircularInv'
  BY <1>1 DEF AuthoringInv, CircularInv
<1> QED BY <1>2, <1>3, <1>4, <1>5, <1>6, <1>7 DEF AuthoringInv

LEMMA InvStartCheck == AuthoringInv /\ StartCheck => AuthoringInv'
<1> SUFFICES ASSUME AuthoringInv, StartCheck PROVE AuthoringInv'
  OBVIOUS
<1>1. /\ phase = "blueprint" /\ phase' = "kahn"
      /\ UNCHANGED <<graphVars, draftVars, validated, why, tools, gateVars>>
      /\ draft' = draft /\ draft \in Seq(Entry) /\ AuthorTyped
  BY DEF StartCheck, draftVars, AuthoringInv, AuthorTyped
<1>2. \E V \in SUBSET Listed' : Processed(V)'
  <2>1. PICK V : V = {}
    OBVIOUS
  <2> QED BY <1>1, <2>1, StartsProcessed
<1>3. AuthorTyped'
  <2>1. indegree' \in [Ids -> Int]
    <3>1. indegree' = [n \in Ids |-> Cardinality({e \in Entries \X Ids : draft[e[1]].id = n /\ e[2] \in draft[e[1]].deps})]
      BY DEF StartCheck
    <3>2. ASSUME NEW n \in Ids
          PROVE  Cardinality({e \in Entries \X Ids : draft[e[1]].id = n /\ e[2] \in draft[e[1]].deps}) \in Int
      <4>1. PICK V : V = {}
        OBVIOUS
      <4>2. {e \in Entries \X Ids : draft[e[1]].id = n /\ e[2] \in draft[e[1]].deps} = Waiting(V, n)
        BY <4>1 DEF Waiting
      <4>3. Cardinality(Waiting(V, n)) \in Nat
        BY <1>1, WaitingTyped
      <4>4. Cardinality(Waiting(V, n)) \in Int
        BY <4>3
      <4> QED BY <4>2, <4>4, Zenon
    <3> QED BY <3>1, <3>2
  <2>2. ready' \subseteq Ids /\ processed' = 0
    BY <1>1, DraftTyped DEF StartCheck
  <2> QED BY <1>1, <2>1, <2>2 DEF AuthorTyped, gateVars, draftVars
<1>4. stage = "none" /\ GraphInv' /\ StageInv' /\ GateInv'
  BY <1>1, EarlyStep
<1>5. BuildInv'
  BY <1>1, BuildKept DEF AuthoringInv
<1>6. KahnInv'
  BY <1>1, <1>2, DraftKept DEF AuthoringInv, KahnInv
<1>7. ValidatedInv' /\ CircularInv'
  BY <1>1 DEF AuthoringInv, ValidatedInv, CircularInv
<1> QED BY <1>3, <1>4, <1>5, <1>6, <1>7 DEF AuthoringInv

LEMMA InvVersionRefused == AuthoringInv /\ VersionRefused => AuthoringInv'
<1> SUFFICES ASSUME AuthoringInv, VersionRefused PROVE AuthoringInv'
  OBVIOUS
<1>1. /\ phase = "blueprint" /\ phase' = "refused" /\ why' = "version"
      /\ UNCHANGED <<graphVars, draftVars, validated, tools, checkVars, gateVars>> /\ AuthorTyped
  BY DEF VersionRefused, Refuse, AuthoringInv
<1>2. AuthorTyped'
  BY <1>1 DEF AuthorTyped, checkVars, gateVars, draftVars
<1>3. stage = "none" /\ GraphInv' /\ StageInv' /\ GateInv'
  BY <1>1, EarlyStep
<1>4. BuildInv'
  BY <1>1, BuildKept DEF AuthoringInv
<1>5. KahnInv' /\ ValidatedInv' /\ CircularInv'
  BY <1>1 DEF AuthoringInv, KahnInv, ValidatedInv, CircularInv
<1> QED BY <1>2, <1>3, <1>4, <1>5 DEF AuthoringInv

LEMMA InvCheck == AuthoringInv /\ Check => AuthoringInv'
<1> SUFFICES ASSUME AuthoringInv, Check PROVE AuthoringInv'
  OBVIOUS
<1>1. PICK m \in ready : Visit(m)
  BY DEF Check
<1>2. /\ phase = "kahn" /\ phase' = phase
      /\ UNCHANGED <<graphVars, draftVars, validated, why, tools, gateVars>>
      /\ draft' = draft /\ draft \in Seq(Entry) /\ AuthorTyped
  BY <1>1 DEF Check, Visit, draftVars, AuthoringInv, AuthorTyped
<1>3. Closed(draft) /\ \E V \in SUBSET Listed : Processed(V)
  BY <1>2 DEF AuthoringInv, KahnInv
<1>4. PICK V \in SUBSET Listed : Processed(V)
  BY <1>3
<1>5. V \cup {m} \in SUBSET Listed /\ Processed(V \cup {m})'
  BY <1>1, <1>2, <1>4, VisitProcesses
<1>6. AuthorTyped'
  <2>1. indegree' \in [Ids -> Int]
    <3>1. \A n \in Ids : Times(m, n) \in Nat
      BY <1>2, TimesTyped
    <3> QED BY <1>1, <1>2, <3>1 DEF Visit, AuthorTyped
  <2>2. ready' \subseteq Ids /\ processed' \in Nat
    BY <1>1, <1>2 DEF Visit, AuthorTyped
  <2> QED BY <1>2, <2>1, <2>2 DEF AuthorTyped, gateVars, draftVars
<1>7. stage = "none" /\ GraphInv' /\ StageInv' /\ GateInv'
  BY <1>2, EarlyStep
<1>8. BuildInv'
  BY <1>2, BuildKept DEF AuthoringInv
<1>9. KahnInv'
  <2>1. Closed(draft)' /\ V \cup {m} \in SUBSET Listed'
    BY <1>2, <1>3, <1>5, DraftKept
  <2> QED BY <1>5, <2>1 DEF KahnInv
<1>10. ValidatedInv' /\ CircularInv'
  BY <1>2 DEF AuthoringInv, ValidatedInv, CircularInv
<1> QED BY <1>6, <1>7, <1>8, <1>9, <1>10 DEF AuthoringInv

LEMMA InvAccept == AuthoringInv /\ Accept => AuthoringInv'
<1> SUFFICES ASSUME AuthoringInv, Accept PROVE AuthoringInv'
  OBVIOUS
<1>1. /\ phase = "kahn" /\ ready = {}
      /\ UNCHANGED <<graphVars, draftVars, tools, checkVars, gateVars>>
      /\ draft' = draft /\ draft \in Seq(Entry) /\ AuthorTyped
  BY DEF Accept, draftVars, AuthoringInv, AuthorTyped
<1>2. Closed(draft) /\ ~validated /\ why # "circular" /\ \E V \in SUBSET Listed : Processed(V)
  BY <1>1 DEF AuthoringInv, KahnInv, ValidatedInv, CircularInv
<1>3. PICK V \in SUBSET Listed : Processed(V)
  BY <1>2
<1>4. \/ /\ processed # Len(draft) /\ phase' = "refused" /\ why' = "circular" /\ validated' = validated
      \/ /\ processed = Len(draft) /\ phase' = "stored" /\ why' = why /\ validated' = TRUE
         /\ \A i \in Entries : /\ Convertible(draft[i])
                               /\ RuntimeValidate(Config[draft[i].kind], Populated(draft[i]).schemas)
      \/ /\ phase' = "refused" /\ why' = "node" /\ validated' = validated
  BY DEF Accept, Refuse
<1>5. AuthorTyped'
  BY <1>1, <1>4 DEF AuthorTyped, checkVars, gateVars, draftVars
<1>6. stage = "none" /\ stage' = stage /\ GraphInv' /\ StageInv' /\ GateInv'
  BY <1>1, <1>4, EarlyStep DEF graphVars
<1>7. BuildInv'
  BY <1>1, <1>4, BuildKept DEF AuthoringInv
<1>8. KahnInv'
  BY <1>1, <1>2, <1>4, DraftKept DEF KahnInv
<1>9. ValidatedInv' /\ CircularInv'
  <2>1. CASE processed # Len(draft) /\ phase' = "refused" /\ why' = "circular" /\ validated' = validated
    <3>1. Circular'
      BY <1>1, <1>2, <1>3, <2>1, NotAllProcessed, DraftKept
    <3> QED BY <1>2, <2>1, <3>1 DEF ValidatedInv, CircularInv
  <2>2. CASE /\ processed = Len(draft) /\ phase' = "stored" /\ why' = why /\ validated' = TRUE
             /\ \A i \in Entries : /\ Convertible(draft[i])
                                   /\ RuntimeValidate(Config[draft[i].kind], Populated(draft[i]).schemas)
    <3>1. Distinct /\ Acyclic(DraftEdges)
      BY <1>1, <1>3, <2>2, AllProcessed
    <3>2. \A i \in Entries : Sound(draft[i])
      BY <2>2 DEF Sound, Convertible
    <3>3. Distinct' /\ Acyclic(DraftEdges)' /\ Closed(draft)' /\ Entries' = Entries
      BY <1>1, <1>2, <3>1, DraftKept DEF Acyclic, Preceded
    <3>4. \A i \in Entries' : Sound(draft[i])'
      BY <1>1, <3>2, <3>3 DEF Sound, Populated, Populates
    <3> QED BY <1>2, <1>6, <2>2, <3>3, <3>4 DEF ValidatedInv, CircularInv
  <2>3. CASE phase' = "refused" /\ why' = "node" /\ validated' = validated
    BY <1>2, <2>3 DEF ValidatedInv, CircularInv
  <2> QED BY <1>4, <2>1, <2>2, <2>3
<1> QED BY <1>5, <1>6, <1>7, <1>8, <1>9 DEF AuthoringInv

LEMMA InvExecute == AuthoringInv /\ Execute => AuthoringInv'
<1> SUFFICES ASSUME AuthoringInv, Execute PROVE AuthoringInv'
  OBVIOUS
<1>1. /\ phase \in {"blueprint", "stored"}
      /\ UNCHANGED <<graphVars, links, built, validated, tools, checkVars, gateVars>>
      /\ draft \in Seq(Entry) /\ AuthorTyped /\ why # "circular"
      /\ stage' = stage /\ tools' = tools
  BY DEF Execute, AuthoringInv, AuthorTyped, CircularInv, graphVars
<1>2. \/ phase' = "nodes" /\ draft' = ConvertAll(draft) /\ why' = why
      \/ /\ phase' = "refused" /\ why' = "node" /\ draft' = draft
         /\ \E i \in Entries : ~Convertible(draft[i])
  BY DEF Execute, Refuse
<1>3. stage = "none" /\ GraphInv' /\ StageInv' /\ GateInv'
  BY <1>1, <1>2, EarlyStep
<1>4. /\ draft' \in Seq(Entry) /\ Len(draft') = Len(draft)
      /\ \A i \in Entries : /\ draft'[i].id = draft[i].id /\ draft'[i].deps = draft[i].deps
                            /\ Sound(draft'[i]) <=> Sound(draft[i])
  BY <1>1, <1>2, ConvertedTyped
<1>5. /\ Entries' = Entries /\ DraftEdges' = DraftEdges
      /\ Distinct' <=> Distinct
      /\ Closed(draft)' <=> Closed(draft)
  BY <1>1, <1>4, SameShape
<1>6. AuthorTyped'
  BY <1>1, <1>2, <1>4 DEF AuthorTyped, checkVars, gateVars
<1>7. BuildInv'
  BY <1>1, <1>2, <1>4, <1>5 DEF AuthoringInv, BuildInv
<1>8. KahnInv' /\ CircularInv'
  BY <1>1, <1>2 DEF KahnInv, CircularInv
<1>9. ValidatedInv'
  <2> SUFFICES ASSUME validated
               PROVE  /\ phase' = "refused" => why' = "node" /\ Lost'
                      /\ Distinct' /\ Closed(draft)' /\ Acyclic(DraftEdges)'
                      /\ \A i \in Entries' : Sound(draft'[i])
    BY <1>1, <1>2, <1>3 DEF ValidatedInv, Sound, Populated, Populates
  <2>1. Distinct /\ Closed(draft) /\ Acyclic(DraftEdges) /\ \A i \in Entries : Sound(draft[i])
    BY DEF AuthoringInv, ValidatedInv
  <2>2. Acyclic(DraftEdges)'
    BY <1>5, <2>1 DEF Acyclic, Preceded
  <2>3. ASSUME NEW i \in Entries, ~Convertible(draft[i]) PROVE Lost
    <3>1. ~Resolvable(draft[i]) /\ draft[i].kind \in Kinds
      BY <1>1, <2>1, <2>3, DraftTyped DEF Convertible, Sound
    <3> QED BY <3>1 DEF Resolvable, Lost
  <2>4. Lost' <=> Lost
    BY <1>1 DEF Lost
  <2> QED BY <1>2, <1>4, <1>5, <2>1, <2>2, <2>3, <2>4
<1> QED BY <1>3, <1>6, <1>7, <1>8, <1>9 DEF AuthoringInv

LEMMA InvConstruct == AuthoringInv /\ Construct => AuthoringInv'
<1> SUFFICES ASSUME AuthoringInv, Construct PROVE AuthoringInv'
  OBVIOUS
<1>1. /\ phase = "nodes" /\ stage = "none" /\ why # "circular" /\ stack = <<>> /\ gated = {}
      /\ UNCHANGED <<links, built, validated, tools, checkVars, gateVars>>
      /\ draft \in Seq(Entry) /\ AuthorTyped /\ tools' = tools
      /\ todo = {} /\ removed = {} /\ level = [n \in Ids |-> -1]
  <2>1. level = [n \in Ids |-> -1]
    BY DEF Construct, AuthoringInv, StageInv, GraphInv, GraphTyped, GraphStages, Unlevelled
  <2> QED BY <2>1 DEF Construct, AuthoringInv, AuthorTyped, CircularInv, StageInv, GateInv, GraphInv, GraphStages
<1>2. \/ /\ phase' = "refused" /\ why' = "node" /\ UNCHANGED graphVars /\ draft' = draft
         /\ \E i \in Entries : ~Resolvable(draft[i])
      \/ /\ phase' = "refused" /\ why' = "dependency" /\ UNCHANGED graphVars /\ draft' = draft
         /\ ~Closed(draft)
      \/ /\ phase' = "graph" /\ why' = why /\ draft' = ConvertAll(draft) /\ Closed(draft)
         /\ nodes' = Listed
         /\ deps' = [n \in Ids |-> UNION {draft[i].deps : i \in LastOf(n)}]
         /\ edges' = DraftEdges
         /\ recursive' = {n \in Listed : \E i \in LastOf(n) : Config[draft[i].kind].type = "recursive"}
         /\ sources' = [n \in Ids |-> UNION {Config[draft[i].kind].sources : i \in LastOf(n)}]
         /\ stage' = "cycles" /\ todo' = todo /\ removed' = removed /\ level' = level
  BY DEF Construct, Refuse, DraftEdges
<1>4. /\ draft' \in Seq(Entry) /\ Len(draft') = Len(draft)
      /\ \A i \in Entries : /\ draft'[i].id = draft[i].id /\ draft'[i].deps = draft[i].deps
                            /\ Sound(draft'[i]) <=> Sound(draft[i])
  BY <1>1, <1>2, ConvertedTyped
<1>5. /\ Entries' = Entries /\ Listed' = Listed /\ DraftEdges' = DraftEdges
      /\ Distinct' <=> Distinct
      /\ Closed(draft)' <=> Closed(draft)
      /\ \A n : LastOf(n)' = LastOf(n)
  BY <1>1, <1>4, SameShape
<1>6. AuthorTyped'
  BY <1>1, <1>2, <1>4 DEF AuthorTyped, checkVars, gateVars
<1>7. BuildInv'
  BY <1>1, <1>2, <1>4, <1>5 DEF AuthoringInv, BuildInv
<1>8. KahnInv' /\ CircularInv'
  BY <1>1, <1>2 DEF KahnInv, CircularInv
<1>9. GraphInv' /\ StageInv' /\ GateInv'
  <2>1. CASE phase' = "refused" /\ UNCHANGED graphVars
    BY <1>1, <2>1, EarlyStep
  <2>2. CASE phase' = "graph"
    <3>1. FromDraft' /\ Closed(draft)'
      <4>1. \A n \in Ids : UNION {draft'[i].deps : i \in LastOf(n)'} = UNION {draft[i].deps : i \in LastOf(n)}
        BY <1>4, <1>5 DEF LastOf
      <4> QED BY <1>2, <1>5, <2>2, <4>1 DEF FromDraft
    <3>2. recursive' \subseteq nodes' /\ sources' \in [Ids -> SUBSET Ids]
      <4>1. \A n : \A i \in LastOf(n) : Config[draft[i].kind].sources \subseteq Ids
        BY <1>1, DraftTyped, AuthoringAssumption DEF LastOf
      <4> QED BY <1>2, <2>2, <4>1
    <3>3. Given'
      BY <1>4, <3>1, <3>2, DraftIsGivenNext DEF DraftGraph
    <3>4. GraphInv'
      BY <1>1, <1>2, <2>2, <3>3, FreshInvNext DEF FreshGraph
    <3>5. StageInv'
      BY <1>2, <2>2, <3>1 DEF StageInv
    <3>6. GateInv'
      BY <1>1, <2>2, UngatedNext DEF gateVars
    <3> QED BY <3>4, <3>5, <3>6
  <2> QED BY <1>2, <2>1, <2>2
<1>10. ValidatedInv'
  <2> SUFFICES ASSUME validated
               PROVE  /\ phase' = "refused" => why' = "node" /\ Lost'
                      /\ Distinct' /\ Closed(draft)' /\ Acyclic(DraftEdges)'
                      /\ \A i \in Entries' : Sound(draft'[i])
    <3>1. stage' # "cyclic"
      BY <1>1, <1>2 DEF graphVars
    <3> QED BY <1>1, <1>2, <3>1 DEF ValidatedInv, Sound, Populated, Populates
  <2>1. Distinct /\ Closed(draft) /\ Acyclic(DraftEdges) /\ \A i \in Entries : Sound(draft[i])
    BY DEF AuthoringInv, ValidatedInv
  <2>2. Acyclic(DraftEdges)'
    BY <1>5, <2>1 DEF Acyclic, Preceded
  <2>3. ASSUME NEW i \in Entries, ~Resolvable(draft[i]) PROVE Lost
    <3>1. draft[i].kind \in Kinds
      BY <1>1, DraftTyped
    <3> QED BY <2>3, <3>1 DEF Resolvable, Lost
  <2>4. Lost' <=> Lost
    BY <1>1 DEF Lost
  <2> QED BY <1>2, <1>4, <1>5, <2>1, <2>2, <2>3, <2>4
<1> QED BY <1>6, <1>7, <1>8, <1>9, <1>10 DEF AuthoringInv

(***************************************************************************)
(* The steps with a graph                                                  *)
(***************************************************************************)
LEMMA GraphKept ==
  ASSUME FromDraft, draft \in Seq(Entry), draft' = draft,
         nodes' = nodes, deps' = deps, edges' = edges
  PROVE  FromDraft'
<1>1. /\ Listed' = Listed /\ DraftEdges' = DraftEdges
      /\ \A n : LastOf(n)' = LastOf(n)
  BY DraftKept
<1> QED BY <1>1 DEF FromDraft

\* The properties of a draft that does not change any more.
LEMMA SettledDraft ==
  ASSUME AuthoringInv, draft' = draft, built' = built, links' = links, validated' = validated,
         phase \in {"graph", "built", "running", "raised", "refused"},
         phase' \in {"graph", "built", "running", "raised", "refused"},
         tools' = tools,
         why' # why => why' # "circular" /\ phase # "refused",
         (why' = why /\ phase' = phase) \/ phase # "refused",
         validated => (phase' # phase /\ phase' = "refused" => why' = "mapping") /\ stage' # "cyclic"
  PROVE  BuildInv' /\ KahnInv' /\ ValidatedInv' /\ CircularInv'
<1>1. draft \in Seq(Entry)
  BY DEF AuthoringInv, AuthorTyped
<1>2. /\ Entries' = Entries /\ DraftEdges' = DraftEdges
      /\ Distinct' <=> Distinct
      /\ Closed(draft)' <=> Closed(draft)
      /\ Circular' <=> Circular
  BY <1>1, DraftKept
<1>3. BuildInv' /\ KahnInv'
  BY <1>2 DEF AuthoringInv, BuildInv, KahnInv
<1>4. CircularInv'
  BY <1>2 DEF AuthoringInv, CircularInv
<1>5. ValidatedInv'
  <2> SUFFICES ASSUME validated
               PROVE  /\ phase' = "refused" => why' = "mapping" \/ (why' = "node" /\ Lost')
                      /\ Distinct' /\ Closed(draft)' /\ Acyclic(DraftEdges)'
                      /\ \A i \in Entries' : Sound(draft'[i])
    BY DEF ValidatedInv, Sound, Populated, Populates
  <2>1. /\ Distinct /\ Closed(draft) /\ Acyclic(DraftEdges) /\ \A i \in Entries : Sound(draft[i])
        /\ phase = "refused" => why = "mapping" \/ (why = "node" /\ Lost)
    BY DEF AuthoringInv, ValidatedInv
  <2>2. Acyclic(DraftEdges)'
    BY <1>2, <2>1 DEF Acyclic, Preceded
  <2>3. Lost' <=> Lost
    BY DEF Lost
  <2> QED BY <1>2, <2>1, <2>2, <2>3
<1> QED BY <1>3, <1>4, <1>5

LEMMA InvGraphStep == AuthoringInv /\ GraphStep => AuthoringInv'
<1> SUFFICES ASSUME AuthoringInv, GraphStep PROVE AuthoringInv'
  OBVIOUS
<1>1. /\ phase = "graph" /\ GraphNext /\ phase' = phase /\ why' = why
      /\ draft' = draft /\ built' = built /\ links' = links /\ validated' = validated
      /\ UNCHANGED <<draftVars, tools, checkVars, gateVars>> /\ tools' = tools
      /\ AuthorTyped /\ GraphInv /\ draft \in Seq(Entry) /\ stack = <<>> /\ gated = {}
      /\ stage # "none" /\ FromDraft /\ Closed(draft)
  BY DEF GraphStep, draftVars, AuthoringInv, AuthorTyped, StageInv, GateInv
<1>2. GraphInv'
  BY <1>1, GraphInvKept
<1>3. /\ nodes' = nodes /\ deps' = deps /\ edges' = edges /\ stage' # "none"
      /\ stage' = "cyclic" => stage = "cyclic" \/ \E C \in SimpleCycles : ~ValidCycle(C)
  BY <1>1 DEF GraphNext, CheckCycles, InspectEdge, AssignLevel, Levelled, given
<1>4. validated => stage' # "cyclic"
  <2> SUFFICES ASSUME validated PROVE SimpleCycles = {} /\ stage # "cyclic"
    BY <1>3
  <2>1. Acyclic(edges) /\ stage # "cyclic"
    BY <1>1 DEF AuthoringInv, ValidatedInv, FromDraft
  <2> QED BY <1>1, <2>1, NoSimpleCycles DEF GraphInv, GraphTyped
<1>5. AuthorTyped'
  BY <1>1 DEF AuthorTyped, checkVars, gateVars, draftVars
<1>6. StageInv'
  BY <1>1, <1>3, GraphKept, DraftKept DEF StageInv
<1>7. GateInv'
  BY <1>1, UngatedNext DEF gateVars
<1>8. BuildInv' /\ KahnInv' /\ ValidatedInv' /\ CircularInv'
  BY <1>1, <1>4, SettledDraft
<1> QED BY <1>2, <1>5, <1>6, <1>7, <1>8 DEF AuthoringInv

LEMMA InvConstructed == AuthoringInv /\ Constructed => AuthoringInv'
<1> SUFFICES ASSUME AuthoringInv, Constructed PROVE AuthoringInv'
  OBVIOUS
<1>1. /\ phase = "graph" /\ stage \in {"cyclic", "done"}
      /\ draft' = draft /\ built' = built /\ links' = links /\ validated' = validated
      /\ UNCHANGED <<graphVars, draftVars, tools, checkVars, gateVars>> /\ tools' = tools
      /\ AuthorTyped /\ draft \in Seq(Entry) /\ stack' = <<>> /\ gated' = {} /\ stage' = stage
      /\ nodes' = nodes /\ deps' = deps /\ edges' = edges
      /\ FromDraft /\ Closed(draft)
  BY DEF Constructed, draftVars, AuthoringInv, AuthorTyped, StageInv, GateInv, gateVars, graphVars, given
<1>2. \/ stage = "cyclic" /\ phase' = "refused" /\ why' = "cycle"
      \/ phase' = "refused" /\ why' = "mapping"
      \/ stage = "done" /\ phase' = "built" /\ why' = why
  BY DEF Constructed, Refuse
<1>3. validated => stage # "cyclic"
  BY DEF AuthoringInv, ValidatedInv
<1>4. GraphInv'
  BY <1>1, StutterInv DEF AuthoringInv
<1>5. AuthorTyped'
  BY <1>1, <1>2 DEF AuthorTyped, checkVars, gateVars, draftVars
<1>6. StageInv'
  BY <1>1, <1>2, GraphKept, DraftKept DEF StageInv
<1>7. GateInv'
  BY <1>1, <1>2, UngatedNext
<1>8. BuildInv' /\ KahnInv' /\ ValidatedInv' /\ CircularInv'
  BY <1>1, <1>2, <1>3, SettledDraft
<1> QED BY <1>4, <1>5, <1>6, <1>7, <1>8 DEF AuthoringInv

\* An analysis only answers.
LEMMA InvIdle ==
  AuthoringInv /\ UNCHANGED <<graphVars, phase, draftVars, validated, why, tools, checkVars, gateVars>>
    => AuthoringInv'
<1> SUFFICES ASSUME AuthoringInv,
                    UNCHANGED <<graphVars, phase, draftVars, validated, why, tools, checkVars, gateVars>>
             PROVE  AuthoringInv'
  OBVIOUS
<1>1. /\ draft' = draft /\ draft \in Seq(Entry) /\ links' = links /\ built' = built
      /\ nodes' = nodes /\ deps' = deps /\ edges' = edges /\ stage' = stage /\ removed' = removed
      /\ indegree' = indegree /\ ready' = ready /\ processed' = processed
      /\ stack' = stack /\ active' = active /\ gated' = gated /\ level' = level
      /\ phase' = phase /\ why' = why
      /\ validated' = validated /\ tools' = tools
  BY DEF AuthoringInv, AuthorTyped, draftVars, graphVars, given, checkVars, gateVars
<1>2. GraphInv'
  BY StutterInv DEF AuthoringInv
<1>3. AuthorTyped'
  BY <1>1 DEF AuthoringInv, AuthorTyped
<1>4. /\ Entries' = Entries /\ Listed' = Listed /\ DraftEdges' = DraftEdges
      /\ Distinct' <=> Distinct
      /\ Closed(draft)' <=> Closed(draft)
      /\ \A n : LastOf(n)' = LastOf(n)
      /\ Circular' <=> Circular
      /\ \A V, n : Waiting(V, n)' = Waiting(V, n)
  BY <1>1, DraftKept, SameShape
<1>5. StageInv' /\ BuildInv' /\ CircularInv'
  BY <1>1, <1>4 DEF AuthoringInv, StageInv, FromDraft, BuildInv, CircularInv
<1>8. GateInv'
  <2>1. Conditions' = Conditions
    BY <1>1, <1>4 DEF Conditions
  <2> QED BY <1>1, <1>4, <2>1 DEF AuthoringInv, GateInv, Shallow
<1>6. KahnInv'
  <2>1. ASSUME NEW V \in SUBSET Listed, Processed(V) PROVE Processed(V)'
    BY <1>1, <1>4, <2>1 DEF Processed, Preceded
  <2> QED BY <1>1, <1>4, <2>1 DEF AuthoringInv, KahnInv
<1>7. ValidatedInv'
  <2>1. (Lost' <=> Lost) /\ (Acyclic(DraftEdges)' <=> Acyclic(DraftEdges))
    BY <1>1, <1>4 DEF Lost, Acyclic, Preceded
  <2>2. (\A i \in Entries : Sound(draft[i]))' <=> \A i \in Entries : Sound(draft[i])
    BY <1>1, <1>4 DEF Sound, Populated, Populates
  <2> QED BY <1>1, <1>4, <2>1, <2>2 DEF AuthoringInv, ValidatedInv
<1> QED BY <1>2, <1>3, <1>5, <1>6, <1>7, <1>8 DEF AuthoringInv

\* In a levelled graph that kept all its edges predecessors are lower.
LEMMA PredsBelow ==
  ASSUME AuthoringInv, stage = "done", Distinct, removed = {}, NEW n \in nodes
  PROVE  /\ level[n] \in Nat /\ Preds(n) \subseteq nodes
         /\ \A p \in Preds(n) : level[p] \in Nat /\ level[p] < level[n]
<1>1. \A m \in nodes : Preds(m) = deps[m]
  BY EdgesAreDeps DEF AuthoringInv, AuthorTyped, StageInv
<1> QED BY <1>1, LevelIsLongest, IdsCounted DEF AuthoringInv

LEMMA OneOrMore == \A k \in Nat : k >= 1 => k = 1 \/ k > 1
OBVIOUS

LEMMA OneLess == \A k \in Nat : k > 0 => (IF 1 <= k - 1 THEN k - 1 - 1 + 1 ELSE 0) = k - 1
OBVIOUS

\* A call that goes down from the node asked for, or further down, comes to a
\* node below what a condition's answer has dropped from the cache.
LEMMA DescendsFromCondition ==
  ASSUME AuthoringInv, stage = "done", Distinct, removed = {}, Shallow,
         NEW p \in nodes, Recurse(p)
  PROVE  \E n \in Conditions :
           /\ level[n] < level[stack[1]] /\ level[n] \in Nat
           /\ \A i \in 2..Len(stack) : level[stack[i]] + i <= level[n] + 2
           /\ level[p] + Len(stack) + 1 <= level[n] + 2
<1>1. /\ stack # <<>> /\ stack \in Seq(nodes) /\ Len(stack) \in Nat /\ Len(stack) >= 1
      /\ p \in Preds(stack[Len(stack)]) /\ p \notin active
  BY DEF Recurse, Last, AuthoringInv, GateInv
<1>2. /\ stack[1] \in nodes \ gated /\ stack[Len(stack)] \in nodes
      /\ \A u \in nodes \ gated : level[stack[1]] <= level[u]
  BY <1>1 DEF Shallow
<1>3. \A m \in nodes : level[m] \in Nat
  BY PredsBelow
<1>4. level[p] < level[stack[Len(stack)]]
  BY <1>1, <1>2, PredsBelow
<1>5. Conditions \subseteq nodes
  BY DEF Conditions
<1>6. CASE Len(stack) = 1
  <2>1. p \in gated \ active
    BY <1>1, <1>2, <1>3, <1>4, <1>6
  <2>2. PICK n \in Conditions : level[p] <= level[n] /\ \A u \in nodes \ gated : level[n] < level[u]
    BY <2>1 DEF Shallow
  <2>3. level[n] < level[stack[1]] /\ level[n] \in Nat /\ level[p] \in Nat
    BY <1>2, <1>3, <1>5, <2>2
  <2>4. \A i \in 2..Len(stack) : FALSE
    BY <1>6
  <2>5. level[p] + Len(stack) + 1 <= level[n] + 2
    BY <1>6, <2>2, <2>3
  <2> QED BY <2>3, <2>4, <2>5
<1>7. CASE Len(stack) > 1
  <2>1. PICK n \in Conditions :
          /\ level[n] < level[stack[1]]
          /\ \A i \in 2..Len(stack) : level[stack[i]] + i <= level[n] + 2
    BY <1>7 DEF Shallow
  <2>2. level[stack[Len(stack)]] + Len(stack) <= level[n] + 2
    BY <1>1, <1>7, <2>1
  <2>3. level[n] \in Nat /\ level[p] \in Nat /\ level[stack[Len(stack)]] \in Nat
    BY <1>2, <1>3, <1>5
  <2>4. level[p] + Len(stack) + 1 <= level[n] + 2
    BY <1>1, <1>4, <2>2, <2>3
  <2> QED BY <2>1, <2>3, <2>4
<1>8. Len(stack) = 1 \/ Len(stack) > 1
  <2>1. Len(stack) \in Nat /\ Len(stack) >= 1
    BY <1>1
  <2> QED BY <2>1, OneOrMore
<1> QED BY <1>6, <1>7, <1>8

\* A stack without its last call.
LEMMA ShorterStack ==
  ASSUME NEW S, NEW s \in Seq(S), s # <<>>
  PROVE  /\ SubSeq(s, 1, Len(s) - 1) \in Seq(S)
         /\ Len(SubSeq(s, 1, Len(s) - 1)) = Len(s) - 1
         /\ \A i \in 1..(Len(s) - 1) : SubSeq(s, 1, Len(s) - 1)[i] = s[i]
<1>1. Len(s) \in Nat /\ Len(s) > 0
  OBVIOUS
<1>2. \A i \in 1..(Len(s) - 1) : s[i] \in S
  BY <1>1
<1>3. SubSeq(s, 1, Len(s) - 1) \in Seq(S)
  BY <1>1, <1>2, SubSeqProperties
<1>4. Len(SubSeq(s, 1, Len(s) - 1)) = Len(s) - 1
  <2>1. Len(SubSeq(s, 1, Len(s) - 1)) = IF 1 <= Len(s) - 1 THEN (Len(s) - 1) - 1 + 1 ELSE 0
    <3>1. 1 \in Int /\ Len(s) - 1 \in Int
      BY <1>1
    <3> DEFINE n == Len(s) - 1
    <3>2. n \in Int /\ \A i \in 1..n : s[i] \in S
      BY <1>2, <3>1
    <3> HIDE DEF n
    <3>3. Len(SubSeq(s, 1, n)) = IF 1 <= n THEN n - 1 + 1 ELSE 0
      BY <3>1, <3>2, SubSeqProperties
    <3> QED BY <3>3 DEF n
  <2> QED BY <1>1, <2>1, OneLess
<1>5. \A i \in 1..(Len(s) - 1) : SubSeq(s, 1, Len(s) - 1)[i] = s[i]
  BY <1>1, <1>2, SubSeqProperties
<1> QED BY <1>3, <1>4, <1>5

\* Shallow, step by step.
LEMMA GateShallow ==
  ASSUME AuthoringInv, Distinct, removed = {}, Shallow, phase = "built",
         NEW n \in nodes, Gate(n),
         nodes' = nodes, level' = level, Conditions' = Conditions
  PROVE  Shallow'
<1>1. /\ stack = <<>> /\ n \notin gated /\ active' = active /\ phase' = phase
      /\ \A m \in nodes \ gated : level[n] <= level[m]
      /\ \/ n \in active /\ gated' = gated \cup {n} /\ stack' = <<>>
         \/ stack' = <<n>> /\ gated' = gated
  BY DEF Gate, Ask
<1>2. Len(<<>>) = 0 /\ Len(<<n>>) = 1 /\ <<n>>[1] = n /\ <<n>> # <<>>
  OBVIOUS
<1>3. Len(stack') = 0 \/ Len(stack') = 1
  <2>1. CASE stack' = <<>>
    BY <1>2, <2>1
  <2>2. CASE stack' = <<n>>
    BY <1>2, <2>2
  <2> QED BY <1>1, <2>1, <2>2
<1>4. \A m \in gated' \ active' :
        \E c \in Conditions : level[m] <= level[c] /\ \A u \in nodes \ gated' : level[c] < level[u]
  BY <1>1 DEF Shallow
<1>5. stack' # <<>> =>
        /\ stack'[1] \in nodes \ gated'
        /\ \A u \in nodes \ gated' : level[stack'[1]] <= level[u]
  BY <1>1, <1>2
<1> QED BY <1>1, <1>3, <1>4, <1>5 DEF Shallow

LEMMA RecurseShallow ==
  ASSUME AuthoringInv, stage = "done", Distinct, removed = {}, Shallow, phase = "built",
         NEW p \in nodes, Recurse(p),
         nodes' = nodes, level' = level, Conditions' = Conditions
  PROVE  Shallow'
<1>1. /\ stack # <<>> /\ stack \in Seq(nodes) /\ Len(stack) \in Nat /\ Len(stack) >= 1
      /\ active' = active /\ gated' = gated
      /\ \/ Len(stack) = RecursionLimit /\ phase' = "raised" /\ stack' = stack
         \/ stack' = Append(stack, p) /\ phase' = phase
  BY DEF Recurse, AuthoringInv, GateInv
<1>2. PICK n \in Conditions :
        /\ level[n] < level[stack[1]] /\ level[n] \in Nat
        /\ \A i \in 2..Len(stack) : level[stack[i]] + i <= level[n] + 2
        /\ level[p] + Len(stack) + 1 <= level[n] + 2
  BY DescendsFromCondition
<1>3. level[p] \in Nat
  BY PredsBelow
<1>4. CASE phase' = "raised" /\ stack' = stack /\ Len(stack) = RecursionLimit
  <2>1. level[n] + 1 >= RecursionLimit
    BY <1>1, <1>2, <1>3, <1>4
  <2> QED BY <1>1, <1>2, <1>4, <2>1 DEF Shallow
<1>5. CASE stack' = Append(stack, p) /\ phase' = phase
  <2>1. /\ Len(stack') = Len(stack) + 1 /\ stack' # <<>>
        /\ \A i \in 1..Len(stack) : stack'[i] = stack[i]
        /\ stack'[Len(stack) + 1] = p
    BY <1>1, <1>5
  <2>2. stack'[1] = stack[1]
    BY <1>1, <2>1
  <2>4. \A i \in 2..Len(stack') : level[stack'[i]] + i <= level[n] + 2
    <3> SUFFICES ASSUME NEW i \in 2..Len(stack') PROVE level[stack'[i]] + i <= level[n] + 2
      OBVIOUS
    <3>1. CASE i \in 2..Len(stack)
      BY <1>1, <1>2, <2>1, <3>1
    <3>2. CASE i = Len(stack) + 1
      BY <1>1, <1>2, <1>3, <2>1, <3>2
    <3> QED BY <1>1, <2>1, <3>1, <3>2
  <2> QED BY <1>1, <1>2, <1>5, <2>1, <2>2, <2>4 DEF Shallow
<1> QED BY <1>1, <1>4, <1>5

LEMMA ReturnShallow ==
  ASSUME AuthoringInv, Distinct, removed = {}, Shallow, phase = "built", Return,
         nodes' = nodes, level' = level, Conditions' = Conditions
  PROVE  Shallow'
<1>1. /\ stack # <<>> /\ stack \in Seq(nodes) /\ Len(stack) \in Nat /\ Len(stack) >= 1
      /\ stack' = SubSeq(stack, 1, Len(stack) - 1) /\ phase' = phase
      /\ active' = active \cup {stack[Len(stack)]}
      /\ gated' = IF Len(stack) = 1 THEN gated \cup {stack[1]} ELSE gated
  BY DEF Return, Front, Last, AuthoringInv, GateInv
<1>2. /\ Len(stack') = Len(stack) - 1
      /\ \A i \in 1..(Len(stack) - 1) : stack'[i] = stack[i]
  BY <1>1, ShorterStack
<1>3. \A m \in gated' \ active' : m \in gated \ active
  BY <1>1
<1>4. gated \subseteq gated'
  BY <1>1
<1>5. \A m \in gated' \ active' :
        \E n \in Conditions : level[m] <= level[n] /\ \A u \in nodes \ gated' : level[n] < level[u]
  BY <1>3, <1>4 DEF Shallow
<1>6. CASE Len(stack) = 1
  <2>1. stack' = <<>>
    BY <1>1, <1>6, SubSeqEmpty
  <2>2. Len(stack') = 0
    BY <1>2, <1>6
  <2> QED BY <1>1, <1>5, <2>1, <2>2 DEF Shallow
<1>7. CASE Len(stack) > 1
  <2>1. gated' = gated /\ stack'[1] = stack[1] /\ Len(stack') <= Len(stack)
    BY <1>1, <1>2, <1>7
  <2>2. /\ stack[1] \in nodes \ gated
        /\ \A u \in nodes \ gated : level[stack[1]] <= level[u]
    BY <1>1, <1>2 DEF Shallow
  <2>3. PICK n \in Conditions :
          /\ level[n] < level[stack[1]]
          /\ \A i \in 2..Len(stack) : level[stack[i]] + i <= level[n] + 2
    BY <1>7 DEF Shallow
  <2>4. \A i \in 2..Len(stack') : level[stack'[i]] + i <= level[n] + 2
    BY <1>1, <1>2, <2>3
  <2> QED BY <1>1, <1>5, <2>1, <2>2, <2>3, <2>4 DEF Shallow
<1>8. Len(stack) = 1 \/ Len(stack) > 1
  <2>1. Len(stack) \in Nat /\ Len(stack) >= 1
    BY <1>1
  <2> QED BY <2>1, OneOrMore
<1> QED BY <1>6, <1>7, <1>8

LEMMA RecordShallow ==
  ASSUME AuthoringInv, stage = "done", Distinct, removed = {}, Shallow, phase = "built",
         NEW c \in nodes, record_decision(c),
         nodes' = nodes, level' = level, Conditions' = Conditions
  PROVE  Shallow'
<1>1. /\ stack = <<>> /\ stack' = <<>> /\ phase' = phase /\ gated' = gated /\ gated \subseteq nodes
      /\ c \in Conditions /\ \A m \in nodes : m \in gated <=> level[m] <= level[c]
  BY DEF record_decision, AuthoringInv, GateInv
<1>2. \A m \in nodes : level[m] \in Nat
  BY PredsBelow
<1>3. \A u \in nodes \ gated : level[c] < level[u]
  BY <1>1, <1>2
<1>4. \A m \in gated : level[m] <= level[c]
  BY <1>1
<1>5. Len(<<>>) = 0
  OBVIOUS
<1> QED BY <1>1, <1>3, <1>4, <1>5 DEF Shallow

LEMMA InvGating == AuthoringInv /\ Gating => AuthoringInv'
<1> SUFFICES ASSUME AuthoringInv, Gating PROVE AuthoringInv'
  OBVIOUS
<1>1. /\ UNCHANGED <<graphVars, draftVars, validated, why, tools, checkVars>>
      /\ draft' = draft /\ built' = built /\ links' = links /\ validated' = validated
      /\ AuthorTyped /\ draft \in Seq(Entry) /\ stage' = stage /\ removed' = removed
      /\ nodes' = nodes /\ deps' = deps /\ edges' = edges /\ level' = level
      /\ why' = why /\ tools' = tools
      /\ \/ \E n \in nodes : Gate(n)
         \/ \E p \in nodes : Recurse(p)
         \/ Return \/ AllGated
         \/ \E n \in nodes : record_decision(n)
  BY DEF Gating, draftVars, AuthoringInv, AuthorTyped, graphVars, given
<1>2. phase = "built" /\ stage = "done" /\ FromDraft /\ Closed(draft) /\ nodes \subseteq Ids
  <2>1. phase = "built"
    BY <1>1 DEF Gate, Recurse, Return, AllGated, record_decision
  <2> QED BY <2>1 DEF AuthoringInv, StageInv, GraphInv, GraphTyped, Given
<1>3. (Distinct' <=> Distinct) /\ Conditions' = Conditions
  BY <1>1, DraftKept DEF Conditions
<1>4. ASSUME Distinct, removed = {} PROVE Shallow
  BY <1>4 DEF AuthoringInv, GateInv
<1>5. stack \in Seq(nodes) /\ active \subseteq Ids /\ gated \subseteq nodes
  BY <1>1 DEF AuthorTyped, AuthoringInv, GateInv
<1>6. /\ phase' \in {"built", "running", "raised"}
      /\ stack' \in Seq(nodes) /\ active' \subseteq Ids /\ gated' \subseteq nodes
      /\ phase' \notin {"built", "raised"} => stack' = <<>>
      /\ Distinct /\ removed = {} => Shallow'
  <2>1. CASE \E n \in nodes : Gate(n)
    <3>1. PICK n \in nodes : Gate(n)
      BY <2>1
    <3>2. <<n>> \in Seq(nodes)
      OBVIOUS
    <3>3. phase' = phase /\ (stack' = stack \/ stack' = <<n>>) /\ active' = active
          /\ gated' \subseteq gated \cup {n}
      BY <3>1 DEF Gate, Ask
    <3>4. Distinct /\ removed = {} => Shallow'
      BY <1>1, <1>2, <1>3, <1>4, <3>1, GateShallow
    <3> QED BY <1>2, <1>5, <3>2, <3>3, <3>4
  <2>2. CASE \E p \in nodes : Recurse(p)
    <3>1. PICK p \in nodes : Recurse(p)
      BY <2>2
    <3>2. phase' \in {"built", "raised"} /\ stack' \in Seq(nodes) /\ active' = active /\ gated' = gated
      BY <1>2, <1>5, <3>1 DEF Recurse
    <3>3. Distinct /\ removed = {} => Shallow'
      BY <1>1, <1>2, <1>3, <1>4, <3>1, RecurseShallow
    <3> QED BY <1>5, <3>2, <3>3
  <2>3. CASE Return
    <3>1. stack # <<>> /\ stack' = SubSeq(stack, 1, Len(stack) - 1) /\ phase' = phase
          /\ active' = active \cup {stack[Len(stack)]} /\ gated' \subseteq gated \cup {stack[1]}
      BY <2>3 DEF Return, Front, Last
    <3>2. stack[Len(stack)] \in nodes /\ stack[1] \in nodes
      BY <1>5, <3>1
    <3>3. stack' \in Seq(nodes)
      BY <1>5, <3>1, ShorterStack
    <3>4. Distinct /\ removed = {} => Shallow'
      BY <1>1, <1>2, <1>3, <1>4, <2>3, ReturnShallow
    <3> QED BY <1>2, <1>5, <3>1, <3>2, <3>3, <3>4
  <2>4. CASE AllGated
    <3>1. phase' = "running" /\ stack' = stack /\ stack = <<>> /\ active' = active /\ gated' = gated
      BY <2>4 DEF AllGated, gateVars
    <3>2. Shallow => Shallow'
      BY <1>1, <1>3, <3>1 DEF Shallow
    <3> QED BY <1>4, <1>5, <3>1, <3>2
  <2>5. CASE \E n \in nodes : record_decision(n)
    <3>1. PICK n \in nodes : record_decision(n)
      BY <2>5
    <3>2. phase' = phase /\ stack' = stack /\ active' = {} /\ gated' = gated
      BY <3>1 DEF record_decision
    <3>3. Distinct /\ removed = {} => Shallow'
      BY <1>1, <1>2, <1>3, <1>4, <3>1, RecordShallow
    <3> QED BY <1>2, <1>5, <3>2, <3>3
  <2> QED BY <1>1, <2>1, <2>2, <2>3, <2>4, <2>5
<1>7. GraphInv'
  BY <1>1, StutterInv DEF AuthoringInv
<1>8. AuthorTyped'
  <2>1. stack' \in Seq(Ids) /\ gated' \subseteq Ids
    BY <1>2, <1>6
  <2> QED BY <1>1, <1>6, <2>1 DEF AuthorTyped, checkVars, draftVars
<1>9. StageInv'
  BY <1>1, <1>2, <1>6, GraphKept, DraftKept DEF StageInv
<1>10. GateInv'
  BY <1>1, <1>3, <1>6 DEF GateInv
<1>11. BuildInv' /\ KahnInv' /\ ValidatedInv' /\ CircularInv'
  BY <1>1, <1>2, <1>6, SettledDraft
<1> QED BY <1>7, <1>8, <1>9, <1>10, <1>11 DEF AuthoringInv

LEMMA AuthoringInvStep == AuthoringInv /\ [Next]_vars => AuthoringInv'
<1>1. AuthoringInv /\ Analyze => AuthoringInv'
  BY InvIdle DEF Analyze
<1>2. AuthoringInv /\ UNCHANGED vars => AuthoringInv'
  BY InvIdle DEF vars
<1> QED
  BY <1>1, <1>2, InvDraft, InvLoseTool, InvStartCheck, InvVersionRefused, InvCheck, InvAccept,
     InvExecute, InvConstruct, InvGraphStep, InvConstructed, InvGating DEF Next

LEMMA AuthoringInvariant == Spec => []AuthoringInv
BY AuthoringInitInv, AuthoringInvStep, PTL DEF Spec

\* A workflow whose draft was validated kept all its edges.
LEMMA ValidatedKeepsAll ==
  ASSUME AuthoringInv, validated
  PROVE  removed = {}
<1>1. CASE stage = "none"
  BY <1>1 DEF AuthoringInv, GraphInv, GraphStages
<1>2. CASE stage # "none"
  <2>1. edges = DraftEdges /\ Acyclic(DraftEdges)
    BY <1>2 DEF AuthoringInv, StageInv, FromDraft, ValidatedInv
  <2> QED BY <2>1, AcyclicKeeps DEF AuthoringInv
<1> QED BY <1>1, <1>2

LEMMA InvLevelsSound == AuthoringInv => LevelsSound
<1> SUFFICES ASSUME AuthoringInv PROVE LevelsSound
  OBVIOUS
<1>1. stage = "levels" /\ todo = {} /\ (\E n \in nodes : ~Visited(n)) => \E n \in nodes : Ready(n)
  BY SomeNodeReady DEF AuthoringInv
<1>2. OnlyCyclesCut /\ OnePassBreaks
  BY DEF AuthoringInv, GraphInv
<1>3. ASSUME stage = "done", Distinct, ~Cyclic
      PROVE  \A n \in nodes : level[n] = AnalyzerLevels[n]
  <2>1. removed = {}
    BY <1>3, NoSimpleCycles, AcyclicKeeps DEF AuthoringInv, GraphInv, GraphTyped, Cyclic
  <2>2. \A n \in nodes : Preds(n) = deps[n]
    BY <1>3, EdgesAreDeps DEF AuthoringInv, AuthorTyped, StageInv
  <2> QED BY <1>3, <2>1, <2>2, AnalyzerAgrees DEF AuthoringInv
<1> QED BY <1>1, <1>2, <1>3 DEF LevelsSound

LEMMA InvValidatedStarts == AuthoringInv => ValidatedStarts
<1> SUFFICES ASSUME AuthoringInv PROVE ValidatedStarts
  OBVIOUS
<1>1. ASSUME validated
      PROVE  /\ Distinct
             /\ phase = "refused" => why = "mapping" \/ (why = "node" /\ Lost)
             /\ \A i \in Entries : RuntimeValidate(Config[draft[i].kind], Populated(draft[i]).schemas)
  BY <1>1 DEF AuthoringInv, ValidatedInv, Sound
<1>2. ASSUME validated, phase = "raised" PROVE \E n \in Conditions : level[n] + 1 >= RecursionLimit
  BY <1>1, <1>2, ValidatedKeepsAll DEF AuthoringInv, GateInv, Shallow
<1>3. why = "circular" => Circular
  BY DEF AuthoringInv, CircularInv
<1> QED BY <1>1, <1>2, <1>3 DEF ValidatedStarts, Lost, Circular

LEMMA InvConnectionsOrdered == AuthoringInv => ConnectionsOrdered
<1> SUFFICES ASSUME AuthoringInv, built, phase \in {"built", "running", "raised"},
                    NEW l \in links, l[2] \in nodes, l \notin removed
             PROVE  level[l[1]] < level[l[2]]
  BY DEF ConnectionsOrdered
<1>1. stage = "done" /\ FromDraft /\ draft \in Seq(Entry) /\ links \subseteq Ids \X Ids
  BY DEF AuthoringInv, StageInv, AuthorTyped
<1>2. l = <<l[1], l[2]>> /\ l[1] \in Ids /\ l[2] \in Ids
  BY <1>1
<1>3. PICK i \in LastOf(l[2]) : TRUE
  BY <1>1, LastExists DEF FromDraft
<1>4. i \in Entries /\ draft[i].id = l[2]
  BY <1>3 DEF LastOf
<1>5. l[1] \in draft[i].deps
  BY <1>2, <1>4 DEF AuthoringInv, BuildInv
<1>6. l[1] \in Kept(l[2])
  BY <1>1, <1>2, <1>3, <1>5 DEF FromDraft, Kept
<1>7. Visited(l[2])
  BY <1>1 DEF AuthoringInv, GraphInv, GraphStages
<1> QED BY <1>6, <1>7 DEF AuthoringInv, GraphInv, DependenciesBelow

\* The builder's nodes, the validation's counts, the graph and the call stack of
\* is_node_active keep their types; edges are taken out only of the graph.
THEOREM AuthoringTyped == Spec => []TypeOK
<1>1. AuthoringInv => TypeOK
  <2> SUFFICES ASSUME AuthoringInv PROVE TypeOK
    OBVIOUS
  <2>1. GraphTypeOK
    BY DEF AuthoringInv, GraphInv, GraphTyped, GraphStages, Given, GraphTypeOK, RecursiveEdges
  <2> QED BY <2>1 DEF AuthoringInv, AuthorTyped, TypeOK
<1> QED BY <1>1, AuthoringInvariant, PTL

\* _assign_levels, for the graph of every draft: with one pass over the edges
\* at recursive nodes every order of inspection leaves a graph that can be
\* sorted, and without cycles the levels are those of GraphAnalyzer.
THEOREM LevelsAlwaysSound == Spec => []LevelsSound
BY AuthoringInvariant, InvLevelsSound, PTL

\* _assign_levels, in a workflow of any draft: a node that has its level is above
\* each dependency whose edge was kept.
THEOREM DraftLevelsBelow == Spec => []DependenciesBelow
<1>1. AuthoringInv => DependenciesBelow
  BY DEF AuthoringInv, GraphInv
<1> QED BY <1>1, AuthoringInvariant, PTL

\* validate_blueprint, convert_node_specs, Workflow.__init__, is_node_active: a
\* blueprint of any size that was accepted starts, unless a mapping or a lost
\* tool refuses it, or a condition node lies deeper than Python recurses; and
\* what is refused as circular has a cycle or an id twice.
THEOREM ValidatedAlwaysStarts == Spec => []ValidatedStarts
BY AuthoringInvariant, InvValidatedStarts, PTL

\* is_node_active, record_decision: however long the workflow, while no edge was
\* given up, gating descends only from the level of a condition node whose
\* answer dropped the cache.
THEOREM GatingStaysShallow == Spec => []GatingShallow
<1>1. AuthoringInv => GatingShallow
  <2> SUFFICES ASSUME AuthoringInv, Distinct, removed = {}, Len(stack) > 1
               PROVE  \E n \in Conditions : level[n] < level[stack[1]] /\ Len(stack) <= level[n] + 2
    BY DEF GatingShallow
  <2>1. Shallow /\ stack \in Seq(nodes)
    BY DEF AuthoringInv, GateInv
  <2>2. PICK n \in Conditions :
          /\ level[n] < level[stack[1]]
          /\ \A i \in 2..Len(stack) : level[stack[i]] + i <= level[n] + 2
    BY <2>1 DEF Shallow
  <2>3. Len(stack) \in Nat /\ level[stack[Len(stack)]] + Len(stack) <= level[n] + 2
    BY <2>1, <2>2
  <2>4. stack # <<>> /\ stack[Len(stack)] \in nodes /\ n \in nodes
    BY <2>1, <2>3 DEF Shallow, Conditions
  <2>5. stage = "done"
    <3>1. phase \in {"built", "raised"}
      BY <2>4 DEF AuthoringInv, GateInv
    <3> QED BY <3>1 DEF AuthoringInv, StageInv
  <2>6. level[stack[Len(stack)]] \in Nat /\ level[n] \in Nat
    BY <2>4, <2>5, PredsBelow
  <2>7. Len(stack) <= level[n] + 2
    BY <2>3, <2>6
  <2> QED BY <2>2, <2>7
<1> QED BY <1>1, AuthoringInvariant, PTL

\* WorkflowBuilder.connect and build: for any draft and any order of calls, a
\* connection between nodes of a built workflow orders their levels.
THEOREM ConnectionsAlwaysOrdered == Spec => []ConnectionsOrdered
BY AuthoringInvariant, InvConnectionsOrdered, PTL

\* _assign_levels: a node that has its level is above each of its dependencies,
\* except those whose recursive edge was taken out.
THEOREM LevelsRespectDependencies == GraphSpec => []DependenciesBelow
BY GraphInvariant, PTL DEF GraphInv

\* _assign_levels takes out only edges at recursive nodes that lie on a cycle.
THEOREM AcyclicKeepsAll == GraphSpec => []OnlyCyclesCut
BY GraphInvariant, PTL DEF GraphInv

\* _assign_levels: whatever the order, one pass over the edges at recursive
\* nodes leaves none of them on a cycle.
THEOREM OnePassSuffices == GraphSpec => []OnePassBreaks
BY GraphInvariant, PTL DEF GraphInv
=============================================================================
