-------------------------- MODULE DependencyGraph ---------------------------
(***************************************************************************)
(* DependencyGraph: the cycle check that lets declared recursive cycles    *)
(* through, the removal of recursive edges for the levels, edge by edge in *)
(* whatever order the graph lists them, and the assignment of levels in    *)
(* some topological order of what is left.                                 *)
(***************************************************************************)
EXTENDS Integers, FiniteSets

CONSTANT Ids

ASSUME IdsFinite == IsFiniteSet(Ids)

VARIABLES
  nodes,      \* the ids in the graph
  deps,       \* the dependencies of each node, by its configuration
  edges,      \* the graph: <<dependency, node>>
  sources,    \* recursive_sources of each recursive node
  recursive,  \* the recursive nodes
  stage,      \* "none", "cycles", "levels", "cyclic" (refused) or "done"
  todo,       \* edges at recursive nodes that are still to be inspected
  removed,    \* recursive_edges
  level       \* node.level, -1 until it is assigned

given == <<nodes, deps, edges, sources, recursive>>
graphVars == <<given, stage, todo, removed, level>>

GraphTypeOK ==
  /\ nodes \subseteq Ids
  /\ deps \in [Ids -> SUBSET nodes]
  /\ edges \subseteq nodes \X nodes
  /\ recursive \subseteq nodes
  /\ sources \in [Ids -> SUBSET Ids]
  /\ stage \in {"none", "cycles", "levels", "cyclic", "done"}
  /\ todo \subseteq edges
  /\ removed \subseteq edges
  /\ level \in [Ids -> Int]

\* Every dependency is an edge.  A node listed twice has the edges of both
\* and the dependencies of the last.
Given ==
  /\ nodes \subseteq Ids
  /\ deps \in [Ids -> SUBSET nodes]
  /\ edges \subseteq nodes \X nodes
  /\ \A n \in nodes : \A d \in deps[n] : <<d, n>> \in edges
  /\ recursive \subseteq nodes
  /\ sources \in [Ids -> SUBSET Ids]

GraphInit ==
  /\ Given
  /\ stage = "cycles"
  /\ todo = {}
  /\ removed = {}
  /\ level = [n \in Ids |-> -1]

\* nx.has_path: every set closed under E that holds x holds y.
HasPath(E, x, y) ==
  \A S \in SUBSET Ids :
    x \in S /\ (\A e \in E : e[1] \in S => e[2] \in S) => y \in S

\* The node sets of nx.simple_cycles: a successor function on C that goes
\* round all of it.
SimpleCycles ==
  {C \in SUBSET nodes : C # {} /\
     \E next \in [C -> C] :
       /\ \A x \in C : <<x, next[x]>> \in edges
       /\ \A S \in SUBSET C : S # {} /\ (\A x \in S : next[x] \in S) => S = C}

\* Fault: a cycle without a recursive node passes.
ValidCycleVacuous(C) == \A r \in C \cap recursive : (C \ {r}) \cap sources[r] # {}

\* _is_valid_recursive_cycle
ValidCycle(C) ==
  /\ C \cap recursive # {}
  /\ \A r \in C \cap recursive : (C \ {r}) \cap sources[r] # {}

\* The edges at recursive nodes.
RecursiveEdges == {e \in edges : e[1] \in recursive \/ e[2] \in recursive}

CheckCycles ==
  /\ stage = "cycles"
  /\ IF \A C \in SimpleCycles : ValidCycle(C)
     THEN /\ stage' = "levels"
          /\ todo' = RecursiveEdges
     ELSE /\ stage' = "cyclic"
          /\ UNCHANGED todo
  /\ UNCHANGED <<given, removed, level>>

\* The edge is taken out and comes back unless its ends are still connected
\* the other way round.
InspectEdge(e) ==
  /\ stage = "levels" /\ e \in todo
  /\ todo' = todo \ {e}
  /\ removed' = IF HasPath(edges \ (removed \cup {e}), e[2], e[1])
                THEN removed \cup {e} ELSE removed
  /\ UNCHANGED <<given, stage, level>>

\* A node whose predecessors in the remaining graph have been visited is next
\* in some topological order.
Visited(n) == level[n] >= 0
Ready(n) ==
  /\ n \in nodes /\ ~Visited(n)
  /\ \A e \in edges \ removed : e[2] = n => Visited(e[1])

\* One more than the highest level among the dependencies whose edge was kept.
Kept(n) == {d \in deps[n] : <<d, n>> \notin removed}

\* Fault: one more than the level of some dependency.
AssignLevelSome(n) ==
  /\ stage = "levels" /\ todo = {}
  /\ Ready(n)
  /\ \E l \in 0..Cardinality(Ids) :
       /\ IF Kept(n) = {} THEN l = 0 ELSE \E d \in Kept(n) : l = level[d] + 1
       /\ level' = [level EXCEPT ![n] = l]
  /\ UNCHANGED <<given, stage, todo, removed>>

AssignLevel(n) ==
  /\ stage = "levels" /\ todo = {}
  /\ Ready(n)
  /\ \E l \in 0..Cardinality(Ids) :
       /\ \A d \in Kept(n) : level[d] < l
       /\ l = 0 \/ \E d \in Kept(n) : l = level[d] + 1
       /\ level' = [level EXCEPT ![n] = l]
  /\ UNCHANGED <<given, stage, todo, removed>>

Levelled ==
  /\ stage = "levels" /\ todo = {}
  /\ \A n \in nodes : Visited(n)
  /\ stage' = "done"
  /\ UNCHANGED <<given, todo, removed, level>>

GraphNext ==
  \/ CheckCycles
  \/ \E e \in todo : InspectEdge(e)
  \/ \E n \in Ids : AssignLevel(n)
  \/ Levelled

GraphSpec == GraphInit /\ [][GraphNext]_graphVars

(***************************************************************************)
(* Properties                                                              *)
(***************************************************************************)
\* A node that has its level is above each of its dependencies, the removed
\* recursive ones excepted, so a level never starts before what it needs.
\* (_assign_levels)
DependenciesBelow ==
  \A n \in nodes : Visited(n) =>
    \A d \in Kept(n) : Visited(d) /\ level[d] < level[n]

\* Only a dependency that lies on a cycle of the graph and touches a recursive
\* node is given up: a graph without cycles keeps them all.  (_assign_levels)
OnlyCyclesCut ==
  \A e \in removed :
    /\ e[1] \in recursive \/ e[2] \in recursive
    /\ HasPath(edges, e[2], e[1])
\* However many edges are taken out after it, in whatever order, an edge at a
\* recursive node that was inspected and came back lies on no cycle of what is
\* left: one pass over the edges is enough.  (_assign_levels)
OnePassBreaks ==
  stage \in {"levels", "done"} =>
    \A e \in RecursiveEdges \ (todo \cup removed) :
      ~HasPath(edges \ (removed \cup {e}), e[2], e[1])
=============================================================================
