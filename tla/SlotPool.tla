------------------------------ MODULE SlotPool ------------------------------
(***************************************************************************)
(* What a WeightedSemaphore over max_parallel slots promises to the nodes  *)
(* of a level: a node enters with all its slots at once and only if they   *)
(* fit, and gives all of them back when it leaves.                         *)
(***************************************************************************)
EXTENDS Integers, FiniteSets

CONSTANTS N, MaxParallel

VARIABLES heavy, running, left

poolVars == <<heavy, running, left>>

\* Slots taken by a set of nodes: an LLM node counts twice.
Load(S) == Cardinality(S) + Cardinality(S \cap heavy)

PoolInit ==
  /\ heavy \subseteq 1..N
  /\ running = {}
  /\ left = {}

Enter(n) ==
  /\ n \notin running \cup left
  /\ Load(running \cup {n}) <= MaxParallel
  /\ running' = running \cup {n}
  /\ UNCHANGED <<heavy, left>>

Leave(n) ==
  /\ n \in running
  /\ running' = running \ {n}
  /\ left' = left \cup {n}
  /\ UNCHANGED heavy

PoolNext == \E n \in 1..N : Enter(n) \/ Leave(n)

PoolSpec == PoolInit /\ [][PoolNext]_poolVars
=============================================================================
