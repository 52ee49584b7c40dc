----------------------------- MODULE IceServices ----------------------------
(***************************************************************************)
(* The services that live in the process beside the API: the memory        *)
(* stores, the shared memory pools, the manager of scheduled networks, the *)
(* WebSocket gateway, the copilot, the shelf of collections and revisions, *)
(* and a client at the other end.  They share no state, so a behaviour     *)
(* uses one.                                                               *)
(***************************************************************************)
EXTENDS WorkingMemory, SemanticMemory, ProceduralMemory, SharedPools, NetworkTasks, WsGateway,
        IceClient, Shelf, Copilot

CONSTANT Parts

VARIABLE part

moreVars == <<clientVars, shelfVars, copilotVars>>
vars == <<workingVars, semanticVars, proceduralVars, poolVars, taskVars, gatewayVars,
          moreVars, part>>

TypeOK ==
  /\ WorkingTypeOK /\ SemanticTypeOK /\ ProceduralTypeOK
  /\ PoolsTypeOK /\ TasksTypeOK /\ GatewayTypeOK /\ ClientTypeOK /\ ShelfTypeOK
  /\ part \in Parts

Init ==
  /\ WorkingInit /\ SemanticInit /\ ProceduralInit /\ PoolsInit /\ TasksInit /\ GatewayInit
  /\ ClientInit /\ ShelfInit /\ CopilotInit
  /\ part \in Parts
  /\ part # "semantic" => vectors = "off"
  /\ part # "client" => ~known

Working ==
  /\ part = "working" /\ WorkingNext
  /\ UNCHANGED <<semanticVars, proceduralVars, poolVars, taskVars, gatewayVars, moreVars, part>>
Semantic ==
  /\ part = "semantic" /\ SemanticNext
  /\ UNCHANGED <<workingVars, proceduralVars, poolVars, taskVars, gatewayVars, moreVars, part>>
Procedural ==
  /\ part = "procedural" /\ ProceduralNext
  /\ UNCHANGED <<workingVars, semanticVars, poolVars, taskVars, gatewayVars, moreVars, part>>
Pools ==
  /\ part = "pools" /\ PoolsNext
  /\ UNCHANGED <<workingVars, semanticVars, proceduralVars, taskVars, gatewayVars, moreVars, part>>
Tasks ==
  /\ part = "tasks" /\ TasksNext
  /\ UNCHANGED <<workingVars, semanticVars, proceduralVars, poolVars, gatewayVars, moreVars, part>>
GatewayUnchanged == UNCHANGED <<workingVars, semanticVars, proceduralVars, poolVars, taskVars, moreVars, part>>
Gateway == part = "gateway" /\ GatewayNext /\ GatewayUnchanged


servedVars == <<workingVars, semanticVars, proceduralVars, poolVars, taskVars, gatewayVars, part>>
ClientUnchanged == UNCHANGED <<servedVars, shelfVars, copilotVars>>
Client == part = "client" /\ ClientNext /\ ClientUnchanged
Shelving == part = "shelf" /\ ShelfNext /\ UNCHANGED <<servedVars, clientVars, copilotVars>>
Assisting == part = "copilot" /\ CopilotNext /\ UNCHANGED <<servedVars, clientVars, shelfVars>>

Next == Working \/ Semantic \/ Procedural \/ Pools \/ Tasks \/ Gateway \/ Client \/ Shelving \/ Assisting

\* The event loop runs the background task whenever it can go on; a request is
\* answered or fails, a sleep ends, and a workflow that was started ends.
Fairness ==
  /\ WF_vars(part = "gateway" /\ WorkerStep /\ GatewayUnchanged)
  /\ WF_vars(part = "client" /\ ClientStep /\ ClientUnchanged)
  /\ WF_vars(part = "client" /\ ServerStep /\ ClientUnchanged)

Spec == Init /\ [][Next]_vars /\ Fairness

\* Whatever a store holds, its indexes lead to it, after any mix of stores, merges
\* and deletions that maintain them by hand.  (semantic_memory_store.py store,
\* merge_facts, delete; procedural_memory_store.py store, delete)
IndexesComplete == FactsListed /\ ProceduresListed
=============================================================================
