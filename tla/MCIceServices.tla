---------------------------- MODULE MCIceServices ---------------------------
EXTENDS IceServices

MCParts == {"working", "semantic", "procedural", "pools", "tasks", "gateway",
            "client", "shelf", "copilot"}

\* What the planner may propose: a third node, which is a gate, a cycle, and to
\* remove a node that others depend on.
CONSTANT ThirdNode
MCPlanned ==
  {<<AddPatch([CanvasNode(ThirdNode, {SecondNode}) EXCEPT !.gate = TRUE])>>,
   <<[action |-> "update_node", id |-> FirstNode, deps |-> {SecondNode, ThirdNode}]>>,
   <<[action |-> "remove_node", id |-> FirstNode]>>}

MCPreferred == <<"unknown", "big">>
=============================================================================
