-------------------------- MODULE MCWorkflowEngine --------------------------
(* Small instances of WorkflowEngine: all DAGs on N nodes whose numbering is  *)
(* a topological order, which gives every DAG and every order within a level. *)
EXTENDS WorkflowEngine

MCGraphs == {g \in [Nodes -> SUBSET Nodes] : \A n \in Nodes : g[n] \subseteq 1..(n - 1)}
=============================================================================
