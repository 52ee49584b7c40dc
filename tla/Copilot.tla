------------------------------- MODULE Copilot ------------------------------
(***************************************************************************)
(* The copilot and frosty endpoints: patches are suggested for the canvas, *)
(* validated, applied in a simulation that hands back the patched          *)
(* blueprint, and a run of a selection is planned.  The server keeps       *)
(* nothing between the calls; the canvas is the client's.                  *)
(***************************************************************************)
EXTENDS Naturals, Sequences, FiniteSets

CONSTANTS
  CanvasIds,
  Planned,     \* patch lists the planner may return
  MaxRanked,   \* bound: how many patches the ranker returns
  Models,
  Preferred,   \* the models of the policy, in order
  Capable,     \* models with known capabilities
  MaxCanvas    \* bound: nodes of the canvas

\* What suggest_nodes returns when the planner has no idea: a node, and one
\* that depends on it.
CONSTANTS FirstNode, SecondNode

VARIABLES
  canvas,     \* the nodes: id, deps, and whether it is a condition or a loop
  proposal,   \* the patches in the client's hands
  answer,     \* what the server has last answered: the model of a suggestion, or
              \* the verdict of a validation
  remembered, \* the semantic memory holds an entry of frosty's
  plan        \* run_plan: the nodes it was given, the selection, the stack,
              \* and the ids included so far, until the next request

copilotVars == <<canvas, proposal, answer, remembered, plan>>

CanvasNode(n, ds) == [id |-> n, deps |-> ds, gate |-> FALSE]
AddPatch(node) == [action |-> "add_node", node |-> node]
Fallback == <<AddPatch(CanvasNode(FirstNode, {})), AddPatch(CanvasNode(SecondNode, {FirstNode}))>>

NoPlan == [nodes |-> <<>>, selection |-> {}, stack |-> {}, include |-> {}]

CopilotInit ==
  /\ canvas = <<>> /\ proposal = <<>> /\ answer = "none" /\ remembered = FALSE
  /\ plan = NoPlan

IdsOf(ns) == {ns[i].id : i \in DOMAIN ns}
\* deps_of: of two nodes with one id the last counts.
DepsOf(ns, n) ==
  UNION {ns[i].deps : i \in {k \in DOMAIN ns : ns[k].id = n /\ \A j \in DOMAIN ns : ns[j].id = n => j <= k}}

(***************************************************************************)
(* suggest_v2                                                              *)
(***************************************************************************)
\* _EnvModelPolicy.select: a capable override, else the first capable of the
\* preferred models, else the default.
Select(override) ==
  IF override \in Capable THEN override
  ELSE LET fit == {i \in DOMAIN Preferred : Preferred[i] \in Capable}
       IN  IF fit = {} THEN "default" ELSE Preferred[CHOOSE i \in fit : \A j \in fit : i <= j]

\* PromptPlanner: an answer of the model that is no list of valid patches is an
\* empty plan, which is also the plan of the planner that has no model.
Plans == Planned \cup {<<>>}

\* PromptRanker: the patches in the order of the indices the model answers, where
\* -1 and "1" name a patch a second time, and then those it has not named.
Ranked(ps) ==
  {[i \in DOMAIN r |-> ps[r[i]]] :
     r \in {q \in UNION {[1..n -> DOMAIN ps] : n \in Len(ps)..MaxRanked} :
            {q[i] : i \in DOMAIN q} = DOMAIN ps}}

\* apply_policy_overrides: the policy is asked only when the request overrides
\* something, and its choice is put on the canvas state.
Overridden(override) == IF override = "none" THEN "none" ELSE Select(override)

Suggest(patches, override) ==
  /\ proposal' \in Ranked(IF patches = <<>> THEN Fallback ELSE patches)
  /\ answer' = Overridden(override)
  /\ plan' = NoPlan
  /\ UNCHANGED canvas

\* _patches_to_actions looks for a path and an op, which node patches do not
\* have, so what the server suggests is an edit, whatever the patch does.
KindOf(patch) == "edit_node"
Actions(patches) == [i \in DOMAIN patches |-> [kind |-> KindOf(patches[i]), patch |-> patches[i]]]

(***************************************************************************)
(* validate                                                                *)
(***************************************************************************)
\* The edges are counted at the node they start from.
Dependents(ns, n) == Cardinality({i \in DOMAIN ns : n \in ns[i].deps})

Violations(ns, actions) ==
  {v \in {"empty", "too_many_adds", "dup_id", "missing_dep", "self_dep", "ports_in_one"} :
     CASE v = "empty" -> actions = <<>>
       [] v = "too_many_adds" -> Cardinality({i \in DOMAIN actions : actions[i].kind = "add_node"}) > 1
       [] v = "dup_id" -> Cardinality(IdsOf(ns)) # Len(ns)
       [] v = "missing_dep" -> \E i \in DOMAIN ns : ~(ns[i].deps \subseteq IdsOf(ns))
       [] v = "self_dep" -> \E i \in DOMAIN ns : ns[i].id \in ns[i].deps
       [] v = "ports_in_one" -> \E i \in DOMAIN ns : ns[i].gate /\ Dependents(ns, ns[i].id) > 1}

Validate ==
  /\ answer' = IF Violations(canvas, Actions(proposal)) = {} THEN "ok" ELSE "violations"
  /\ plan' = NoPlan
  /\ UNCHANGED <<canvas, proposal>>

(***************************************************************************)
(* simulate                                                                *)
(***************************************************************************)
Removed(ns, n) == SelectSeq(ns, LAMBDA node : node.id # n)

\* The first node with the id is replaced.
Updated(ns, n, ds) ==
  LET at == {i \in DOMAIN ns : ns[i].id = n}
  IN  [i \in DOMAIN ns |-> IF i \in at /\ \A j \in at : i <= j THEN [ns[i] EXCEPT !.deps = ds] ELSE ns[i]]

\* _SimplePatchApplier
Applied(ns, p) ==
  CASE p.action = "add_node" -> Append(ns, p.node)
    [] p.action = "remove_node" -> Removed(ns, p.id)
    [] p.action = "update_node" -> Updated(ns, p.id, p.deps)

AllApplied(ns, patches) ==
  LET after[i \in 0..Len(patches)] == IF i = 0 THEN ns ELSE Applied(after[i - 1], patches[i])
  IN  after[Len(patches)]

\* The client takes the patched blueprint over.  A lock that is not that of
\* the blueprint in the request, or a patch that is not valid, is refused.
Simulate ==
  /\ proposal # <<>>
  /\ Len(AllApplied(canvas, proposal)) <= MaxCanvas
  /\ canvas' = AllApplied(canvas, proposal)
  /\ proposal' = <<>>
  /\ answer' = "none" /\ plan' = NoPlan

(***************************************************************************)
(* run_plan                                                                *)
(***************************************************************************)
\* Without a selection everything is planned.
RunPlan(selection) ==
  /\ plan' = [nodes |-> canvas, selection |-> selection, stack |-> selection,
              include |-> IF selection = {} THEN IdsOf(canvas) ELSE {}]
  /\ UNCHANGED <<canvas, proposal, answer, remembered>>

\* Fault: only the dependencies of the selection are followed.
IncludeDirect(n) ==
  /\ n \in plan.stack
  /\ plan' = [plan EXCEPT !.include = @ \cup {n},
                          !.stack = (@ \ {n}) \cup (IF n \in plan.selection THEN DepsOf(plan.nodes, n) \ plan.include
                                                    ELSE {})]
  /\ UNCHANGED <<canvas, proposal, answer, remembered>>

\* What is included already is popped without following it again.
Include(n) ==
  /\ n \in plan.stack
  /\ plan' = [plan EXCEPT !.include = @ \cup {n},
                          !.stack = (@ \ {n}) \cup (IF n \in plan.include THEN {} ELSE DepsOf(plan.nodes, n))]
  /\ UNCHANGED <<canvas, proposal, answer, remembered>>

\* expected_nodes
Expected == plan.include \cap IdsOf(plan.nodes)

(***************************************************************************)
(* The endpoints: frosty's also note in the semantic memory what they did, *)
(* unless the database fails.                                              *)
(***************************************************************************)
Remember == remembered' \in {remembered, TRUE}

CopilotSuggest(patches, m) == Suggest(patches, m) /\ UNCHANGED remembered
FrostySuggest(patches, m) == Suggest(patches, m) /\ Remember
CopilotValidate == Validate /\ UNCHANGED remembered
FrostyValidate == Validate /\ Remember
CopilotSimulate == Simulate /\ UNCHANGED remembered
FrostySimulate == Simulate /\ Remember

BuilderSuggest(patches, m) == Suggest(patches, m) /\ UNCHANGED remembered
BuilderApply == Simulate /\ UNCHANGED remembered

\* propose applies the plan at once, unranked and without the fallback.
Propose(patches) ==
  /\ Len(AllApplied(canvas, patches)) <= MaxCanvas
  /\ canvas' = AllApplied(canvas, patches)
  /\ answer' = "none" /\ plan' = NoPlan
  /\ UNCHANGED <<proposal, remembered>>

\* run_plan never suspends, so that nothing comes between its steps.
CopilotNext ==
  \/ /\ plan.stack = {}
     /\ \/ \E patches \in Plans, m \in Models \cup {"none"} :
             CopilotSuggest(patches, m) \/ FrostySuggest(patches, m) \/ BuilderSuggest(patches, m)
        \/ \E patches \in Plans : Propose(patches)
        \/ CopilotValidate \/ FrostyValidate
        \/ CopilotSimulate \/ FrostySimulate \/ BuilderApply
        \/ \E s \in {{}} \cup {{n} : n \in CanvasIds} : RunPlan(s)
  \/ \E n \in plan.stack : Include(n)

\* For nodes that validate has nothing against (no dependency is missing), the
\* plan of a selection is ready to run: with every node it holds what that
\* depends on, on cyclic canvases too, and it holds no node that the selection
\* does not need.  (run_plan, validate)
Mentioned(ns, s) == s \cup IdsOf(ns) \cup UNION {ns[i].deps : i \in DOMAIN ns}
Needs(ns, s, n) ==
  \A S \in SUBSET Mentioned(ns, s) :
    s \subseteq S /\ (\A m \in S : DepsOf(ns, m) \subseteq S) => n \in S
PlanRunnable ==
  plan.stack = {} /\ "missing_dep" \notin Violations(plan.nodes, <<>>) =>
    /\ \A n \in Expected : DepsOf(plan.nodes, n) \subseteq Expected
    /\ plan.selection # {} => Expected = {n \in IdsOf(plan.nodes) : Needs(plan.nodes, plan.selection, n)}
=============================================================================
