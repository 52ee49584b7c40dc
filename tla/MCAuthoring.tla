---------------------------- MODULE MCAuthoring -----------------------------
(***************************************************************************)
(* Kinds are <<type, variant>>.                                            *)
(***************************************************************************)
EXTENDS Authoring

CONSTANTS a, b, c, d

Variant(t, v) ==
  LET w == WellFormed(t) IN
  CASE v = "incomplete" -> [w EXCEPT !.complete = FALSE]
    [] v = "unbounded" -> [w EXCEPT !.bounded = FALSE]
    [] v = "extra" -> [w EXCEPT !.extra = TRUE]
    [] v = "bare" -> [w EXCEPT !.schemas = "none"]
    [] v = "malformed" -> [w EXCEPT !.schemas = "malformed"]
    [] v = "modelRefused" -> [w EXCEPT !.model = "refused"]
    [] v = "modelNone" -> [w EXCEPT !.model = "none", !.nodeModel = FALSE]
    [] v = "both" -> [w EXCEPT !.impls = {"agent", "workflow"}, !.sources = {b}]
    [] v = "fromA" -> [w EXCEPT !.sources = {a}]
    [] v = "fromB" -> [w EXCEPT !.sources = {b}]
    [] v = "fromC" -> [w EXCEPT !.sources = {c}]
    [] v = "unnamed" -> [w EXCEPT !.named = FALSE]
    [] v = "inline" -> [w EXCEPT !.named = FALSE, !.inline = TRUE]
    [] v = "nestsHuman" -> [w EXCEPT !.nested = {"tool", "human"}]
    [] v = "nestsTool" -> [w EXCEPT !.nested = {"tool", "recursive"}]
    [] v = "alone" -> [w EXCEPT !.roles = <<"r1">>]
    [] v = "twins" -> [w EXCEPT !.roles = <<"r1", "r1">>]
    [] v = "empty" -> [w EXCEPT !.text = "empty"]
    [] v = "blank" -> [w EXCEPT !.text = "blank"]
    [] v = "bad" -> [w EXCEPT !.text = "bad"]
    [] v = "oneChoice" -> [w EXCEPT !.choosing = TRUE, !.choices = 1]
    [] v = "late" -> [w EXCEPT !.timeout = 1, !.auto = 1]
    [] v = "intime" -> [w EXCEPT !.timeout = 2, !.auto = 1]
    [] v = "channel" -> [w EXCEPT !.channels = "unknown"]
    [] OTHER -> w

Everywhere == {"plain", "incomplete", "unbounded", "extra", "bare", "malformed"}

MCKinds ==
  (NodeTypes \X Everywhere)
  \cup ({"llm", "agent"} \X {"modelRefused", "modelNone"})
  \cup ({"recursive"} \X {"both", "fromA", "fromB", "fromC"})
  \cup ({"code"} \X {"unnamed", "inline"})
  \cup ({"condition", "loop", "parallel"} \X {"nestsHuman", "nestsTool"})
  \cup ({"swarm"} \X {"alone", "twins"})
  \cup ({"human", "monitor"} \X {"empty", "blank", "bad"})
  \cup ({"human"} \X {"oneChoice", "late", "intime"})
  \cup {<<"monitor", "channel">>, <<"unknown", "plain">>}
  \cup {<<"llm", "mapsA">>, <<"llm", "mapsKey">>, <<"tool", "broken">>}

MCConfig ==
  [k \in MCKinds |->
     IF k = <<"tool", "broken">> THEN Variant("tool", "bare") ELSE Variant(k[1], k[2])]
MCMapping ==
  [k \in MCKinds |->
     IF k[2] = "mapsA" THEN {<<a, TRUE>>} ELSE IF k[2] = "mapsKey" THEN {<<a, FALSE>>} ELSE {}]
MCTool == [k \in MCKinds |-> IF k[2] = "broken" THEN "flaky" ELSE "search"]
MCBroken == {"flaky"}

Node(id, k, ds) == [id |-> id, kind |-> k, deps |-> ds, schemas |-> MCConfig[k].schemas]

\* One node of every kind; two nodes with a mapping; two nodes with one id; a
\* self-dependency; and every graph of three nodes, each plain or recursive with one source.
Singles == {<<Node(a, k, {})>> : k \in MCKinds}
Mapped ==
  {<<Node(a, <<"tool", "bare">>, {}), Node(b, k, ds)>> :
     k \in {<<"llm", "mapsA">>, <<"llm", "mapsKey">>, <<"tool", "broken">>}, ds \in {{}, {a}, {c}, {b}}}
Twice == {<<Node(a, <<"llm", "plain">>, ds), Node(a, <<"llm", "plain">>, {}), Node(b, <<"llm", "plain">>, es)>> :
            ds \in {{}, {b}}, es \in {{}, {a}}}
Plain == <<"llm", "plain">>
Rec(v) == <<"recursive", v>>
Graphs3 ==
  {<<Node(a, ka, da), Node(b, kb, db), Node(c, kc, dc)>> :
     ka \in {Plain, Rec("fromB"), Rec("fromC")}, kb \in {Plain, Rec("fromA"), Rec("fromC")},
     kc \in {Plain, Rec("fromA"), Rec("fromB")},
     da \in SUBSET {b, c}, db \in SUBSET {a, c}, dc \in SUBSET {a, b}}

\* Chains of four, some with conditions: deep enough to exhaust the stack.
Step == {Plain, <<"condition", "plain">>}
Chains ==
  {<<Node(a, ka, {}), Node(b, kb, db), Node(c, kc, dc), Node(d, Plain, dd)>> :
     ka \in Step, kb \in Step, kc \in Step,
     db \in {{}, {a}}, dc \in {{b}, {a}, {a, b}}, dd \in {{c}, {b}, {a, c}}}

MCLists == Singles \cup Mapped \cup Twice \cup Graphs3 \cup Chains
MCDraftKinds == {Plain, Rec("fromA")}
MCIds == {a, b, c, d}
MCDraftIds == {a, b}
=============================================================================
