------------------------------- MODULE MCIceApi -----------------------------
EXTENDS IceApi, TLC

CONSTANTS t1, t2, ag, wf, cd

MCTypeOf == t1 :> "tool" @@ t2 :> "tool" @@ ag :> "agent" @@ wf :> "workflow" @@ cd :> "code"
\* Factory code; a class; a class that is none; both.
MCDefs == {[id |-> 1, sound |-> TRUE, factory |-> "good", class |-> "none", tools |-> {}],
           [id |-> 2, sound |-> TRUE, factory |-> "none", class |-> "good", tools |-> {t1}],
           [id |-> 3, sound |-> TRUE, factory |-> "none", class |-> "bad", tools |-> {}],
           [id |-> 4, sound |-> TRUE, factory |-> "good", class |-> "good", tools |-> {}]}
MCOffered == [a \in Areas |->
                CASE a = "components" -> Components
                  [] a = "documents" -> {t1, ag}
                  [] a = "runs" -> {t2, wf}
                  [] OTHER -> {}]
\* Two requests in the components area are enough for every race there.
MCLoad == [a \in Areas |-> IF a = "components" THEN 2 ELSE 3]
MCManifest == <<t2, ag>>
Symmetry == Permutations(Requests)
=============================================================================
