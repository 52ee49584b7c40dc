--------------------------- MODULE ProceduralMemory -------------------------
(***************************************************************************)
(* The procedural memory: procedures, their indexes by category and by     *)
(* context, how often each was used and with what success.  The index      *)
(* lists are the number of times a key is listed.                          *)
(***************************************************************************)
EXTENDS Naturals, FiniteSetsExt

CONSTANTS
  Procedures,  \* keys
  Categories,
  Composite,   \* the category of a composite procedure
  Contexts,
  MaxUses,     \* bound: executions recorded of a procedure
  MaxStores    \* bound: how often a key is listed by category, and by context

ASSUME CompositeIsACategory == Composite \in Categories

VARIABLES
  procedures,  \* the metadata of each stored procedure
  byCategory,
  byContext,
  usage,       \* _usage_counts, kept beyond a deletion
  scores       \* _success_metrics: the scores of each procedure, "good" or "bad"

proceduralVars == <<procedures, byCategory, byContext, usage, scores>>

NoProcedure == [category |-> Composite, contexts |-> {}, uses |-> 0, rate |-> "none"]
\* success_rate: as stored, or the average of the scores, the last of which
\* weighs more than the others together.
Rates == {"declared", "good", "bad"}
Present(k) == procedures[k] # NoProcedure

ProceduralTypeOK ==
  /\ procedures \in [Procedures -> [category : Categories, contexts : SUBSET Contexts,
                                    uses : 0..MaxUses, rate : Rates] \cup {NoProcedure}]
  /\ byCategory \in [Categories -> [Procedures -> 0..MaxStores]]
  /\ byContext \in [Contexts -> [Procedures -> 0..MaxStores]]
  /\ usage \in [Procedures -> 0..MaxUses]
  /\ scores \in [Procedures -> 0..MaxUses]

ProceduralInit ==
  /\ procedures = [k \in Procedures |-> NoProcedure]
  /\ byCategory = [c \in Categories |-> [k \in Procedures |-> 0]]
  /\ byContext = [c \in Contexts |-> [k \in Procedures |-> 0]]
  /\ usage = [k \in Procedures |-> 0]
  /\ scores = [k \in Procedures |-> 0]

\* A content that is no mapping with a name is refused before this.
Put(k, category, contexts) ==
  /\ MapThenSumSet(LAMBDA c : byCategory[c][k], Categories) < MaxStores
  /\ \A c \in contexts : byContext[c][k] < MaxStores
  /\ procedures' = [procedures EXCEPT ![k] = [category |-> category, contexts |-> contexts,
                                              uses |-> 0, rate |-> "declared"]]
  /\ byCategory' = [byCategory EXCEPT ![category][k] = @ + 1]
  /\ byContext' = [c \in Contexts |-> IF c \in contexts THEN [byContext[c] EXCEPT ![k] = @ + 1]
                                      ELSE byContext[c]]
  /\ UNCHANGED <<usage, scores>>

StoreProcedure ==
  \E k \in Procedures, category \in Categories, contexts \in SUBSET Contexts :
    Put(k, category, contexts)

\* create_composite_procedure: the contexts of the components that exist.
CreateComposite ==
  \E k \in Procedures, components \in SUBSET Procedures :
    LET found == {p \in components : Present(p)}
    IN  /\ found # {}
        /\ Put(k, Composite, UNION {procedures[p].contexts : p \in found})

Less(n) == IF n = 0 THEN 0 ELSE n - 1

\* The keys are taken off the lists of their current metadata; the scores go,
\* the usage counts, looked up by key among the domains, stay.
Gone(keys) ==
  /\ procedures' = [k \in Procedures |-> IF k \in keys THEN NoProcedure ELSE procedures[k]]
  /\ byCategory' = [c \in Categories |-> [k \in Procedures |->
        IF k \in keys /\ procedures[k].category = c THEN Less(byCategory[c][k]) ELSE byCategory[c][k]]]
  /\ byContext' = [c \in Contexts |-> [k \in Procedures |->
        IF k \in keys /\ c \in procedures[k].contexts THEN Less(byContext[c][k]) ELSE byContext[c][k]]]
  /\ scores' = [k \in Procedures |-> IF k \in keys THEN 0 ELSE scores[k]]
  /\ UNCHANGED usage

DeleteProcedure == \E k \in Procedures : Present(k) /\ Gone({k})

ClearProcedures ==
  \E prefixed \in SUBSET Procedures : Gone({k \in prefixed : Present(k)})

\* record_execution; the first score leaves the rate as it is.
RecordExecution ==
  \E k \in Procedures, score \in {"good", "bad"} :
    /\ Present(k) /\ usage[k] < MaxUses
    /\ usage' = [usage EXCEPT ![k] = @ + 1]
    /\ scores' = [scores EXCEPT ![k] = @ + 1]
    /\ procedures' = [procedures EXCEPT ![k].uses = usage[k] + 1,
                                        ![k].rate = IF scores[k] > 0 THEN score ELSE @]
    /\ UNCHANGED <<byCategory, byContext>>

ProceduralNext ==
  StoreProcedure \/ CreateComposite \/ DeleteProcedure \/ ClearProcedures \/ RecordExecution

\* find_applicable_procedures with a category, get_procedures_by_category and
\* get_procedures_by_context find every stored procedure.
ProceduresListed ==
  \A k \in Procedures : Present(k) =>
    /\ byCategory[procedures[k].category][k] > 0
    /\ \A c \in procedures[k].contexts : byContext[c][k] > 0
=============================================================================
