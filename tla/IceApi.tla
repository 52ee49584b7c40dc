-------------------------------- MODULE IceApi ------------------------------
(***************************************************************************)
(* The API server: its areas share the process, its registry, its stores   *)
(* and its event loop.  The requests of one behaviour go to one area, and  *)
(* to the components next to it; areas meet only in the registry, so that  *)
(* nothing is lost by it.                                                  *)
(***************************************************************************)
EXTENDS McpRuns, Studio

vars == <<req, componentVars, runVars, documentVars, raced, studioVars, area>>

TypeOK ==
  /\ ComponentsTypeOK /\ RunsTypeOK /\ DocumentsTypeOK /\ StudioTypeOK
  /\ area \in Areas

Init ==
  /\ RequestsInit /\ ComponentsInit /\ RunsInit /\ DocumentsInit /\ StudioInit
  \* What an area does not look at has one value.
  /\ area # "runs" => stub = FALSE
  /\ area # "components" => sql = FALSE
  /\ area # "documents" => memory = FALSE

ComponentsRequest(r) == ComponentsBegin(r) /\ UNCHANGED <<runVars, documentVars, studioVars>>
DocumentsRequest(r) == DocumentsBegin(r) /\ UNCHANGED <<runVars, studioVars>>
RunsRequest(r) == RunsBegin(r) /\ UNCHANGED <<documentVars, studioVars>>
StudioBegin(r) == StudioRequest(r) /\ UNCHANGED runVars

\* A suspended request goes on.
Continue(r) ==
  /\ ~Starved
  /\ \/ ComponentsContinue(r) /\ UNCHANGED <<runVars, documentVars, studioVars>>
     \/ DocumentsContinue(r) /\ UNCHANGED <<runVars, studioVars>>
     \/ RunsContinue(r) /\ UNCHANGED <<documentVars, studioVars>>
     \/ StudioContinue(r) /\ UNCHANGED runVars
  /\ raced' = raced \cup RacedNow
  /\ UNCHANGED area

Begin(r) ==
  /\ ~Starved /\ Cardinality({s \in Requests : ~At(s, "idle")}) < Load[area]
  /\ \/ In("components") /\ ComponentsRequest(r)
     \/ In("documents") /\ DocumentsRequest(r)
     \/ In("runs") /\ RunsRequest(r)
     \/ In("studio") /\ StudioBegin(r)
     \* A tool that a partial blueprint refers to.
     \/ In("documents") /\ ValidateComponent(r) /\ UNCHANGED <<runVars, documentVars, studioVars>>
  /\ raced' = raced \cup RacedNow
  /\ UNCHANGED area

LoadManifest ==
  /\ area \in {"components", "runs"} /\ ~Starved
  /\ LoadPlugins
  /\ UNCHANGED <<runVars, documentVars, raced, studioVars, area>>

\* The process ends and starts again: the results of runs, the MCP session, the
\* canvas drafts kept in memory and the fallback lists are gone.
Reboot ==
  /\ ~stub
  /\ Restart
  /\ result' = [r \in Requests |-> "none"]
  /\ rpc' = Nobody
  /\ canvas' = IF memory THEN [k \in Docs |-> NoList] ELSE canvas
  /\ ideal' = IF memory THEN [ideal EXCEPT !["canvas"] = [k \in Docs |-> <<>>]] ELSE ideal
  /\ attached' = [k \in Docs |-> [attached[k] EXCEPT !.kv = <<>>]]
  /\ UNCHANGED <<stub, stream, partial, blueprints, session, chat, transcript, memory, draft,
                 raced, rows, tokens, assets, area>>

Next == (\E r \in Requests : Begin(r) \/ Continue(r)) \/ LoadManifest \/ Reboot

Spec == Init /\ [][Next]_vars

(***************************************************************************)
(* Properties.                                                             *)
(***************************************************************************)

Held(f, k) ==
  CASE f = "partial" -> partial[k].json.edits
    [] f = "session" -> session[k]
    [] f = "chat" -> chat[k]
    [] f = "canvas" -> canvas[k]

Exists(f, k) ==
  CASE f = "partial" -> ~partial[k].json.none
    [] f = "session" -> session[k] # NoList
    [] f = "chat" -> TRUE
    [] f = "canvas" -> canvas[k] # NoList

\* Of the acknowledged edits, list has those of all but the other requests, in
\* their order.
Keeps(list, acknowledged, others) ==
  \A i, j \in 1..Len(acknowledged) :
    i <= j /\ acknowledged[i] \notin others /\ acknowledged[j] \notin others =>
      \E m, n \in 1..Len(list) : m <= n /\ list[m] = acknowledged[i] /\ list[n] = acknowledged[j]

\* An edit that was made while no other request was in its document stays in it
\* for good, in the order of such edits, whatever requests race with each other
\* later: they all start from a content that has it, and a reset, a finalized
\* document, an error or a restart never brings back an older one.
SoloEditsKept ==
  \A f \in Kinds, k \in Docs : Exists(f, k) => Keeps(Held(f, k), ideal[f][k], raced)

=============================================================================
