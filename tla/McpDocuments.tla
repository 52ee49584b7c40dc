----------------------------- MODULE McpDocuments ---------------------------
(***************************************************************************)
(* The documents that authors edit through the API, each of them read, and *)
(* written back after at least one await: partial blueprints under a       *)
(* version lock, design sessions, chat histories, canvas drafts, and the   *)
(* builder's drafts under a version number.                                *)
(*                                                                         *)
(* The content of a document is the sequence of the requests whose edits   *)
(* it holds; of a partial blueprint also the components its nodes refer    *)
(* to, and whether the last validation found it complete.  A version lock  *)
(* is the digest of a content: it is identified with that content.         *)
(***************************************************************************)
EXTENDS McpComponents

CONSTANT Docs   \* document ids, each used by every kind of document

VARIABLES
  partial,     \* partial_bp:<id>: the fields json and lock
  blueprints,  \* the contents finalized so far
  session,     \* design_session:<id>: the components it has registered
  chat,        \* chat:<agent>:<session>
  transcript,  \* turns in semantic memory
  memory,      \* the canvas drafts are kept in the process
  canvas,      \* draft:<session>
  draft,       \* builder:draft:<key>: data and version
  ideal,       \* history: the acknowledged edits of each document
  raced        \* history: requests that another one was in the same document with

documentVars == <<partial, blueprints, session, chat, transcript, memory, canvas, draft, ideal>>

\* The documents whose acknowledged edits are recorded.
Kinds == {"partial", "session", "chat", "canvas"}
Contents == UNION {[1..n -> Requests] : n \in 0..Cardinality(Requests)}
NoContent == [edits |-> <<>>, refs |-> {}, complete |-> FALSE, none |-> TRUE]
NewContent == [NoContent EXCEPT !.none = FALSE]
NoList == <<NoLock>>
NoDraft == [data |-> NoLock, version |-> 0]

Partial == [edits : Contents, refs : SUBSET Components, complete : BOOLEAN, none : BOOLEAN]

DocumentsTypeOK ==
  /\ partial \in [Docs -> [json : Partial, lock : Partial]]
  /\ blueprints \subseteq Partial
  /\ session \in [Docs -> Contents \cup {NoList}]
  /\ chat \in [Docs -> Contents]
  /\ transcript \subseteq Requests
  /\ memory \in BOOLEAN
  /\ canvas \in [Docs -> Contents \cup {NoList}]
  /\ draft \in [Docs -> [data : Requests \cup {NoLock}, version : 0..2 * Cardinality(Requests)]]
  /\ ideal \in [Kinds -> [Docs -> Contents]]
  /\ raced \subseteq Requests

DocumentsInit ==
  /\ partial = [k \in Docs |-> [json |-> NoContent, lock |-> NoContent]]
  /\ blueprints = {}
  /\ session = [k \in Docs |-> NoList]
  /\ chat = [k \in Docs |-> <<>>]
  /\ transcript = {}
  /\ memory \in BOOLEAN
  /\ canvas = [k \in Docs |-> NoList]
  /\ draft = [k \in Docs |-> NoDraft]
  /\ ideal = [f \in Kinds |-> [k \in Docs |-> <<>>]]
  /\ raced = {}

Kept(f, k, r) == ideal' = [ideal EXCEPT ![f][k] = Append(@, r)]

(***************************************************************************)
(* Partial blueprints.                                                     *)
(***************************************************************************)

\* _validate_incremental: an agent counts only when it has an import path.
Known(c) ==
  CASE IsTool(c) -> has_tool(reg, c)
    [] TypeOf[c] = "agent" -> c \in reg.agents
    [] TypeOf[c] = "workflow" -> c \in reg.workflows
    [] TypeOf[c] = "code" -> TRUE

Validated(p, refs, r) ==
  [p EXCEPT !.edits = Append(@, r), !.refs = refs,
            !.complete = refs # {} /\ \A c \in refs : Known(c)]

\* POST .../suggest with commit rewrites next_suggestions only; it takes the
\* lock like an update does.
Suggested(p, r) == [p EXCEPT !.edits = Append(@, r)]

\* add_node, remove_node, update_node and suggest of update_partial_blueprint.
Edit(p, edit, r) ==
  CASE edit.op = "add" -> Validated(p, p.refs \cup {edit.c}, r)
    [] edit.op = "remove" -> Validated(p, p.refs \ {edit.c}, r)
    [] edit.op = "update" -> Validated(p, IF p.refs = {} THEN {} ELSE {edit.c}, r)
    [] edit.op = "suggest" -> Validated(p, p.refs, r)
    [] edit.op = "commit" -> Suggested(p, r)

Edits == [op : {"add", "remove", "update", "suggest", "commit"}, c : Here]

\* The id of a new partial blueprint or design session is new.
Fresh(k) ==
  /\ partial[k].json.none /\ partial[k].lock.none /\ session[k] = NoList
  /\ \A r \in Requests : "doc" \in DOMAIN req[r] => req[r].doc[2] # k

\* POST /blueprints/partial: json and lock in one write.
CreatePartial(r) ==
  \E k \in Docs :
    /\ At(r, "idle") /\ Fresh(k)
    /\ partial' = [partial EXCEPT ![k] = [json |-> NewContent, lock |-> NewContent]]
    /\ Answer(r, "200")
    /\ UNCHANGED <<componentVars, blueprints, session, chat, transcript, memory, canvas, draft, ideal>>

\* POST /blueprints: a blueprint that is valid is stored under a new id.
PostBlueprint(r) ==
  \E valid \in BOOLEAN :
    /\ At(r, "idle")
    /\ blueprints' = IF valid THEN blueprints \cup {[NewContent EXCEPT !.edits = <<r>>]} ELSE blueprints
    /\ Answer(r, IF valid THEN "201" ELSE "400")
    /\ UNCHANGED <<componentVars, partial, session, chat, transcript, memory, canvas, draft, ideal>>

\* GET /blueprints/<id>, and its visualization, which nothing ever stores.
GetBlueprint(r) ==
  \E known \in BOOLEAN :
    /\ At(r, "idle")
    /\ Answer(r, IF known /\ blueprints # {} THEN "200" ELSE "404")
    /\ UNCHANGED <<componentVars, documentVars>>

GetVisualization(r) ==
  \E known \in BOOLEAN :
    /\ At(r, "idle")
    /\ Answer(r, IF known /\ blueprints # {} THEN "501" ELSE "404")
    /\ UNCHANGED <<componentVars, documentVars>>

\* POST /blueprints/design-session: the session, then a partial without a lock.
CreateSession(r) ==
  \E k \in Docs :
    /\ At(r, "idle") /\ Fresh(k)
    /\ session' = [session EXCEPT ![k] = <<>>]
    /\ Goto(r, [at |-> "session", doc |-> <<"session", k>>])
    /\ UNCHANGED <<componentVars, partial, blueprints, chat, transcript, memory, canvas, draft, ideal>>

CreateSessionPartial(r) ==
  /\ At(r, "session")
  /\ partial' = [partial EXCEPT ![req[r].doc[2]].json = NewContent]
  /\ Answer(r, "200")
  /\ UNCHANGED <<componentVars, blueprints, session, chat, transcript, memory, canvas, draft, ideal>>

\* A mutation of a partial blueprint presents the lock the client has read, or
\* none.  The handler reads json ...
BeginEdit(r) ==
  \E k \in Docs, edit \in Edits, held \in BOOLEAN :
    /\ At(r, "idle")
    /\ IF partial[k].json.none THEN Answer(r, "404")
       ELSE Goto(r, [at |-> "editlock", doc |-> <<"partial", k>>, edit |-> edit,
                     p |-> partial[k].json,
                     lock |-> IF held THEN partial[k].lock ELSE NoContent])
    /\ UNCHANGED <<componentVars, documentVars>>

BeginFinalize(r) ==
  \E k \in Docs :
    /\ At(r, "idle")
    /\ IF partial[k].json.none THEN Answer(r, "404")
       ELSE Goto(r, [at |-> "finallock", doc |-> <<"partial", k>>,
                     p |-> partial[k].json, lock |-> partial[k].lock])
    /\ UNCHANGED <<componentVars, documentVars>>

\* ... and then the lock, in a second read, and compares it with the client's.
LockMatches(r) ==
  LET server == partial[req[r].doc[2]].lock IN ~server.none /\ server = req[r].lock

CheckEditLock(r) ==
  /\ At(r, "editlock")
  /\ IF LockMatches(r) THEN Goto(r, [req[r] EXCEPT !.at = "edit"])
     ELSE Answer(r, IF req[r].lock.none THEN "428" ELSE "409")
  /\ UNCHANGED <<componentVars, documentVars>>

\* The edited document and its new lock, in one write.
WriteEdit(r) ==
  /\ At(r, "edit")
  /\ LET k == req[r].doc[2]
         new == Edit(req[r].p, req[r].edit, r)
     IN  /\ partial' = [partial EXCEPT ![k] = [json |-> new, lock |-> new]]
         /\ Kept("partial", k, r)
  /\ Answer(r, "200")
  /\ UNCHANGED <<componentVars, blueprints, session, chat, transcript, memory, canvas, draft>>

\* to_blueprint
Convertible(p) == p.complete

\* Finalizing an empty or incomplete document, or one whose preflight fails, is
\* a 400 (or a 402 above the budget); the blueprint is stored ...
CheckFinalLock(r) ==
  /\ At(r, "finallock")
  /\ IF ~LockMatches(r)
     THEN Answer(r, IF req[r].lock.none THEN "428" ELSE "409")
     ELSE \/ Convertible(req[r].p) /\ Goto(r, [req[r] EXCEPT !.at = "final"])
          \/ Answer(r, "400")
  /\ UNCHANGED <<componentVars, documentVars>>

StoreFinal(r) ==
  /\ At(r, "final")
  /\ blueprints' = blueprints \cup {req[r].p}
  /\ Goto(r, [req[r] EXCEPT !.at = "cleanup"])
  /\ UNCHANGED <<componentVars, partial, session, chat, transcript, memory, canvas, draft, ideal>>

\* ... and the json of the partial removed; its lock stays.
CleanUp(r) ==
  /\ At(r, "cleanup")
  /\ partial' = [partial EXCEPT ![req[r].doc[2]].json = NoContent]
  /\ Answer(r, "200")
  /\ UNCHANGED <<componentVars, blueprints, session, chat, transcript, memory, canvas, draft, ideal>>

(***************************************************************************)
(* Design sessions, chats and canvas drafts: read, compute, write.         *)
(***************************************************************************)

\* register_session_component reads the session's list ...
BeginTrack(r) ==
  \E k \in Docs :
    /\ At(r, "idle")
    /\ IF session[k] = NoList THEN Answer(r, "404")
       ELSE Goto(r, [at |-> "track", doc |-> <<"session", k>>, list |-> session[k]])
    /\ UNCHANGED <<componentVars, documentVars>>

\* ... and writes it back with the component.
WriteTrack(r) ==
  /\ At(r, "track")
  /\ session' = [session EXCEPT ![req[r].doc[2]] = Append(req[r].list, r)]
  /\ Kept("session", req[r].doc[2], r)
  /\ Answer(r, "200")
  /\ UNCHANGED <<componentVars, partial, blueprints, chat, transcript, memory, canvas, draft>>

\* chat_turn: a reset empties the history first ...
ResetChat(r) ==
  \E k \in Docs :
    /\ At(r, "idle")
    /\ chat' = [chat EXCEPT ![k] = <<>>]
    /\ ideal' = [ideal EXCEPT !["chat"][k] = <<>>]
    /\ Goto(r, [at |-> "chatread", doc |-> <<"chat", k>>])
    /\ UNCHANGED <<componentVars, partial, blueprints, session, transcript, memory, canvas, draft>>

BeginChat(r) ==
  \E k \in Docs :
    /\ At(r, "idle")
    /\ Goto(r, [at |-> "chatread", doc |-> <<"chat", k>>])
    /\ UNCHANGED <<componentVars, documentVars>>

ReadChat(r) ==
  /\ At(r, "chatread")
  /\ Goto(r, [at |-> "answering", doc |-> req[r].doc, list |-> chat[req[r].doc[2]]])
  /\ UNCHANGED <<componentVars, documentVars>>

\* ... the agent, the fallback model and the one-shot retry of an empty answer
\* may all fail, which ends the turn ...
FailChat(r) ==
  /\ At(r, "answering")
  /\ Answer(r, "error")
  /\ UNCHANGED <<componentVars, documentVars>>

\* ... and the history read before the answer is written back with the turn.
\* The durable transcript is best-effort.
WriteChat(r) ==
  /\ At(r, "answering")
  /\ chat' = [chat EXCEPT ![req[r].doc[2]] = Append(req[r].list, r)]
  /\ Kept("chat", req[r].doc[2], r)
  /\ transcript' \in {transcript, transcript \cup {r}}
  /\ Answer(r, "200")
  /\ UNCHANGED <<componentVars, partial, blueprints, session, memory, canvas, draft>>

\* Fault: a draft that exists is created anew.
OpenCanvasAnew(r) ==
  \E k \in Docs :
    /\ At(r, "idle")
    /\ IF memory
       THEN /\ canvas' = [canvas EXCEPT ![k] = <<>>]
            /\ Answer(r, "200")
       ELSE Goto(r, [at |-> "opencanvas", doc |-> <<"canvas", k>>]) /\ UNCHANGED canvas
    /\ UNCHANGED <<componentVars, partial, blueprints, session, chat, transcript, memory, draft, ideal>>

\* create_or_get_draft: an absent draft is written after an await.
OpenCanvas(r) ==
  \E k \in Docs :
    /\ At(r, "idle")
    /\ IF canvas[k] # NoList
       THEN Answer(r, "200") /\ UNCHANGED canvas
       ELSE IF memory
       THEN /\ canvas' = [canvas EXCEPT ![k] = <<>>]
            /\ Answer(r, "200")
       ELSE Goto(r, [at |-> "opencanvas", doc |-> <<"canvas", k>>]) /\ UNCHANGED canvas
    /\ UNCHANGED <<componentVars, partial, blueprints, session, chat, transcript, memory, draft, ideal>>

SaveNewCanvas(r) ==
  /\ At(r, "opencanvas")
  /\ canvas' = [canvas EXCEPT ![req[r].doc[2]] = <<>>]
  /\ Answer(r, "200")
  /\ UNCHANGED <<componentVars, partial, blueprints, session, chat, transcript, memory, draft, ideal>>

\* lock_node, update_position and instantiate_node: the state in memory is the
\* shared object; the state in Redis is a copy that is written back.
EditCanvas(r) ==
  \E k \in Docs :
    /\ At(r, "idle")
    /\ IF canvas[k] = NoList
       THEN Answer(r, "404") /\ UNCHANGED <<canvas, ideal>>
       ELSE IF memory
       THEN /\ canvas' = [canvas EXCEPT ![k] = Append(@, r)]
            /\ Kept("canvas", k, r)
            /\ Answer(r, "200")
       ELSE /\ Goto(r, [at |-> "canvas", doc |-> <<"canvas", k>>, list |-> canvas[k]])
            /\ UNCHANGED <<canvas, ideal>>
    /\ UNCHANGED <<componentVars, partial, blueprints, session, chat, transcript, memory, draft>>

\* _save_and_broadcast: a viewer that joins during the broadcast makes the
\* response an error, after the state was saved.
SaveCanvas(r) ==
  /\ At(r, "canvas")
  /\ canvas' = [canvas EXCEPT ![req[r].doc[2]] = Append(req[r].list, r)]
  /\ Kept("canvas", req[r].doc[2], r)
  /\ \E code \in {"200", "500"} : Answer(r, code)
  /\ UNCHANGED <<componentVars, partial, blueprints, session, chat, transcript, memory, draft>>

(***************************************************************************)
(* Builder drafts.                                                         *)
(***************************************************************************)

\* put_draft reads the version and compares If-Match with it ...
BeginPutDraft(r) ==
  \E k \in Docs, match \in {"none", "current", "stale"} :
    /\ At(r, "idle")
    /\ IF match = "stale" THEN Answer(r, "409")
       ELSE Goto(r, [at |-> "draft", doc |-> <<"draft", k>>, version |-> draft[k].version])
    /\ UNCHANGED <<componentVars, documentVars>>

\* ... and writes the data under the next version, or one above the client's.
WriteDraft(r) ==
  /\ At(r, "draft")
  /\ \E ahead \in 0..1 :
       draft' = [draft EXCEPT ![req[r].doc[2]] =
                   [data |-> r, version |-> req[r].version + ahead + 1]]
  /\ Answer(r, "200")
  /\ UNCHANGED <<componentVars, partial, blueprints, session, chat, transcript, memory, canvas, ideal>>

\* delete_draft removes data and version one after the other; the time to live
\* of the key removes both at once.
DeleteDraft(r) ==
  \E k \in Docs :
    /\ At(r, "idle")
    /\ draft' = [draft EXCEPT ![k].data = NoLock]
    /\ Goto(r, [at |-> "undraft", doc |-> <<"draft", k>>])
    /\ UNCHANGED <<componentVars, partial, blueprints, session, chat, transcript, memory, canvas, ideal>>

DeleteVersion(r) ==
  /\ At(r, "undraft")
  /\ draft' = [draft EXCEPT ![req[r].doc[2]].version = 0]
  /\ Answer(r, "200")
  /\ UNCHANGED <<componentVars, partial, blueprints, session, chat, transcript, memory, canvas, ideal>>

DocumentsBegin(r) ==
  \/ PostBlueprint(r) \/ GetBlueprint(r) \/ GetVisualization(r) \/ CreatePartial(r) \/ CreateSession(r) \/ BeginEdit(r) \/ BeginFinalize(r)
  \/ BeginTrack(r) \/ ResetChat(r) \/ BeginChat(r) \/ OpenCanvas(r) \/ EditCanvas(r)
  \/ BeginPutDraft(r) \/ DeleteDraft(r)
DocumentsContinue(r) ==
  \/ CreateSessionPartial(r) \/ CheckEditLock(r) \/ WriteEdit(r) \/ CheckFinalLock(r)
  \/ StoreFinal(r) \/ CleanUp(r) \/ WriteTrack(r) \/ ReadChat(r) \/ FailChat(r)
  \/ WriteChat(r) \/ SaveNewCanvas(r) \/ SaveCanvas(r) \/ WriteDraft(r) \/ DeleteVersion(r)

\* The requests that share a document with another one after this step.
RacedNow ==
  {r \in Requests :
     \E s \in Requests \ {r} :
       /\ req'[r].at \notin {"idle", "done", "lost"} /\ req'[s].at \notin {"idle", "done", "lost"}
       /\ "doc" \in DOMAIN req'[r] /\ "doc" \in DOMAIN req'[s]
       /\ req'[r].doc = req'[s].doc}

=============================================================================
