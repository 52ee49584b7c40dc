-------------------------------- MODULE Studio ------------------------------
(***************************************************************************)
(* The database behind the Studio: workspaces, projects and their catalog, *)
(* mounts, the workflows attached to a project, bearer tokens, and the     *)
(* library of user assets.  A handler reads rows, and commits after an     *)
(* await.  A row holds the requests that wrote its name and its catalog    *)
(* last: what two requests write differs.                                  *)
(***************************************************************************)
EXTENDS McpDocuments

CONSTANTS
  Users,    \* users of the one organisation
  Texts     \* contents of library assets, told apart by their hash

VARIABLES
  rows,      \* workspace, project and mount rows: name, catalog, parent
  tokens,    \* tokens, named after the request that issued them
  attached,  \* pr:<project>:blueprints, and the process's fallback of it
  assets     \* semantic_memory rows of scope "library": key, content, created_at

studioVars == <<rows, tokens, attached, assets>>

Tables == {"workspace", "project", "mount"}
ParentTable(f) == IF f = "mount" THEN "project" ELSE "workspace"
NoRow == [name |-> NoLock, catalog |-> NoLock, parent |-> NoLock]
Row == [name : Requests \cup {NoLock}, catalog : Requests \cup {NoLock},
        parent : Docs \cup {NoLock}]
Master == "master"

StudioTypeOK ==
  /\ rows \in [Tables -> [Docs -> Row]]
  /\ tokens \in [Requests -> {"none", "live", "revoked", "deleted"}]
  /\ attached \in [Docs -> [redis : Contents, kv : Contents]]
  /\ assets \subseteq [user : Users, text : Texts, created : Nat]

StudioInit ==
  /\ rows = [f \in Tables |-> [k \in Docs |-> NoRow]]
  /\ tokens = [r \in Requests |-> "none"]
  /\ attached = [k \in Docs |-> [redis |-> <<>>, kv |-> <<>>]]
  /\ assets = {}

HasRow(f, k) == rows[f][k] # NoRow

\* require_auth: the token of the environment, or a live one of the database.
Accepted(t) == t = Master \/ tokens[t] = "live"

StudioOps ==
  {[at |-> "studio", op |-> op, doc |-> <<f, k>>] :
     op \in {"put", "catalog"}, f \in Tables, k \in Docs}
  \cup {[at |-> "studio", op |-> op, doc |-> <<"project", k>>] :
     op \in {"bootstrap", "attach", "detach", "materialize"}, k \in Docs}
  \cup {[at |-> "studio", op |-> op, token |-> t] : op \in {"issue", "revoke", "delete"}, t \in Requests}
  \cup {[at |-> "studio", op |-> op, user |-> u, text |-> x] :
     op \in {"store", "fetch", "forget"}, u \in Users, x \in Texts}

\* The dependencies of every route: require_auth, and rate_limit, which refuses a
\* token that comes too often within a window.
StudioRequest(r) ==
  /\ At(r, "idle")
  /\ \E t \in Requests \cup {Master} :
       IF Accepted(t) THEN Answer(r, "429") \/ \E next \in StudioOps : Goto(r, next)
       ELSE Answer(r, "403")
  /\ UNCHANGED <<componentVars, documentVars, studioVars>>

Doing(r, ops) == At(r, "studio") /\ req[r].op \in ops

(***************************************************************************)
(* Workspaces, projects, mounts.                                           *)
(***************************************************************************)

\* Fault: the parent is not looked up.
ReadRowAlone(r) ==
  \E parent \in Docs :
    /\ Doing(r, {"put"})
    /\ Goto(r, [at |-> "commit", doc |-> req[r].doc, parent |-> parent, sets |-> {"name"},
                insert |-> IF HasRow(req[r].doc[1], req[r].doc[2]) THEN {} ELSE {req[r].doc[1]}])
    /\ UNCHANGED <<componentVars, documentVars, studioVars>>

\* create_workspace, create_project, add_mount: the parent must exist; whether
\* the row exists decides between an insert and an update.  A mount is looked up
\* by its id alone, in whichever project it is.  A project that exists is given
\* the catalog of this request too, in place of the one that was put.
ReadRow(r) ==
  \E parent \in Docs :
    /\ Doing(r, {"put"})
    /\ LET f == req[r].doc[1]  k == req[r].doc[2]
       IN  IF f # "workspace" /\ ~HasRow(ParentTable(f), parent)
           THEN Answer(r, "404")
           ELSE Goto(r, [at |-> "commit", doc |-> req[r].doc, parent |-> parent,
                         sets |-> IF f = "project" THEN {"name", "catalog"} ELSE {"name"},
                         insert |-> IF HasRow(f, k) THEN {} ELSE {f}])
    /\ UNCHANGED <<componentVars, documentVars, studioVars>>

\* update_catalog: the project must exist.
ReadCatalog(r) ==
  /\ Doing(r, {"catalog"})
  /\ IF req[r].doc[1] = "project" /\ HasRow("project", req[r].doc[2])
     THEN Goto(r, [at |-> "commit", doc |-> req[r].doc, parent |-> NoLock, sets |-> {"catalog"},
                   insert |-> {}])
     ELSE Answer(r, "404")
  /\ UNCHANGED <<componentVars, documentVars, studioVars>>

\* bootstrap_defaults inserts the workspace and the project it does not find,
\* and leaves those it finds as they are.
ReadBootstrap(r) ==
  /\ Doing(r, {"bootstrap"})
  /\ LET k == req[r].doc[2]
         missing == {f \in {"workspace", "project"} : ~HasRow(f, k)}
     IN  Goto(r, [at |-> "commit", doc |-> req[r].doc, parent |-> k, sets |-> {}, insert |-> missing])
  /\ UNCHANGED <<componentVars, documentVars, studioVars>>

\* The transaction: an insert of a row that another request has inserted since
\* is refused as a whole.  An update leaves the parent as it is.
NewRow(r, f) ==
  [name |-> r, catalog |-> IF f = "project" THEN r ELSE NoLock,
   parent |-> IF f = "workspace" THEN NoLock ELSE req[r].parent]
Updated(r, row) ==
  [row EXCEPT !.name = IF "name" \in req[r].sets THEN r ELSE @,
              !.catalog = IF "catalog" \in req[r].sets THEN r ELSE @]

CommitRow(r) ==
  /\ At(r, "commit")
  /\ LET f == req[r].doc[1]  k == req[r].doc[2]
     IN  IF \E g \in req[r].insert : HasRow(g, k)
         THEN Answer(r, "500") /\ UNCHANGED rows
         ELSE /\ rows' = [g \in Tables |-> [rows[g] EXCEPT ![k] =
                            IF g \in req[r].insert THEN NewRow(r, g)
                            ELSE IF g = f THEN Updated(r, @) ELSE @]]
              /\ Answer(r, "201")
  /\ UNCHANGED <<componentVars, documentVars, tokens, attached, assets>>

(***************************************************************************)
(* The workflows of a project.                                             *)
(***************************************************************************)

\* attach: the blueprint must load; from-workflow: a template that is not found
\* is an uncaught error, an invalid one a 400 or 422; detach needs no blueprint.
ResolveWorkflow(r) ==
  /\ Doing(r, {"attach", "detach", "materialize"})
  /\ IF ~HasRow("project", req[r].doc[2]) THEN Answer(r, "404")
     ELSE \/ req[r].op # "detach" /\ Answer(r, "refused")
          \/ Goto(r, [req[r] EXCEPT !.at = "listing"])
  /\ UNCHANGED <<componentVars, documentVars, studioVars>>

\* detach removes every occurrence of the blueprint.
Detached(list, b) == SelectSeq(list, LAMBDA x : x # b)

\* rpush or lrem on the project's list; when Redis fails, the process's own list,
\* which is not read while Redis answers.  A blueprint is named after the request
\* that stored it; a materialized one was stored by this request.
ListWorkflow(r) ==
  /\ At(r, "listing")
  /\ \E where \in {"redis", "kv"}, b \in Requests :
       /\ req[r].op = "materialize" => b = r
       /\ attached' = [attached EXCEPT ![req[r].doc[2]][where] =
                         IF req[r].op = "detach" THEN Detached(@, b) ELSE Append(@, b)]
  /\ Answer(r, "201")
  /\ UNCHANGED <<componentVars, documentVars, rows, tokens, assets>>

(***************************************************************************)
(* Tokens and library assets.                                              *)
(***************************************************************************)

IssueToken(r) ==
  /\ Doing(r, {"issue"})
  /\ tokens' = [tokens EXCEPT ![r] = "live"]
  /\ Answer(r, "201")
  /\ UNCHANGED <<componentVars, documentVars, rows, attached, assets>>

ReadToken(r) ==
  /\ Doing(r, {"revoke", "delete"})
  /\ IF tokens[req[r].token] \in {"none", "deleted"} THEN Answer(r, "404")
     ELSE Goto(r, [req[r] EXCEPT !.at = "endtoken"])
  /\ UNCHANGED <<componentVars, documentVars, studioVars>>

\* The update or delete of a row that is gone matches nothing and raises.
EndToken(r) ==
  /\ At(r, "endtoken")
  /\ LET t == req[r].token
     IN  IF tokens[t] = "deleted" THEN Answer(r, "500") /\ UNCHANGED tokens
         ELSE /\ tokens' = [tokens EXCEPT ![t] = IF req[r].op = "revoke" THEN "revoked" ELSE "deleted"]
              /\ Goto(r, [at |-> "done", code |-> req[r].op, token |-> t])
  /\ UNCHANGED <<componentVars, documentVars, rows, attached, assets>>

\* insert_semantic_entry: a content the organisation has already is the same row
\* again, under the new key, as old as it was; any other is a new row.
Upserted(u, x) ==
  IF \E a \in assets : a.text = x
  THEN {IF a.text = x THEN [a EXCEPT !.user = u] ELSE a : a \in assets}
  ELSE assets \cup {[user |-> u, text |-> x, created |-> Max({0} \cup {a.created : a \in assets}) + 1]}

StoreAsset(r) ==
  /\ Doing(r, {"store"})
  /\ \/ Answer(r, "413") /\ UNCHANGED assets
     \/ /\ assets' = Upserted(req[r].user, req[r].text)
        /\ Answer(r, "stored")
  /\ UNCHANGED <<componentVars, documentVars, rows, tokens, attached>>

\* get_asset and the listings: the newest row of the key.
Newest(u) ==
  {a \in assets : a.user = u /\ \A b \in assets : b.user = u => b.created <= a.created}

FetchAsset(r) ==
  /\ Doing(r, {"fetch"})
  /\ Answer(r, IF Newest(req[r].user) = {} THEN "404" ELSE "200")
  /\ UNCHANGED <<componentVars, documentVars, studioVars>>

DeleteAsset(r) ==
  /\ Doing(r, {"forget"})
  /\ assets' = {a \in assets : a.user # req[r].user}
  /\ Answer(r, "200")
  /\ UNCHANGED <<componentVars, documentVars, rows, tokens, attached>>

StudioContinue(r) ==
  \/ ReadRow(r) \/ ReadCatalog(r) \/ ReadBootstrap(r) \/ CommitRow(r) \/ ResolveWorkflow(r)
  \/ ListWorkflow(r) \/ IssueToken(r) \/ ReadToken(r) \/ EndToken(r) \/ StoreAsset(r)
  \/ FetchAsset(r) \/ DeleteAsset(r)

\* What the tables promise each other and those who were told of a change: a row
\* has its parent, a deleted token stays deleted though a revocation was under
\* way, a revoked one never lives again, and a content is stored once.
StudioConsistent ==
  /\ \A k \in Docs, f \in {"project", "mount"} :
       HasRow(f, k) => HasRow(ParentTable(f), rows[f][k].parent)
  /\ \A r \in Requests :
       /\ Answered(r, "delete") => tokens[req[r].token] = "deleted"
       /\ Answered(r, "revoke") => tokens[req[r].token] \in {"revoked", "deleted"}
  /\ \A a, b \in assets : a.text = b.text => a = b
=============================================================================
