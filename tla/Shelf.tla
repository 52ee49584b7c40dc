-------------------------------- MODULE Shelf -------------------------------
(***************************************************************************)
(* The information-architecture endpoints: organisations, collections and  *)
(* their items, revisions of workflows and favourites.  Every request      *)
(* tries Redis and falls back to a dictionary of the process, request by   *)
(* request, and nothing moves from one to the other.  Beside them, the     *)
(* blueprints that are made from a bundle's templates; each is named after *)
(* the request that makes it.                                              *)
(***************************************************************************)
EXTENDS Naturals, FiniteSets

CONSTANTS
  Collections,
  Workflows,
  Users,
  Revisions,  \* what create_revision is asked for: (workflow, body, note)
  Writers     \* requests that may be under way at the same time

Stores == {"redis", "kv"}

VARIABLES
  orgs, collections, items, favorites,  \* per store
  blobs, revisions,                     \* per store: saved bodies, and the index
  copies,     \* blueprints: the rows, app.state.blueprints and Redis
  writer,     \* where each request is
  failed,     \* a call to Redis has failed, so some state is in the process only
  restarted,  \* the dictionary of the process was lost
  acked       \* what requests have reported done

shelfVars == <<orgs, collections, items, favorites, blobs, revisions, copies, writer,
              failed, restarted, acked>>

Done == [at |-> "done"]

ShelfTypeOK ==
  /\ orgs \in [Stores -> BOOLEAN]
  /\ collections \in [Stores -> SUBSET Collections]
  /\ items \in [Stores -> SUBSET (Collections \X Workflows)]
  /\ favorites \in [Stores -> SUBSET (Users \X Workflows)]
  /\ blobs \in [Stores -> SUBSET Revisions] /\ revisions \in [Stores -> SUBSET Revisions]
  /\ copies \in [{"rows", "app", "redis"} -> SUBSET Writers]
  /\ failed \in BOOLEAN /\ restarted \in BOOLEAN

Nothing == [s \in Stores |-> {}]

ShelfInit ==
  /\ orgs = [s \in Stores |-> FALSE]
  /\ collections = Nothing /\ items = Nothing /\ favorites = Nothing
  /\ blobs = Nothing /\ revisions = Nothing
  /\ copies = [b \in {"rows", "app", "redis"} |-> {}]
  /\ writer = [w \in Writers |-> [at |-> "new"]]
  /\ failed = FALSE /\ restarted = FALSE
  /\ acked = {}

\* A call to Redis works or raises; then the dictionary is used.
Place(s) ==
  /\ s \in Stores
  /\ failed' = (failed \/ s = "kv")

PutIn(f, s, x) == [f EXCEPT ![s] = @ \cup {x}]
Finished(w) == writer' = [writer EXCEPT ![w] = Done]
Acknowledge(x) == acked' = acked \cup {x}

\* _save_json
CreateOrg(w, s) ==
  /\ writer[w].at = "new" /\ Place(s)
  /\ orgs' = [orgs EXCEPT ![s] = TRUE]
  /\ Finished(w)
  /\ Acknowledge(<<"org">>)
  /\ UNCHANGED <<copies, collections, items, favorites, blobs, revisions, restarted>>

CreateCollection(w, c, s) ==
  /\ writer[w].at = "new" /\ Place(s)
  /\ collections' = PutIn(collections, s, c)
  /\ Finished(w)
  /\ Acknowledge(<<"collection", c>>)
  /\ UNCHANGED <<copies, orgs, items, favorites, blobs, revisions, restarted>>

\* _load_json looks into the dictionary for what Redis does not hold or does
\* not answer.
Loaded(f, x, s) == x \in f["kv"] \/ (s = "redis" /\ x \in f["redis"])

FindCollection(w, c, x, s) ==
  /\ writer[w].at = "new" /\ Place(s)
  /\ writer' = [writer EXCEPT ![w] = IF Loaded(collections, c, s)
                                     THEN [at |-> "adding", item |-> <<c, x>>] ELSE Done]
  /\ UNCHANGED <<copies, orgs, collections, items, favorites, blobs, revisions, restarted, acked>>

AddItem(w, s) ==
  /\ writer[w].at = "adding" /\ Place(s)
  /\ items' = PutIn(items, s, writer[w].item)
  /\ Finished(w)
  /\ Acknowledge(<<"item", writer[w].item>>)
  /\ UNCHANGED <<copies, orgs, collections, favorites, blobs, revisions, restarted>>

AddFavorite(w, u, x, s) ==
  /\ writer[w].at = "new" /\ Place(s)
  /\ favorites' = PutIn(favorites, s, <<u, x>>)
  /\ Finished(w)
  /\ Acknowledge(<<"favorite", <<u, x>>>>)
  /\ UNCHANGED <<copies, orgs, collections, items, blobs, revisions, restarted>>

\* Fault: the revision is listed first and its body saved afterwards.
SaveBlobLast(w, r) ==
  /\ writer[w].at = "new"
  /\ revisions' = PutIn(revisions, "redis", r)
  /\ writer' = [writer EXCEPT ![w] = [at |-> "indexing", revision |-> r]]
  /\ UNCHANGED <<copies, orgs, collections, items, favorites, blobs, failed, restarted, acked>>

\* create_revision saves the body, then lists it; if either call fails both
\* are done in the dictionary.
SaveBlob(w, r) ==
  /\ writer[w].at = "new"
  /\ blobs' = PutIn(blobs, "redis", r)
  /\ writer' = [writer EXCEPT ![w] = [at |-> "indexing", revision |-> r]]
  /\ UNCHANGED <<copies, orgs, collections, items, favorites, revisions, failed, restarted, acked>>

IndexRevision(w) ==
  /\ writer[w].at = "indexing"
  /\ revisions' = PutIn(revisions, "redis", writer[w].revision)
  /\ Finished(w)
  /\ Acknowledge(<<"revision", writer[w].revision>>)
  /\ UNCHANGED <<copies, orgs, collections, items, favorites, blobs, failed, restarted>>

KeepRevision(w, r) ==
  /\ writer[w].at = "new" \/ (writer[w].at = "indexing" /\ writer[w].revision = r)
  /\ blobs' = PutIn(blobs, "kv", r)
  /\ revisions' = PutIn(revisions, "kv", r)
  /\ failed' = TRUE
  /\ Finished(w)
  /\ Acknowledge(<<"revision", r>>)
  /\ UNCHANGED <<copies, orgs, collections, items, favorites, restarted>>

(***************************************************************************)
(* Blueprints from templates                                               *)
(***************************************************************************)
\* _find_workflow_yaml: the hinted file if there is one, else any file of the
\* bundles with that id.
TemplateFound(hinted, known) == hinted \/ known

\* _validate_resolvable_and_allowed: every tool is registered, once the plugin
\* manifests were loaded again, and allowed; an agent need only be allowed.
Resolvable(registered, allowed) == registered /\ allowed

\* create_blueprint_from_workflow: no such template, no nodes in it, or a tool
\* that is not there, and the request fails with nothing stored.
FromTemplate(w) ==
  \E hinted \in BOOLEAN, known \in BOOLEAN, valid \in BOOLEAN, registered \in BOOLEAN, allowed \in BOOLEAN :
    /\ writer[w].at = "new"
    /\ writer' = [writer EXCEPT ![w] =
                    IF TemplateFound(hinted, known) /\ valid /\ Resolvable(registered, allowed)
                    THEN [at |-> "persisting"] ELSE Done]
    /\ UNCHANGED <<copies, orgs, collections, items, favorites, blobs, revisions, failed, restarted, acked>>

\* _persist_blueprint_to_store: a row, or an entry of app.state when the
\* database raises ...
PersistBlueprint(w, b) ==
  /\ writer[w].at = "persisting" /\ b \in {"rows", "app"}
  /\ copies' = PutIn(copies, b, w)
  /\ failed' = (failed \/ b = "app")
  /\ writer' = [writer EXCEPT ![w] = [at |-> "mirroring"]]
  /\ UNCHANGED <<orgs, collections, items, favorites, blobs, revisions, restarted, acked>>

\* ... and a copy in Redis, if it answers.
MirrorBlueprint(w) ==
  /\ writer[w].at = "mirroring"
  /\ copies' \in {copies, PutIn(copies, "redis", w)}
  /\ Finished(w)
  /\ Acknowledge(<<"blueprint", w>>)
  /\ UNCHANGED <<orgs, collections, items, favorites, blobs, revisions, failed, restarted>>

\* _get_blueprint of an execution looks into app.state, the rows and Redis.
Found(w) == \E b \in DOMAIN copies : w \in copies[b]

\* Requests under way are lost with the process.
ShelfRestart ==
  /\ ~restarted
  /\ restarted' = TRUE
  /\ orgs' = [orgs EXCEPT !["kv"] = FALSE]
  /\ collections' = [collections EXCEPT !["kv"] = {}]
  /\ items' = [items EXCEPT !["kv"] = {}]
  /\ favorites' = [favorites EXCEPT !["kv"] = {}]
  /\ blobs' = [blobs EXCEPT !["kv"] = {}]
  /\ revisions' = [revisions EXCEPT !["kv"] = {}]
  /\ copies' = [copies EXCEPT !["app"] = {}]
  /\ writer' = [w \in Writers |-> IF writer[w].at = "new" THEN writer[w] ELSE Done]
  /\ UNCHANGED <<failed, acked>>

ShelfNext ==
  \/ \E w \in Writers :
       \/ \E s \in Stores :
            \/ CreateOrg(w, s)
            \/ \E c \in Collections : CreateCollection(w, c, s)
            \/ \E c \in Collections, x \in Workflows : FindCollection(w, c, x, s)
            \/ AddItem(w, s)
            \/ \E u \in Users, x \in Workflows : AddFavorite(w, u, x, s)
       \/ \E r \in Revisions : SaveBlob(w, r) \/ KeepRevision(w, r)
       \/ IndexRevision(w)
       \/ FromTemplate(w) \/ MirrorBlueprint(w)
       \/ \E b \in {"rows", "app"} : PersistBlueprint(w, b)
  \/ ShelfRestart

(***************************************************************************)
(* What the lists answer                                                   *)
(***************************************************************************)
\* Organisations and collections come from the dictionary when Redis has none;
\* items, favourites and revisions come from Redis whenever it answers.
ListOrgs(s) == orgs[s] \/ orgs["kv"]
ListCollections(s) ==
  IF s = "redis" /\ collections["redis"] # {} THEN collections["redis"] ELSE collections["kv"]
ListItems(s) == items[s]
ListRevisions(s) == revisions[s]
ListFavorites(s) == favorites[s]

Listed(s) ==
  (IF ListOrgs(s) THEN {<<"org">>} ELSE {})
  \cup {<<"collection", c>> : c \in ListCollections(s)}
  \cup {<<"item", i>> : i \in ListItems(s)}
  \cup {<<"revision", r>> : r \in ListRevisions(s)}
  \cup {<<"favorite", f>> : f \in ListFavorites(s)}
  \cup {<<"blueprint", w>> : w \in {v \in Writers : Found(v)}}

\* While Redis and the database answer every call, a restart loses nothing that
\* was acknowledged; without a restart an acknowledged blueprint is found,
\* whatever fails; and a revision that either store lists has its body in that
\* store.  (ia.py, create_revision; templates.py, _persist_blueprint_to_store)
ShelfWhole ==
  /\ ~failed => acked \subseteq Listed("redis")
  /\ ~restarted => \A w \in Writers : <<"blueprint", w>> \in acked => Found(w)
  /\ \A s \in Stores : ListRevisions(s) \subseteq blobs[s]
=============================================================================
