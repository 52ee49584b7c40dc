----------------------------- MODULE IceApiProofs ---------------------------
(***************************************************************************)
(* What the API server guarantees for any number of requests, components,  *)
(* documents, users and texts: a confirmed registration survives a         *)
(* restart, no request exchanges a registered tool, the tables of the      *)
(* Studio stay consistent, and an edit made alone stays in its document.   *)
(***************************************************************************)
EXTENDS IceApi, TLAPS

(***************************************************************************)
(* The inductive invariant, one part per area.  A request's locals are     *)
(* what the program has established before the await it is suspended at.   *)
(***************************************************************************)

\* The awaits of each area, and the answers a property asks about.
ComponentPoints == {"get", "put", "index", "runtime", "update"}
PartialPoints == {"editlock", "edit", "finallock", "final", "cleanup"}
SessionPoints == {"session", "track"}
ChatPoints == {"chatread", "answering"}
CanvasPoints == {"opencanvas", "canvas"}
DraftPoints == {"draft", "undraft"}
RunPoints == {"running", "publish", "streaming"}
StudioPoints == {"studio", "commit", "listing", "endtoken"}
Remembered == {"registered", "revoke", "delete"}

RequestsInv ==
  /\ DOMAIN req = Requests
  /\ \A r \in Requests : "at" \in DOMAIN req[r]
  /\ area \in Areas

\* The registry, which holds only what its components' definitions make.
Factories == [Components -> Impl \cup {None}]
Names == SUBSET Components
Registry ==
  [tools : Factories, paths : Names, classes : Names, agents : Names, agentDefs : Factories,
   workflows : Names, wfCache : Factories, dynamic : Factories, chains : Names,
   code : Factories, codeCache : Factories]

Record == [version : Nat, def : Defs \cup {Packaged}, by : Requests \cup {NoLock}]

\* The locals of a registration, before and after it knows its version, and of
\* an update.
ComponentLocals ==
  [at : {"get"}, c : Components, d : Defs, auto : BOOLEAN, compose : BOOLEAN]
    \cup [at : {"put", "index", "runtime"}, c : Components, d : Defs, auto : BOOLEAN,
          compose : BOOLEAN, version : Nat]
    \cup [at : {"update"}, c : Components, d : Defs]

\* A request has written no record before its one write; a record it wrote is
\* its definition as long as nobody writes another; and what it confirms is
\* listed and was usable.
Written(r) == req[r].at \in {"index", "runtime"} \/ Answered(r, "registered")

Registration(r) ==
  /\ req[r].at \in ComponentPoints => req[r] \in ComponentLocals
  /\ req[r].at \in {"idle", "get", "put", "update"} => \A c \in Components : stored[c].by # r
  /\ Written(r) => /\ req[r].c \in Components /\ req[r].d \in Defs
                   /\ stored[req[r].c].by = r => stored[req[r].c].def = req[r].d
  /\ req[r].at = "runtime" \/ Answered(r, "registered") => sql \/ req[r].c \in index
  /\ Answered(r, "registered") => IsRegistered(req[r].c, req[r].d)

ComponentsInv ==
  /\ reg \in Registry
  /\ boots \in Nat
  /\ stored \in [Components -> Record]
  /\ index \subseteq Components
  /\ \A r \in Requests : Registration(r)

\* Two requests are in one document only if that was noted.
Within(r, d) == InFlight(r) /\ "doc" \in DOMAIN req[r] /\ req[r].doc = d

RacedInv ==
  /\ ideal \in [Kinds -> [Docs -> Seq(Requests)]]
  /\ \A f \in Kinds, k \in Docs : \A r, s \in Requests :
       r # s /\ Within(r, <<f, k>>) /\ Within(s, <<f, k>>) => r \in raced

\* Partial blueprints.  One without a lock has no edits; what it holds and what
\* an edit under way has read keep every edit made alone.
Text == [edits : Seq(Requests), refs : SUBSET Components, complete : BOOLEAN, none : BOOLEAN]
PartialLocals ==
  [at : {"editlock", "edit"}, doc : {"partial"} \X Docs,
   edit : [op : {"add", "remove", "update", "suggest", "commit"}, c : Components],
   p : Text, lock : Text]
    \cup [at : {"finallock", "final", "cleanup"}, doc : {"partial"} \X Docs, p : Text, lock : Text]

PartialInv ==
  /\ partial \in [Docs -> [json : Text, lock : Text]]
  /\ \A k \in Docs :
       /\ partial[k].lock.none => ideal["partial"][k] = <<>>
       /\ ~partial[k].json.none => Keeps(partial[k].json.edits, ideal["partial"][k], raced)
  /\ \A r \in Requests :
       /\ req[r].at \in PartialPoints => req[r] \in PartialLocals
       /\ req[r].at \in {"editlock", "edit"} =>
            LET k == req[r].doc[2]
            IN  /\ ~req[r].p.none
                /\ Keeps(req[r].p.edits, ideal["partial"][k], raced)
                /\ req[r].at = "edit" => ~partial[k].lock.none
       /\ req[r].at = "session" => partial[req[r].doc[2]].lock.none

\* Design sessions, chats and canvas drafts: what is there, and what was read
\* and is about to be written back, keep every edit made alone.
SessionInv ==
  /\ session \in [Docs -> Seq(Requests) \cup {NoList}]
  /\ \A k \in Docs :
       /\ session[k] = NoList => ideal["session"][k] = <<>>
       /\ session[k] # NoList => Keeps(session[k], ideal["session"][k], raced)
  /\ \A r \in Requests :
       /\ req[r].at \in SessionPoints =>
            /\ req[r] \in [at : {"session"}, doc : {"session"} \X Docs]
                 \cup [at : {"track"}, doc : {"session"} \X Docs, list : Seq(Requests)]
            /\ session[req[r].doc[2]] # NoList
       /\ req[r].at = "track" => Keeps(req[r].list, ideal["session"][req[r].doc[2]], raced)

ChatInv ==
  /\ chat \in [Docs -> Seq(Requests)]
  /\ \A k \in Docs : Keeps(chat[k], ideal["chat"][k], raced)
  /\ \A r \in Requests :
       /\ req[r].at \in ChatPoints =>
            req[r] \in [at : {"chatread"}, doc : {"chat"} \X Docs]
              \cup [at : {"answering"}, doc : {"chat"} \X Docs, list : Seq(Requests)]
       /\ req[r].at = "answering" => Keeps(req[r].list, ideal["chat"][req[r].doc[2]], raced)

CanvasInv ==
  /\ canvas \in [Docs -> Seq(Requests) \cup {NoList}]
  /\ \A k \in Docs :
       /\ canvas[k] = NoList => ideal["canvas"][k] = <<>>
       /\ canvas[k] # NoList => Keeps(canvas[k], ideal["canvas"][k], raced)
  /\ \A r \in Requests :
       /\ req[r].at \in CanvasPoints =>
            /\ req[r] \in [at : {"opencanvas"}, doc : {"canvas"} \X Docs]
                 \cup [at : {"canvas"}, doc : {"canvas"} \X Docs, list : Seq(Requests)]
            /\ ~memory
       /\ req[r].at = "canvas" =>
            /\ canvas[req[r].doc[2]] # NoList
            /\ Keeps(req[r].list, ideal["canvas"][req[r].doc[2]], raced)
       /\ req[r].at = "opencanvas" => Keeps(<<>>, ideal["canvas"][req[r].doc[2]], raced)

\* The Studio's tables.  A transaction about to insert a row inserts its parent
\* too, or the parent is there; it updates a row that is there.
Transactions ==
  [at : {"commit"}, doc : Tables \X Docs, parent : Docs \cup {NoLock},
   sets : SUBSET {"name", "catalog"}, insert : SUBSET Tables]

RowsInv ==
  /\ rows \in [Tables -> [Docs -> Row]]
  /\ \A k \in Docs, f \in {"project", "mount"} :
       HasRow(f, k) => /\ rows[f][k].parent \in Docs
                       /\ HasRow(ParentTable(f), rows[f][k].parent)
  /\ \A r \in Requests :
       /\ req[r].at = "studio" => req[r] \in StudioOps
       /\ req[r].at = "commit" =>
            /\ req[r] \in Transactions
            /\ req[r].doc[1] \in req[r].insert \/ HasRow(req[r].doc[1], req[r].doc[2])
            /\ \A f \in req[r].insert \cap {"project", "mount"} :
                 /\ req[r].parent \in Docs
                 /\ \/ HasRow(ParentTable(f), req[r].parent)
                    \/ ParentTable(f) \in req[r].insert /\ req[r].parent = req[r].doc[2]

\* A token is there once its request was answered; who was told of its end finds
\* it ended.
TokensInv ==
  /\ tokens \in [Requests -> {"none", "live", "revoked", "deleted"}]
  /\ \A r \in Requests :
       /\ tokens[r] # "none" => req[r].at = "done"
       /\ req[r].at = "endtoken" =>
            /\ req[r] \in [at : {"endtoken"}, op : {"revoke", "delete"}, token : Requests]
            /\ tokens[req[r].token] # "none"
       /\ Answered(r, "delete") => req[r].token \in Requests /\ tokens[req[r].token] = "deleted"
       /\ Answered(r, "revoke") => /\ req[r].token \in Requests
                                   /\ tokens[req[r].token] \in {"revoked", "deleted"}

AssetsInv ==
  /\ \A a \in assets : DOMAIN a = {"user", "text", "created"}
  /\ \A a, b \in assets : a.text = b.text => a = b

DocumentsInv == RacedInv /\ PartialInv /\ SessionInv /\ ChatInv /\ CanvasInv
StudioInv == RowsInv /\ TokensInv /\ AssetsInv
IInv == RequestsInv /\ ComponentsInv /\ DocumentsInv /\ StudioInv


(***************************************************************************)
(* What every step of a request does to the requests, and what leaves the  *)
(* invariant of an area alone.                                             *)
(***************************************************************************)

\* The request goes on within an area, or is answered with one of these of the
\* remembered answers, or another one.
Turn(r, points, codes) ==
  /\ req[r].at \in points \cup {"idle"}
  /\ DOMAIN req' = Requests
  /\ \A s \in Requests \ {r} : req'[s] = req[s]
  /\ "at" \in DOMAIN req'[r]
  /\ req'[r].at \in points \cup {"done"}
  /\ req'[r].at = "done" => req'[r].code \notin Remembered \ codes

\* Nobody arrives at these awaits.
Left(points) == \A s \in Requests : req'[s] = req[s] \/ req'[s].at \notin points
\* Nobody is given one of these answers.
Unanswered(codes) ==
  \A s \in Requests :
    req'[s] = req[s] \/ (req'[s].at = "done" => req'[s].code \notin codes)

LEMMA GotoTurn ==
  ASSUME NEW r \in Requests, NEW x, NEW points, NEW codes, RequestsInv,
         req[r].at \in points \cup {"idle"}, Goto(r, x),
         "at" \in DOMAIN x, x.at \in points \cup {"done"},
         x.at = "done" => x.code \notin Remembered \ codes
  PROVE  Turn(r, points, codes) /\ req'[r] = x
BY DEF RequestsInv, Goto, Turn

LEMMA AnswerTurn ==
  ASSUME NEW r \in Requests, NEW code, NEW points, NEW codes, RequestsInv,
         req[r].at \in points \cup {"idle"}, Answer(r, code), code \notin Remembered \ codes
  PROVE  Turn(r, points, codes) /\ req'[r] = [at |-> "done", code |-> code]
BY DEF RequestsInv, Answer, Turn

LEMMA GotoIs ==
  ASSUME NEW r \in Requests, NEW x, RequestsInv, Goto(r, x)
  PROVE  req'[r] = x
BY DEF RequestsInv, Goto

LEMMA AnswerIs ==
  ASSUME NEW r \in Requests, NEW code, RequestsInv, Answer(r, code)
  PROVE  req'[r] = [at |-> "done", code |-> code]
BY DEF RequestsInv, Answer

LEMMA AdvanceTurn ==
  ASSUME NEW r \in Requests, NEW label, NEW points, RequestsInv, req[r].at \in points \cup {"idle"},
         label \in points \ {"done"}, Goto(r, [req[r] EXCEPT !.at = label])
  PROVE  Turn(r, points, {})
<1> DEFINE x == [req[r] EXCEPT !.at = label]
<1>1. x.at = label /\ "at" \in DOMAIN x /\ Goto(r, x)
  BY DEF RequestsInv
<1> HIDE DEF x
<1> QED BY <1>1, GotoTurn

LEMMA TurnRequests ==
  ASSUME NEW r \in Requests, NEW points, NEW codes, RequestsInv, Turn(r, points, codes), area' = area
  PROVE  RequestsInv'
BY DEF RequestsInv, Turn

\* A request that is answered or lost stays so.
LEMMA TurnKeepsDone ==
  ASSUME NEW r \in Requests, NEW points, NEW codes, Turn(r, points, codes), "done" \notin points
  PROVE  \A s \in Requests : req[s].at = "done" => req'[s] = req[s]
BY DEF Turn

LEMMA ComponentsFrame ==
  ASSUME ComponentsInv, Left(ComponentPoints \cup {"idle"}), Unanswered({"registered"}),
         UNCHANGED componentVars
  PROVE  ComponentsInv'
<1>1. /\ reg' = reg /\ boots' = boots /\ stored' = stored /\ index' = index /\ sql' = sql
  BY DEF componentVars
<1>2. ASSUME NEW s \in Requests, req'[s] # req[s]
      PROVE  /\ req'[s].at \notin ComponentPoints \cup {"idle"}
             /\ ~(req'[s].at = "done" /\ req'[s].code = "registered")
  BY <1>2 DEF Left, Unanswered
<1> QED BY <1>1, <1>2 DEF ComponentsInv, Registration, ComponentPoints, Written, Answered

(***************************************************************************)
(* What a list of edits keeps.                                             *)
(***************************************************************************)

LEMMA KeepsNothing == \A list, others : Keeps(list, <<>>, others)
BY DEF Keeps

\* Fewer requests are asked about.
LEMMA KeepsFewer ==
  ASSUME NEW list, NEW acknowledged, NEW others, NEW more, others \subseteq more,
         Keeps(list, acknowledged, others)
  PROVE  Keeps(list, acknowledged, more)
BY DEF Keeps

\* The edit of one of the others is acknowledged.
LEMMA KeepsOthers ==
  ASSUME NEW list, NEW acknowledged \in Seq(Requests), NEW others, NEW s \in others, s \in Requests,
         Keeps(list, acknowledged, others)
  PROVE  Keeps(list, Append(acknowledged, s), others)
<1> DEFINE n == Len(acknowledged)
           A == Append(acknowledged, s)
<1>1. /\ n \in Nat /\ Len(A) = n + 1 /\ A[n + 1] = s /\ \A i \in 1..n : A[i] = acknowledged[i]
  OBVIOUS
<1> HIDE DEF A
<1>2. \A i \in 1..(n + 1) : A[i] \notin others => i \in 1..n
  BY <1>1
<1>3. Keeps(list, A, others)
  BY <1>1, <1>2 DEF Keeps
<1> QED BY <1>3 DEF A

\* A list is written back with an edit, which is acknowledged.
LEMMA KeepsAppended ==
  ASSUME NEW list \in Seq(Requests), NEW acknowledged \in Seq(Requests), NEW others,
         NEW r \in Requests, Keeps(list, acknowledged, others)
  PROVE  Keeps(Append(list, r), Append(acknowledged, r), others)
<1> DEFINE n == Len(acknowledged)
           m == Len(list)
           A == Append(acknowledged, r)
           L == Append(list, r)
<1>1. /\ n \in Nat /\ Len(A) = n + 1 /\ A[n + 1] = r /\ \A i \in 1..n : A[i] = acknowledged[i]
      /\ m \in Nat /\ Len(L) = m + 1 /\ L[m + 1] = r /\ \A i \in 1..m : L[i] = list[i]
  OBVIOUS
<1> HIDE DEF A, L
<1>2. ASSUME NEW i \in 1..(n + 1), NEW j \in 1..(n + 1), i <= j, A[i] \notin others, A[j] \notin others
      PROVE  \E x, y \in 1..(m + 1) : x <= y /\ L[x] = A[i] /\ L[y] = A[j]
  <2>1. CASE i = n + 1
    <3>1. j = n + 1 /\ m + 1 \in 1..(m + 1) /\ L[m + 1] = A[i] /\ L[m + 1] = A[j] /\ m + 1 <= m + 1
      BY <1>1, <1>2, <2>1
    <3> QED BY <3>1
  <2>2. CASE i \in 1..n /\ j = n + 1
    <3>1. PICK x \in 1..m : list[x] = acknowledged[i]
      <4>1. i <= i /\ acknowledged[i] \notin others
        BY <1>1, <1>2, <2>2
      <4> QED BY <2>2, <4>1 DEF Keeps
    <3>2. x \in 1..(m + 1) /\ m + 1 \in 1..(m + 1) /\ x <= m + 1 /\ L[x] = A[i] /\ L[m + 1] = A[j]
      BY <1>1, <2>2, <3>1
    <3> QED BY <3>2
  <2>3. CASE i \in 1..n /\ j \in 1..n
    <3>1. PICK x \in 1..m, y \in 1..m : x <= y /\ list[x] = acknowledged[i] /\ list[y] = acknowledged[j]
      <4>1. acknowledged[i] \notin others /\ acknowledged[j] \notin others
        BY <1>1, <1>2, <2>3
      <4> QED BY <1>2, <2>3, <4>1 DEF Keeps
    <3>2. x \in 1..(m + 1) /\ y \in 1..(m + 1) /\ L[x] = A[i] /\ L[y] = A[j]
      BY <1>1, <2>3, <3>1
    <3> QED BY <3>1, <3>2
  <2>4. i = n + 1 \/ (i \in 1..n /\ j = n + 1) \/ (i \in 1..n /\ j \in 1..n)
    <3>1. n \in Nat /\ i \in 1..(n + 1) /\ j \in 1..(n + 1)
      BY <1>1, <1>2
    <3> HIDE DEF n
    <3> QED BY <3>1
  <2> QED BY <2>1, <2>2, <2>3, <2>4
<1>3. Keeps(L, A, others)
  BY <1>1, <1>2 DEF Keeps
<1> QED BY <1>3 DEF A, L

LEMMA RacedGrows ==
  ASSUME raced \subseteq raced'
  PROVE  \A list, acknowledged : Keeps(list, acknowledged, raced) => Keeps(list, acknowledged, raced')
BY KeepsFewer

LEMMA PartialFrame ==
  ASSUME PartialInv, Left(PartialPoints \cup {"session"}), partial' = partial,
         ideal'["partial"] = ideal["partial"], raced \subseteq raced'
  PROVE  PartialInv'
<1>1. ASSUME NEW s \in Requests, req'[s] # req[s]
      PROVE  req'[s].at \notin PartialPoints \cup {"session"}
  BY <1>1 DEF Left
<1> QED BY <1>1, RacedGrows DEF PartialInv, PartialPoints

LEMMA SessionFrame ==
  ASSUME SessionInv, Left(SessionPoints), session' = session,
         ideal'["session"] = ideal["session"], raced \subseteq raced'
  PROVE  SessionInv'
<1>1. ASSUME NEW s \in Requests, req'[s] # req[s] PROVE req'[s].at \notin SessionPoints
  BY <1>1 DEF Left
<1> QED BY <1>1, RacedGrows DEF SessionInv, SessionPoints

LEMMA ChatFrame ==
  ASSUME ChatInv, Left(ChatPoints), chat' = chat,
         ideal'["chat"] = ideal["chat"], raced \subseteq raced'
  PROVE  ChatInv'
<1>1. ASSUME NEW s \in Requests, req'[s] # req[s] PROVE req'[s].at \notin ChatPoints
  BY <1>1 DEF Left
<1> QED BY <1>1, RacedGrows DEF ChatInv, ChatPoints

LEMMA CanvasFrame ==
  ASSUME CanvasInv, Left(CanvasPoints), canvas' = canvas, memory' = memory,
         ideal'["canvas"] = ideal["canvas"], raced \subseteq raced'
  PROVE  CanvasInv'
<1>1. ASSUME NEW s \in Requests, req'[s] # req[s] PROVE req'[s].at \notin CanvasPoints
  BY <1>1 DEF Left
<1> QED BY <1>1, RacedGrows DEF CanvasInv, CanvasPoints

LEMMA RowsFrame ==
  ASSUME RowsInv, Left({"studio", "commit"}), rows' = rows
  PROVE  RowsInv'
<1>1. ASSUME NEW s \in Requests, req'[s] # req[s] PROVE req'[s].at \notin {"studio", "commit"}
  BY <1>1 DEF Left
<1>2. \A f, k : HasRow(f, k)' <=> HasRow(f, k)
  BY DEF HasRow
<1> HIDE DEF HasRow
<1>3. \A s \in Requests : req'[s].at = "commit" => req'[s] = req[s]
  BY <1>1
<1> QED BY <1>1, <1>2, <1>3 DEF RowsInv

LEMMA TokensFrame ==
  ASSUME TokensInv, Left({"endtoken"}), Unanswered({"revoke", "delete"}), tokens' = tokens,
         \A s \in Requests : req[s].at = "done" => req'[s] = req[s]
  PROVE  TokensInv'
<1>1. ASSUME NEW s \in Requests, req'[s] # req[s]
      PROVE  /\ req'[s].at # "endtoken" /\ req[s].at # "done"
             /\ req'[s].at = "done" => req'[s].code \notin {"revoke", "delete"}
  BY <1>1 DEF Left, Unanswered
<1> QED BY <1>1 DEF TokensInv, Answered

LEMMA AssetsFrame == AssetsInv /\ assets' = assets => AssetsInv'
BY DEF AssetsInv

\* Whoever is in a document together after a step is noted by that step.
LEMMA RacedStep ==
  ASSUME RequestsInv', raced' = raced \cup RacedNow,
         ideal' \in [Kinds -> [Docs -> Seq(Requests)]]
  PROVE  RacedInv'
<1> SUFFICES ASSUME NEW d, NEW r \in Requests, NEW s \in Requests,
                    Within(r, d)', Within(s, d)', r # s
             PROVE  r \in RacedNow
  BY DEF RacedInv
<1> QED BY DEF RacedNow, Within, InFlight

(***************************************************************************)
(* The registry                                                            *)
(***************************************************************************)

LEMMA MadeImpl ==
  \A c \in Components, d \in Defs \cup {Packaged}, form \in Forms : Made(c, d, form) \in Impl
BY DEF Impl

LEMMA NewRegistryType == NewRegistry \in Registry
BY DEF NewRegistry, Registry, Empty, Factories, Names

\* Whatever a definition registers, the tools registered before keep theirs.
LEMMA RegisteredType ==
  ASSUME NEW g \in Registry, NEW c \in Components, NEW d \in Defs
  PROVE  /\ Registered(g, c, d) \in Registry
         /\ Valid(c, d) /\ g = reg =>
              \A e \in Components : IsTool(e) /\ g.tools[e] # None =>
                Registered(g, c, d).tools[e] = g.tools[e]
<1>1. /\ Made(c, d, "factory") \in Impl \cup {None} /\ Made(c, d, "class") \in Impl \cup {None}
      /\ Made(c, d, "data") \in Impl \cup {None}
  BY MadeImpl DEF Forms
<1>2. CASE TypeOf[c] = "agent"
  <2>1. Registered(g, c, d) = [g EXCEPT !.agentDefs[c] = Made(c, d, "data")]
    BY <1>2 DEF Registered, RegisterAgentData, register_agent_definition
  <2> QED BY <1>1, <2>1 DEF Registry, Factories
<1>3. CASE TypeOf[c] = "workflow"
  <2> DEFINE module == [Empty EXCEPT ![c] = Made(c, d, "data")]
  <2>1. module \in Factories
    BY <1>1 DEF Empty, Factories
  <2> DEFINE names == g.workflows \cup {c}
  <2>2. Registered(g, c, d) = [[g EXCEPT !.dynamic = module] EXCEPT !.workflows = names]
    BY <1>3 DEF Registered, RegisterWorkflowNodes, register_workflow_factory
  <2>3. names \in Names
    BY DEF Registry, Names
  <2> HIDE DEF module, names
  <2> QED BY <2>1, <2>2, <2>3 DEF Registry
<1>4. CASE IsTool(c)
  <2>1. Registered(g, c, d) = RegisterToolCode(g, c, d)
    BY <1>4 DEF Registered, IsTool
  <2>2. ASSUME Valid(c, d), g = reg PROVE g.tools[c] = None
    BY <1>4, <2>2 DEF Valid, ValidTool, has_tool
  <2>3. CASE d.factory = "good"
    <3>1. Registered(g, c, d) =
            IF c \in g.paths THEN g
            ELSE [g EXCEPT !.paths = @ \cup {c}, !.tools[c] = Made(c, d, "factory")]
      BY <2>1, <2>3 DEF RegisterToolCode, register_tool_factory
    <3> DEFINE paths == g.paths \cup {c}
               tools == [g.tools EXCEPT ![c] = Made(c, d, "factory")]
    <3>2. paths \in Names /\ tools \in Factories
      BY <1>1 DEF Registry, Factories, Names
    <3>3. Registered(g, c, d) = IF c \in g.paths THEN g ELSE [g EXCEPT !.paths = paths, !.tools = tools]
      BY <3>1
    <3>4. Registered(g, c, d) \in Registry
      <4> HIDE DEF paths, tools
      <4> QED BY <3>2, <3>3 DEF Registry
    <3> QED BY <2>2, <3>1, <3>4 DEF Registry, Factories
  <2>4. CASE d.factory = "none" /\ d.class = "good"
    <3>1. Registered(g, c, d) = [g EXCEPT !.tools[c] = Made(c, d, "class")]
      BY <2>1, <2>4 DEF RegisterToolCode, register_tool_factory_callable
    <3>2. Registered(g, c, d) \in Registry
      BY <1>1, <3>1 DEF Registry, Factories
    <3> QED BY <2>2, <3>1, <3>2 DEF Registry, Factories
  <2>5. CASE d.factory # "good" /\ ~(d.factory = "none" /\ d.class = "good")
    BY <2>1, <2>5 DEF RegisterToolCode
  <2> QED BY <2>3, <2>4, <2>5
<1>5. CASE TypeOf[c] = "code"
  <2>1. \/ Registered(g, c, d) = g
        \/ Registered(g, c, d) = [g EXCEPT !.code[c] = Made(c, d, "factory")]
    BY <1>5 DEF Registered, RegisterInlineCode, register_code_factory
  <2> QED BY <1>1, <2>1 DEF Registry, Factories
<1> QED BY <1>2, <1>3, <1>4, <1>5, RegistryAssumption DEF IsTool

LEMMA AgentType ==
  ASSUME NEW g \in Registry, NEW c \in Components, NEW d \in Defs
  PROVE  /\ register_agent_definition(g, c, d) \in Registry
         /\ register_agent_definition(g, c, d).tools = g.tools
<1>1. Made(c, d, "data") \in Impl \cup {None}
  BY MadeImpl DEF Forms
<1> QED BY <1>1 DEF register_agent_definition, Registry, Factories

LEMMA ResolveType ==
  ASSUME NEW g \in Registry, NEW c \in Components
  PROVE  Resolve(g, c) \in Registry /\ Resolve(g, c).tools = g.tools
<1>1. CASE TypeOf[c] = "workflow"
  <2>1. Resolved(g, c) \in Impl \cup {None}
    BY <1>1 DEF Resolved, IsTool, WorkflowFactory, Registry, Factories
  <2>2. Resolve(g, c) = [g EXCEPT !.wfCache[c] = Resolved(g, c)]
    BY <1>1 DEF Resolve
  <2> QED BY <2>1, <2>2 DEF Registry, Factories
<1>2. CASE TypeOf[c] = "code"
  <2>1. Resolved(g, c) \in Impl \cup {None}
    BY <1>2 DEF Resolved, IsTool, CodeFactory, Registry, Factories
  <2>2. Resolve(g, c) = [g EXCEPT !.codeCache[c] = Resolved(g, c)]
    BY <1>2 DEF Resolve
  <2> QED BY <2>1, <2>2 DEF Registry, Factories
<1>3. CASE TypeOf[c] \notin {"workflow", "code"}
  BY <1>3 DEF Resolve
<1> QED BY <1>1, <1>2, <1>3

\* A manifest brings the classes it lists and exchanges nothing else.
LEMMA PluginsType ==
  ASSUME NEW g \in Registry
  PROVE  /\ load_plugins(g) \in Registry
         /\ \A e \in Components :
              \/ load_plugins(g).tools[e] = g.tools[e]
              \/ e \in Range(Manifest) /\ load_plugins(g).tools[e] = Made(e, Packaged, "class")
<1> DEFINE entries == Entries(g)
           tools == {c \in entries : IsTool(c)}
           agents == {c \in entries : TypeOf[c] = "agent"}
           next == [c \in Components |-> IF c \in tools THEN Made(c, Packaged, "class") ELSE g.tools[c]]
<1>1. entries \subseteq Components /\ entries \subseteq Range(Manifest)
  BY RegistryAssumption DEF Entries, Range
<1>2. next \in Factories
  BY MadeImpl DEF Registry, Factories, Forms
<1>3. LoadTools(g, tools) = [g EXCEPT !.classes = @ \cup tools, !.tools = next]
  BY DEF LoadTools
<1>4. load_plugins(g) = [LoadTools(g, tools) EXCEPT !.agents = @ \cup agents,
                                                   !.chains = @ \cup (entries \ (tools \cup agents))]
  BY DEF load_plugins
<1>5. tools \subseteq entries /\ agents \subseteq entries
  OBVIOUS
<1>6. \A e \in Components :
        next[e] = g.tools[e] \/ (e \in Range(Manifest) /\ next[e] = Made(e, Packaged, "class"))
  BY <1>1
<1> DEFINE classes == g.classes \cup tools
           imported == g.agents \cup agents
           chains == g.chains \cup (entries \ (tools \cup agents))
<1>7. classes \in Names /\ imported \in Names /\ chains \in Names
  BY <1>1, <1>5 DEF Registry, Names
<1>8. LoadTools(g, tools) = [g EXCEPT !.classes = classes, !.tools = next]
  BY <1>3
<1>9. load_plugins(g) = [LoadTools(g, tools) EXCEPT !.agents = imported, !.chains = chains]
  BY <1>4, <1>8 DEF Registry
<1> HIDE DEF entries, tools, agents, next, classes, imported, chains
<1>10. LoadTools(g, tools) \in Registry /\ LoadTools(g, tools).tools = next
  BY <1>2, <1>7, <1>8 DEF Registry
<1> QED BY <1>6, <1>7, <1>9, <1>10 DEF Registry

LEMMA RehydrateType ==
  ASSUME stored \in [Components -> Record], NEW last \in Components
  PROVE  Rehydrate(last) \in Registry
<1> DEFINE def(c) == stored[c].def
           bound == IF def(last).class = "good" THEN Made(last, def(last), "class") ELSE Broken
           byFactory(c) == IF def(c).factory = "good" THEN Made(c, def(c), "factory") ELSE None
           tools == [c \in Components |->
                       CASE c \in ClassBased -> IF def(c).class = "good" THEN bound ELSE None
                         [] c \in Present("tool") \ ClassBased -> byFactory(c)
                         [] OTHER -> None]
           code == [c \in Components |-> IF c \in Present("code") THEN byFactory(c) ELSE None]
<1>1. \A c \in Components : Made(c, def(c), "class") \in Impl /\ Made(c, def(c), "factory") \in Impl
  BY MadeImpl DEF Record, Forms
<1>2. bound \in Impl /\ \A c \in Components : byFactory(c) \in Impl \cup {None}
  <2>1. Broken \in Impl
    BY DEF Impl
  <2> QED BY <1>1, <2>1
<1>3. Rehydrate(last) = [NewRegistry EXCEPT !.tools = tools, !.code = code]
  BY DEF Rehydrate
<1> HIDE DEF bound, byFactory
<1>4. tools \in Factories /\ code \in Factories
  BY <1>2 DEF Factories
<1> HIDE DEF tools, code
<1> QED BY <1>3, <1>4, NewRegistryType DEF Registry


(***************************************************************************)
(* Components                                                              *)
(***************************************************************************)

\* Whatever a request does, the tools that are registered keep their definition.
ToolsKept ==
  \A e \in Components : IsTool(e) /\ reg.tools[e] # None => reg'.tools[e] = reg.tools[e]

ComponentsStep(r) ==
  /\ ComponentsInv'
  /\ ToolsKept
  /\ Turn(r, ComponentPoints, {"registered"})

\* A request disturbs no other: it writes records under its own name, removes
\* records, and only adds to the index.
LEMMA ComponentsTurn ==
  ASSUME NEW r \in Requests, ComponentsInv, Turn(r, ComponentPoints, {"registered"}),
         reg' \in Registry, ToolsKept, boots' = boots, sql' = sql, index \subseteq index',
         index' \subseteq index \cup Components,
         stored' \in [Components -> Record],
         \A c \in Components : stored'[c] = stored[c] \/ stored'[c].by \in {r, NoLock},
         Registration(r)'
  PROVE  ComponentsStep(r)
<1>1. ASSUME NEW s \in Requests, s # r PROVE Registration(s)'
  <2>1. req'[s] = req[s] /\ Registration(s)
    BY <1>1 DEF Turn, ComponentsInv
  <2>2. \A c \in Components : stored'[c].by = s => stored'[c] = stored[c]
    BY <1>1, RequestsAssumption
  <2> QED BY <2>1, <2>2 DEF Registration, Written, Answered
<1> QED BY <1>1 DEF ComponentsInv, ComponentsStep

\* A request that is answered with anything but a confirmation has no more to
\* promise.
LEMMA ComponentsAnswered ==
  ASSUME NEW r \in Requests, NEW code, RequestsInv, ComponentsInv,
         req[r].at \in ComponentPoints \cup {"idle"}, Answer(r, code), code \notin Remembered,
         reg' \in Registry, ToolsKept, boots' = boots, sql' = sql, index \subseteq index',
         index' \subseteq index \cup Components,
         stored' \in [Components -> Record],
         \A c \in Components : stored'[c] = stored[c] \/ stored'[c].by \in {r, NoLock}
  PROVE  ComponentsStep(r)
<1>1. Turn(r, ComponentPoints, {"registered"}) /\ req'[r] = [at |-> "done", code |-> code]
  BY AnswerTurn
<1>2. Registration(r)'
  BY <1>1 DEF Registration, ComponentPoints, Written, Answered, Remembered
<1> QED BY <1>1, <1>2, ComponentsTurn

LEMMA HereIsComponents == RequestsInv => Here \subseteq Components
BY RequestsAssumption DEF RequestsInv, Here

LEMMA ValidateComponentStep ==
  ASSUME NEW r \in Requests, RequestsInv, ComponentsInv, ValidateComponent(r)
  PROVE  ComponentsStep(r)
<1>1. PICK c \in Here, d \in Defs, auto \in BOOLEAN :
        /\ req[r].at = "idle"
        /\ reg' = IF Valid(c, d) /\ auto THEN Registered(reg, c, d) ELSE reg
        /\ Answer(r, IF Valid(c, d) THEN "valid" ELSE "invalid")
        /\ UNCHANGED <<sql, stored, index, boots>>
  BY Zenon DEF ValidateComponent, At
<1>2. c \in Components /\ reg \in Registry /\ stored \in [Components -> Record]
  BY HereIsComponents DEF ComponentsInv
<1>3. reg' \in Registry /\ ToolsKept
  BY <1>1, <1>2, RegisteredType DEF ToolsKept
<1> DEFINE code == IF Valid(c, d) THEN "valid" ELSE "invalid"
<1>4. code \notin Remembered /\ Answer(r, code)
  BY <1>1 DEF Remembered
<1> HIDE DEF code
<1> QED BY <1>1, <1>2, <1>3, <1>4, ComponentsAnswered

LEMMA RegisterComponentStep ==
  ASSUME NEW r \in Requests, RequestsInv, ComponentsInv, RegisterComponent(r)
  PROVE  ComponentsStep(r)
<1>1. PICK c \in Here, d \in Defs, auto \in BOOLEAN, compose \in BOOLEAN :
        /\ req[r].at = "idle"
        /\ IF Valid(c, d)
           THEN Goto(r, [at |-> "get", c |-> c, d |-> d, auto |-> auto, compose |-> compose])
           ELSE Answer(r, "invalid")
        /\ UNCHANGED componentVars
  BY Zenon DEF RegisterComponent, At
<1>2. c \in Components /\ reg \in Registry /\ stored \in [Components -> Record] /\ Registration(r)
  BY HereIsComponents DEF ComponentsInv
<1>3. /\ reg' = reg /\ boots' = boots /\ sql' = sql /\ index' = index /\ stored' = stored
      /\ ToolsKept
  BY <1>1 DEF componentVars, ToolsKept
<1>4. CASE Valid(c, d)
  <2> DEFINE x == [at |-> "get", c |-> c, d |-> d, auto |-> auto, compose |-> compose]
  <2>1. x \in ComponentLocals /\ x.at = "get" /\ "at" \in DOMAIN x
    BY <1>2 DEF ComponentLocals
  <2>2. Goto(r, x)
    BY <1>1, <1>4
  <2> HIDE DEF x
  <2>3. Turn(r, ComponentPoints, {"registered"}) /\ req'[r] = x
    BY <1>1, <2>1, <2>2, GotoTurn DEF ComponentPoints
  <2>4. Registration(r)'
    BY <1>1, <1>2, <1>3, <2>1, <2>3 DEF Registration, Written, Answered
  <2> QED BY <1>2, <1>3, <2>3, <2>4, ComponentsTurn
<1>5. CASE ~Valid(c, d)
  BY <1>1, <1>2, <1>3, <1>5, ComponentsAnswered DEF Remembered
<1> QED BY <1>4, <1>5

LEMMA ReadVersionStep ==
  ASSUME NEW r \in Requests, RequestsInv, ComponentsInv, ReadVersion(r)
  PROVE  ComponentsStep(r)
<1> DEFINE x == [at |-> "put", c |-> req[r].c, d |-> req[r].d, auto |-> req[r].auto,
                 compose |-> req[r].compose, version |-> stored[req[r].c].version + 1]
<1>1. req[r].at = "get" /\ Goto(r, x)
  BY DEF ReadVersion, At
<1>2. /\ reg' = reg /\ boots' = boots /\ sql' = sql /\ index' = index /\ stored' = stored
      /\ reg \in Registry /\ stored \in [Components -> Record] /\ Registration(r) /\ ToolsKept
  BY DEF ReadVersion, componentVars, ComponentsInv, ToolsKept
<1>3. req[r] \in [at : {"get"}, c : Components, d : Defs, auto : BOOLEAN, compose : BOOLEAN]
  BY <1>1, <1>2 DEF Registration, ComponentPoints, ComponentLocals
<1>4. x \in ComponentLocals /\ x.at = "put" /\ "at" \in DOMAIN x
  BY <1>2, <1>3 DEF ComponentLocals, Record
<1> HIDE DEF x
<1>5. Turn(r, ComponentPoints, {"registered"}) /\ req'[r] = x
  BY <1>1, <1>4, GotoTurn DEF ComponentPoints
<1>6. Registration(r)'
  BY <1>1, <1>2, <1>4, <1>5 DEF Registration, Written, Answered
<1> QED BY <1>2, <1>5, <1>6, ComponentsTurn

\* What a request carries once its version is known.
LEMMA CarriesVersion ==
  ASSUME NEW r \in Requests, ComponentsInv, req[r].at \in {"put", "index", "runtime"}
  PROVE  req[r] \in [at : {"put", "index", "runtime"}, c : Components, d : Defs, auto : BOOLEAN,
                     compose : BOOLEAN, version : Nat]
BY DEF ComponentsInv, Registration, ComponentPoints, ComponentLocals

LEMMA PutRecordStep ==
  ASSUME NEW r \in Requests, RequestsInv, ComponentsInv, PutRecord(r)
  PROVE  ComponentsStep(r)
<1> DEFINE x == [req[r] EXCEPT !.at = "index"]
           record == [version |-> req[r].version, def |-> req[r].d, by |-> r]
<1>1. /\ req[r].at = "put" /\ Goto(r, x)
      /\ stored' = [stored EXCEPT ![req[r].c] = record]
  BY DEF PutRecord, At
<1>2. /\ reg' = reg /\ boots' = boots /\ sql' = sql /\ index' = index
      /\ reg \in Registry /\ stored \in [Components -> Record] /\ ToolsKept
  BY DEF PutRecord, ComponentsInv, ToolsKept
<1>3. req[r] \in [at : {"put", "index", "runtime"}, c : Components, d : Defs, auto : BOOLEAN,
                  compose : BOOLEAN, version : Nat]
  BY <1>1, CarriesVersion
<1>4. /\ x \in ComponentLocals /\ x.at = "index" /\ "at" \in DOMAIN x
      /\ x.c = req[r].c /\ x.d = req[r].d /\ x.c \in Components /\ x.d \in Defs
  BY <1>3 DEF ComponentLocals
<1>5. record \in Record /\ record.by = r /\ record.def = req[r].d
  BY <1>3 DEF Record
<1> HIDE DEF x, record
<1>6. Turn(r, ComponentPoints, {"registered"}) /\ req'[r] = x
  BY <1>1, <1>4, GotoTurn DEF ComponentPoints
<1>7. /\ stored' \in [Components -> Record] /\ stored'[x.c].def = x.d
      /\ \A c \in Components : stored'[c] = stored[c] \/ stored'[c].by \in {r, NoLock}
  BY <1>1, <1>2, <1>4, <1>5
<1>8. Registration(r)'
  BY <1>4, <1>6, <1>7 DEF Registration, Written, Answered
<1> QED BY <1>2, <1>6, <1>7, <1>8, ComponentsTurn

LEMMA SetIndexStep ==
  ASSUME NEW r \in Requests, RequestsInv, ComponentsInv, SetIndex(r)
  PROVE  ComponentsStep(r)
<1> DEFINE x == [req[r] EXCEPT !.at = "runtime"]
<1>1. /\ req[r].at = "index" /\ (IF req[r].auto THEN Goto(r, x) ELSE Answer(r, "stored"))
      /\ index' = IF sql THEN index ELSE index \cup {req[r].c}
  BY DEF SetIndex, At
<1>2. /\ reg' = reg /\ boots' = boots /\ sql' = sql /\ stored' = stored /\ index \subseteq index'
      /\ reg \in Registry /\ stored \in [Components -> Record] /\ ToolsKept /\ Registration(r)
  BY <1>1 DEF SetIndex, ComponentsInv, ToolsKept
<1>3. req[r] \in [at : {"put", "index", "runtime"}, c : Components, d : Defs, auto : BOOLEAN,
                  compose : BOOLEAN, version : Nat]
  BY <1>1, CarriesVersion
<1>4. /\ x \in ComponentLocals /\ x.at = "runtime" /\ "at" \in DOMAIN x
      /\ x.c = req[r].c /\ x.d = req[r].d /\ x.c \in Components /\ x.d \in Defs
  BY <1>3 DEF ComponentLocals
<1>5. index' \subseteq index \cup Components
  BY <1>1, <1>4
<1> HIDE DEF x
<1>6. CASE req[r].auto
  <2>1. Turn(r, ComponentPoints, {"registered"}) /\ req'[r] = x
    BY <1>1, <1>4, <1>6, GotoTurn DEF ComponentPoints
  <2>2. stored[x.c].by = r => stored[x.c].def = x.d
    BY <1>1, <1>2, <1>4 DEF Registration, Written
  <2>3. Registration(r)'
    BY <1>1, <1>2, <1>4, <2>1, <2>2 DEF Registration, Written, Answered
  <2> QED BY <1>2, <1>5, <2>1, <2>3, ComponentsTurn
<1>7. CASE ~req[r].auto
  BY <1>1, <1>2, <1>5, <1>7, ComponentsAnswered DEF Remembered, ComponentPoints
<1> QED BY <1>6, <1>7

LEMMA RegisterRuntimeStep ==
  ASSUME NEW r \in Requests, RequestsInv, ComponentsInv, RegisterRuntime(r)
  PROVE  ComponentsStep(r)
<1> DEFINE c == req[r].c
           d == req[r].d
           x == [at |-> "done", code |-> "registered", c |-> c, d |-> d]
<1>1. /\ req[r].at = "runtime"
      /\ reg' = IF Valid(c, d) THEN Registered(reg, c, d) ELSE reg
      /\ IF Valid(c, d) /\ IsRegistered(c, d) THEN Goto(r, x)
         ELSE Answer(r, IF Valid(c, d) THEN "stored" ELSE "invalid")
  BY DEF RegisterRuntime, At
<1>2. /\ boots' = boots /\ sql' = sql /\ stored' = stored /\ index' = index
      /\ reg \in Registry /\ stored \in [Components -> Record] /\ Registration(r)
  BY DEF RegisterRuntime, ComponentsInv
<1>3. c \in Components /\ d \in Defs
  BY <1>1, CarriesVersion
<1>4. (stored[c].by = r => stored[c].def = d) /\ (sql \/ c \in index)
  BY <1>1, <1>2 DEF Registration, Written
<1>5. x.at = "done" /\ x.code = "registered" /\ x.c = c /\ x.d = d /\ "at" \in DOMAIN x
  OBVIOUS
<1> HIDE DEF c, d, x
<1>6. reg' \in Registry /\ ToolsKept
  BY <1>1, <1>2, <1>3, RegisteredType DEF ToolsKept
<1>7. CASE Valid(c, d) /\ IsRegistered(c, d)
  <2>1. Turn(r, ComponentPoints, {"registered"}) /\ req'[r] = x
    BY <1>1, <1>5, <1>7, GotoTurn DEF ComponentPoints
  <2>2. Registration(r)'
    <3>1. req'[r].at = "done" /\ req'[r].c = c /\ req'[r].d = d
      BY <1>5, <2>1
    <3>2. IsRegistered(req'[r].c, req'[r].d)
      BY <1>7, <3>1
    <3> QED BY <1>2, <1>3, <1>4, <3>1, <3>2 DEF Registration, ComponentPoints, Written, Answered, IsRegistered
  <2> QED BY <1>2, <1>6, <2>1, <2>2, ComponentsTurn
<1>8. CASE ~(Valid(c, d) /\ IsRegistered(c, d))
  <2> DEFINE code == IF Valid(c, d) THEN "stored" ELSE "invalid"
  <2>1. code \notin Remembered /\ Answer(r, code)
    BY <1>1, <1>8 DEF Remembered
  <2> HIDE DEF code
  <2> QED BY <1>1, <1>2, <1>6, <2>1, ComponentsAnswered DEF ComponentPoints
<1> QED BY <1>7, <1>8

LEMMA StoreErrorStep ==
  ASSUME NEW r \in Requests, RequestsInv, ComponentsInv, StoreError(r)
  PROVE  ComponentsStep(r)
<1>1. /\ req[r].at \in {"get", "put", "index"}
      /\ \/ /\ reg' = register_agent_definition(reg, req[r].c, req[r].d)
            /\ Answer(r, "inmemory")
         \/ Answer(r, "error") /\ reg' = reg
  BY DEF StoreError
<1>2. /\ boots' = boots /\ sql' = sql /\ stored' = stored /\ index' = index
      /\ reg \in Registry /\ stored \in [Components -> Record]
  BY DEF StoreError, ComponentsInv
<1>3. req[r].c \in Components /\ req[r].d \in Defs
  BY <1>1 DEF ComponentsInv, Registration, ComponentPoints, ComponentLocals
<1>4. reg' \in Registry /\ ToolsKept
  BY <1>1, <1>2, <1>3, AgentType DEF ToolsKept
<1>5. PICK code \in {"inmemory", "error"} : Answer(r, code)
  BY <1>1
<1> QED BY <1>1, <1>2, <1>4, <1>5, ComponentsAnswered DEF Remembered, ComponentPoints

LEMMA UpdateComponentStep ==
  ASSUME NEW r \in Requests, RequestsInv, ComponentsInv, UpdateComponent(r)
  PROVE  ComponentsStep(r)
<1>1. PICK c \in Here, d \in Defs, lock \in {"none", "current", "stale"} :
        /\ req[r].at = "idle"
        /\ IF sql \/ Absent(c) THEN Answer(r, "404")
           ELSE IF lock = "none" THEN Answer(r, "428")
           ELSE IF lock = "stale" THEN Answer(r, "409")
           ELSE Goto(r, [at |-> "update", c |-> c, d |-> d])
        /\ UNCHANGED componentVars
  BY Zenon DEF UpdateComponent, At
<1> DEFINE x == [at |-> "update", c |-> c, d |-> d]
<1>2. c \in Components /\ reg \in Registry /\ stored \in [Components -> Record] /\ Registration(r)
  BY HereIsComponents DEF ComponentsInv
<1>3. /\ reg' = reg /\ boots' = boots /\ sql' = sql /\ index' = index /\ stored' = stored
      /\ ToolsKept
  BY <1>1 DEF componentVars, ToolsKept
<1>4. x \in ComponentLocals /\ x.at = "update" /\ "at" \in DOMAIN x
  BY <1>2 DEF ComponentLocals
<1>5. (\E code \in {"404", "428", "409"} : Answer(r, code)) \/ Goto(r, x)
  BY <1>1
<1> HIDE DEF x
<1>6. ASSUME Goto(r, x) PROVE ComponentsStep(r)
  <2>1. Turn(r, ComponentPoints, {"registered"}) /\ req'[r] = x
    BY <1>1, <1>4, <1>6, GotoTurn DEF ComponentPoints
  <2>2. Registration(r)'
    BY <1>1, <1>2, <1>3, <1>4, <2>1 DEF Registration, Written, Answered
  <2> QED BY <1>2, <1>3, <2>1, <2>2, ComponentsTurn
<1>7. ASSUME NEW code \in {"404", "428", "409"}, Answer(r, code) PROVE ComponentsStep(r)
  BY <1>1, <1>2, <1>3, <1>7, ComponentsAnswered DEF Remembered
<1> QED BY <1>5, <1>6, <1>7

LEMMA WriteUpdateStep ==
  ASSUME NEW r \in Requests, RequestsInv, ComponentsInv, WriteUpdate(r)
  PROVE  ComponentsStep(r)
<1> DEFINE record == [version |-> 1, def |-> req[r].d, by |-> r]
<1>1. /\ req[r].at = "update" /\ Answer(r, "updated")
      /\ stored' = [stored EXCEPT ![req[r].c] = record]
  BY DEF WriteUpdate, At
<1>2. /\ reg' = reg /\ boots' = boots /\ sql' = sql /\ index' = index
      /\ reg \in Registry /\ stored \in [Components -> Record] /\ ToolsKept
  BY DEF WriteUpdate, ComponentsInv, ToolsKept
<1>3. req[r].c \in Components /\ req[r].d \in Defs
  BY <1>1 DEF ComponentsInv, Registration, ComponentPoints, ComponentLocals
<1>4. record \in Record /\ record.by = r
  BY <1>3 DEF Record
<1> HIDE DEF record
<1>5. /\ stored' \in [Components -> Record]
      /\ \A c \in Components : stored'[c] = stored[c] \/ stored'[c].by \in {r, NoLock}
  BY <1>1, <1>2, <1>3, <1>4
<1> QED BY <1>1, <1>2, <1>5, ComponentsAnswered DEF Remembered, ComponentPoints

LEMMA DeleteComponentStep ==
  ASSUME NEW r \in Requests, RequestsInv, ComponentsInv, DeleteComponent(r)
  PROVE  ComponentsStep(r)
<1>1. PICK c \in Here :
        /\ req[r].at = "idle" /\ Answer(r, "204")
        /\ stored' = IF sql THEN stored ELSE [stored EXCEPT ![c] = NoRecord]
        /\ UNCHANGED <<reg, sql, index, boots>>
  BY Zenon DEF DeleteComponent, At
<1>2. c \in Components /\ reg \in Registry /\ stored \in [Components -> Record]
  BY HereIsComponents DEF ComponentsInv
<1>3. NoRecord \in Record /\ NoRecord.by = NoLock
  BY DEF NoRecord, Record
<1>4. /\ stored' \in [Components -> Record]
      /\ \A e \in Components : stored'[e] = stored[e] \/ stored'[e].by \in {r, NoLock}
  BY <1>1, <1>2, <1>3
<1>5. ToolsKept
  BY <1>1 DEF ToolsKept
<1> QED BY <1>1, <1>2, <1>4, <1>5, ComponentsAnswered DEF Remembered

LEMMA GetComponentStep ==
  ASSUME NEW r \in Requests, RequestsInv, ComponentsInv, GetComponent(r)
  PROVE  ComponentsStep(r)
<1>1. PICK c \in Here :
        /\ req[r].at = "idle" /\ Answer(r, IF Absent(c) THEN "404" ELSE "200")
        /\ UNCHANGED componentVars
  BY Zenon DEF GetComponent, At
<1>2. /\ reg' = reg /\ boots' = boots /\ sql' = sql /\ index' = index /\ stored' = stored
      /\ reg \in Registry /\ stored \in [Components -> Record] /\ ToolsKept
  BY <1>1 DEF componentVars, ComponentsInv, ToolsKept
<1> DEFINE code == IF Absent(c) THEN "404" ELSE "200"
<1>3. code \notin Remembered /\ Answer(r, code)
  BY <1>1 DEF Remembered
<1> HIDE DEF code
<1> QED BY <1>1, <1>2, <1>3, ComponentsAnswered

LEMMA UseComponentStep ==
  ASSUME NEW r \in Requests, RequestsInv, ComponentsInv, UseComponent(r)
  PROVE  ComponentsStep(r)
<1>1. PICK c \in Here :
        /\ req[r].at = "idle" /\ reg' = Resolve(reg, c) /\ Answer(r, "used")
        /\ UNCHANGED <<sql, stored, index, boots>>
  BY Zenon DEF UseComponent, At
<1>2. c \in Components /\ reg \in Registry /\ stored \in [Components -> Record]
  BY HereIsComponents DEF ComponentsInv
<1>3. reg' \in Registry /\ ToolsKept
  BY <1>1, <1>2, ResolveType DEF ToolsKept
<1> QED BY <1>1, <1>2, <1>3, ComponentsAnswered DEF Remembered

LEMMA ComponentsKept ==
  ASSUME NEW r \in Requests, RequestsInv, ComponentsInv,
         ComponentsBegin(r) \/ ComponentsContinue(r)
  PROVE  ComponentsStep(r)
BY ValidateComponentStep, RegisterComponentStep, UpdateComponentStep, DeleteComponentStep,
   GetComponentStep, UseComponentStep, ReadVersionStep, PutRecordStep, SetIndexStep,
   RegisterRuntimeStep, StoreErrorStep, WriteUpdateStep
   DEF ComponentsBegin, ComponentsContinue

\* The end of the process: requests under way are lost, answers stay.
LEMMA AbortLoses ==
  ASSUME RequestsInv, Abort, area' = area
  PROVE  /\ RequestsInv'
         /\ \A s \in Requests : req'[s] = req[s] \/ (InFlight(s) /\ req'[s] = [at |-> "lost"])
         /\ \A s \in Requests : req'[s].at \in {"idle", "done", "lost"}
BY DEF RequestsInv, Abort, InFlight

LEMMA RestartKept ==
  ASSUME RequestsInv, ComponentsInv, Restart, area' = area
  PROVE  ComponentsInv' /\ boots' # boots
<1>1. PICK last \in Lasts : reg' = Rehydrate(last)
  BY DEF Restart
<1>2. /\ boots' = boots + 1 /\ Abort /\ sql' = sql /\ stored' = stored /\ index' = index
      /\ boots \in Nat /\ stored \in [Components -> Record] /\ \A s \in Requests : Registration(s)
      /\ index \subseteq Components
  BY DEF Restart, ComponentsInv
<1>3. last \in Components
  BY <1>2 DEF Lasts, ClassBased, Present, Indexed
<1>4. reg' \in Registry
  BY <1>1, <1>2, <1>3, RehydrateType
<1>5. ASSUME NEW s \in Requests PROVE Registration(s)'
  <2>1. Registration(s) /\ (req'[s] = req[s] \/ req'[s] = [at |-> "lost"])
    BY <1>2, AbortLoses
  <2> QED BY <1>2, <2>1 DEF Registration, ComponentPoints, Written, Answered
<1> QED BY <1>2, <1>4, <1>5 DEF ComponentsInv

LEMMA LoadPluginsKept ==
  ASSUME ComponentsInv, LoadPlugins
  PROVE  /\ ComponentsInv'
         /\ \A e \in Components :
              \/ reg'.tools[e] = reg.tools[e]
              \/ e \in Range(Manifest) /\ reg'.tools[e] = Made(e, Packaged, "class")
<1>1. reg' = load_plugins(reg) /\ UNCHANGED <<req, sql, stored, index, boots>> /\ reg \in Registry
  BY DEF LoadPlugins, ComponentsInv
<1>2. /\ reg' \in Registry
      /\ \A e \in Components :
           \/ reg'.tools[e] = reg.tools[e]
           \/ e \in Range(Manifest) /\ reg'.tools[e] = Made(e, Packaged, "class")
  BY <1>1, PluginsType
<1> QED BY <1>1, <1>2 DEF ComponentsInv, Registration, Written, Answered


(***************************************************************************)
(* Documents                                                               *)
(***************************************************************************)

Edited == [Kinds -> [Docs -> Seq(Requests)]]

\* A step of a request to the documents of one kind, as the others see it.
Shape(r, points, f) ==
  /\ Turn(r, points, {})
  /\ ideal' \in Edited
  /\ \A g \in Kinds \ {f} : ideal'[g] = ideal[g]

LEMMA IdealWritten ==
  ASSUME ideal \in Edited, NEW f \in Kinds, NEW k \in Docs, NEW list \in Seq(Requests),
         ideal' = [ideal EXCEPT ![f][k] = list]
  PROVE  /\ ideal' \in Edited
         /\ ideal'[f][k] = list
         /\ \A j \in Docs \ {k} : ideal'[f][j] = ideal[f][j]
         /\ \A g \in Kinds \ {f} : ideal'[g] = ideal[g]
BY DEF Edited

LEMMA KeptAppends ==
  ASSUME ideal \in Edited, NEW f \in Kinds, NEW k \in Docs, NEW r \in Requests, Kept(f, k, r)
  PROVE  /\ ideal' \in Edited
         /\ ideal'[f][k] = Append(ideal[f][k], r)
         /\ \A j \in Docs \ {k} : ideal'[f][j] = ideal[f][j]
         /\ \A g \in Kinds \ {f} : ideal'[g] = ideal[g]
<1> DEFINE new == Append(ideal[f][k], r)
<1>1. new \in Seq(Requests)
  BY DEF Edited
<1>2. ideal' = [ideal EXCEPT ![f][k] = new]
  BY DEF Kept
<1> HIDE DEF new
<1>3. /\ ideal' \in Edited
      /\ ideal'[f][k] = new
      /\ \A j \in Docs \ {k} : ideal'[f][j] = ideal[f][j]
      /\ \A g \in Kinds \ {f} : ideal'[g] = ideal[g]
  BY <1>1, <1>2, IdealWritten
<1> QED BY <1>3 DEF new

\* What a step of a request may do to the acknowledged edits of a kind of
\* documents: add its own to a document it is in, or start one over.
Moves(f, r) ==
  \A j \in Docs :
    \/ ideal'[f][j] = ideal[f][j] \/ ideal'[f][j] = <<>>
    \/ Within(r, <<f, j>>) /\ ideal'[f][j] = Append(ideal[f][j], r)

\* What another request in the document has read still keeps what it should: if
\* this request's edit was acknowledged, the two of them raced.
LEMMA OthersKeep ==
  ASSUME RacedInv, raced \subseteq raced', NEW r \in Requests, NEW s \in Requests \ {r},
         NEW f \in Kinds, NEW j \in Docs, Within(s, <<f, j>>), Moves(f, r),
         NEW list, Keeps(list, ideal[f][j], raced)
  PROVE  Keeps(list, ideal'[f][j], raced')
<1>1. Keeps(list, ideal[f][j], raced')
  BY RacedGrows
<1>2. CASE ideal'[f][j] = ideal[f][j]
  BY <1>1, <1>2
<1>3. CASE ideal'[f][j] = <<>>
  BY <1>3, KeepsNothing
<1>4. CASE Within(r, <<f, j>>) /\ ideal'[f][j] = Append(ideal[f][j], r)
  <2>1. r \in raced'
    BY <1>4 DEF RacedInv
  <2>2. ideal[f][j] \in Seq(Requests)
    BY DEF RacedInv
  <2> QED BY <1>1, <1>4, <2>1, <2>2, KeepsOthers
<1> QED BY <1>2, <1>3, <1>4 DEF Moves

\* A request that acknowledges its own edit only.
LEMMA AppendMoves ==
  ASSUME NEW r \in Requests, NEW f \in Kinds, NEW k \in Docs, Within(r, <<f, k>>),
         ideal'[f][k] = Append(ideal[f][k], r),
         \A j \in Docs \ {k} : ideal'[f][j] = ideal[f][j]
  PROVE  Moves(f, r)
BY DEF Moves

LEMMA StillMoves == \A f, r : ideal'[f] = ideal[f] => Moves(f, r)
BY DEF Moves

\* Where the chats' requests are.
LEMMA ChatPlace ==
  ASSUME ChatInv, NEW r \in Requests, req[r].at \in ChatPoints
  PROVE  /\ req[r].doc[2] \in Docs /\ req[r].doc = <<"chat", req[r].doc[2]>>
         /\ Within(r, <<"chat", req[r].doc[2]>>)
         /\ req[r].at = "answering" => req[r].list \in Seq(Requests)
<1>1. CASE req[r] \in [at : {"chatread"}, doc : {"chat"} \X Docs]
  BY <1>1 DEF Within, InFlight
<1>2. CASE req[r] \in [at : {"answering"}, doc : {"chat"} \X Docs, list : Seq(Requests)]
  BY <1>2 DEF Within, InFlight
<1> QED BY <1>1, <1>2 DEF ChatInv, ChatPoints

ChatStep(r) == ResetChat(r) \/ BeginChat(r) \/ ReadChat(r) \/ FailChat(r) \/ WriteChat(r)

LEMMA ChatShape ==
  ASSUME NEW r \in Requests, RequestsInv, ideal \in Edited, ChatInv, ChatStep(r)
  PROVE  Shape(r, ChatPoints, "chat") /\ UNCHANGED <<partial, session, canvas, memory, componentVars>>
<1>1. CASE ResetChat(r)
  <2>1. PICK k \in Docs :
          /\ req[r].at = "idle" /\ ideal' = [ideal EXCEPT !["chat"][k] = <<>>]
          /\ Goto(r, [at |-> "chatread", doc |-> <<"chat", k>>])
          /\ UNCHANGED <<componentVars, partial, session, memory, canvas>>
    BY <1>1, Zenon DEF ResetChat, At
  <2>2. Turn(r, ChatPoints, {})
    BY <2>1, GotoTurn DEF ChatPoints
  <2>3. "chat" \in Kinds /\ <<>> \in Seq(Requests)
    BY DEF Kinds
  <2> QED BY <2>1, <2>2, <2>3, IdealWritten DEF Shape
<1>2. CASE BeginChat(r)
  <2>1. PICK k \in Docs :
          /\ req[r].at = "idle" /\ Goto(r, [at |-> "chatread", doc |-> <<"chat", k>>])
          /\ UNCHANGED <<componentVars, documentVars>>
    BY <1>2, Zenon DEF BeginChat, At
  <2>2. Turn(r, ChatPoints, {})
    BY <2>1, GotoTurn DEF ChatPoints
  <2> QED BY <2>1, <2>2 DEF Shape, documentVars
<1>3. CASE ReadChat(r)
  <2>1. Turn(r, ChatPoints, {})
    BY <1>3, GotoTurn DEF ChatPoints, ReadChat, At
  <2> QED BY <1>3, <2>1 DEF Shape, documentVars, ReadChat
<1>4. CASE FailChat(r)
  <2>1. Turn(r, ChatPoints, {})
    BY <1>4, AnswerTurn DEF ChatPoints, FailChat, At, Remembered
  <2> QED BY <1>4, <2>1 DEF Shape, documentVars, FailChat
<1>5. CASE WriteChat(r)
  <2>1. Turn(r, ChatPoints, {})
    BY <1>5, AnswerTurn DEF ChatPoints, WriteChat, At, Remembered
  <2>2. Kept("chat", req[r].doc[2], r) /\ req[r].at = "answering"
    BY <1>5 DEF WriteChat, At
  <2>3. req[r].doc[2] \in Docs /\ "chat" \in Kinds
    BY <2>2, ChatPlace DEF ChatPoints, Kinds
  <2> QED BY <1>5, <2>1, <2>2, <2>3, KeptAppends DEF Shape, WriteChat
<1> QED BY <1>1, <1>2, <1>3, <1>4, <1>5 DEF ChatStep

ChatLocals(x) ==
  x \in [at : {"chatread"}, doc : {"chat"} \X Docs]
    \cup [at : {"answering"}, doc : {"chat"} \X Docs, list : Seq(Requests)]

\* What is known of a request that is in a chat.
ChatKnown(x) ==
  /\ x.at \in ChatPoints => ChatLocals(x)
  /\ x.at = "answering" => Keeps(x.list, ideal'["chat"][x.doc[2]], raced')

LEMMA ChatKept ==
  ASSUME NEW r \in Requests, RequestsInv, RacedInv, ChatInv, ChatStep(r), raced \subseteq raced'
  PROVE  ChatInv'
<1>0. /\ ideal \in Edited /\ chat \in [Docs -> Seq(Requests)] /\ "chat" \in Kinds
      /\ \A k \in Docs : Keeps(chat[k], ideal["chat"][k], raced')
  BY RacedGrows DEF RacedInv, Edited, ChatInv, Kinds
<1>1. Turn(r, ChatPoints, {})
  BY <1>0, ChatShape DEF Shape
\* The document, and what the requests that are in it know of it.
<1>2. ASSUME chat' \in [Docs -> Seq(Requests)],
             \A k \in Docs : Keeps(chat'[k], ideal'["chat"][k], raced'),
             ChatKnown(req'[r]), Moves("chat", r)
      PROVE  ChatInv'
  <2>1. ASSUME NEW s \in Requests PROVE ChatKnown(req'[s])
    <3>1. CASE s = r
      BY <1>2, <3>1
    <3>2. CASE s # r
      <4>1. req'[s] = req[s]
        BY <1>1, <3>2 DEF Turn
      <4>2. req[s].at \in ChatPoints => ChatLocals(req[s])
        BY DEF ChatInv, ChatLocals
      <4>3. ASSUME req[s].at = "answering"
            PROVE  Keeps(req[s].list, ideal'["chat"][req[s].doc[2]], raced')
        <5>1. req[s].doc[2] \in Docs /\ Within(s, <<"chat", req[s].doc[2]>>)
          BY <4>3, ChatPlace DEF ChatPoints
        <5>2. Keeps(req[s].list, ideal["chat"][req[s].doc[2]], raced)
          BY <4>3 DEF ChatInv
        <5> QED BY <1>0, <1>2, <3>2, <5>1, <5>2, OthersKeep
      <4> QED BY <4>1, <4>2, <4>3 DEF ChatKnown
    <3> QED BY <3>1, <3>2
  <2> QED BY <1>2, <2>1 DEF ChatInv, ChatKnown, ChatLocals
\* A request that reads.
<1>3. ASSUME chat' = chat, ideal' = ideal, ChatKnown(req'[r]) PROVE ChatInv'
  BY <1>0, <1>2, <1>3, StillMoves
<1>4. CASE ResetChat(r)
  <2>1. PICK k \in Docs :
          /\ req[r].at = "idle" /\ chat' = [chat EXCEPT ![k] = <<>>]
          /\ ideal' = [ideal EXCEPT !["chat"][k] = <<>>]
          /\ Goto(r, [at |-> "chatread", doc |-> <<"chat", k>>])
    BY <1>4, Zenon DEF ResetChat, At
  <2>2. req'[r] = [at |-> "chatread", doc |-> <<"chat", k>>]
    BY <2>1, GotoIs
  <2>3. <<>> \in Seq(Requests)
    OBVIOUS
  <2>4. /\ ideal'["chat"][k] = <<>>
        /\ \A j \in Docs \ {k} : ideal'["chat"][j] = ideal["chat"][j]
    BY <1>0, <2>1, <2>3 DEF Edited
  <2>5. /\ chat' \in [Docs -> Seq(Requests)]
        /\ \A j \in Docs \ {k} : chat'[j] = chat[j]
    BY <1>0, <2>1, <2>3
  <2>6. \A j \in Docs : Keeps(chat'[j], ideal'["chat"][j], raced')
    BY <1>0, <2>4, <2>5, KeepsNothing
  <2>7. ChatKnown(req'[r]) /\ Moves("chat", r)
    BY <2>2, <2>4 DEF ChatKnown, ChatLocals, Moves
  <2> QED BY <1>2, <2>5, <2>6, <2>7
<1>5. CASE BeginChat(r)
  <2>1. PICK k \in Docs :
          /\ req[r].at = "idle" /\ Goto(r, [at |-> "chatread", doc |-> <<"chat", k>>])
          /\ chat' = chat /\ ideal' = ideal
    BY <1>5, Zenon DEF BeginChat, At, documentVars
  <2>2. req'[r] = [at |-> "chatread", doc |-> <<"chat", k>>]
    BY <2>1, GotoIs
  <2> QED BY <1>3, <2>1, <2>2 DEF ChatKnown, ChatLocals
<1>6. CASE ReadChat(r)
  <2> DEFINE x == [at |-> "answering", doc |-> req[r].doc, list |-> chat[req[r].doc[2]]]
  <2>1. req[r].at = "chatread" /\ Goto(r, x) /\ chat' = chat /\ ideal' = ideal
    BY <1>6 DEF ReadChat, At, documentVars
  <2>2. req'[r] = x
    BY <2>1, GotoIs
  <2>3. req[r] \in [at : {"chatread"}, doc : {"chat"} \X Docs]
    BY <2>1 DEF ChatInv, ChatPoints
  <2>4. ChatKnown(req'[r])
    BY <1>0, <2>1, <2>2, <2>3 DEF ChatKnown, ChatLocals
  <2> QED BY <1>3, <2>1, <2>4
<1>7. CASE FailChat(r)
  <2>1. Answer(r, "error") /\ chat' = chat /\ ideal' = ideal
    BY <1>7 DEF FailChat, documentVars
  <2>2. req'[r] = [at |-> "done", code |-> "error"]
    BY <2>1, AnswerIs
  <2> QED BY <1>3, <2>1, <2>2 DEF ChatKnown, ChatPoints
<1>8. CASE WriteChat(r)
  <2> DEFINE k == req[r].doc[2]
  <2>1. /\ req[r].at = "answering" /\ Answer(r, "200")
        /\ chat' = [chat EXCEPT ![k] = Append(req[r].list, r)] /\ Kept("chat", k, r)
    BY <1>8 DEF WriteChat, At
  <2>2. req'[r] = [at |-> "done", code |-> "200"]
    BY <2>1, AnswerIs
  <2>3. k \in Docs /\ Within(r, <<"chat", k>>) /\ req[r].list \in Seq(Requests)
    BY <2>1, ChatPlace DEF ChatPoints
  <2>4. Keeps(req[r].list, ideal["chat"][k], raced')
    BY <2>1, RacedGrows DEF ChatInv
  <2> HIDE DEF k
  <2>5. /\ chat' \in [Docs -> Seq(Requests)] /\ chat'[k] = Append(req[r].list, r)
        /\ \A j \in Docs \ {k} : chat'[j] = chat[j]
    BY <1>0, <2>1, <2>3
  <2>6. /\ ideal'["chat"][k] = Append(ideal["chat"][k], r)
        /\ \A j \in Docs \ {k} : ideal'["chat"][j] = ideal["chat"][j]
    BY <1>0, <2>1, <2>3, KeptAppends
  <2>7. Keeps(chat'[k], ideal'["chat"][k], raced')
    BY <1>0, <2>3, <2>4, <2>5, <2>6, KeepsAppended DEF Edited
  <2>8. \A j \in Docs : Keeps(chat'[j], ideal'["chat"][j], raced')
    BY <1>0, <2>5, <2>6, <2>7
  <2>9. ChatKnown(req'[r])
    BY <2>2 DEF ChatKnown, ChatPoints
  <2>10. Moves("chat", r)
    BY <1>0, <2>3, <2>6, AppendMoves
  <2> QED BY <1>2, <2>5, <2>8, <2>9, <2>10
<1> QED BY <1>4, <1>5, <1>6, <1>7, <1>8 DEF ChatStep

\* A document that is not there is told from every list of edits.
LEMMA NoListIsNoContent == NoList \notin Seq(Requests)
BY RequestsAssumption DEF NoList

LEMMA EmptyList == <<>> \in Seq(Requests) /\ <<>> # NoList
<1>1. <<>> \in Seq(Requests)
  OBVIOUS
<1> QED BY <1>1, NoListIsNoContent, Zenon

LEMMA AppendedList ==
  ASSUME NEW list \in Seq(Requests), NEW r \in Requests
  PROVE  Append(list, r) \in Seq(Requests) /\ Append(list, r) # NoList
<1>1. Append(list, r) \in Seq(Requests)
  OBVIOUS
<1> QED BY <1>1, NoListIsNoContent, Zenon

\* Where the design sessions' requests are.
LEMMA SessionPlace ==
  ASSUME SessionInv, NEW r \in Requests, req[r].at \in SessionPoints
  PROVE  /\ req[r].doc[2] \in Docs /\ req[r].doc = <<"session", req[r].doc[2]>>
         /\ Within(r, <<"session", req[r].doc[2]>>)
         /\ session[req[r].doc[2]] # NoList
         /\ req[r].at = "track" => req[r].list \in Seq(Requests)
<1>1. CASE req[r] \in [at : {"session"}, doc : {"session"} \X Docs]
  BY <1>1 DEF Within, InFlight, SessionInv
<1>2. CASE req[r] \in [at : {"track"}, doc : {"session"} \X Docs, list : Seq(Requests)]
  BY <1>2 DEF Within, InFlight, SessionInv
<1> QED BY <1>1, <1>2 DEF SessionInv, SessionPoints

SessionStep(r) == CreateSession(r) \/ CreateSessionPartial(r) \/ BeginTrack(r) \/ WriteTrack(r)

LEMMA SessionShape ==
  ASSUME NEW r \in Requests, RequestsInv, ideal \in Edited, SessionInv, SessionStep(r)
  PROVE  Shape(r, SessionPoints, "session") /\ UNCHANGED <<chat, canvas, memory, componentVars>>
<1>1. CASE CreateSession(r)
  <2>1. PICK k \in Docs :
          /\ req[r].at = "idle" /\ Goto(r, [at |-> "session", doc |-> <<"session", k>>])
          /\ UNCHANGED <<componentVars, chat, memory, canvas, ideal>>
    BY <1>1, Zenon DEF CreateSession, At
  <2>2. Turn(r, SessionPoints, {})
    BY <2>1, GotoTurn DEF SessionPoints
  <2> QED BY <2>1, <2>2 DEF Shape
<1>2. CASE CreateSessionPartial(r)
  <2>1. Turn(r, SessionPoints, {})
    BY <1>2, AnswerTurn DEF SessionPoints, CreateSessionPartial, At, Remembered
  <2> QED BY <1>2, <2>1 DEF Shape, CreateSessionPartial
<1>3. CASE BeginTrack(r)
  <2>1. PICK k \in Docs :
          /\ req[r].at = "idle" /\ UNCHANGED <<componentVars, documentVars>>
          /\ IF session[k] = NoList THEN Answer(r, "404")
             ELSE Goto(r, [at |-> "track", doc |-> <<"session", k>>, list |-> session[k]])
    BY <1>3, Zenon DEF BeginTrack, At
  <2>2. Turn(r, SessionPoints, {})
    <3>1. CASE session[k] = NoList
      BY <2>1, <3>1, AnswerTurn DEF Remembered
    <3>2. CASE session[k] # NoList
      BY <2>1, <3>2, GotoTurn DEF SessionPoints
    <3> QED BY <3>1, <3>2
  <2> QED BY <2>1, <2>2 DEF Shape, documentVars
<1>4. CASE WriteTrack(r)
  <2>1. Turn(r, SessionPoints, {})
    BY <1>4, AnswerTurn DEF SessionPoints, WriteTrack, At, Remembered
  <2>2. Kept("session", req[r].doc[2], r) /\ req[r].at = "track"
    BY <1>4 DEF WriteTrack, At
  <2>3. req[r].doc[2] \in Docs /\ "session" \in Kinds
    BY <2>2, SessionPlace DEF SessionPoints, Kinds
  <2> QED BY <1>4, <2>1, <2>2, <2>3, KeptAppends DEF Shape, WriteTrack
<1> QED BY <1>1, <1>2, <1>3, <1>4 DEF SessionStep

SessionLocals(x) ==
  x \in [at : {"session"}, doc : {"session"} \X Docs]
    \cup [at : {"track"}, doc : {"session"} \X Docs, list : Seq(Requests)]

\* What is known of a request that is in a design session.
SessionKnown(x) ==
  /\ x.at \in SessionPoints => SessionLocals(x) /\ session'[x.doc[2]] # NoList
  /\ x.at = "track" => Keeps(x.list, ideal'["session"][x.doc[2]], raced')

LEMMA SessionKept ==
  ASSUME NEW r \in Requests, RequestsInv, RacedInv, SessionInv, SessionStep(r),
         raced \subseteq raced'
  PROVE  SessionInv'
<1>0. /\ ideal \in Edited /\ session \in [Docs -> Seq(Requests) \cup {NoList}]
      /\ "session" \in Kinds
      /\ \A k \in Docs :
           /\ session[k] = NoList => ideal["session"][k] = <<>>
           /\ session[k] # NoList => Keeps(session[k], ideal["session"][k], raced')
  BY RacedGrows DEF RacedInv, Edited, SessionInv, Kinds
<1>1. Turn(r, SessionPoints, {})
  BY <1>0, SessionShape DEF Shape
\* The document, and what the requests that are in it know of it.
<1>2. ASSUME
        /\ session' \in [Docs -> Seq(Requests) \cup {NoList}]
        /\ \A k \in Docs :
             /\ session'[k] = NoList => ideal'["session"][k] = <<>>
             /\ session'[k] # NoList => Keeps(session'[k], ideal'["session"][k], raced')
             /\ session[k] # NoList => session'[k] # NoList
        /\ SessionKnown(req'[r]) /\ Moves("session", r)
      PROVE SessionInv'
  <2>1. ASSUME NEW s \in Requests PROVE SessionKnown(req'[s])
    <3>1. CASE s = r
      BY <1>2, <3>1
    <3>2. CASE s # r
      <4>1. req'[s] = req[s]
        BY <1>1, <3>2 DEF Turn
      <4>2. req[s].at \in SessionPoints =>
              SessionLocals(req[s]) /\ session'[req[s].doc[2]] # NoList
        BY <1>2, SessionPlace DEF SessionInv, SessionLocals
      <4>3. ASSUME req[s].at = "track"
            PROVE  Keeps(req[s].list, ideal'["session"][req[s].doc[2]], raced')
        <5>1. req[s].doc[2] \in Docs /\ Within(s, <<"session", req[s].doc[2]>>)
          BY <4>3, SessionPlace DEF SessionPoints
        <5>2. Keeps(req[s].list, ideal["session"][req[s].doc[2]], raced)
          BY <4>3 DEF SessionInv
        <5> QED BY <1>0, <1>2, <3>2, <5>1, <5>2, OthersKeep
      <4> QED BY <4>1, <4>2, <4>3 DEF SessionKnown
    <3> QED BY <3>1, <3>2
  <2> QED BY <1>2, <2>1 DEF SessionInv, SessionLocals, SessionKnown
\* A request that reads.
<1>3. ASSUME session' = session, ideal' = ideal, SessionKnown(req'[r]) PROVE SessionInv'
  BY <1>0, <1>2, <1>3, StillMoves
<1>4. CASE CreateSession(r)
  <2>1. PICK k \in Docs :
          /\ session[k] = NoList /\ session' = [session EXCEPT ![k] = <<>>] /\ ideal' = ideal
          /\ Goto(r, [at |-> "session", doc |-> <<"session", k>>])
    BY <1>4, Zenon DEF CreateSession, Fresh
  <2>2. req'[r] = [at |-> "session", doc |-> <<"session", k>>]
    BY <2>1, GotoIs
  <2>3. /\ session' \in [Docs -> Seq(Requests) \cup {NoList}] /\ session'[k] = <<>>
        /\ <<>> # NoList
        /\ \A j \in Docs \ {k} : session'[j] = session[j]
    <3>1. <<>> \in Seq(Requests) /\ <<>> # NoList
      BY EmptyList
    <3> QED BY <1>0, <2>1, <3>1
  <2>4. \A j \in Docs :
          /\ session'[j] = NoList => ideal'["session"][j] = <<>>
          /\ session'[j] # NoList => Keeps(session'[j], ideal'["session"][j], raced')
          /\ session[j] # NoList => session'[j] # NoList
    BY <1>0, <2>1, <2>3, KeepsNothing
  <2>5. SessionKnown(req'[r])
    BY <2>2, <2>3 DEF SessionKnown, SessionLocals
  <2> QED BY <1>2, <2>1, <2>3, <2>4, <2>5, StillMoves
<1>5. CASE CreateSessionPartial(r)
  <2>1. Answer(r, "200") /\ session' = session /\ ideal' = ideal
    BY <1>5 DEF CreateSessionPartial
  <2>2. req'[r] = [at |-> "done", code |-> "200"]
    BY <2>1, AnswerIs
  <2> QED BY <1>3, <2>1, <2>2 DEF SessionKnown, SessionPoints
<1>6. CASE BeginTrack(r)
  <2>1. PICK k \in Docs :
          /\ IF session[k] = NoList THEN Answer(r, "404")
             ELSE Goto(r, [at |-> "track", doc |-> <<"session", k>>, list |-> session[k]])
          /\ session' = session /\ ideal' = ideal
    BY <1>6, Zenon DEF BeginTrack, documentVars
  <2>2. IF session[k] = NoList THEN req'[r] = [at |-> "done", code |-> "404"]
        ELSE req'[r] = [at |-> "track", doc |-> <<"session", k>>, list |-> session[k]]
    BY <2>1, GotoIs, AnswerIs
  <2>3. CASE session[k] = NoList
    BY <1>3, <2>1, <2>2, <2>3 DEF SessionKnown, SessionPoints
  <2>4. CASE session[k] # NoList
    <3>1. session[k] \in Seq(Requests) /\ Keeps(session[k], ideal["session"][k], raced')
      BY <1>0, <2>4
    <3>2. SessionKnown(req'[r])
      BY <2>1, <2>2, <2>4, <3>1 DEF SessionKnown, SessionLocals
    <3> QED BY <1>3, <2>1, <3>2
  <2> QED BY <2>3, <2>4
<1>7. CASE WriteTrack(r)
  <2> DEFINE k == req[r].doc[2]
  <2>1. /\ req[r].at = "track" /\ Answer(r, "200")
        /\ session' = [session EXCEPT ![k] = Append(req[r].list, r)] /\ Kept("session", k, r)
    BY <1>7 DEF WriteTrack, At
  <2>2. req'[r] = [at |-> "done", code |-> "200"]
    BY <2>1, AnswerIs
  <2>3. k \in Docs /\ Within(r, <<"session", k>>) /\ req[r].list \in Seq(Requests)
    BY <2>1, SessionPlace DEF SessionPoints
  <2>4. Keeps(req[r].list, ideal["session"][k], raced')
    BY <2>1, RacedGrows DEF SessionInv
  <2> HIDE DEF k
  <2>5. /\ session'[k] = Append(req[r].list, r) /\ session'[k] # NoList
        /\ session' \in [Docs -> Seq(Requests) \cup {NoList}]
        /\ \A j \in Docs \ {k} : session'[j] = session[j]
    BY <1>0, <2>1, <2>3, AppendedList
  <2>6. /\ ideal'["session"][k] = Append(ideal["session"][k], r)
        /\ \A j \in Docs \ {k} : ideal'["session"][j] = ideal["session"][j]
    BY <1>0, <2>1, <2>3, KeptAppends
  <2>7. Keeps(session'[k], ideal'["session"][k], raced')
    BY <1>0, <2>3, <2>4, <2>5, <2>6, KeepsAppended DEF Edited
  <2>8. \A j \in Docs :
          /\ session'[j] = NoList => ideal'["session"][j] = <<>>
          /\ session'[j] # NoList => Keeps(session'[j], ideal'["session"][j], raced')
          /\ session[j] # NoList => session'[j] # NoList
    BY <1>0, <2>5, <2>6, <2>7
  <2>9. SessionKnown(req'[r]) /\ Moves("session", r)
    BY <1>0, <2>2, <2>3, <2>6, AppendMoves DEF SessionKnown, SessionPoints
  <2> QED BY <1>2, <2>5, <2>8, <2>9
<1> QED BY <1>4, <1>5, <1>6, <1>7 DEF SessionStep

\* Where the canvas drafts' requests are.
LEMMA CanvasPlace ==
  ASSUME CanvasInv, NEW r \in Requests, req[r].at \in CanvasPoints
  PROVE  /\ req[r].doc[2] \in Docs /\ req[r].doc = <<"canvas", req[r].doc[2]>>
         /\ Within(r, <<"canvas", req[r].doc[2]>>)
         /\ ~memory
         /\ req[r].at = "canvas" => req[r].list \in Seq(Requests) /\ canvas[req[r].doc[2]] # NoList
<1>1. CASE req[r] \in [at : {"opencanvas"}, doc : {"canvas"} \X Docs]
  BY <1>1 DEF Within, InFlight, CanvasInv
<1>2. CASE req[r] \in [at : {"canvas"}, doc : {"canvas"} \X Docs, list : Seq(Requests)]
  BY <1>2 DEF Within, InFlight, CanvasInv
<1> QED BY <1>1, <1>2 DEF CanvasInv, CanvasPoints

CanvasStep(r) == OpenCanvas(r) \/ SaveNewCanvas(r) \/ EditCanvas(r) \/ SaveCanvas(r)

LEMMA CanvasShape ==
  ASSUME NEW r \in Requests, RequestsInv, ideal \in Edited, CanvasInv, CanvasStep(r)
  PROVE  /\ Shape(r, CanvasPoints, "canvas")
         /\ UNCHANGED <<partial, session, chat, memory, componentVars>>
<1>0. "canvas" \in Kinds
  BY DEF Kinds
<1>1. CASE OpenCanvas(r)
  <2>1. PICK k \in Docs :
          /\ req[r].at = "idle"
          /\ \/ Answer(r, "200")
             \/ Goto(r, [at |-> "opencanvas", doc |-> <<"canvas", k>>])
          /\ UNCHANGED <<componentVars, partial, session, chat, memory, ideal>>
    BY <1>1 DEF OpenCanvas, At
  <2>2. Turn(r, CanvasPoints, {})
    <3>1. CASE Answer(r, "200")
      BY <2>1, <3>1, AnswerTurn DEF Remembered
    <3>2. CASE Goto(r, [at |-> "opencanvas", doc |-> <<"canvas", k>>])
      BY <2>1, <3>2, GotoTurn DEF CanvasPoints
    <3> QED BY <2>1, <3>1, <3>2
  <2> QED BY <2>1, <2>2 DEF Shape
<1>2. CASE SaveNewCanvas(r)
  <2>1. Turn(r, CanvasPoints, {})
    BY <1>2, AnswerTurn DEF CanvasPoints, SaveNewCanvas, At, Remembered
  <2> QED BY <1>2, <2>1 DEF Shape, SaveNewCanvas
<1>3. CASE EditCanvas(r)
  <2>1. PICK k \in Docs :
          /\ req[r].at = "idle"
          /\ \/ Answer(r, "404") /\ ideal' = ideal
             \/ Answer(r, "200") /\ Kept("canvas", k, r)
             \/ /\ Goto(r, [at |-> "canvas", doc |-> <<"canvas", k>>, list |-> canvas[k]])
                /\ ideal' = ideal
          /\ UNCHANGED <<componentVars, partial, session, chat, memory>>
    BY <1>3 DEF EditCanvas, At
  <2>2. CASE Answer(r, "404") /\ ideal' = ideal
    <3>1. Turn(r, CanvasPoints, {})
      BY <2>1, <2>2, AnswerTurn DEF Remembered
    <3> QED BY <2>1, <2>2, <3>1 DEF Shape
  <2>3. CASE Answer(r, "200") /\ Kept("canvas", k, r)
    <3>1. Turn(r, CanvasPoints, {})
      BY <2>1, <2>3, AnswerTurn DEF Remembered
    <3> QED BY <1>0, <2>1, <2>3, <3>1, KeptAppends DEF Shape
  <2>4. CASE /\ Goto(r, [at |-> "canvas", doc |-> <<"canvas", k>>, list |-> canvas[k]])
             /\ ideal' = ideal
    <3>1. Turn(r, CanvasPoints, {})
      BY <2>1, <2>4, GotoTurn DEF CanvasPoints
    <3> QED BY <2>1, <2>4, <3>1 DEF Shape
  <2> QED BY <2>1, <2>2, <2>3, <2>4
<1>4. CASE SaveCanvas(r)
  <2>1. Turn(r, CanvasPoints, {})
    <3>1. PICK code \in {"200", "500"} : Answer(r, code)
      BY <1>4 DEF SaveCanvas
    <3> QED BY <1>4, <3>1, AnswerTurn DEF CanvasPoints, SaveCanvas, At, Remembered
  <2>2. Kept("canvas", req[r].doc[2], r) /\ req[r].at = "canvas"
    BY <1>4 DEF SaveCanvas, At
  <2>3. req[r].doc[2] \in Docs
    BY <2>2, CanvasPlace DEF CanvasPoints
  <2> QED BY <1>0, <1>4, <2>1, <2>2, <2>3, KeptAppends DEF Shape, SaveCanvas
<1> QED BY <1>1, <1>2, <1>3, <1>4 DEF CanvasStep

CanvasLocals(x) ==
  x \in [at : {"opencanvas"}, doc : {"canvas"} \X Docs]
    \cup [at : {"canvas"}, doc : {"canvas"} \X Docs, list : Seq(Requests)]

\* What is known of a request that is in a canvas draft.
CanvasKnown(x) ==
  /\ x.at \in CanvasPoints => CanvasLocals(x) /\ ~memory'
  /\ x.at = "canvas" => /\ canvas'[x.doc[2]] # NoList
                        /\ Keeps(x.list, ideal'["canvas"][x.doc[2]], raced')
  /\ x.at = "opencanvas" => Keeps(<<>>, ideal'["canvas"][x.doc[2]], raced')

LEMMA CanvasKept ==
  ASSUME NEW r \in Requests, RequestsInv, RacedInv, CanvasInv, CanvasStep(r),
         raced \subseteq raced'
  PROVE  CanvasInv'
<1>0. /\ ideal \in Edited /\ canvas \in [Docs -> Seq(Requests) \cup {NoList}]
      /\ "canvas" \in Kinds
      /\ \A k \in Docs :
           /\ canvas[k] = NoList => ideal["canvas"][k] = <<>>
           /\ canvas[k] # NoList => Keeps(canvas[k], ideal["canvas"][k], raced')
  BY RacedGrows DEF RacedInv, Edited, CanvasInv, Kinds
<1>1. Turn(r, CanvasPoints, {}) /\ memory' = memory
  BY <1>0, CanvasShape DEF Shape
\* The document, and what the requests that are in it know of it.
<1>2. ASSUME
        /\ canvas' \in [Docs -> Seq(Requests) \cup {NoList}]
        /\ \A k \in Docs :
             /\ canvas'[k] = NoList => ideal'["canvas"][k] = <<>>
             /\ canvas'[k] # NoList => Keeps(canvas'[k], ideal'["canvas"][k], raced')
             /\ canvas[k] # NoList => canvas'[k] # NoList
        /\ CanvasKnown(req'[r])
        /\ memory \/ Moves("canvas", r)
      PROVE CanvasInv'
  <2>1. ASSUME NEW s \in Requests PROVE CanvasKnown(req'[s])
    <3>1. CASE s = r
      BY <1>2, <3>1
    <3>2. CASE s # r
      <4>1. req'[s] = req[s]
        BY <1>1, <3>2 DEF Turn
      <4>2. req[s].at \in CanvasPoints => CanvasLocals(req[s]) /\ ~memory'
        BY <1>1 DEF CanvasInv, CanvasLocals
      <4>3. req[s].at = "canvas" => canvas'[req[s].doc[2]] # NoList
        BY <1>2, CanvasPlace DEF CanvasPoints
      <4>4. ASSUME req[s].at \in CanvasPoints, NEW list, Keeps(list, ideal["canvas"][req[s].doc[2]], raced)
            PROVE  Keeps(list, ideal'["canvas"][req[s].doc[2]], raced')
        <5>1. req[s].doc[2] \in Docs /\ Within(s, <<"canvas", req[s].doc[2]>>) /\ ~memory
          BY <4>4, CanvasPlace
        <5> QED BY <1>0, <1>2, <3>2, <4>4, <5>1, OthersKeep
      <4>5. /\ req[s].at = "canvas" => Keeps(req[s].list, ideal["canvas"][req[s].doc[2]], raced)
            /\ req[s].at = "opencanvas" => Keeps(<<>>, ideal["canvas"][req[s].doc[2]], raced)
        BY DEF CanvasInv
      <4> QED BY <4>1, <4>2, <4>3, <4>4, <4>5 DEF CanvasKnown, CanvasPoints
    <3> QED BY <3>1, <3>2
  <2> QED BY <1>2, <2>1 DEF CanvasInv, CanvasLocals, CanvasKnown
\* A request that reads.
<1>3. ASSUME canvas' = canvas, ideal' = ideal, CanvasKnown(req'[r]) PROVE CanvasInv'
  BY <1>0, <1>2, <1>3, StillMoves
\* A request that writes, in memory or back, and is answered.
<1>4. ASSUME req'[r].at = "done", NEW k \in Docs, NEW list \in Seq(Requests),
             canvas' = [canvas EXCEPT ![k] = list], Keeps(list, ideal'["canvas"][k], raced'),
             \A j \in Docs \ {k} : ideal'["canvas"][j] = ideal["canvas"][j],
             memory \/ Moves("canvas", r)
      PROVE  CanvasInv'
  <2>1. list # NoList
    BY NoListIsNoContent, Zenon
  <2>2. /\ canvas' \in [Docs -> Seq(Requests) \cup {NoList}] /\ canvas'[k] = list
        /\ \A j \in Docs \ {k} : canvas'[j] = canvas[j]
    BY <1>0, <1>4
  <2>3. CanvasKnown(req'[r])
    BY <1>4 DEF CanvasKnown, CanvasPoints
  <2>4. \A j \in Docs :
          /\ canvas'[j] = NoList => ideal'["canvas"][j] = <<>>
          /\ canvas'[j] # NoList => Keeps(canvas'[j], ideal'["canvas"][j], raced')
          /\ canvas[j] # NoList => canvas'[j] # NoList
    BY <1>0, <1>4, <2>1, <2>2
  <2> QED BY <1>2, <1>4, <2>2, <2>3, <2>4
<1>5. CASE OpenCanvas(r)
  <2>1. PICK k \in Docs :
          /\ \/ Answer(r, "200") /\ canvas' = canvas
             \/ /\ canvas[k] = NoList /\ memory /\ Answer(r, "200")
                /\ canvas' = [canvas EXCEPT ![k] = <<>>]
             \/ /\ canvas[k] = NoList /\ ~memory /\ canvas' = canvas
                /\ Goto(r, [at |-> "opencanvas", doc |-> <<"canvas", k>>])
          /\ ideal' = ideal
    BY <1>5 DEF OpenCanvas
  <2>2. CASE Answer(r, "200") /\ canvas' = canvas
    <3>1. req'[r] = [at |-> "done", code |-> "200"]
      BY <2>2, AnswerIs
    <3>2. CanvasKnown(req'[r])
      BY <3>1 DEF CanvasKnown, CanvasPoints
    <3> QED BY <1>3, <2>1, <2>2, <3>2
  <2>3. CASE /\ canvas[k] = NoList /\ memory /\ Answer(r, "200")
             /\ canvas' = [canvas EXCEPT ![k] = <<>>]
    <3>1. req'[r] = [at |-> "done", code |-> "200"]
      BY <2>3, AnswerIs
    <3>2. ideal'["canvas"][k] = <<>> /\ <<>> \in Seq(Requests)
      BY <1>0, <2>1, <2>3, EmptyList
    <3> DEFINE list == <<>>
    <3>3. /\ memory /\ req'[r].at = "done" /\ list \in Seq(Requests)
          /\ canvas' = [canvas EXCEPT ![k] = list]
          /\ Keeps(list, ideal'["canvas"][k], raced')
          /\ \A j \in Docs \ {k} : ideal'["canvas"][j] = ideal["canvas"][j]
      BY <2>1, <2>3, <3>1, <3>2, KeepsNothing
    <3> HIDE DEF list
    <3> QED BY <1>4, <3>3
  <2>4. CASE /\ canvas[k] = NoList /\ ~memory /\ canvas' = canvas
             /\ Goto(r, [at |-> "opencanvas", doc |-> <<"canvas", k>>])
    <3>1. req'[r] = [at |-> "opencanvas", doc |-> <<"canvas", k>>]
      BY <2>4, GotoIs
    <3>2. ideal'["canvas"][k] = <<>>
      BY <1>0, <2>1, <2>4
    <3>3. CanvasKnown(req'[r])
      BY <1>1, <2>4, <3>1, <3>2, KeepsNothing DEF CanvasKnown, CanvasLocals
    <3> QED BY <1>3, <2>1, <2>4, <3>3
  <2> QED BY <2>1, <2>2, <2>3, <2>4
<1>6. CASE SaveNewCanvas(r)
  <2>1. /\ req[r].at = "opencanvas" /\ Answer(r, "200") /\ ideal' = ideal
        /\ canvas' = [canvas EXCEPT ![req[r].doc[2]] = <<>>]
    BY <1>6 DEF SaveNewCanvas, At
  <2>2. req'[r] = [at |-> "done", code |-> "200"]
    BY <2>1, AnswerIs
  <2>3. /\ req[r].doc[2] \in Docs
        /\ Keeps(<<>>, ideal["canvas"][req[r].doc[2]], raced')
    BY <2>1, CanvasPlace, RacedGrows DEF CanvasInv, CanvasPoints
  <2> DEFINE list == <<>>
  <2>4. /\ req'[r].at = "done" /\ list \in Seq(Requests)
        /\ canvas' = [canvas EXCEPT ![req[r].doc[2]] = list]
        /\ Keeps(list, ideal'["canvas"][req[r].doc[2]], raced')
        /\ \A j \in Docs \ {req[r].doc[2]} : ideal'["canvas"][j] = ideal["canvas"][j]
        /\ Moves("canvas", r)
    BY <2>1, <2>2, <2>3, EmptyList, StillMoves
  <2> HIDE DEF list
  <2> QED BY <1>4, <2>3, <2>4
<1>7. CASE EditCanvas(r)
  <2>1. PICK k \in Docs :
          \/ Answer(r, "404") /\ canvas' = canvas /\ ideal' = ideal
          \/ /\ canvas[k] # NoList /\ memory /\ Answer(r, "200") /\ Kept("canvas", k, r)
             /\ canvas' = [canvas EXCEPT ![k] = Append(canvas[k], r)]
          \/ /\ canvas[k] # NoList /\ ~memory /\ canvas' = canvas /\ ideal' = ideal
             /\ Goto(r, [at |-> "canvas", doc |-> <<"canvas", k>>, list |-> canvas[k]])
    BY <1>7 DEF EditCanvas
  <2>2. CASE Answer(r, "404") /\ canvas' = canvas /\ ideal' = ideal
    <3>1. req'[r] = [at |-> "done", code |-> "404"]
      BY <2>2, AnswerIs
    <3>2. CanvasKnown(req'[r])
      BY <3>1 DEF CanvasKnown, CanvasPoints
    <3> QED BY <1>3, <2>2, <3>2
  <2>3. CASE /\ canvas[k] # NoList /\ memory /\ Answer(r, "200") /\ Kept("canvas", k, r)
             /\ canvas' = [canvas EXCEPT ![k] = Append(canvas[k], r)]
    <3>1. req'[r] = [at |-> "done", code |-> "200"]
      BY <2>3, AnswerIs
    <3>2. canvas[k] \in Seq(Requests) /\ Keeps(canvas[k], ideal["canvas"][k], raced')
      BY <1>0, <2>3
    <3> DEFINE list == Append(canvas[k], r)
    <3>3. list \in Seq(Requests)
      BY <3>2, AppendedList
    <3>4. /\ ideal'["canvas"][k] = Append(ideal["canvas"][k], r)
          /\ \A j \in Docs \ {k} : ideal'["canvas"][j] = ideal["canvas"][j]
      BY <1>0, <2>3, KeptAppends
    <3>5. Keeps(list, ideal'["canvas"][k], raced')
      BY <1>0, <3>2, <3>4, KeepsAppended DEF Edited
    <3>6. memory /\ req'[r].at = "done" /\ canvas' = [canvas EXCEPT ![k] = list]
      BY <2>3, <3>1
    <3> HIDE DEF list
    <3> QED BY <1>4, <3>3, <3>4, <3>5, <3>6
  <2>4. CASE /\ canvas[k] # NoList /\ ~memory /\ canvas' = canvas /\ ideal' = ideal
             /\ Goto(r, [at |-> "canvas", doc |-> <<"canvas", k>>, list |-> canvas[k]])
    <3>1. req'[r] = [at |-> "canvas", doc |-> <<"canvas", k>>, list |-> canvas[k]]
      BY <2>4, GotoIs
    <3>2. canvas[k] \in Seq(Requests) /\ Keeps(canvas[k], ideal["canvas"][k], raced')
      BY <1>0, <2>4
    <3>3. CanvasKnown(req'[r])
      BY <1>1, <2>4, <3>1, <3>2 DEF CanvasKnown, CanvasLocals
    <3> QED BY <1>3, <2>4, <3>3
  <2> QED BY <2>1, <2>2, <2>3, <2>4
<1>8. CASE SaveCanvas(r)
  <2> DEFINE k == req[r].doc[2]
             list == Append(req[r].list, r)
  <2>1. /\ req[r].at = "canvas" /\ Kept("canvas", k, r) /\ canvas' = [canvas EXCEPT ![k] = list]
    BY <1>8 DEF SaveCanvas, At
  <2>2. req'[r].at = "done"
    <3>1. PICK code \in {"200", "500"} : Answer(r, code)
      BY <1>8 DEF SaveCanvas
    <3>2. req'[r] = [at |-> "done", code |-> code]
      BY <3>1, AnswerIs
    <3> QED BY <3>2
  <2>3. k \in Docs /\ Within(r, <<"canvas", k>>) /\ req[r].list \in Seq(Requests)
    BY <2>1, CanvasPlace DEF CanvasPoints
  <2>4. list \in Seq(Requests)
    BY <2>3, AppendedList
  <2>5. /\ ideal'["canvas"][k] = Append(ideal["canvas"][k], r)
        /\ \A j \in Docs \ {k} : ideal'["canvas"][j] = ideal["canvas"][j]
    BY <1>0, <2>1, <2>3, KeptAppends
  <2>6. Keeps(req[r].list, ideal["canvas"][k], raced')
    BY <2>1, RacedGrows DEF CanvasInv
  <2> HIDE DEF k
  <2>7. Keeps(list, ideal'["canvas"][k], raced')
    BY <1>0, <2>3, <2>5, <2>6, KeepsAppended DEF Edited
  <2>8. Moves("canvas", r)
    BY <1>0, <2>3, <2>5, AppendMoves
  <2> HIDE DEF list
  <2> QED BY <1>4, <2>1, <2>2, <2>3, <2>4, <2>5, <2>7, <2>8
<1> QED BY <1>5, <1>6, <1>7, <1>8 DEF CanvasStep

\* Where the requests of partial blueprints are, and what they carry.
LEMMA PartialPlace ==
  ASSUME PartialInv, NEW r \in Requests, req[r].at \in PartialPoints
  PROVE  /\ req[r].doc[2] \in Docs /\ req[r].doc = <<"partial", req[r].doc[2]>>
         /\ Within(r, <<"partial", req[r].doc[2]>>)
         /\ req[r] \in PartialLocals /\ req[r].p \in Text /\ req[r].lock \in Text
         /\ req[r].at \in {"editlock", "edit"} =>
              req[r].edit \in [op : {"add", "remove", "update", "suggest", "commit"}, c : Components]
         /\ "at" \in DOMAIN req[r]
<1>1. CASE req[r] \in [at : {"editlock", "edit"}, doc : {"partial"} \X Docs,
                       edit : [op : {"add", "remove", "update", "suggest", "commit"}, c : Components],
                       p : Text, lock : Text]
  BY <1>1 DEF Within, InFlight, PartialLocals
<1>2. CASE req[r] \in [at : {"finallock", "final", "cleanup"}, doc : {"partial"} \X Docs,
                       p : Text, lock : Text]
  BY <1>2 DEF Within, InFlight, PartialLocals
<1> QED BY <1>1, <1>2 DEF PartialInv, PartialLocals

\* An edit keeps its document one, with the edit at its end.
LEMMA EditText ==
  ASSUME NEW p \in Text, NEW r \in Requests,
         NEW edit \in [op : {"add", "remove", "update", "suggest", "commit"}, c : Components]
  PROVE  /\ Edit(p, edit, r) \in Text
         /\ Edit(p, edit, r).edits = Append(p.edits, r)
         /\ Edit(p, edit, r).none = p.none
<1>1. ASSUME NEW refs \in SUBSET Components
      PROVE  /\ Validated(p, refs, r) \in Text
             /\ Validated(p, refs, r).edits = Append(p.edits, r)
             /\ Validated(p, refs, r).none = p.none
  <2> DEFINE edits == Append(p.edits, r)
             complete == refs # {} /\ \A c \in refs : Known(c)
  <2>1. edits \in Seq(Requests) /\ complete \in BOOLEAN
    BY DEF Text
  <2>2. Validated(p, refs, r) = [p EXCEPT !.edits = edits, !.refs = refs, !.complete = complete]
    BY DEF Validated, Text
  <2> HIDE DEF edits, complete
  <2>3. /\ Validated(p, refs, r) \in Text /\ Validated(p, refs, r).edits = edits
        /\ Validated(p, refs, r).none = p.none
    BY <2>1, <2>2 DEF Text
  <2> QED BY <2>3 DEF edits
<1>2. /\ Suggested(p, r) \in Text /\ Suggested(p, r).none = p.none
      /\ Suggested(p, r).edits = Append(p.edits, r)
  <2> DEFINE edits == Append(p.edits, r)
  <2>1. edits \in Seq(Requests) /\ Suggested(p, r) = [p EXCEPT !.edits = edits]
    BY DEF Suggested, Text
  <2> HIDE DEF edits
  <2>2. Suggested(p, r) \in Text /\ Suggested(p, r).none = p.none /\ Suggested(p, r).edits = edits
    BY <2>1 DEF Text
  <2> QED BY <2>2 DEF edits
<1>3. edit.c \in Components /\ p.refs \in SUBSET Components
      /\ edit.op \in {"add", "remove", "update", "suggest", "commit"}
  BY DEF Text
<1>4. CASE edit.op = "add"
  BY <1>1, <1>3, <1>4 DEF Edit
<1>5. CASE edit.op = "remove"
  BY <1>1, <1>3, <1>5 DEF Edit
<1>6. CASE edit.op = "update"
  <2> DEFINE refs == IF p.refs = {} THEN {} ELSE {edit.c}
  <2>1. refs \in SUBSET Components /\ Edit(p, edit, r) = Validated(p, refs, r)
    BY <1>3, <1>6 DEF Edit
  <2> HIDE DEF refs
  <2> QED BY <1>1, <2>1
<1>7. CASE edit.op = "suggest"
  BY <1>1, <1>3, <1>7 DEF Edit
<1>8. CASE edit.op = "commit"
  BY <1>2, <1>8 DEF Edit
<1> QED BY <1>3, <1>4, <1>5, <1>6, <1>7, <1>8

PartialStep(r) ==
  \/ CreatePartial(r) \/ BeginEdit(r) \/ BeginFinalize(r) \/ CheckEditLock(r) \/ WriteEdit(r)
  \/ CheckFinalLock(r) \/ StoreFinal(r) \/ CleanUp(r)

LEMMA HereEdits ==
  RequestsInv =>
    Edits \subseteq [op : {"add", "remove", "update", "suggest", "commit"}, c : Components]
BY HereIsComponents DEF Edits

LEMMA PartialShape ==
  ASSUME NEW r \in Requests, RequestsInv, ideal \in Edited, PartialInv, PartialStep(r)
  PROVE  /\ Shape(r, PartialPoints, "partial")
         /\ UNCHANGED <<session, chat, canvas, memory, componentVars>>
<1>0. "partial" \in Kinds
  BY DEF Kinds
<1>1. CASE CreatePartial(r)
  <2>1. Turn(r, PartialPoints, {})
    BY <1>1, AnswerTurn DEF CreatePartial, At, Remembered
  <2> QED BY <1>1, <2>1 DEF Shape, CreatePartial
<1>2. CASE BeginEdit(r)
  <2>1. PICK k \in Docs, edit \in Edits, held \in BOOLEAN :
          /\ req[r].at = "idle" /\ UNCHANGED <<componentVars, documentVars>>
          /\ IF partial[k].json.none THEN Answer(r, "404")
             ELSE Goto(r, [at |-> "editlock", doc |-> <<"partial", k>>, edit |-> edit,
                           p |-> partial[k].json,
                           lock |-> IF held THEN partial[k].lock ELSE NoContent])
    BY <1>2, Zenon DEF BeginEdit, At
  <2>2. Turn(r, PartialPoints, {})
    <3>1. CASE partial[k].json.none
      BY <2>1, <3>1, AnswerTurn DEF Remembered
    <3>2. CASE ~partial[k].json.none
      BY <2>1, <3>2, GotoTurn DEF PartialPoints
    <3> QED BY <3>1, <3>2
  <2> QED BY <2>1, <2>2 DEF Shape, documentVars
<1>3. CASE BeginFinalize(r)
  <2>1. PICK k \in Docs :
          /\ req[r].at = "idle" /\ UNCHANGED <<componentVars, documentVars>>
          /\ IF partial[k].json.none THEN Answer(r, "404")
             ELSE Goto(r, [at |-> "finallock", doc |-> <<"partial", k>>,
                           p |-> partial[k].json, lock |-> partial[k].lock])
    BY <1>3, Zenon DEF BeginFinalize, At
  <2>2. Turn(r, PartialPoints, {})
    <3>1. CASE partial[k].json.none
      BY <2>1, <3>1, AnswerTurn DEF Remembered
    <3>2. CASE ~partial[k].json.none
      BY <2>1, <3>2, GotoTurn DEF PartialPoints
    <3> QED BY <3>1, <3>2
  <2> QED BY <2>1, <2>2 DEF Shape, documentVars
<1>4. CASE CheckEditLock(r)
  <2>1. /\ req[r].at = "editlock" /\ UNCHANGED <<componentVars, documentVars>>
        /\ \/ Goto(r, [req[r] EXCEPT !.at = "edit"])
           \/ \E code \in {"428", "409"} : Answer(r, code)
    BY <1>4 DEF CheckEditLock, At
  <2>2. Turn(r, PartialPoints, {})
    <3>1. CASE Goto(r, [req[r] EXCEPT !.at = "edit"])
      BY <2>1, <3>1, AdvanceTurn DEF PartialPoints
    <3>2. CASE \E code \in {"428", "409"} : Answer(r, code)
      BY <2>1, <3>2, AnswerTurn DEF PartialPoints, Remembered
    <3> QED BY <2>1, <3>1, <3>2
  <2> QED BY <2>1, <2>2 DEF Shape, documentVars
<1>5. CASE WriteEdit(r)
  <2>1. req[r].at = "edit" /\ Answer(r, "200") /\ Kept("partial", req[r].doc[2], r)
    BY <1>5 DEF WriteEdit, At
  <2>2. Turn(r, PartialPoints, {})
    BY <2>1, AnswerTurn DEF PartialPoints, Remembered
  <2>3. req[r].doc[2] \in Docs
    BY <2>1, PartialPlace DEF PartialPoints
  <2> QED BY <1>0, <1>5, <2>1, <2>2, <2>3, KeptAppends DEF Shape, WriteEdit
<1>6. CASE CheckFinalLock(r)
  <2>1. /\ req[r].at = "finallock" /\ UNCHANGED <<componentVars, documentVars>>
        /\ \/ Goto(r, [req[r] EXCEPT !.at = "final"])
           \/ \E code \in {"428", "409", "400"} : Answer(r, code)
    BY <1>6 DEF CheckFinalLock, At
  <2>2. Turn(r, PartialPoints, {})
    <3>1. CASE Goto(r, [req[r] EXCEPT !.at = "final"])
      BY <2>1, <3>1, AdvanceTurn DEF PartialPoints
    <3>2. CASE \E code \in {"428", "409", "400"} : Answer(r, code)
      BY <2>1, <3>2, AnswerTurn DEF PartialPoints, Remembered
    <3> QED BY <2>1, <3>1, <3>2
  <2> QED BY <2>1, <2>2 DEF Shape, documentVars
<1>7. CASE StoreFinal(r)
  <2>1. req[r].at = "final" /\ Goto(r, [req[r] EXCEPT !.at = "cleanup"])
    BY <1>7 DEF StoreFinal, At
  <2>2. Turn(r, PartialPoints, {})
    BY <2>1, AdvanceTurn DEF PartialPoints
  <2> QED BY <1>7, <2>2 DEF Shape, StoreFinal
<1>8. CASE CleanUp(r)
  <2>1. Turn(r, PartialPoints, {})
    BY <1>8, AnswerTurn DEF CleanUp, At, PartialPoints, Remembered
  <2> QED BY <1>8, <2>1 DEF Shape, CleanUp
<1> QED BY <1>1, <1>2, <1>3, <1>4, <1>5, <1>6, <1>7, <1>8 DEF PartialStep

\* What is known of a document, and of a request that is in one.
PartialDoc(k) ==
  /\ partial[k].lock.none => ideal["partial"][k] = <<>>
  /\ ~partial[k].json.none => Keeps(partial[k].json.edits, ideal["partial"][k], raced)

PartialKnown(x) ==
  /\ x.at \in PartialPoints => x \in PartialLocals
  /\ x.at \in {"editlock", "edit"} =>
       /\ ~x.p.none
       /\ Keeps(x.p.edits, ideal'["partial"][x.doc[2]], raced')
       /\ x.at = "edit" => ~partial'[x.doc[2]].lock.none
  /\ x.at = "session" => partial'[x.doc[2]].lock.none

LEMMA PartialByParts ==
  ASSUME partial' \in [Docs -> [json : Text, lock : Text]],
         \A k \in Docs : PartialDoc(k)', \A s \in Requests : PartialKnown(req'[s])
  PROVE  PartialInv'
BY DEF PartialInv, PartialDoc, PartialKnown

\* Those who were in the documents before, when no lock came or went.
LEMMA PartialBefore ==
  ASSUME RacedInv, PartialInv, NEW r \in Requests, NEW s \in Requests \ {r}, raced \subseteq raced',
         Moves("partial", r),
         req[s].at \in PartialPoints \cup {"session"} =>
           (partial'[req[s].doc[2]].lock.none <=> partial[req[s].doc[2]].lock.none)
  PROVE  PartialKnown(req[s])
<1>1. ASSUME req[s].at \in {"editlock", "edit"}
      PROVE  Keeps(req[s].p.edits, ideal'["partial"][req[s].doc[2]], raced')
  <2>1. req[s].doc[2] \in Docs /\ Within(s, <<"partial", req[s].doc[2]>>)
    BY <1>1, PartialPlace DEF PartialPoints
  <2>2. Keeps(req[s].p.edits, ideal["partial"][req[s].doc[2]], raced)
    BY <1>1 DEF PartialInv
  <2>3. "partial" \in Kinds
    BY DEF Kinds
  <2> QED BY <2>1, <2>2, <2>3, OthersKeep
<1> QED BY <1>1 DEF PartialInv, PartialKnown, PartialPoints

\* A request that only reads the document.
LEMMA PartialReads ==
  ASSUME NEW r \in Requests, RacedInv, PartialInv, raced \subseteq raced',
         \A s \in Requests \ {r} : req'[s] = req[s],
         partial' = partial, ideal'["partial"] = ideal["partial"], PartialKnown(req'[r])
  PROVE  PartialInv'
<1>1. ASSUME NEW s \in Requests \ {r} PROVE PartialKnown(req'[s])
  BY PartialBefore, StillMoves
<1>2. ASSUME NEW k \in Docs PROVE PartialDoc(k)'
  BY RacedGrows DEF PartialInv, PartialDoc
<1> QED BY <1>1, <1>2, PartialByParts DEF PartialInv

\* A request that writes the document and is answered.
LEMMA PartialWrites ==
  ASSUME NEW r \in Requests, RacedInv, PartialInv, raced \subseteq raced',
         \A s \in Requests \ {r} : req'[s] = req[s], req'[r].at = "done",
         NEW k \in Docs, NEW new \in [json : Text, lock : Text],
         partial' = [partial EXCEPT ![k] = new],
         \A j \in Docs \ {k} : ideal'["partial"][j] = ideal["partial"][j],
         PartialDoc(k)', Moves("partial", r),
         \A s \in Requests \ {r} :
           req[s].at \in PartialPoints \cup {"session"} /\ req[s].doc[2] = k =>
             (new.lock.none <=> partial[k].lock.none),
         \A s \in Requests :
           req[s].at \in PartialPoints \cup {"session"} => req[s].doc[2] \in Docs
  PROVE  PartialInv'
<1>0. partial \in [Docs -> [json : Text, lock : Text]]
  BY DEF PartialInv
<1>1. /\ partial' \in [Docs -> [json : Text, lock : Text]] /\ partial'[k] = new
      /\ \A j \in Docs \ {k} : partial'[j] = partial[j]
  BY <1>0
<1>2. ASSUME NEW s \in Requests PROVE PartialKnown(req'[s])
  <2>1. CASE s = r
    BY <2>1 DEF PartialKnown, PartialPoints
  <2>2. CASE s # r
    BY <1>1, <2>2, PartialBefore
  <2> QED BY <2>1, <2>2
<1>3. ASSUME NEW j \in Docs \ {k} PROVE PartialDoc(j)'
  BY <1>1, RacedGrows DEF PartialInv, PartialDoc
<1> QED BY <1>1, <1>2, <1>3, PartialByParts

LEMMA NewContents ==
  /\ NoContent \in Text /\ NewContent \in Text
  /\ NoContent.none /\ ~NewContent.none /\ NewContent.edits = <<>>
BY EmptyList DEF NoContent, NewContent, Text

\* A new design session or document meets nobody.
LEMMA FreshMeetsNobody ==
  ASSUME NEW k \in Docs, Fresh(k), NEW s \in Requests, PartialInv, SessionInv,
         req[s].at \in PartialPoints \cup {"session"}
  PROVE  req[s].doc[2] # k
<1>1. "doc" \in DOMAIN req[s]
  <2>1. CASE req[s].at \in PartialPoints
    BY <2>1, PartialPlace DEF Within
  <2>2. CASE req[s].at = "session"
    BY <2>2, SessionPlace DEF Within, SessionPoints
  <2> QED BY <2>1, <2>2
<1> QED BY <1>1 DEF Fresh

LEMMA PartialKept ==
  ASSUME NEW r \in Requests, RequestsInv, RacedInv, PartialInv, SessionInv,
         PartialStep(r) \/ SessionStep(r), raced \subseteq raced'
  PROVE  PartialInv'
<1>0. /\ ideal \in Edited /\ partial \in [Docs -> [json : Text, lock : Text]]
      /\ "partial" \in Kinds
      /\ \A k \in Docs : partial[k].json \in Text /\ partial[k].lock \in Text
  BY DEF RacedInv, Edited, PartialInv, Kinds
<1>1. \A s \in Requests \ {r} : req'[s] = req[s]
  BY <1>0, PartialShape, SessionShape DEF Shape, Turn
<1>2. \A s \in Requests :
        req[s].at \in PartialPoints \cup {"session"} => req[s].doc[2] \in Docs
  BY PartialPlace, SessionPlace DEF SessionPoints
<1>3. \A k \in Docs :
        /\ partial[k].lock.none => ideal["partial"][k] = <<>>
        /\ ~partial[k].json.none => Keeps(partial[k].json.edits, ideal["partial"][k], raced')
  BY RacedGrows DEF PartialInv
<1>5. CASE CreatePartial(r)
  <2>1. PICK k \in Docs :
          /\ Fresh(k) /\ Answer(r, "200") /\ ideal' = ideal
          /\ partial' = [partial EXCEPT ![k] = [json |-> NewContent, lock |-> NewContent]]
    BY <1>5, Zenon DEF CreatePartial
  <2> DEFINE new == [json |-> NewContent, lock |-> NewContent]
  <2>2. new \in [json : Text, lock : Text] /\ new.json = NewContent /\ new.lock = NewContent
    BY NewContents
  <2>3. req'[r] = [at |-> "done", code |-> "200"]
    BY <2>1, AnswerIs
  <2>4. partial' = [partial EXCEPT ![k] = new]
    BY <2>1
  <2> HIDE DEF new
  <2>5. ideal["partial"][k] = <<>>
    BY <1>3, <2>1 DEF Fresh
  <2>6. PartialDoc(k)'
    BY <1>0, <2>1, <2>2, <2>4, <2>5, NewContents, KeepsNothing DEF PartialDoc
  <2>7. \A s \in Requests \ {r} :
          req[s].at \in PartialPoints \cup {"session"} => req[s].doc[2] # k
    BY <2>1, FreshMeetsNobody
  <2>8. /\ req'[r].at = "done" /\ \A j \in Docs \ {k} : ideal'["partial"][j] = ideal["partial"][j]
        /\ Moves("partial", r)
    BY <2>1, <2>3, StillMoves
  <2> QED BY <1>1, <1>2, <2>2, <2>4, <2>6, <2>7, <2>8, PartialWrites
<1>6. CASE CreateSession(r)
  <2>1. PICK k \in Docs :
          /\ Fresh(k) /\ ideal' = ideal /\ partial' = partial
          /\ Goto(r, [at |-> "session", doc |-> <<"session", k>>])
    BY <1>6, Zenon DEF CreateSession
  <2>2. req'[r] = [at |-> "session", doc |-> <<"session", k>>]
    BY <2>1, GotoIs
  <2>3. PartialKnown(req'[r])
    BY <2>1, <2>2 DEF PartialKnown, PartialPoints, Fresh
  <2> QED BY <1>1, <2>1, <2>3, PartialReads
<1>7. CASE CreateSessionPartial(r)
  <2> PICK k \in Docs : k = req[r].doc[2]
    BY <1>2, <1>7 DEF CreateSessionPartial, At
  <2> DEFINE new == [partial[k] EXCEPT !.json = NewContent]
  <2>1. /\ req[r].at = "session" /\ Answer(r, "200") /\ ideal' = ideal
        /\ partial' = [partial EXCEPT ![k].json = NewContent]
    BY <1>7 DEF CreateSessionPartial, At
  <2>2. partial[k].lock.none
    BY <2>1 DEF PartialInv
  <2>3. /\ new \in [json : Text, lock : Text] /\ new.json = NewContent
        /\ new.lock = partial[k].lock /\ partial' = [partial EXCEPT ![k] = new]
    BY <1>0, <2>1, <2>2, NewContents
  <2>4. req'[r] = [at |-> "done", code |-> "200"]
    BY <2>1, AnswerIs
  <2> HIDE DEF new
  <2>5. PartialDoc(k)'
    BY <1>0, <1>3, <2>1, <2>2, <2>3, NewContents, KeepsNothing DEF PartialDoc
  <2>6. /\ req'[r].at = "done" /\ \A j \in Docs \ {k} : ideal'["partial"][j] = ideal["partial"][j]
        /\ Moves("partial", r)
    BY <2>1, <2>4, StillMoves
  <2>7. /\ new.lock.none <=> partial[k].lock.none
        /\ RacedInv /\ PartialInv /\ raced \subseteq raced' /\ r \in Requests /\ k \in Docs
    BY <2>3
  <2> QED BY ONLY <1>1, <1>2, <2>3, <2>5, <2>6, <2>7, PartialWrites
<1>8. CASE BeginTrack(r)
  <2>1. req'[r].at \in SessionPoints \cup {"done"} /\ partial' = partial /\ ideal' = ideal
    BY <1>0, <1>8, SessionShape DEF Shape, Turn, SessionStep, BeginTrack, documentVars
  <2>2. req'[r].at # "session"
    <3>1. PICK k \in Docs :
            IF session[k] = NoList THEN Answer(r, "404")
            ELSE Goto(r, [at |-> "track", doc |-> <<"session", k>>, list |-> session[k]])
      BY <1>8, Zenon DEF BeginTrack
    <3>2. IF session[k] = NoList THEN req'[r] = [at |-> "done", code |-> "404"]
          ELSE req'[r] = [at |-> "track", doc |-> <<"session", k>>, list |-> session[k]]
      BY <3>1, GotoIs, AnswerIs
    <3>3. CASE session[k] = NoList
      BY <3>2, <3>3
    <3>4. CASE session[k] # NoList
      BY <3>2, <3>4
    <3> QED BY <3>3, <3>4
  <2>3. PartialKnown(req'[r])
    BY <2>1, <2>2 DEF PartialKnown, PartialPoints, SessionPoints
  <2> QED BY <1>1, <2>1, <2>3, PartialReads
<1>9. CASE WriteTrack(r)
  <2>1. req[r].at = "track" /\ Answer(r, "200") /\ partial' = partial /\ Kept("session", req[r].doc[2], r)
    BY <1>9 DEF WriteTrack, At
  <2>2. req'[r] = [at |-> "done", code |-> "200"]
    BY <2>1, AnswerIs
  <2>3. PartialKnown(req'[r])
    BY <2>2 DEF PartialKnown, PartialPoints
  <2>4. ideal'["partial"] = ideal["partial"]
    BY <1>0, <1>9, SessionShape DEF Shape, SessionStep
  <2> QED BY <1>1, <2>1, <2>3, <2>4, PartialReads
<1>10. CASE BeginEdit(r)
  <2>1. PICK k \in Docs, edit \in Edits, held \in BOOLEAN :
          /\ partial' = partial /\ ideal' = ideal
          /\ IF partial[k].json.none THEN Answer(r, "404")
             ELSE Goto(r, [at |-> "editlock", doc |-> <<"partial", k>>, edit |-> edit,
                           p |-> partial[k].json,
                           lock |-> IF held THEN partial[k].lock ELSE NoContent])
    BY <1>10, Zenon DEF BeginEdit, documentVars
  <2>2. PartialKnown(req'[r])
    <3>1. CASE partial[k].json.none
      <4>1. req'[r] = [at |-> "done", code |-> "404"]
        BY <2>1, <3>1, AnswerIs
      <4> QED BY <4>1 DEF PartialKnown, PartialPoints
    <3>2. CASE ~partial[k].json.none
      <4> DEFINE lock == IF held THEN partial[k].lock ELSE NoContent
                 x == [at |-> "editlock", doc |-> <<"partial", k>>, edit |-> edit,
                       p |-> partial[k].json, lock |-> lock]
      <4>1. /\ lock \in Text /\ partial[k].json \in Text
            /\ Keeps(partial[k].json.edits, ideal["partial"][k], raced')
        BY <1>0, <1>3, <3>2, NewContents
      <4>2. edit \in [op : {"add", "remove", "update", "suggest", "commit"}, c : Components]
        BY HereEdits
      <4>3. Goto(r, x)
        BY <2>1, <3>2
      <4> HIDE DEF lock
      <4>4. x \in PartialLocals /\ x.at = "editlock" /\ x.doc[2] = k /\ x.p = partial[k].json
        BY <4>1, <4>2 DEF PartialLocals
      <4> HIDE DEF x
      <4>5. req'[r] = x
        BY <4>3, GotoIs
      <4> QED BY <2>1, <3>2, <4>1, <4>4, <4>5 DEF PartialKnown
    <3> QED BY <3>1, <3>2
  <2> QED BY <1>1, <2>1, <2>2, PartialReads
<1>11. CASE BeginFinalize(r)
  <2>1. PICK k \in Docs :
          /\ partial' = partial /\ ideal' = ideal
          /\ IF partial[k].json.none THEN Answer(r, "404")
             ELSE Goto(r, [at |-> "finallock", doc |-> <<"partial", k>>,
                           p |-> partial[k].json, lock |-> partial[k].lock])
    BY <1>11, Zenon DEF BeginFinalize, documentVars
  <2>2. PartialKnown(req'[r])
    <3>1. CASE partial[k].json.none
      <4>1. req'[r] = [at |-> "done", code |-> "404"]
        BY <2>1, <3>1, AnswerIs
      <4> QED BY <4>1 DEF PartialKnown, PartialPoints
    <3>2. CASE ~partial[k].json.none
      <4> DEFINE x == [at |-> "finallock", doc |-> <<"partial", k>>,
                       p |-> partial[k].json, lock |-> partial[k].lock]
      <4>1. x \in PartialLocals /\ x.at = "finallock" /\ Goto(r, x)
        BY <1>0, <2>1, <3>2 DEF PartialLocals
      <4> HIDE DEF x
      <4>2. req'[r] = x
        BY <4>1, GotoIs
      <4> QED BY <4>1, <4>2 DEF PartialKnown
    <3> QED BY <3>1, <3>2
  <2> QED BY <1>1, <2>1, <2>2, PartialReads
<1>12. CASE CheckEditLock(r)
  <2> DEFINE x == [req[r] EXCEPT !.at = "edit"]
  <2>1. /\ req[r].at = "editlock" /\ partial' = partial /\ ideal' = ideal
        /\ \/ LockMatches(r) /\ Goto(r, x)
           \/ \E code \in {"428", "409"} : Answer(r, code)
    BY <1>12 DEF CheckEditLock, At, documentVars
  <2>2. CASE LockMatches(r) /\ Goto(r, x)
    <3>1. /\ req[r] \in PartialLocals /\ ~req[r].p.none /\ ~partial[req[r].doc[2]].lock.none
          /\ Keeps(req[r].p.edits, ideal["partial"][req[r].doc[2]], raced')
      BY <1>0, <1>2, <2>1, <2>2, RacedGrows DEF PartialInv, PartialPoints, LockMatches
    <3>2. x \in PartialLocals /\ x.at = "edit" /\ x.doc = req[r].doc /\ x.p = req[r].p
      BY <2>1, <3>1 DEF PartialLocals
    <3> HIDE DEF x
    <3>3. req'[r] = x
      BY <2>2, GotoIs
    <3>4. PartialKnown(req'[r])
      BY <2>1, <3>1, <3>2, <3>3 DEF PartialKnown
    <3> QED BY <1>1, <2>1, <3>4, PartialReads
  <2>3. ASSUME NEW code \in {"428", "409"}, Answer(r, code) PROVE PartialInv'
    <3>1. req'[r] = [at |-> "done", code |-> code]
      BY <2>3, AnswerIs
    <3>2. PartialKnown(req'[r])
      BY <3>1 DEF PartialKnown, PartialPoints
    <3> QED BY <1>1, <2>1, <3>2, PartialReads
  <2> QED BY <2>1, <2>2, <2>3
<1>13. CASE WriteEdit(r)
  <2> PICK k \in Docs : k = req[r].doc[2]
    BY <1>2, <1>13 DEF WriteEdit, At, PartialPoints
  <2> DEFINE text == Edit(req[r].p, req[r].edit, r)
             new == [json |-> text, lock |-> text]
  <2>1. /\ req[r].at = "edit" /\ Answer(r, "200") /\ Kept("partial", k, r)
        /\ partial' = [partial EXCEPT ![k] = new]
    BY <1>13 DEF WriteEdit, At
  <2>2. /\ Within(r, <<"partial", k>>) /\ req[r].p \in Text
        /\ req[r].edit \in [op : {"add", "remove", "update", "suggest", "commit"}, c : Components]
    BY <2>1, PartialPlace DEF PartialPoints
  <2>3. /\ ~req[r].p.none /\ ~partial[k].lock.none
        /\ Keeps(req[r].p.edits, ideal["partial"][k], raced') /\ req[r].p.edits \in Seq(Requests)
    BY <2>1, <2>2, RacedGrows DEF PartialInv, PartialPoints, Text
  <2>4. text \in Text /\ text.edits = Append(req[r].p.edits, r) /\ ~text.none
    BY <2>2, <2>3, EditText
  <2>5. /\ ideal'["partial"][k] = Append(ideal["partial"][k], r)
        /\ \A j \in Docs \ {k} : ideal'["partial"][j] = ideal["partial"][j]
    <3>1. Kept("partial", k, r)
      BY <2>1
    <3> QED BY <1>0, <3>1, KeptAppends
  <2>6. req'[r] = [at |-> "done", code |-> "200"]
    BY <2>1, AnswerIs
  <2> HIDE DEF text
  <2>7. new \in [json : Text, lock : Text] /\ new.json = text /\ new.lock = text
    BY <2>4
  <2> HIDE DEF new
  <2>8. partial'[k] = new
    BY <1>0, <2>1, <2>2
  <2>9. Keeps(text.edits, ideal'["partial"][k], raced')
    BY <1>0, <2>3, <2>4, <2>5, KeepsAppended DEF Edited
  <2>10. PartialDoc(k)'
    BY <2>4, <2>7, <2>8, <2>9 DEF PartialDoc
  <2>11. /\ req'[r].at = "done" /\ partial' = [partial EXCEPT ![k] = new]
         /\ new \in [json : Text, lock : Text]
         /\ \A j \in Docs \ {k} : ideal'["partial"][j] = ideal["partial"][j]
         /\ Moves("partial", r)
    <3>1. Moves("partial", r)
      BY <1>0, <2>2, <2>5, AppendMoves
    <3>2. partial' = [partial EXCEPT ![k] = new]
      BY <2>1
    <3> QED BY <2>5, <2>6, <2>7, <3>1, <3>2
  <2>12. new.lock.none <=> partial[k].lock.none
    BY <2>3, <2>4, <2>7
  <2>13. RacedInv /\ PartialInv /\ raced \subseteq raced' /\ r \in Requests /\ k \in Docs
    OBVIOUS
  <2> QED BY ONLY <1>1, <1>2, <2>10, <2>11, <2>12, <2>13, PartialWrites
<1>14. CASE CheckFinalLock(r)
  <2> DEFINE x == [req[r] EXCEPT !.at = "final"]
  <2>1. /\ req[r].at = "finallock" /\ partial' = partial /\ ideal' = ideal
        /\ Goto(r, x) \/ \E code \in {"428", "409", "400"} : Answer(r, code)
    BY <1>14 DEF CheckFinalLock, At, documentVars
  <2>2. x \in PartialLocals /\ x.at = "final"
    <3>1. req[r] \in [at : {"finallock", "final", "cleanup"}, doc : {"partial"} \X Docs,
                      p : Text, lock : Text]
      BY <2>1, PartialPlace DEF PartialPoints, PartialLocals
    <3> QED BY <3>1 DEF PartialLocals
  <2> HIDE DEF x
  <2>3. ASSUME Goto(r, x) PROVE PartialKnown(req'[r])
    <3>1. req'[r] = x
      BY <2>3, GotoIs
    <3> QED BY <2>2, <3>1 DEF PartialKnown
  <2>4. ASSUME NEW code \in {"428", "409", "400"}, Answer(r, code) PROVE PartialKnown(req'[r])
    <3>1. req'[r] = [at |-> "done", code |-> code]
      BY <2>4, AnswerIs
    <3> QED BY <3>1 DEF PartialKnown, PartialPoints
  <2> QED BY <1>1, <2>1, <2>3, <2>4, PartialReads
<1>15. CASE StoreFinal(r)
  <2> DEFINE x == [req[r] EXCEPT !.at = "cleanup"]
  <2>1. req[r].at = "final" /\ partial' = partial /\ ideal' = ideal /\ Goto(r, x)
    BY <1>15 DEF StoreFinal, At
  <2>2. x \in PartialLocals /\ x.at = "cleanup"
    BY <2>1, PartialPlace DEF PartialPoints, PartialLocals
  <2> HIDE DEF x
  <2>3. req'[r] = x
    BY <2>1, GotoIs
  <2>4. PartialKnown(req'[r])
    BY <2>2, <2>3 DEF PartialKnown
  <2> QED BY <1>1, <2>1, <2>4, PartialReads
<1>16. CASE CleanUp(r)
  <2> PICK k \in Docs : k = req[r].doc[2]
    BY <1>2, <1>16 DEF CleanUp, At, PartialPoints
  <2> DEFINE new == [partial[k] EXCEPT !.json = NoContent]
  <2>1. /\ req[r].at = "cleanup" /\ Answer(r, "200") /\ ideal' = ideal
        /\ partial' = [partial EXCEPT ![k].json = NoContent]
    BY <1>16 DEF CleanUp, At
  <2>2. /\ new \in [json : Text, lock : Text] /\ new.json = NoContent
        /\ new.lock = partial[k].lock /\ partial' = [partial EXCEPT ![k] = new]
    BY <1>0, <2>1, NewContents
  <2>3. req'[r] = [at |-> "done", code |-> "200"]
    BY <2>1, AnswerIs
  <2> HIDE DEF new
  <2>4. partial'[k] = new
    BY <1>0, <2>2
  <2>5. PartialDoc(k)'
    BY <1>3, <2>1, <2>2, <2>4, NewContents DEF PartialDoc
  <2>6. /\ req'[r].at = "done" /\ \A j \in Docs \ {k} : ideal'["partial"][j] = ideal["partial"][j]
        /\ Moves("partial", r)
    BY <2>1, <2>3, StillMoves
  <2>7. /\ new.lock.none <=> partial[k].lock.none
        /\ RacedInv /\ PartialInv /\ raced \subseteq raced' /\ r \in Requests /\ k \in Docs
    BY <2>2
  <2> QED BY ONLY <1>1, <1>2, <2>2, <2>5, <2>6, <2>7, PartialWrites
<1> QED BY <1>5, <1>6, <1>7, <1>8, <1>9, <1>10, <1>11, <1>12, <1>13, <1>14, <1>15, <1>16
        DEF PartialStep, SessionStep


(***************************************************************************)
(* Studio                                                                  *)
(***************************************************************************)

LEMMA StudioOpFields ==
  ASSUME NEW x \in StudioOps
  PROVE  /\ "at" \in DOMAIN x /\ x.at = "studio"
         /\ x.op \in {"put", "catalog"} => x.doc \in Tables \X Docs
         /\ x.op = "bootstrap" => x.doc \in {"project"} \X Docs
         /\ x.op \in {"revoke", "delete"} =>
              x \in [at : {"studio"}, op : {"issue", "revoke", "delete"}, token : Requests]
BY DEF StudioOps

\* What is known of a request that is about to touch a row.
RowsKnown(x) ==
  /\ x.at = "studio" => x \in StudioOps
  /\ x.at = "commit" =>
       /\ x \in Transactions
       /\ x.doc[1] \in x.insert \/ HasRow(x.doc[1], x.doc[2])
       /\ \A f \in x.insert \cap {"project", "mount"} :
            /\ x.parent \in Docs
            /\ \/ HasRow(ParentTable(f), x.parent)
               \/ ParentTable(f) \in x.insert /\ x.parent = x.doc[2]

\* A request that only reads the rows.
LEMMA RowsRead ==
  ASSUME NEW r \in Requests, RowsInv, \A s \in Requests \ {r} : req'[s] = req[s],
         rows' = rows, RowsKnown(req'[r])
  PROVE  RowsInv'
<1>1. \A f, k : HasRow(f, k)' <=> HasRow(f, k)
  BY DEF HasRow
<1>2. ASSUME NEW s \in Requests PROVE RowsKnown(req'[s])
  BY DEF RowsInv, RowsKnown
<1> HIDE DEF HasRow
<1>3. \A s \in Requests : RowsKnown(req[s])'
  BY <1>1, <1>2 DEF RowsKnown
<1> QED BY <1>1, <1>3 DEF RowsInv, RowsKnown

StudioSteps(r) == StudioRequest(r) \/ StudioContinue(r)

\* What the documents and the components see of the Studio.
StudioShape(r) ==
  /\ Turn(r, StudioPoints, {"revoke", "delete"})
  /\ UNCHANGED <<componentVars, partial, session, chat, canvas, memory, ideal>>

LEMMA StudioReads ==
  ASSUME NEW r \in Requests, Turn(r, StudioPoints, {"revoke", "delete"}),
         UNCHANGED <<componentVars, documentVars>>
  PROVE  StudioShape(r)
BY DEF StudioShape, documentVars

LEMMA StudioAnswer ==
  ASSUME NEW r \in Requests, NEW code, RequestsInv, req[r].at \in StudioPoints \cup {"idle"},
         Answer(r, code), code \notin {"registered"}
  PROVE  /\ Turn(r, StudioPoints, {"revoke", "delete"}) /\ RowsKnown(req'[r])
         /\ req'[r] = [at |-> "done", code |-> code]
<1>1. /\ Turn(r, StudioPoints, {"revoke", "delete"})
      /\ req'[r] = [at |-> "done", code |-> code]
  BY AnswerTurn DEF Remembered
<1> QED BY <1>1 DEF RowsKnown

LEMMA StudioGoto ==
  ASSUME NEW r \in Requests, NEW x, RequestsInv, req[r].at \in StudioPoints \cup {"idle"},
         Goto(r, x), "at" \in DOMAIN x, x.at \in StudioPoints
  PROVE  Turn(r, StudioPoints, {"revoke", "delete"}) /\ req'[r] = x
BY GotoTurn DEF StudioPoints

\* Steps that read the tables, and what they hand to the transaction.
LEMMA StudioRequestStep ==
  ASSUME NEW r \in Requests, RequestsInv, RowsInv, StudioRequest(r)
  PROVE  StudioShape(r) /\ RowsInv' /\ (req'[r].at = "done" => req'[r].code \notin Remembered)
         /\ req'[r].at # "endtoken"
<1>1. /\ req[r].at = "idle" /\ UNCHANGED <<componentVars, documentVars, studioVars>>
      /\ (\E next \in StudioOps : Goto(r, next)) \/ (\E code \in {"429", "403"} : Answer(r, code))
  BY DEF StudioRequest, At
<1>2. rows' = rows
  BY <1>1 DEF studioVars
<1>3. ASSUME NEW next \in StudioOps, Goto(r, next)
      PROVE  /\ Turn(r, StudioPoints, {"revoke", "delete"}) /\ RowsKnown(req'[r])
             /\ req'[r].at = "studio"
  <2>1. "at" \in DOMAIN next /\ next.at = "studio"
    BY StudioOpFields
  <2>2. Turn(r, StudioPoints, {"revoke", "delete"}) /\ req'[r] = next
    BY <1>1, <1>3, <2>1, StudioGoto DEF StudioPoints
  <2> QED BY <2>1, <2>2 DEF RowsKnown
<1>4. ASSUME NEW code \in {"429", "403"}, Answer(r, code)
      PROVE  /\ Turn(r, StudioPoints, {"revoke", "delete"}) /\ RowsKnown(req'[r])
             /\ req'[r].at = "done" /\ req'[r].code = code
  <2>1. /\ Turn(r, StudioPoints, {"revoke", "delete"}) /\ RowsKnown(req'[r])
        /\ req'[r] = [at |-> "done", code |-> code]
    BY <1>1, <1>4, StudioAnswer
  <2> QED BY <2>1
<1>5. Turn(r, StudioPoints, {"revoke", "delete"}) /\ RowsKnown(req'[r])
  BY <1>1, <1>3, <1>4
<1>6. RowsInv'
  BY <1>2, <1>5, RowsRead DEF Turn
<1> QED BY <1>1, <1>3, <1>4, <1>5, <1>6, StudioReads DEF Remembered

LEMMA ReadRowStep ==
  ASSUME NEW r \in Requests, RequestsInv, RowsInv, ReadRow(r)
  PROVE  StudioShape(r) /\ RowsInv' /\ (req'[r].at = "done" => req'[r].code \notin Remembered)
         /\ req'[r].at # "endtoken"
<1>1. PICK parent \in Docs :
        /\ Doing(r, {"put"}) /\ UNCHANGED <<componentVars, documentVars, studioVars>>
        /\ LET f == req[r].doc[1]  k == req[r].doc[2]
           IN  IF f # "workspace" /\ ~HasRow(ParentTable(f), parent)
               THEN Answer(r, "404")
               ELSE Goto(r, [at |-> "commit", doc |-> req[r].doc, parent |-> parent,
                             sets |-> IF f = "project" THEN {"name", "catalog"} ELSE {"name"},
                             insert |-> IF HasRow(f, k) THEN {} ELSE {f}])
  BY Zenon DEF ReadRow
<1> DEFINE f == req[r].doc[1]
           k == req[r].doc[2]
           missing == IF HasRow(f, k) THEN {} ELSE {f}
           sets == IF f = "project" THEN {"name", "catalog"} ELSE {"name"}
           x == [at |-> "commit", doc |-> req[r].doc, parent |-> parent, sets |-> sets,
                 insert |-> missing]
<1>2. rows' = rows /\ req[r].at = "studio" /\ req[r].op = "put"
  BY <1>1 DEF studioVars, Doing, At
<1>3. req[r].doc \in Tables \X Docs
  BY <1>2, StudioOpFields DEF RowsInv
<1>4. CASE f # "workspace" /\ ~HasRow(ParentTable(f), parent)
  <2>1. Answer(r, "404")
    BY <1>1, <1>4
  <2>2. /\ Turn(r, StudioPoints, {"revoke", "delete"}) /\ RowsKnown(req'[r])
        /\ req'[r] = [at |-> "done", code |-> "404"]
    BY <1>2, <2>1, StudioAnswer DEF StudioPoints
  <2>3. RowsInv'
    BY <1>2, <2>2, RowsRead DEF Turn
  <2> QED BY <1>1, <2>2, <2>3, StudioReads DEF Remembered
<1>5. CASE f = "workspace" \/ HasRow(ParentTable(f), parent)
  <2>1. Goto(r, x)
    BY <1>1, <1>5
  <2>2. /\ missing \in SUBSET Tables /\ sets \in SUBSET {"name", "catalog"} /\ (f \in missing \/ HasRow(f, k))
        /\ \A g \in missing \cap {"project", "mount"} : HasRow(ParentTable(g), parent)
    BY <1>3, <1>5
  <2> HIDE DEF missing, sets
  <2>3. /\ x \in Transactions
        /\ "at" \in DOMAIN x /\ x.at = "commit" /\ x.doc = req[r].doc /\ x.parent = parent
        /\ x.insert = missing
    BY <1>3, <2>2 DEF Transactions
  <2> HIDE DEF x
  <2>4. Turn(r, StudioPoints, {"revoke", "delete"}) /\ req'[r] = x
    BY <1>2, <2>1, <2>3, StudioGoto DEF StudioPoints
  <2>5. RowsKnown(req'[r])
    BY <2>2, <2>3, <2>4 DEF RowsKnown
  <2>6. RowsInv'
    BY <1>2, <2>4, <2>5, RowsRead DEF Turn
  <2> QED BY <1>1, <2>3, <2>4, <2>6, StudioReads
<1> QED BY <1>4, <1>5

LEMMA ReadCatalogStep ==
  ASSUME NEW r \in Requests, RequestsInv, RowsInv, ReadCatalog(r)
  PROVE  StudioShape(r) /\ RowsInv' /\ (req'[r].at = "done" => req'[r].code \notin Remembered)
         /\ req'[r].at # "endtoken"
<1> DEFINE x == [at |-> "commit", doc |-> req[r].doc, parent |-> NoLock, sets |-> {"catalog"},
             insert |-> {}]
<1>1. /\ req[r].at = "studio" /\ req[r].op = "catalog"
      /\ UNCHANGED <<componentVars, documentVars, studioVars>>
      /\ \/ HasRow(req[r].doc[1], req[r].doc[2]) /\ Goto(r, x)
         \/ Answer(r, "404")
  BY DEF ReadCatalog, Doing, At
<1>2. rows' = rows
  BY <1>1 DEF studioVars
<1>3. req[r].doc \in Tables \X Docs
  BY <1>1, StudioOpFields DEF RowsInv
<1>4. /\ x \in Transactions
      /\ "at" \in DOMAIN x /\ x.at = "commit" /\ x.doc = req[r].doc /\ x.insert = {}
  BY <1>3 DEF Transactions
<1> HIDE DEF x
<1>5. CASE HasRow(req[r].doc[1], req[r].doc[2]) /\ Goto(r, x)
  <2>1. Turn(r, StudioPoints, {"revoke", "delete"}) /\ req'[r] = x
    BY <1>1, <1>4, <1>5, StudioGoto DEF StudioPoints
  <2>2. RowsKnown(req'[r])
    BY <1>4, <1>5, <2>1 DEF RowsKnown
  <2>3. RowsInv'
    BY <1>2, <2>1, <2>2, RowsRead DEF Turn
  <2> QED BY <1>1, <1>4, <2>1, <2>3, StudioReads
<1>6. CASE Answer(r, "404")
  <2>1. /\ Turn(r, StudioPoints, {"revoke", "delete"}) /\ RowsKnown(req'[r])
        /\ req'[r] = [at |-> "done", code |-> "404"]
    BY <1>1, <1>6, StudioAnswer DEF StudioPoints
  <2>2. RowsInv'
    BY <1>2, <2>1, RowsRead DEF Turn
  <2> QED BY <1>1, <2>1, <2>2, StudioReads DEF Remembered
<1> QED BY <1>1, <1>5, <1>6

LEMMA ReadBootstrapStep ==
  ASSUME NEW r \in Requests, RequestsInv, RowsInv, ReadBootstrap(r)
  PROVE  StudioShape(r) /\ RowsInv' /\ (req'[r].at = "done" => req'[r].code \notin Remembered)
         /\ req'[r].at # "endtoken"
<1>1. /\ req[r].at = "studio" /\ req[r].op = "bootstrap"
      /\ UNCHANGED <<componentVars, documentVars, studioVars>>
  BY DEF ReadBootstrap, Doing, At
<1>2. rows' = rows
  BY <1>1 DEF studioVars
<1>3. req[r].doc \in {"project"} \X Docs
  BY <1>1, StudioOpFields DEF RowsInv
<1>4. PICK k \in Docs, d \in Tables \X Docs : d = req[r].doc /\ d = <<"project", k>>
  BY <1>3 DEF Tables
<1>5. PICK missing \in SUBSET Tables :
        /\ missing = {f \in {"workspace", "project"} : ~HasRow(f, k)}
        /\ Goto(r, [at |-> "commit", doc |-> d, parent |-> k, sets |-> {}, insert |-> missing])
  <2> DEFINE absent == {f \in {"workspace", "project"} : ~HasRow(f, k)}
  <2>1. absent \in SUBSET Tables
    BY DEF Tables
  <2>2. req[r].doc[2] = k
    BY <1>4
  <2>3. Goto(r, [at |-> "commit", doc |-> d, parent |-> k, sets |-> {}, insert |-> absent])
    BY <1>4, <2>2 DEF ReadBootstrap
  <2> QED BY <2>1, <2>3
<1>6. /\ "project" \in missing \/ HasRow("project", k)
      /\ \A f \in missing \cap {"project", "mount"} :
           HasRow(ParentTable(f), k) \/ ParentTable(f) \in missing
  BY <1>5 DEF ParentTable
<1> DEFINE x == [at |-> "commit", doc |-> d, parent |-> k, sets |-> {}, insert |-> missing]
<1>7. /\ x \in Transactions
      /\ "at" \in DOMAIN x /\ x.at = "commit" /\ x.doc = <<"project", k>> /\ x.parent = k
      /\ x.insert = missing
  BY ONLY <1>4 DEF Transactions
<1>8. Goto(r, x)
  BY <1>5
<1> HIDE DEF x
<1>9. Turn(r, StudioPoints, {"revoke", "delete"}) /\ req'[r] = x
  BY <1>1, <1>7, <1>8, StudioGoto DEF StudioPoints
<1>10. RowsKnown(req'[r])
  BY <1>6, <1>7, <1>9 DEF RowsKnown
<1>11. RowsInv'
  BY <1>2, <1>9, <1>10, RowsRead DEF Turn
<1> QED BY <1>1, <1>7, <1>9, <1>11, StudioReads

\* The transaction adds rows that are missing and updates a row that is there.
LEMMA CommitRowStep ==
  ASSUME NEW r \in Requests, RequestsInv, RowsInv, CommitRow(r)
  PROVE  StudioShape(r) /\ RowsInv' /\ (req'[r].at = "done" => req'[r].code \notin Remembered)
         /\ req'[r].at # "endtoken"
<1> DEFINE f == req[r].doc[1]
           k == req[r].doc[2]
           insert == req[r].insert
           row(g) == IF g \in insert THEN NewRow(r, g)
                     ELSE IF g = f THEN Updated(r, rows[g][k]) ELSE rows[g][k]
<1>1. /\ req[r].at = "commit"
      /\ UNCHANGED <<componentVars, documentVars>>
      /\ IF \E g \in insert : HasRow(g, k)
         THEN Answer(r, "500") /\ UNCHANGED rows
         ELSE /\ rows' = [g \in Tables |-> [rows[g] EXCEPT ![k] = row(g)]]
              /\ Answer(r, "201")
  BY DEF CommitRow, At
<1>2. /\ req[r] \in Transactions
      /\ f \in insert \/ HasRow(f, k)
      /\ \A g \in insert \cap {"project", "mount"} :
           /\ req[r].parent \in Docs
           /\ HasRow(ParentTable(g), req[r].parent) \/ (ParentTable(g) \in insert /\ req[r].parent = k)
  BY <1>1 DEF RowsInv
<1>3. f \in Tables /\ k \in Docs /\ insert \in SUBSET Tables /\ req[r].parent \in Docs \cup {NoLock}
  BY <1>2 DEF Transactions
<1>4. PICK code \in {"500", "201"} : Answer(r, code)
  BY <1>1
<1>5. /\ Turn(r, StudioPoints, {"revoke", "delete"}) /\ RowsKnown(req'[r])
      /\ req'[r] = [at |-> "done", code |-> code]
  BY <1>1, <1>4, StudioAnswer DEF StudioPoints
<1>6. StudioShape(r)
  BY <1>1, <1>5, StudioReads
<1>7. CASE \E g \in insert : HasRow(g, k)
  <2>1. rows' = rows
    BY <1>1, <1>7
  <2>2. RowsInv'
    BY <1>5, <2>1, RowsRead DEF Turn
  <2> QED BY <1>5, <1>6, <2>2 DEF Remembered
<1>8. CASE \A g \in insert : ~HasRow(g, k)
  <2>1. rows' = [g \in Tables |-> [rows[g] EXCEPT ![k] = row(g)]]
    BY <1>1, <1>8
  <2>2. rows \in [Tables -> [Docs -> Row]]
    BY DEF RowsInv
  <2>3. ASSUME NEW g \in Tables
        PROVE  /\ row(g) \in Row
               /\ g \in insert => row(g) # NoRow /\ (g # "workspace" => row(g).parent = req[r].parent)
               /\ rows[g][k] # NoRow => row(g) # NoRow
               /\ g \notin insert => row(g).parent = rows[g][k].parent
    <3>1. CASE g \in insert
      <4>1. row(g) = NewRow(r, g) /\ NewRow(r, g) \in Row /\ NewRow(r, g) # NoRow
        BY <1>3, <3>1, RequestsAssumption DEF NewRow, Row, NoRow
      <4> QED BY <3>1, <4>1 DEF NewRow
    <3>2. CASE g \notin insert /\ g = f
      <4>1. row(g) = Updated(r, rows[g][k]) /\ rows[g][k] \in Row
        BY <1>3, <2>2, <3>2
      <4>2. Updated(r, rows[g][k]) \in Row /\ Updated(r, rows[g][k]).parent = rows[g][k].parent
        BY <4>1 DEF Updated, Row
      <4>3. rows[g][k] # NoRow => Updated(r, rows[g][k]) # NoRow
        BY <4>1, RequestsAssumption DEF Updated, Row, NoRow
      <4> QED BY <3>2, <4>1, <4>2, <4>3
    <3>3. CASE g \notin insert /\ g # f
      BY <1>3, <2>2, <3>3
    <3> QED BY <3>1, <3>2, <3>3
  <2> HIDE DEF row
  <2>4. /\ \A g \in Tables : rows'[g][k] = row(g) /\ \A j \in Docs \ {k} : rows'[g][j] = rows[g][j]
        /\ rows' \in [Tables -> [Docs -> Row]]
    BY <1>3, <2>1, <2>2, <2>3
  \* A row that was there is there, under its parent.
  <2>5. \A g \in Tables, j \in Docs :
          rows[g][j] # NoRow => rows'[g][j] # NoRow /\ rows'[g][j].parent = rows[g][j].parent
    <3> SUFFICES ASSUME NEW g \in Tables, NEW j \in Docs, rows[g][j] # NoRow
                 PROVE  rows'[g][j] # NoRow /\ rows'[g][j].parent = rows[g][j].parent
      OBVIOUS
    <3>1. CASE j = k
      <4>1. g \notin insert
        BY <1>8, <3>1 DEF HasRow
      <4> QED BY <2>3, <2>4, <3>1, <4>1
    <3>2. CASE j # k
      BY <2>4, <3>2
    <3> QED BY <3>1, <3>2
  \* A row that was not there has been inserted.
  <2>6. \A g \in Tables, j \in Docs :
          rows'[g][j] # NoRow => rows[g][j] # NoRow \/ (j = k /\ g \in insert)
    <3> SUFFICES ASSUME NEW g \in Tables, NEW j \in Docs, rows'[g][j] # NoRow, rows[g][j] = NoRow
                 PROVE  j = k /\ g \in insert
      OBVIOUS
    <3>1. j = k
      BY <2>4
    <3>2. g = f => g \in insert
      BY <1>2, <3>1 DEF HasRow
    <3> QED BY <2>4, <3>1, <3>2 DEF row
  <2>7. \A j \in Docs, g \in {"project", "mount"} :
          HasRow(g, j)' => rows'[g][j].parent \in Docs /\ HasRow(ParentTable(g), rows[g][j].parent)'
    <3> SUFFICES ASSUME NEW j \in Docs, NEW g \in {"project", "mount"}, HasRow(g, j)'
                 PROVE  rows'[g][j].parent \in Docs /\ HasRow(ParentTable(g), rows[g][j].parent)'
      OBVIOUS
    <3> DEFINE f2 == ParentTable(g)
    <3>1. g \in Tables /\ f2 \in Tables /\ g # "workspace"
      BY DEF Tables, ParentTable
    <3>2. CASE j = k /\ g \in insert
      <4>1. /\ rows'[g][j].parent = req[r].parent /\ req[r].parent \in Docs
            /\ HasRow(f2, req[r].parent) \/ (f2 \in insert /\ req[r].parent = k)
        BY <1>2, <2>3, <2>4, <3>1, <3>2
      <4>2. PICK p \in Docs : p = req[r].parent
        BY <4>1
      <4>3. CASE HasRow(f2, p)
        BY <2>5, <3>1, <4>1, <4>2, <4>3 DEF HasRow
      <4>4. CASE f2 \in insert /\ p = k
        <5>1. rows'[f2][k] # NoRow
          BY <2>3, <2>4, <3>1, <4>4
        <5> QED BY <4>1, <4>2, <4>4, <5>1 DEF HasRow
      <4> QED BY <4>1, <4>2, <4>3, <4>4
    <3>3. CASE ~(j = k /\ g \in insert)
      <4>1. rows[g][j] # NoRow
        BY <2>6, <3>1, <3>3 DEF HasRow
      <4>2. rows'[g][j].parent = rows[g][j].parent
        BY <2>5, <3>1, <4>1
      <4>3. rows[g][j].parent \in Docs /\ rows[f2][rows[g][j].parent] # NoRow
        BY <4>1 DEF RowsInv, HasRow
      <4>4. rows'[f2][rows[g][j].parent] # NoRow
        BY <2>5, <3>1, <4>3
      <4> QED BY <4>2, <4>3, <4>4 DEF HasRow
    <3> QED BY <3>2, <3>3
  <2>8. ASSUME NEW s \in Requests PROVE RowsKnown(req[s])'
    <3>1. CASE s = r
      BY <1>5, <3>1 DEF RowsKnown
    <3>2. CASE s # r
      <4>1. req'[s] = req[s]
        BY <1>5, <3>2 DEF Turn
      <4>2. RowsKnown(req[s])
        BY DEF RowsInv, RowsKnown
      <4>3. \A g \in Tables, j \in Docs : HasRow(g, j) => HasRow(g, j)'
        BY <2>5 DEF HasRow
      <4>4. CASE req[s].at = "commit"
        <5>1. req[s].doc[1] \in Tables /\ req[s].doc[2] \in Docs
          BY <4>2, <4>4 DEF RowsKnown, Transactions
        <5>2. \A g \in {"project", "mount"} : ParentTable(g) \in Tables
          BY DEF ParentTable, Tables
        <5> HIDE DEF HasRow
        <5> QED BY <4>1, <4>2, <4>3, <4>4, <5>1, <5>2 DEF RowsKnown
      <4>5. CASE req[s].at # "commit"
        BY <4>1, <4>2, <4>5 DEF RowsKnown
      <4> QED BY <4>4, <4>5
    <3> QED BY <3>1, <3>2
  <2>9. RowsInv'
    BY <2>4, <2>7, <2>8 DEF RowsInv, RowsKnown
  <2> QED BY <1>5, <1>6, <2>9 DEF Remembered
<1> QED BY <1>7, <1>8


\* Steps that touch no row.
LEMMA StudioRestStep ==
  ASSUME NEW r \in Requests, RequestsInv, RowsInv,
         \/ ResolveWorkflow(r) \/ ListWorkflow(r) \/ IssueToken(r)
         \/ StoreAsset(r) \/ FetchAsset(r) \/ DeleteAsset(r)
  PROVE  StudioShape(r) /\ RowsInv' /\ (req'[r].at = "done" => req'[r].code \notin Remembered)
         /\ req'[r].at # "endtoken"
<1> DEFINE codes == {"404", "refused", "201", "413", "stored", "200"}
           x == [req[r] EXCEPT !.at = "listing"]
<1>1. /\ req[r].at \in {"studio", "listing"} /\ UNCHANGED <<componentVars, documentVars, rows>>
      /\ (\E code \in codes : Answer(r, code)) \/ Goto(r, x)
  BY DEF ResolveWorkflow, ListWorkflow, IssueToken, StoreAsset, FetchAsset, DeleteAsset, Doing, At,
         studioVars
<1>2. "at" \in DOMAIN x /\ x.at = "listing"
  BY DEF RequestsInv
<1> HIDE DEF x
<1>3. ASSUME NEW code \in codes, Answer(r, code)
      PROVE  /\ Turn(r, StudioPoints, {"revoke", "delete"}) /\ RowsKnown(req'[r])
             /\ req'[r].at # "endtoken" /\ req'[r].code \notin Remembered
  <2>1. /\ Turn(r, StudioPoints, {"revoke", "delete"}) /\ RowsKnown(req'[r])
        /\ req'[r] = [at |-> "done", code |-> code]
    BY <1>1, <1>3, StudioAnswer DEF StudioPoints
  <2> QED BY <2>1 DEF Remembered
<1>4. ASSUME Goto(r, x)
      PROVE  /\ Turn(r, StudioPoints, {"revoke", "delete"}) /\ RowsKnown(req'[r])
             /\ req'[r].at = "listing"
  <2>1. Turn(r, StudioPoints, {"revoke", "delete"}) /\ req'[r] = x
    BY <1>1, <1>2, <1>4, StudioGoto DEF StudioPoints
  <2> QED BY <1>2, <2>1 DEF RowsKnown
<1>5. /\ Turn(r, StudioPoints, {"revoke", "delete"}) /\ RowsKnown(req'[r])
      /\ req'[r].at # "endtoken" /\ (req'[r].at = "done" => req'[r].code \notin Remembered)
  BY <1>1, <1>3, <1>4
<1>6. StudioShape(r)
  BY <1>1, <1>5, StudioReads
<1>7. RowsInv'
  BY <1>1, <1>5, <1>6, RowsRead DEF Turn
<1> QED BY <1>5, <1>6, <1>7

\* The token that a request is about to end is there; nobody is told of an end
\* before.
LEMMA ReadTokenStep ==
  ASSUME NEW r \in Requests, RequestsInv, RowsInv, TokensInv, ReadToken(r)
  PROVE  StudioShape(r) /\ RowsInv' /\ TokensInv'
<1> DEFINE t == req[r].token
           x == [req[r] EXCEPT !.at = "endtoken"]
<1>1. /\ req[r].at = "studio" /\ req[r].op \in {"revoke", "delete"}
      /\ UNCHANGED <<componentVars, documentVars>> /\ rows' = rows /\ tokens' = tokens
      /\ \/ Answer(r, "404")
         \/ tokens[t] # "none" /\ Goto(r, x)
  BY DEF ReadToken, Doing, At, studioVars
<1>2. req[r] \in [at : {"studio"}, op : {"issue", "revoke", "delete"}, token : Requests]
  BY <1>1, StudioOpFields DEF RowsInv
<1>3. /\ x \in [at : {"endtoken"}, op : {"revoke", "delete"}, token : Requests]
      /\ "at" \in DOMAIN x /\ x.at = "endtoken" /\ x.token = t
  BY <1>1, <1>2
<1> HIDE DEF x
<1>4. CASE Answer(r, "404")
  <2>1. /\ Turn(r, StudioPoints, {"revoke", "delete"}) /\ RowsKnown(req'[r])
        /\ req'[r] = [at |-> "done", code |-> "404"]
    BY <1>1, <1>4, StudioAnswer DEF StudioPoints
  <2>2. RowsInv'
    BY <1>1, <1>2, <2>1, RowsRead DEF Turn
  <2>3. \A s \in Requests : s = r \/ req'[s] = req[s]
    BY <2>1 DEF Turn
  <2>4. TokensInv'
    BY <1>1, <2>1, <2>3, TokensFrame DEF Left, Unanswered
  <2> QED BY <1>1, <2>1, <2>2, <2>4, StudioReads
<1>5. CASE tokens[t] # "none" /\ Goto(r, x)
  <2>1. Turn(r, StudioPoints, {"revoke", "delete"}) /\ req'[r] = x
    BY <1>1, <1>3, <1>5, StudioGoto DEF StudioPoints
  <2>2. RowsInv'
    BY <1>1, <1>2, <1>3, <2>1, RowsRead DEF Turn, RowsKnown
  <2>3. \A s \in Requests : s = r \/ req'[s] = req[s]
    BY <2>1 DEF Turn
  <2>4. TokensInv'
    BY <1>1, <1>3, <1>5, <2>1, <2>3 DEF TokensInv, Answered
  <2> QED BY <1>1, <2>1, <2>2, <2>4, StudioReads
<1> QED BY <1>1, <1>4, <1>5

LEMMA EndTokenStep ==
  ASSUME NEW r \in Requests, RequestsInv, RowsInv, TokensInv, EndToken(r)
  PROVE  StudioShape(r) /\ RowsInv' /\ TokensInv'
<1> DEFINE t == req[r].token
           x == [at |-> "done", code |-> req[r].op, token |-> t]
<1>1. /\ req[r].at = "endtoken"
      /\ UNCHANGED <<componentVars, documentVars>> /\ rows' = rows
      /\ \/ tokens' = tokens /\ Answer(r, "500")
         \/ /\ tokens[t] # "deleted"
            /\ tokens' = [tokens EXCEPT ![t] = IF req[r].op = "revoke" THEN "revoked" ELSE "deleted"]
            /\ Goto(r, x)
  BY DEF EndToken, At
<1>2. /\ req[r].op \in {"revoke", "delete"} /\ t \in Requests /\ tokens[t] # "none"
  BY <1>1 DEF TokensInv
<1>3. CASE tokens' = tokens /\ Answer(r, "500")
  <2>1. /\ Turn(r, StudioPoints, {"revoke", "delete"}) /\ RowsKnown(req'[r])
        /\ req'[r] = [at |-> "done", code |-> "500"]
    BY <1>1, <1>3, StudioAnswer DEF StudioPoints
  <2>2. RowsInv'
    BY <1>1, <1>2, <2>1, RowsRead DEF Turn
  <2>3. \A s \in Requests : s = r \/ req'[s] = req[s]
    BY <2>1 DEF Turn
  <2>4. TokensInv'
    BY <1>1, <1>3, <2>1, <2>3, TokensFrame DEF Left, Unanswered
  <2> QED BY <1>1, <2>1, <2>2, <2>4, StudioReads
<1>4. CASE /\ tokens[t] # "deleted"
           /\ tokens' = [tokens EXCEPT ![t] = IF req[r].op = "revoke" THEN "revoked" ELSE "deleted"]
           /\ Goto(r, x)
  <2>1. /\ "at" \in DOMAIN x /\ x.at = "done" /\ x.code = req[r].op /\ x.token = t
        /\ x.code \notin Remembered \ {"revoke", "delete"}
    BY <1>2
  <2> HIDE DEF x
  <2>2. Turn(r, StudioPoints, {"revoke", "delete"}) /\ req'[r] = x
    BY <1>1, <1>4, <2>1, GotoTurn DEF StudioPoints
  <2>3. RowsInv'
    BY <1>1, <1>2, <2>1, <2>2, RowsRead DEF Turn, RowsKnown
  <2>4. \A s \in Requests : s = r \/ req'[s] = req[s]
    BY <2>2 DEF Turn
  <2>5. /\ tokens' \in [Requests -> {"none", "live", "revoked", "deleted"}]
        /\ tokens'[t] = IF req[r].op = "revoke" THEN "revoked" ELSE "deleted"
        /\ \A s \in Requests \ {t} : tokens'[s] = tokens[s]
    BY <1>2, <1>4 DEF TokensInv
  <2>6. ASSUME NEW s \in Requests, s # r
        PROVE  /\ tokens'[s] # "none" => req'[s].at = "done"
               /\ req'[s].at = "endtoken" =>
                    /\ req'[s] \in [at : {"endtoken"}, op : {"revoke", "delete"}, token : Requests]
                    /\ tokens'[req'[s].token] # "none"
               /\ Answered(s, "delete")' =>
                    req'[s].token \in Requests /\ tokens'[req'[s].token] = "deleted"
               /\ Answered(s, "revoke")' =>
                    req'[s].token \in Requests /\ tokens'[req'[s].token] \in {"revoked", "deleted"}
    BY <1>2, <1>4, <2>4, <2>5, <2>6 DEF TokensInv, Answered
  <2>7. /\ tokens'[r] # "none" => req'[r].at = "done"
        /\ req'[r].at # "endtoken"
        /\ Answered(r, "delete")' =>
             req'[r].token \in Requests /\ tokens'[req'[r].token] = "deleted"
        /\ Answered(r, "revoke")' =>
             req'[r].token \in Requests /\ tokens'[req'[r].token] \in {"revoked", "deleted"}
    BY <1>2, <2>1, <2>2, <2>5 DEF Answered
  <2>8. TokensInv'
    BY <2>5, <2>6, <2>7 DEF TokensInv
  <2> QED BY <1>1, <2>2, <2>3, <2>8, StudioReads
<1> QED BY <1>1, <1>3, <1>4

\* A token is issued once, by a request that nobody has answered.
LEMMA IssueTokenKept ==
  ASSUME NEW r \in Requests, TokensInv, IssueToken(r), Turn(r, StudioPoints, {"revoke", "delete"}),
         req'[r].at = "done" => req'[r].code \notin Remembered, req'[r].at # "endtoken",
         RequestsInv
  PROVE  TokensInv'
<1>1. /\ tokens' = [tokens EXCEPT ![r] = "live"] /\ req[r].at = "studio"
      /\ req'[r] = [at |-> "done", code |-> "201"]
  BY AnswerIs DEF IssueToken, Doing, At
<1>2. /\ \A s \in Requests : s = r \/ req'[s] = req[s]
      /\ \A s \in Requests : req[s].at = "endtoken" \/ Answered(s, "delete") \/ Answered(s, "revoke") =>
           req[s].token \in Requests /\ req[s].token # r
  BY <1>1 DEF Turn, TokensInv, Answered
<1> QED BY <1>1, <1>2 DEF TokensInv, Answered

\* A content that is stored again stays one row.
LEMMA UpsertedKeepsAssets ==
  ASSUME AssetsInv, NEW u, NEW x
  PROVE  /\ \A a \in Upserted(u, x) : DOMAIN a = {"user", "text", "created"}
         /\ \A a, b \in Upserted(u, x) : a.text = b.text => a = b
<1>1. CASE \E a \in assets : a.text = x
  <2> DEFINE moved(a) == IF a.text = x THEN [a EXCEPT !.user = u] ELSE a
  <2>1. Upserted(u, x) = {moved(a) : a \in assets}
    BY <1>1 DEF Upserted
  <2>2. \A a \in assets : DOMAIN moved(a) = {"user", "text", "created"} /\ moved(a).text = a.text
    BY DEF AssetsInv
  <2>3. \A a, b \in assets : a.text = b.text => a = b
    BY DEF AssetsInv
  <2> HIDE DEF moved
  <2> QED BY <2>1, <2>2, <2>3
<1>2. CASE ~\E a \in assets : a.text = x
  <2> DEFINE new == [user |-> u, text |-> x,
                     created |-> Max({0} \cup {a.created : a \in assets}) + 1]
  <2>1. Upserted(u, x) = assets \cup {new}
    BY <1>2 DEF Upserted
  <2>2. DOMAIN new = {"user", "text", "created"} /\ new.text = x
    OBVIOUS
  <2> HIDE DEF new
  <2> QED BY <1>2, <2>1, <2>2 DEF AssetsInv
<1> QED BY <1>1, <1>2

LEMMA StudioKept ==
  ASSUME NEW r \in Requests, RequestsInv, StudioInv, StudioSteps(r)
  PROVE  StudioShape(r) /\ StudioInv'
<1> USE DEF StudioInv
<1>1. ASSUME StudioShape(r), req'[r].at = "done" => req'[r].code \notin Remembered,
             req'[r].at # "endtoken", tokens' = tokens
      PROVE  TokensInv'
  <2>1. \A s \in Requests : s = r \/ req'[s] = req[s]
    BY <1>1 DEF StudioShape, Turn
  <2>2. req[r].at # "done"
    BY <1>1 DEF StudioShape, Turn, StudioPoints
  <2> QED BY <1>1, <2>1, <2>2, TokensFrame DEF Left, Unanswered, Remembered
<1>2. CASE StudioRequest(r) \/ ReadRow(r) \/ ReadCatalog(r) \/ ReadBootstrap(r) \/ CommitRow(r)
  <2>1. tokens' = tokens /\ assets' = assets
    BY <1>2 DEF StudioRequest, ReadRow, ReadCatalog, ReadBootstrap, CommitRow, studioVars
  <2>2. StudioShape(r) /\ RowsInv' /\ (req'[r].at = "done" => req'[r].code \notin Remembered)
         /\ req'[r].at # "endtoken"
    BY <1>2, StudioRequestStep, ReadRowStep, ReadCatalogStep, ReadBootstrapStep, CommitRowStep
  <2> QED BY <1>1, <2>1, <2>2, AssetsFrame
<1>3. CASE \/ ResolveWorkflow(r) \/ ListWorkflow(r) \/ IssueToken(r)
           \/ StoreAsset(r) \/ FetchAsset(r) \/ DeleteAsset(r)
  <2>1. StudioShape(r) /\ RowsInv' /\ (req'[r].at = "done" => req'[r].code \notin Remembered)
         /\ req'[r].at # "endtoken"
    BY <1>3, StudioRestStep
  <2>2. IssueToken(r) => TokensInv'
    BY <2>1, IssueTokenKept DEF StudioShape
  <2>3. ~IssueToken(r) => tokens' = tokens
    BY <1>3 DEF ResolveWorkflow, ListWorkflow, StoreAsset, FetchAsset, DeleteAsset, studioVars
  <2>4. AssetsInv'
    <3>1. CASE StoreAsset(r)
      <4>1. assets' = assets \/ assets' = Upserted(req[r].user, req[r].text)
        BY <3>1 DEF StoreAsset
      <4> QED BY <4>1, UpsertedKeepsAssets DEF AssetsInv
    <3>2. CASE DeleteAsset(r)
      <4>1. assets' \subseteq assets
        BY <3>2 DEF DeleteAsset
      <4> QED BY <4>1 DEF AssetsInv
    <3>3. CASE ResolveWorkflow(r) \/ ListWorkflow(r) \/ IssueToken(r) \/ FetchAsset(r)
      <4>1. assets' = assets
        BY <3>3 DEF ResolveWorkflow, ListWorkflow, IssueToken, FetchAsset, studioVars
      <4> QED BY <4>1, AssetsFrame
    <3> QED BY <1>3, <3>1, <3>2, <3>3
  <2> QED BY <1>1, <2>1, <2>2, <2>3, <2>4
<1>4. CASE ReadToken(r) \/ EndToken(r)
  <2>1. assets' = assets
    BY <1>4 DEF ReadToken, EndToken, studioVars
  <2> QED BY <1>4, <2>1, ReadTokenStep, EndTokenStep, AssetsFrame
<1> QED BY <1>2, <1>3, <1>4 DEF StudioSteps, StudioContinue

(***************************************************************************)
(* The whole server                                                        *)
(***************************************************************************)

\* What a step of one area leaves to the others.
LEMMA Frames ==
  ASSUME NEW r \in Requests, IInv, NEW points, NEW codes, Turn(r, points, codes), area' = area,
         raced' = raced \cup RacedNow, ideal' \in Edited, points \cap {"idle", "done"} = {}
  PROVE  /\ RequestsInv' /\ RacedInv'
         /\ /\ points \cap ComponentPoints = {} /\ "registered" \notin codes
            /\ UNCHANGED componentVars
            => ComponentsInv' /\ ToolsKept
         /\ /\ points \cap (PartialPoints \cup {"session"}) = {} /\ partial' = partial
            /\ ideal'["partial"] = ideal["partial"]
            => PartialInv'
         /\ /\ points \cap SessionPoints = {} /\ session' = session
            /\ ideal'["session"] = ideal["session"]
            => SessionInv'
         /\ /\ points \cap ChatPoints = {} /\ chat' = chat /\ ideal'["chat"] = ideal["chat"]
            => ChatInv'
         /\ /\ points \cap CanvasPoints = {} /\ canvas' = canvas /\ memory' = memory
            /\ ideal'["canvas"] = ideal["canvas"]
            => CanvasInv'
         /\ /\ points \cap StudioPoints = {} /\ codes \cap {"revoke", "delete"} = {}
            /\ UNCHANGED studioVars
            => StudioInv'
<1>1. /\ RequestsInv /\ ComponentsInv /\ RacedInv /\ PartialInv /\ SessionInv /\ ChatInv /\ CanvasInv
      /\ RowsInv /\ TokensInv /\ AssetsInv
  BY DEF IInv, DocumentsInv, StudioInv
<1>2. RequestsInv' /\ raced \subseteq raced'
  BY <1>1, TurnRequests
<1>3. RacedInv'
  BY <1>2, RacedStep DEF Edited
<1>4. ASSUME NEW other, points \cap other = {}, "done" \notin other PROVE Left(other)
  BY <1>4 DEF Turn, Left
<1>5. ASSUME NEW other, codes \cap other = {}, other \subseteq Remembered PROVE Unanswered(other)
  BY <1>5 DEF Turn, Unanswered
<1>6. \A s \in Requests : req[s].at = "done" => req'[s] = req[s]
  BY TurnKeepsDone
<1>7. ASSUME points \cap ComponentPoints = {}, "registered" \notin codes, UNCHANGED componentVars
      PROVE  ComponentsInv' /\ ToolsKept
  <2>1. Left(ComponentPoints \cup {"idle"})
    BY <1>4, <1>7 DEF ComponentPoints
  <2>2. Unanswered({"registered"})
    BY <1>5, <1>7 DEF Remembered
  <2> QED BY <1>1, <1>7, <2>1, <2>2, ComponentsFrame DEF ToolsKept, componentVars
<1>8. ASSUME points \cap (PartialPoints \cup {"session"}) = {}, partial' = partial,
             ideal'["partial"] = ideal["partial"]
      PROVE  PartialInv'
  <2>1. Left(PartialPoints \cup {"session"})
    BY <1>4, <1>8 DEF PartialPoints
  <2> QED BY <1>1, <1>2, <1>8, <2>1, PartialFrame
<1>9. ASSUME points \cap SessionPoints = {}, session' = session,
             ideal'["session"] = ideal["session"]
      PROVE  SessionInv'
  <2>1. Left(SessionPoints)
    BY <1>4, <1>9 DEF SessionPoints
  <2> QED BY <1>1, <1>2, <1>9, <2>1, SessionFrame
<1>10. ASSUME points \cap ChatPoints = {}, chat' = chat, ideal'["chat"] = ideal["chat"]
       PROVE  ChatInv'
  <2>1. Left(ChatPoints)
    BY <1>4, <1>10 DEF ChatPoints
  <2> QED BY <1>1, <1>2, <1>10, <2>1, ChatFrame
<1>11. ASSUME points \cap CanvasPoints = {}, canvas' = canvas, memory' = memory,
              ideal'["canvas"] = ideal["canvas"]
       PROVE  CanvasInv'
  <2>1. Left(CanvasPoints)
    BY <1>4, <1>11 DEF CanvasPoints
  <2> QED BY <1>1, <1>2, <1>11, <2>1, CanvasFrame
<1>12. ASSUME points \cap StudioPoints = {}, codes \cap {"revoke", "delete"} = {},
              UNCHANGED studioVars
       PROVE  StudioInv'
  <2>1. Left({"studio", "commit"}) /\ Left({"endtoken"})
    BY <1>4, <1>12 DEF StudioPoints
  <2>2. Unanswered({"revoke", "delete"})
    BY <1>5, <1>12 DEF Remembered
  <2>3. rows' = rows /\ tokens' = tokens /\ assets' = assets
    BY <1>12 DEF studioVars
  <2> QED BY <1>1, <1>6, <1>12, <2>1, <2>2, <2>3, RowsFrame, TokensFrame, AssetsFrame DEF StudioInv
<1> QED BY <1>2, <1>3, <1>7, <1>8, <1>9, <1>10, <1>11, <1>12

\* Requests that touch neither a component nor an edit.
DraftStep(r) ==
  \/ PostBlueprint(r) \/ GetBlueprint(r) \/ GetVisualization(r)
  \/ BeginPutDraft(r) \/ WriteDraft(r) \/ DeleteDraft(r) \/ DeleteVersion(r)
RunStep(r) == RunsBegin(r) \/ RunsContinue(r)

LEMMA DraftShape ==
  ASSUME NEW r \in Requests, RequestsInv, DraftStep(r)
  PROVE  Turn(r, DraftPoints, {})
         /\ UNCHANGED <<componentVars, partial, session, chat, canvas, memory, ideal>>
<1>1. UNCHANGED <<componentVars, partial, session, chat, canvas, memory, ideal>>
  BY DEF DraftStep, PostBlueprint, GetBlueprint, GetVisualization, BeginPutDraft, WriteDraft,
         DeleteDraft, DeleteVersion, documentVars
<1>2. ASSUME NEW code, code \notin Remembered, Answer(r, code), req[r].at \in DraftPoints \cup {"idle"}
      PROVE  Turn(r, DraftPoints, {})
  BY <1>2, AnswerTurn
<1>3. ASSUME NEW x, Goto(r, x), req[r].at = "idle", "at" \in DOMAIN x, x.at \in DraftPoints
      PROVE  Turn(r, DraftPoints, {})
  BY <1>3, GotoTurn DEF DraftPoints
<1>4. CASE PostBlueprint(r) \/ GetBlueprint(r) \/ GetVisualization(r) \/ WriteDraft(r) \/ DeleteVersion(r)
  <2>1. /\ req[r].at \in DraftPoints \cup {"idle"}
        /\ \E code \in {"201", "400", "200", "404", "501"} : Answer(r, code)
    BY <1>4 DEF PostBlueprint, GetBlueprint, GetVisualization, WriteDraft, DeleteVersion, At,
                DraftPoints
  <2> QED BY <1>1, <1>2, <2>1 DEF Remembered
<1>5. CASE BeginPutDraft(r)
  <2>1. PICK k \in Docs, match \in {"none", "current", "stale"} :
          /\ req[r].at = "idle"
          /\ IF match = "stale" THEN Answer(r, "409")
             ELSE Goto(r, [at |-> "draft", doc |-> <<"draft", k>>, version |-> draft[k].version])
    BY <1>5 DEF BeginPutDraft, At
  <2>2. CASE match = "stale"
    BY <1>1, <1>2, <2>1, <2>2 DEF Remembered
  <2>3. CASE match # "stale"
    BY <1>1, <1>3, <2>1, <2>3 DEF DraftPoints
  <2> QED BY <2>2, <2>3
<1>6. CASE DeleteDraft(r)
  <2>1. PICK k \in Docs :
          req[r].at = "idle" /\ Goto(r, [at |-> "undraft", doc |-> <<"draft", k>>])
    BY <1>6 DEF DeleteDraft, At
  <2> QED BY <1>1, <1>3, <2>1 DEF DraftPoints
<1> QED BY <1>1, <1>4, <1>5, <1>6 DEF DraftStep

LEMMA RunShape ==
  ASSUME NEW r \in Requests, RequestsInv, RunStep(r)
  PROVE  Turn(r, RunPoints, {}) /\ UNCHANGED componentVars
<1>1. UNCHANGED componentVars
  BY DEF RunStep, RunsBegin, RunsContinue, Initialize, RpcRefused, ListTools, ReadResource,
         ReadPrompt, CallTool, StartRun, GetResult, Subscribe, InspectWorkflow, RunEnds, PublishRun,
         PublishFails, Deliver
<1> DEFINE codes == {"result", "error", "empty", "400", "402", "404", "202", "200", "finished"}
<1>2. ASSUME NEW code \in codes, Answer(r, code), req[r].at \in RunPoints \cup {"idle"}
      PROVE  Turn(r, RunPoints, {})
  BY <1>2, AnswerTurn DEF Remembered
<1>3. ASSUME NEW x, Goto(r, x), req[r].at = "idle", "at" \in DOMAIN x, x.at \in RunPoints
      PROVE  Turn(r, RunPoints, {})
  BY <1>3, GotoTurn DEF RunPoints
<1>4. CASE \/ Initialize(r) \/ RpcRefused(r) \/ ListTools(r) \/ ReadResource(r) \/ ReadPrompt(r)
           \/ GetResult(r) \/ InspectWorkflow(r) \/ PublishRun(r) \/ PublishFails(r) \/ Deliver(r)
  <2>1. /\ req[r].at \in RunPoints \cup {"idle"}
        /\ \E code \in codes : Answer(r, code)
    BY <1>4 DEF Initialize, RpcRefused, ListTools, ReadResource, ReadPrompt, GetResult,
                InspectWorkflow, PublishRun, PublishFails, Deliver, At, RunPoints, Completion
  <2> QED BY <1>1, <1>2, <2>1
<1>5. CASE CallTool(r) \/ StartRun(r)
  <2>1. /\ req[r].at = "idle"
        /\ \/ \E code \in codes : Answer(r, code)
           \/ \E call \in BOOLEAN : Goto(r, [at |-> "running", call |-> call])
    BY <1>5 DEF CallTool, StartRun, At
  <2>2. ASSUME NEW call \in BOOLEAN, Goto(r, [at |-> "running", call |-> call])
        PROVE  Turn(r, RunPoints, {})
    BY <1>3, <2>1, <2>2 DEF RunPoints
  <2> QED BY <1>1, <1>2, <2>1, <2>2
<1>6. CASE Subscribe(r)
  <2>1. /\ req[r].at = "idle"
        /\ \/ Answer(r, "404")
           \/ \E run \in Requests : Goto(r, [at |-> "streaming", run |-> run, last |-> 0])
    BY <1>6 DEF Subscribe, At
  <2>2. ASSUME NEW run \in Requests, Goto(r, [at |-> "streaming", run |-> run, last |-> 0])
        PROVE  Turn(r, RunPoints, {})
    BY <1>3, <2>1, <2>2 DEF RunPoints
  <2> QED BY <1>1, <1>2, <2>1, <2>2
<1>7. CASE RunEnds(r)
  <2>1. req[r].at = "running" /\ Goto(r, [req[r] EXCEPT !.at = "publish"])
    BY <1>7 DEF RunEnds, At
  <2> QED BY <1>1, <2>1, AdvanceTurn DEF RunPoints
<1> QED BY <1>1, <1>4, <1>5, <1>6, <1>7 DEF RunStep, RunsBegin, RunsContinue

LEMMA PointsApart ==
  /\ \A p \in {ComponentPoints, PartialPoints, SessionPoints, ChatPoints, CanvasPoints, DraftPoints,
               RunPoints, StudioPoints} : p \cap {"idle", "done"} = {}
  /\ \A p \in {PartialPoints, SessionPoints, ChatPoints, CanvasPoints, DraftPoints,
               RunPoints, StudioPoints} : p \cap ComponentPoints = {}
  /\ \A p \in {ComponentPoints, ChatPoints, CanvasPoints, DraftPoints, RunPoints, StudioPoints} :
       p \cap (PartialPoints \cup {"session"}) = {}
  /\ \A p \in {ComponentPoints, PartialPoints, ChatPoints, CanvasPoints, DraftPoints, RunPoints,
               StudioPoints} : p \cap SessionPoints = {}
  /\ \A p \in {ComponentPoints, PartialPoints, SessionPoints, CanvasPoints, DraftPoints, RunPoints,
               StudioPoints} : p \cap ChatPoints = {}
  /\ \A p \in {ComponentPoints, PartialPoints, SessionPoints, ChatPoints, DraftPoints, RunPoints,
               StudioPoints} : p \cap CanvasPoints = {}
  /\ \A p \in {ComponentPoints, PartialPoints, SessionPoints, ChatPoints, CanvasPoints, DraftPoints,
               RunPoints} : p \cap StudioPoints = {}
<1> USE DEF ComponentPoints, PartialPoints, SessionPoints, ChatPoints, CanvasPoints, DraftPoints,
            RunPoints, StudioPoints
<1>1. \A p \in {ComponentPoints, PartialPoints, SessionPoints, ChatPoints, CanvasPoints, DraftPoints,
                RunPoints, StudioPoints} : \A x \in p : x \notin {"idle", "done"}
  OBVIOUS
<1>2. /\ \A x \in ComponentPoints : x \notin PartialPoints \cup SessionPoints \cup ChatPoints
           \cup CanvasPoints \cup DraftPoints \cup RunPoints \cup StudioPoints
      /\ \A x \in PartialPoints : x \notin SessionPoints \cup ChatPoints \cup CanvasPoints
           \cup DraftPoints \cup RunPoints \cup StudioPoints
      /\ \A x \in SessionPoints : x \notin ChatPoints \cup CanvasPoints \cup DraftPoints \cup RunPoints
           \cup StudioPoints
      /\ \A x \in ChatPoints : x \notin CanvasPoints \cup DraftPoints \cup RunPoints \cup StudioPoints
      /\ \A x \in CanvasPoints : x \notin DraftPoints \cup RunPoints \cup StudioPoints
      /\ \A x \in DraftPoints \cup RunPoints : x \notin StudioPoints
      /\ "session" \in SessionPoints
  OBVIOUS
<1> HIDE DEF ComponentPoints, PartialPoints, SessionPoints, ChatPoints, CanvasPoints, DraftPoints,
             RunPoints, StudioPoints
<1> QED BY <1>1, <1>2

LEMMA KindsAre == Kinds = {"partial", "session", "chat", "canvas"}
BY DEF Kinds

LEMMA ComponentsArea ==
  ASSUME NEW r \in Requests, IInv, ComponentsBegin(r) \/ ComponentsContinue(r),
         UNCHANGED <<documentVars, studioVars>>, raced' = raced \cup RacedNow, area' = area
  PROVE  IInv' /\ ToolsKept
<1>1. ComponentsStep(r)
  BY ComponentsKept DEF IInv
<1>2. /\ partial' = partial /\ session' = session /\ chat' = chat /\ canvas' = canvas
      /\ memory' = memory /\ ideal' = ideal /\ UNCHANGED studioVars
      /\ ideal' \in Edited
  BY DEF documentVars, IInv, DocumentsInv, RacedInv, Edited
<1>3. Turn(r, ComponentPoints, {"registered"}) /\ ComponentsInv' /\ ToolsKept
  BY <1>1 DEF ComponentsStep
<1>4. {"registered"} \cap {"revoke", "delete"} = {}
  OBVIOUS
<1>5. /\ RequestsInv' /\ RacedInv' /\ PartialInv' /\ SessionInv' /\ ChatInv' /\ CanvasInv'
      /\ StudioInv'
  BY <1>2, <1>3, <1>4, Frames, PointsApart
<1> QED BY <1>3, <1>5 DEF IInv, DocumentsInv

LEMMA DocumentsArea ==
  ASSUME NEW r \in Requests, IInv, DocumentsBegin(r) \/ DocumentsContinue(r),
         UNCHANGED studioVars, raced' = raced \cup RacedNow, area' = area
  PROVE  IInv' /\ ToolsKept
<1>1. /\ RequestsInv /\ RacedInv /\ PartialInv /\ SessionInv /\ ChatInv /\ CanvasInv
      /\ ideal \in Edited /\ raced \subseteq raced'
  BY DEF IInv, DocumentsInv, RacedInv, Edited
<1>2. "registered" \notin {} /\ {} \cap {"revoke", "delete"} = {}
  OBVIOUS
<1>3. CASE PartialStep(r)
  <2>1. Shape(r, PartialPoints, "partial") /\ UNCHANGED <<session, chat, canvas, memory, componentVars>>
    BY <1>1, <1>3, PartialShape
  <2>2. /\ Turn(r, PartialPoints, {}) /\ ideal' \in Edited
        /\ \A g \in Kinds \ {"partial"} : ideal'[g] = ideal[g]
    BY <2>1 DEF Shape
  <2>3. /\ ideal'["session"] = ideal["session"] /\ ideal'["chat"] = ideal["chat"]
        /\ ideal'["canvas"] = ideal["canvas"]
    BY <2>2, KindsAre
  <2>4. /\ RequestsInv' /\ RacedInv' /\ ComponentsInv' /\ ToolsKept /\ SessionInv' /\ ChatInv'
        /\ CanvasInv' /\ StudioInv'
    BY <1>2, <2>1, <2>2, <2>3, Frames, PointsApart
  <2>5. PartialInv'
    BY <1>1, <1>3, PartialKept
  <2> QED BY <2>4, <2>5 DEF IInv, DocumentsInv
<1>4. CASE SessionStep(r)
  <2>1. Shape(r, SessionPoints, "session") /\ UNCHANGED <<chat, canvas, memory, componentVars>>
    BY <1>1, <1>4, SessionShape
  <2>2. /\ Turn(r, SessionPoints, {}) /\ ideal' \in Edited
        /\ \A g \in Kinds \ {"session"} : ideal'[g] = ideal[g]
    BY <2>1 DEF Shape
  <2>3. /\ ideal'["chat"] = ideal["chat"] /\ ideal'["canvas"] = ideal["canvas"]
    BY <2>2, KindsAre
  <2>4. /\ RequestsInv' /\ RacedInv' /\ ComponentsInv' /\ ToolsKept /\ ChatInv'
        /\ CanvasInv' /\ StudioInv'
    BY <1>2, <2>1, <2>2, <2>3, Frames, PointsApart
  <2>5. PartialInv' /\ SessionInv'
    BY <1>1, <1>4, PartialKept, SessionKept
  <2> QED BY <2>4, <2>5 DEF IInv, DocumentsInv
<1>5. CASE ChatStep(r)
  <2>1. Shape(r, ChatPoints, "chat") /\ UNCHANGED <<partial, session, canvas, memory, componentVars>>
    BY <1>1, <1>5, ChatShape
  <2>2. /\ Turn(r, ChatPoints, {}) /\ ideal' \in Edited
        /\ \A g \in Kinds \ {"chat"} : ideal'[g] = ideal[g]
    BY <2>1 DEF Shape
  <2>3. /\ ideal'["partial"] = ideal["partial"] /\ ideal'["session"] = ideal["session"]
        /\ ideal'["canvas"] = ideal["canvas"]
    BY <2>2, KindsAre
  <2>4. /\ RequestsInv' /\ RacedInv' /\ ComponentsInv' /\ ToolsKept /\ PartialInv' /\ SessionInv'
        /\ CanvasInv' /\ StudioInv'
    BY <1>2, <2>1, <2>2, <2>3, Frames, PointsApart
  <2>5. ChatInv'
    BY <1>1, <1>5, <2>4, ChatKept
  <2> QED BY <2>4, <2>5 DEF IInv, DocumentsInv
<1>6. CASE CanvasStep(r)
  <2>1. Shape(r, CanvasPoints, "canvas") /\ UNCHANGED <<partial, session, chat, memory, componentVars>>
    BY <1>1, <1>6, CanvasShape
  <2>2. /\ Turn(r, CanvasPoints, {}) /\ ideal' \in Edited
        /\ \A g \in Kinds \ {"canvas"} : ideal'[g] = ideal[g]
    BY <2>1 DEF Shape
  <2>3. /\ ideal'["partial"] = ideal["partial"] /\ ideal'["session"] = ideal["session"]
        /\ ideal'["chat"] = ideal["chat"]
    BY <2>2, KindsAre
  <2>4. /\ RequestsInv' /\ RacedInv' /\ ComponentsInv' /\ ToolsKept /\ PartialInv' /\ SessionInv'
        /\ ChatInv' /\ StudioInv'
    BY <1>2, <2>1, <2>2, <2>3, Frames, PointsApart
  <2>5. CanvasInv'
    BY <1>1, <1>6, CanvasKept
  <2> QED BY <2>4, <2>5 DEF IInv, DocumentsInv
<1>7. CASE DraftStep(r)
  <2>1. /\ Turn(r, DraftPoints, {})
        /\ UNCHANGED <<componentVars, partial, session, chat, canvas, memory, ideal>>
        /\ ideal' \in Edited
    BY <1>1, <1>7, DraftShape
  <2>2. /\ RequestsInv' /\ RacedInv' /\ ComponentsInv' /\ ToolsKept /\ PartialInv' /\ SessionInv'
        /\ ChatInv' /\ CanvasInv' /\ StudioInv'
    BY <1>2, <2>1, Frames, PointsApart
  <2> QED BY <2>2 DEF IInv, DocumentsInv
<1> QED BY <1>3, <1>4, <1>5, <1>6, <1>7
        DEF DocumentsBegin, DocumentsContinue, PartialStep, SessionStep, ChatStep, CanvasStep, DraftStep

LEMMA RunsArea ==
  ASSUME NEW r \in Requests, IInv, RunStep(r), UNCHANGED <<documentVars, studioVars>>,
         raced' = raced \cup RacedNow, area' = area
  PROVE  IInv' /\ ToolsKept
<1>1. Turn(r, RunPoints, {}) /\ UNCHANGED componentVars
  BY RunShape DEF IInv
<1>2. /\ partial' = partial /\ session' = session /\ chat' = chat /\ canvas' = canvas
      /\ memory' = memory /\ ideal' = ideal /\ UNCHANGED studioVars
      /\ ideal' \in Edited
  BY DEF documentVars, IInv, DocumentsInv, RacedInv, Edited
<1>3. "registered" \notin {} /\ {} \cap {"revoke", "delete"} = {}
  OBVIOUS
<1>4. /\ RequestsInv' /\ RacedInv' /\ ComponentsInv' /\ ToolsKept /\ PartialInv' /\ SessionInv'
      /\ ChatInv' /\ CanvasInv' /\ StudioInv'
  BY <1>1, <1>2, <1>3, Frames, PointsApart
<1> QED BY <1>4 DEF IInv, DocumentsInv

LEMMA StudioArea ==
  ASSUME NEW r \in Requests, IInv, StudioSteps(r), raced' = raced \cup RacedNow, area' = area
  PROVE  IInv' /\ ToolsKept
<1>1. StudioShape(r) /\ StudioInv'
  BY StudioKept DEF IInv
<1>2. /\ Turn(r, StudioPoints, {"revoke", "delete"}) /\ ideal' \in Edited
      /\ UNCHANGED <<componentVars, partial, session, chat, canvas, memory>>
      /\ ideal'["partial"] = ideal["partial"] /\ ideal'["session"] = ideal["session"]
      /\ ideal'["chat"] = ideal["chat"] /\ ideal'["canvas"] = ideal["canvas"]
  BY <1>1 DEF StudioShape, IInv, DocumentsInv, RacedInv, Edited
<1>3. "registered" \notin {"revoke", "delete"}
  OBVIOUS
<1>4. /\ RequestsInv' /\ RacedInv' /\ ComponentsInv' /\ ToolsKept /\ PartialInv' /\ SessionInv'
      /\ ChatInv' /\ CanvasInv'
  BY <1>2, <1>3, Frames, PointsApart
<1> QED BY <1>1, <1>4 DEF IInv, DocumentsInv

LEMMA RequestKept ==
  ASSUME NEW r \in Requests, IInv, Begin(r) \/ Continue(r)
  PROVE  IInv' /\ ToolsKept
<1>1. raced' = raced \cup RacedNow /\ area' = area
  BY DEF Begin, Continue
<1>2. \/ /\ ComponentsBegin(r) \/ ComponentsContinue(r)
         /\ UNCHANGED <<documentVars, studioVars>>
      \/ (DocumentsBegin(r) \/ DocumentsContinue(r)) /\ UNCHANGED studioVars
      \/ RunStep(r) /\ UNCHANGED <<documentVars, studioVars>>
      \/ StudioSteps(r)
  BY DEF Begin, Continue, ComponentsRequest, DocumentsRequest, RunsRequest, StudioBegin, RunStep,
         StudioSteps, ComponentsBegin
<1> QED BY <1>1, <1>2, ComponentsArea, DocumentsArea, RunsArea, StudioArea

LEMMA LoadManifestKept ==
  ASSUME IInv, LoadManifest
  PROVE  /\ IInv' /\ req' = req
         /\ \A e \in Components :
              \/ reg'.tools[e] = reg.tools[e]
              \/ e \in Range(Manifest) /\ reg'.tools[e] = Made(e, Packaged, "class")
<1>1. LoadPlugins /\ UNCHANGED <<documentVars, raced, studioVars, area>>
  BY DEF LoadManifest
<1>2. /\ ComponentsInv'
      /\ \A e \in Components :
           \/ reg'.tools[e] = reg.tools[e]
           \/ e \in Range(Manifest) /\ reg'.tools[e] = Made(e, Packaged, "class")
  BY <1>1, LoadPluginsKept DEF IInv
<1>3. /\ req' = req /\ partial' = partial /\ session' = session /\ chat' = chat /\ canvas' = canvas
      /\ memory' = memory /\ ideal' = ideal /\ raced' = raced /\ area' = area
      /\ rows' = rows /\ tokens' = tokens /\ assets' = assets
  BY <1>1 DEF LoadPlugins, documentVars, studioVars
<1>4. /\ RequestsInv /\ RacedInv /\ PartialInv /\ SessionInv /\ ChatInv /\ CanvasInv
      /\ RowsInv /\ TokensInv /\ AssetsInv
  BY DEF IInv, DocumentsInv, StudioInv
<1>5. \A points, codes : Left(points) /\ Unanswered(codes)
  BY <1>3 DEF Left, Unanswered
<1>6. RequestsInv' /\ RacedInv'
  BY <1>3, <1>4 DEF RequestsInv, RacedInv, Within, InFlight
<1>7. PartialInv' /\ SessionInv' /\ ChatInv' /\ CanvasInv'
  BY <1>3, <1>4, <1>5, PartialFrame, SessionFrame, ChatFrame, CanvasFrame
<1>8. RowsInv' /\ TokensInv' /\ AssetsInv'
  BY <1>3, <1>4, <1>5, RowsFrame, TokensFrame, AssetsFrame
<1> QED BY <1>2, <1>3, <1>6, <1>7, <1>8 DEF IInv, DocumentsInv, StudioInv

LEMMA RebootKept ==
  ASSUME IInv, Reboot
  PROVE  IInv' /\ boots' # boots
<1>1. /\ Restart /\ area' = area /\ raced' = raced
      /\ partial' = partial /\ session' = session /\ chat' = chat /\ memory' = memory
      /\ rows' = rows /\ tokens' = tokens /\ assets' = assets
      /\ canvas' = IF memory THEN [k \in Docs |-> NoList] ELSE canvas
      /\ ideal' = IF memory THEN [ideal EXCEPT !["canvas"] = [k \in Docs |-> <<>>]] ELSE ideal
  BY DEF Reboot
<1>2. /\ RequestsInv /\ ComponentsInv /\ RacedInv /\ PartialInv /\ SessionInv /\ ChatInv
      /\ CanvasInv /\ RowsInv /\ TokensInv /\ AssetsInv
  BY DEF IInv, DocumentsInv, StudioInv
<1>3. ComponentsInv' /\ boots' # boots
  BY <1>1, <1>2, RestartKept
<1>4. /\ RequestsInv'
      /\ \A s \in Requests : req'[s] = req[s] \/ (InFlight(s) /\ req'[s] = [at |-> "lost"])
      /\ \A s \in Requests : req'[s].at \in {"idle", "done", "lost"}
  BY <1>1, <1>2, AbortLoses DEF Restart
<1>5. ideal \in Edited /\ <<>> \in Seq(Requests)
  BY <1>2, EmptyList DEF RacedInv, Edited
<1>6. /\ ideal' \in Edited
      /\ \A g \in Kinds \ {"canvas"} : ideal'[g] = ideal[g]
  BY <1>1, <1>5 DEF Edited
<1>7. RacedInv'
  BY <1>4, <1>6 DEF RacedInv, Within, InFlight, Edited
<1>8. /\ ideal'["partial"] = ideal["partial"] /\ ideal'["session"] = ideal["session"]
      /\ ideal'["chat"] = ideal["chat"]
  BY <1>6, KindsAre
<1>9. /\ Left(PartialPoints \cup {"session"}) /\ Left(SessionPoints) /\ Left(ChatPoints)
      /\ Left({"studio", "commit"}) /\ Left({"endtoken"}) /\ Unanswered({"revoke", "delete"})
  <2>1. ASSUME NEW points, points \cap {"idle", "done", "lost"} = {} PROVE Left(points)
    BY <1>4, <2>1 DEF Left
  <2>2. /\ \A x \in PartialPoints \cup {"session"} : x \notin {"idle", "done", "lost"}
        /\ \A x \in SessionPoints \cup ChatPoints : x \notin {"idle", "done", "lost"}
    BY DEF PartialPoints, SessionPoints, ChatPoints
  <2>3. Unanswered({"revoke", "delete"})
    BY <1>4 DEF Unanswered
  <2> QED BY <2>1, <2>2, <2>3
<1>10. PartialInv' /\ SessionInv' /\ ChatInv'
  BY <1>1, <1>2, <1>8, <1>9, PartialFrame, SessionFrame, ChatFrame
<1>11. \A s \in Requests : req[s].at = "done" => req'[s] = req[s]
  BY <1>4 DEF InFlight
<1>12. RowsInv' /\ TokensInv' /\ AssetsInv'
  BY <1>1, <1>2, <1>8, <1>9, <1>11, RowsFrame, TokensFrame, AssetsFrame
<1>13. CanvasInv'
  <2>1. \A s \in Requests : req'[s].at \notin CanvasPoints
    BY <1>4 DEF CanvasPoints
  <2>2. CASE memory
    <3>1. /\ canvas' \in [Docs -> Seq(Requests) \cup {NoList}]
          /\ \A k \in Docs : canvas'[k] = NoList /\ ideal'["canvas"][k] = <<>>
      BY <1>1, <1>5, <2>2 DEF Edited, Kinds
    <3> QED BY <2>1, <3>1 DEF CanvasInv, CanvasPoints
  <2>3. CASE ~memory
    BY <1>1, <1>2, <2>1, <2>3 DEF CanvasInv, CanvasPoints
  <2> QED BY <2>2, <2>3
<1> QED BY <1>3, <1>4, <1>7, <1>10, <1>12, <1>13 DEF IInv, DocumentsInv, StudioInv

LEMMA InitIInv == Init => IInv
<1> SUFFICES ASSUME Init PROVE IInv
  OBVIOUS
<1> USE DEF Init, RequestsInit, Idle
<1>1. /\ RequestsInv
      /\ \A r \in Requests : req[r] = [at |-> "idle"]
  BY DEF RequestsInv
<1> HIDE DEF RequestsInit
<1>2. ComponentsInv
  <2>1. /\ reg \in Registry /\ boots \in Nat /\ index \subseteq Components
    BY NewRegistryType DEF ComponentsInit
  <2>2. /\ stored \in [Components -> Record]
        /\ \A c \in Components : stored[c].by = NoLock
    BY DEF ComponentsInit, NoRecord, Record
  <2>3. \A r \in Requests : Registration(r)
    BY <1>1, <2>2, RequestsAssumption DEF Registration, Written, Answered, ComponentPoints
  <2> QED BY <2>1, <2>2, <2>3 DEF ComponentsInv
<1>3. DocumentsInv
  <2>1. /\ <<>> \in Seq(Requests) /\ <<>> # NoList /\ NoContent \in Text /\ NoContent.none
    BY EmptyList, NewContents
  <2>2. RacedInv
    BY <1>1, <2>1 DEF RacedInv, DocumentsInit, Within, InFlight
  <2>3. PartialInv
    <3>1. /\ partial \in [Docs -> [json : Text, lock : Text]]
          /\ \A k \in Docs : partial[k].json.none /\ partial[k].lock.none /\ ideal["partial"][k] = <<>>
      BY <2>1 DEF DocumentsInit, Kinds
    <3> QED BY <1>1, <3>1 DEF PartialInv, PartialPoints
  <2>4. SessionInv
    BY <1>1, <2>1, KeepsNothing DEF SessionInv, SessionPoints, DocumentsInit, Kinds
  <2>5. ChatInv
    BY <1>1, <2>1, KeepsNothing DEF ChatInv, ChatPoints, DocumentsInit, Kinds
  <2>6. CanvasInv
    BY <1>1, <2>1 DEF CanvasInv, CanvasPoints, DocumentsInit, Kinds
  <2> QED BY <2>2, <2>3, <2>4, <2>5, <2>6 DEF DocumentsInv
<1>4. StudioInv
  <2>1. \A f \in Tables, k \in Docs : ~HasRow(f, k)
    BY DEF StudioInit, HasRow
  <2>2. rows \in [Tables -> [Docs -> Row]]
    BY DEF StudioInit, NoRow, Row
  <2>3. {"project", "mount"} \subseteq Tables
    BY DEF Tables
  <2>4. RowsInv
    BY <1>1, <2>1, <2>2, <2>3 DEF RowsInv
  <2>5. TokensInv /\ AssetsInv
    BY <1>1 DEF TokensInv, AssetsInv, StudioInit, Answered
  <2> QED BY <2>4, <2>5 DEF StudioInv
<1> QED BY <1>1, <1>2, <1>3, <1>4 DEF IInv

LEMMA StutterKept ==
  ASSUME IInv, UNCHANGED vars
  PROVE  IInv' /\ reg' = reg
<1>1. /\ UNCHANGED <<req, componentVars, documentVars, raced, studioVars, area>>
  BY DEF vars
<1>2. /\ req' = req /\ reg' = reg /\ sql' = sql /\ stored' = stored /\ index' = index
      /\ boots' = boots /\ raced' = raced /\ area' = area
      /\ partial' = partial /\ session' = session /\ chat' = chat /\ canvas' = canvas
      /\ memory' = memory /\ ideal' = ideal
      /\ rows' = rows /\ tokens' = tokens /\ assets' = assets
  BY <1>1 DEF componentVars, documentVars, studioVars
<1>3. RequestsInv' /\ ComponentsInv' /\ AssetsInv' /\ TokensInv'
  BY <1>2 DEF IInv, StudioInv, RequestsInv, ComponentsInv, Registration, Written, Answered,
              AssetsInv, TokensInv
<1>4. RacedInv' /\ PartialInv' /\ SessionInv' /\ ChatInv' /\ CanvasInv'
  <2>1. \A points : Left(points)
    BY <1>2 DEF Left
  <2>2. RacedInv'
    BY <1>2 DEF IInv, DocumentsInv, RacedInv, Within, InFlight
  <2> QED BY <1>2, <2>1, <2>2, PartialFrame, SessionFrame, ChatFrame, CanvasFrame
          DEF IInv, DocumentsInv
<1>5. RowsInv'
  BY <1>2, RowsFrame DEF IInv, StudioInv, Left
<1> QED BY <1>2, <1>3, <1>4, <1>5 DEF IInv, DocumentsInv, StudioInv

LEMMA NextIInv == IInv /\ [Next]_vars => IInv'
BY RequestKept, LoadManifestKept, RebootKept, StutterKept DEF Next

\* In every reachable state each area's part of the invariant holds: what a
\* suspended handler knows of the stores is still so, however the others'
\* handlers, a manifest and a restart came in between.
THEOREM Invariant == Spec => []IInv
BY InitIInv, NextIInv, PTL DEF Spec

LEMMA IInvSurvives == IInv => RegisteredSurvives
<1> SUFFICES ASSUME IInv, NEW r \in Requests, Answered(r, "registered"),
                    TypeOf[req[r].c] = "tool", req[r].d.class = "none", stored[req[r].c].by = r,
                    NEW last \in Lasts
             PROVE  Rehydrate(last).tools[req[r].c] = Made(req[r].c, req[r].d, "factory")
  BY DEF RegisteredSurvives
<1> DEFINE c == req[r].c
<1>1. /\ c \in Components /\ stored[c].def = req[r].d /\ (sql \/ c \in index)
      /\ IsRegistered(c, req[r].d)
  BY DEF IInv, ComponentsInv, Registration, Written
<1>2. stored[c].def.factory = "good" /\ stored[c].def.class = "none"
  BY <1>1 DEF IsRegistered
<1>3. ~Absent(c)
  BY <1>1, RequestsAssumption DEF Absent, NoRecord
<1>4. c \in Indexed
  BY <1>1, <1>3 DEF Indexed
<1>5. c \in Present("tool") \ ClassBased /\ c \notin ClassBased
  BY <1>1, <1>2, <1>3, <1>4 DEF Present, ClassBased
<1>6. Rehydrate(last).tools[c] = Made(c, stored[c].def, "factory")
  BY <1>1, <1>2, <1>5 DEF Rehydrate, NewRegistry
<1> QED BY <1>1, <1>6

\* A confirmed registration of a tool by factory code alone outlives the process:
\* register puts the record and then lists it before it answers, and the start
\* of the server registers what is listed.
THEOREM ConfirmedSurvives == Spec => []RegisteredSurvives
BY Invariant, IInvSurvives, PTL

\* No request exchanges a registered tool: validate_component looks the name up
\* again, without an await before the registration.  What does exchange it is a
\* restart, or a manifest, whose class replaces the factory in the cache.
THEOREM NeverReplaced == Spec => ToolsNeverReplaced
<1> DEFINE Replaced ==
      \A c \in Components :
        IsTool(c) /\ reg.tools[c] # None /\ reg'.tools[c] # reg.tools[c] =>
          \/ boots' # boots
          \/ /\ UNCHANGED req
             /\ c \in Range(Manifest) /\ reg'.tools[c] = Made(c, Packaged, "class")
<1>1. IInv /\ [Next]_vars => [Replaced]_<<reg, boots>>
  <2> SUFFICES ASSUME IInv, [Next]_vars PROVE Replaced
    OBVIOUS
  <2>1. CASE \E r \in Requests : Begin(r) \/ Continue(r)
    BY <2>1, RequestKept DEF ToolsKept
  <2>2. CASE LoadManifest
    BY <2>2, LoadManifestKept
  <2>3. CASE Reboot
    BY <2>3, RebootKept
  <2>4. CASE UNCHANGED vars
    BY <2>4, StutterKept
  <2> QED BY <2>1, <2>2, <2>3, <2>4 DEF Next
<1> QED BY <1>1, Invariant, PTL DEF Spec, ToolsNeverReplaced

LEMMA IInvConsistent == IInv => StudioConsistent
BY DEF IInv, StudioInv, RowsInv, TokensInv, AssetsInv, StudioConsistent

\* The tables keep their promises under every interleaving of transactions: a
\* row has its parent, an ended token stays ended, a content is stored once.
THEOREM TablesConsistent == Spec => []StudioConsistent
BY Invariant, IInvConsistent, PTL

LEMMA IInvSolo == IInv => SoloEditsKept
<1> SUFFICES ASSUME IInv, NEW f \in Kinds, NEW k \in Docs, Exists(f, k)
             PROVE  Keeps(Held(f, k), ideal[f][k], raced)
  BY DEF SoloEditsKept
<1> USE DEF IInv, DocumentsInv, Exists, Held
<1>1. CASE f = "partial"
  BY <1>1 DEF PartialInv
<1>2. CASE f = "session"
  BY <1>2 DEF SessionInv
<1>3. CASE f = "chat"
  BY <1>3 DEF ChatInv
<1>4. CASE f = "canvas"
  BY <1>4 DEF CanvasInv
<1> QED BY <1>1, <1>2, <1>3, <1>4, KindsAre

\* An edit that nobody else was in the document with stays there for good: a
\* handler writes back what it read and its own edit, and whoever reads later,
\* however many race, reads a content that has it.
THEOREM SoloEdits == Spec => []SoloEditsKept
BY Invariant, IInvSolo, PTL

=============================================================================
