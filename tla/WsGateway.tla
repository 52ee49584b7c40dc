------------------------------ MODULE WsGateway -----------------------------
(***************************************************************************)
(* The MCP WebSocket gateway: connections put validated messages into one  *)
(* queue, and a single background task sends each to every client.         *)
(***************************************************************************)
EXTENDS Naturals, Sequences, FiniteSets

CONSTANTS
  Clients,
  MaxMessages   \* bound: messages ever accepted; they are numbered

VARIABLES
  socket,     \* "new", "refused", "open", "broken" (a send fails) or "closed"
  clients,    \* _clients
  queue,      \* _broadcast_q
  accepted,   \* how many messages were put into it
  worker,     \* aio_bg_task: "none", "idle", "sending" or "dead"
  sending,    \* the broadcast under way: its message, the members and their
              \* number when it began, the members visited and those it failed for
  received,   \* what each client was sent
  disturbed   \* a client joined or left during some broadcast

gatewayVars == <<socket, clients, queue, accepted, worker, sending, received, disturbed>>

NoBroadcast == [msg |-> 0, members |-> {}, visited |-> {}, failed |-> {}]

GatewayTypeOK ==
  /\ socket \in [Clients -> {"new", "refused", "open", "broken", "closed"}]
  /\ clients \subseteq Clients
  /\ queue \in Seq(1..MaxMessages)
  /\ accepted \in 0..MaxMessages
  /\ worker \in {"none", "idle", "sending", "dead"}
  /\ sending \in [msg : 0..MaxMessages, members : SUBSET Clients, visited : SUBSET Clients,
                  failed : SUBSET Clients]
  /\ received \in [Clients -> Seq(1..MaxMessages)]
  /\ disturbed \in BOOLEAN

GatewayInit ==
  /\ socket = [c \in Clients |-> "new"]
  /\ clients = {}
  /\ queue = <<>>
  /\ accepted = 0
  /\ worker = "none"
  /\ sending = NoBroadcast
  /\ received = [c \in Clients |-> <<>>]
  /\ disturbed = FALSE

\* The handshake.  A client that is not authenticated was accepted and is left
\* at that.
Connect(c) ==
  /\ socket[c] = "new"
  /\ socket' = [socket EXCEPT ![c] = "open"]
  /\ clients' = clients \cup {c}
  /\ worker' = IF worker = "none" THEN "idle" ELSE worker
  /\ disturbed' = (disturbed \/ worker = "sending")
  /\ UNCHANGED <<queue, accepted, sending, received>>

Refuse(c) ==
  /\ socket[c] = "new"
  /\ socket' = [socket EXCEPT ![c] = "refused"]
  /\ UNCHANGED <<clients, queue, accepted, worker, sending, received, disturbed>>

\* Fault: the message replaces what is waiting.
PostReplaces(c) ==
  /\ socket[c] = "open" /\ accepted < MaxMessages
  /\ accepted' = accepted + 1
  /\ queue' = <<accepted + 1>>
  /\ UNCHANGED <<socket, clients, worker, sending, received, disturbed>>

\* A message of a known type that its schema accepts; any other is answered to
\* its sender alone.
Post(c) ==
  /\ socket[c] = "open" /\ accepted < MaxMessages
  /\ accepted' = accepted + 1
  /\ queue' = Append(queue, accepted + 1)
  /\ UNCHANGED <<socket, clients, worker, sending, received, disturbed>>

\* The peer is gone; its handler notices later, and leaves.
Break(c) ==
  /\ socket[c] = "open"
  /\ socket' = [socket EXCEPT ![c] = "broken"]
  /\ UNCHANGED <<clients, queue, accepted, worker, sending, received, disturbed>>

Leave(c) ==
  /\ socket[c] = "broken"
  /\ socket' = [socket EXCEPT ![c] = "closed"]
  /\ clients' = clients \ {c}
  /\ disturbed' = (disturbed \/ (worker = "sending" /\ c \in clients))
  /\ UNCHANGED <<queue, accepted, worker, sending, received>>

\* _broadcast_worker
Take ==
  /\ worker = "idle" /\ queue # <<>>
  /\ worker' = "sending"
  /\ queue' = Tail(queue)
  /\ sending' = [NoBroadcast EXCEPT !.msg = Head(queue), !.members = clients]
  /\ UNCHANGED <<socket, clients, accepted, received, disturbed>>

\* The iterator of a set raises as soon as the set has another size than when
\* it was made.
SizeChanged == Cardinality(clients) # Cardinality(sending.members)

Send ==
  /\ worker = "sending" /\ ~SizeChanged
  /\ \E c \in clients \ sending.visited :
       /\ sending' = [sending EXCEPT !.visited = @ \cup {c},
                                     !.failed = IF socket[c] = "broken" THEN @ \cup {c} ELSE @]
       /\ received' = IF socket[c] = "open" THEN [received EXCEPT ![c] = Append(@, sending.msg)]
                      ELSE received
  /\ UNCHANGED <<socket, clients, queue, accepted, worker, disturbed>>

\* The iteration ends when the members that stayed were visited; one that took
\* the place of another may have been missed.
Finish ==
  /\ worker = "sending" /\ ~SizeChanged
  /\ sending.members \cap clients \subseteq sending.visited
  /\ clients' = clients \ sending.failed
  /\ worker' = "idle"
  /\ sending' = NoBroadcast
  /\ UNCHANGED <<socket, queue, accepted, received, disturbed>>

\* The task ends with the error, and aio_bg_task is not None: no connection
\* starts another.
Die ==
  /\ worker = "sending" /\ SizeChanged
  /\ worker' = "dead"
  /\ sending' = NoBroadcast
  /\ UNCHANGED <<socket, clients, queue, accepted, received, disturbed>>

WorkerStep == Take \/ Send \/ Finish \/ Die

GatewayNext ==
  \/ \E c \in Clients : Connect(c) \/ Refuse(c) \/ Post(c) \/ Break(c) \/ Leave(c)
  \/ WorkerStep

\* A message accepted while a client is connected reaches it, as long as the
\* client stays and nobody joins or leaves during a broadcast.
Waiting(c, m) ==
  /\ c \in clients /\ socket[c] = "open"
  /\ m \in {queue[i] : i \in DOMAIN queue}
BroadcastReaches ==
  \A c \in Clients : \A m \in 1..MaxMessages :
    Waiting(c, m) ~> (disturbed \/ socket[c] # "open" \/ m \in {received[c][i] : i \in DOMAIN received[c]})
=============================================================================
