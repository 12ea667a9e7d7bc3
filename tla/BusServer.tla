------------------------------- MODULE BusServer -------------------------------
(***************************************************************************)
(* MessageBusServer (src/message_bus/MessageBus.cpp): sessions of          *)
(* connections, the table from message ids to the sessions that registered *)
(* them, and what is sent on where.  All its handlers run on the poll      *)
(* thread; stop() on the user's, "stop".  Clients are what                 *)
(* MessageBusClient does: register, send a request to a client or to all   *)
(* who registered its id, answer requests; leave and come back on a new    *)
(* connection.  Class "server".                                            *)
(***************************************************************************)
EXTENDS Monitor

CONSTANTS MaxConns,    \* bound: connections made, over all clients
          MaxRequests  \* bound: requests sent

ASSUME ServerAssumption == MaxConns \in Nat /\ MaxRequests \in Nat

ConnIds == 1..MaxConns
Asker == 1
Answerer == 2
ClientIds == {Asker, Answerer}
All == 0          \* target of a request: everyone who registered its id

(* who: the client of a connection, 0 if it is not made; state: where it is:*)
(* waiting to be accepted, accepted but not in m_clients, open, or hung up; *)
(* clients: m_clients; id: m_clientId of its session; routes:               *)
(* m_msgId2Clients of the one message id; inbox: what the server has to     *)
(* read, outbox: what it sent; answers: the answers that reached a          *)
(* connection of the asker, for each request; late: a connection was taken  *)
(* in after stop() had seen none; listening: the listener's socket; taking: *)
(* the connection onAccept() is about; routed: the requests that were sent on*)
(* to a client when it and the asker were registered, and neither left since*)
ServerInit ==
  /\ class = "server"
  /\ pc = [t \in {"stop", "poll"} |-> "idle"]
  /\ obj = [who |-> [c \in ConnIds |-> 0], state |-> [c \in ConnIds |-> "none"], clients |-> {},
            id |-> [c \in ConnIds |-> 0], routes |-> {}, inbox |-> [c \in ConnIds |-> <<>>],
            outbox |-> [c \in ConnIds |-> <<>>], target |-> <<>>, answers |-> <<>>,
            listening |-> "up", running |-> TRUE, asleep |-> FALSE, late |-> FALSE,
            made |-> 0, taking |-> 0, routed |-> {}]

Live(c) == obj.state[c] \in {"waiting", "accepted", "open"}
Registered(client) == \E c \in obj.routes : obj.who[c] = client /\ Live(c)
Current(client) == {c \in ConnIds : obj.who[c] = client /\ Live(c)}

-----------------------------------------------------------------------------
(* The clients.                                                             *)
clientConnects(client) ==
  /\ class = "server" /\ obj.made < MaxConns /\ Current(client) = {} /\ obj.listening = "up"
  /\ LET c == obj.made + 1
     IN obj' = [obj EXCEPT !.made = c, !.who[c] = client, !.state[c] = "waiting",
                           !.inbox[c] = <<[code |-> "Register"]>>]
  /\ Stay

clientLeaves(c) ==
  /\ class = "server" /\ Live(c)
  /\ obj' = [obj EXCEPT !.state[c] = "hup", !.outbox[c] = <<>>, !.routed = {}]
  /\ Stay

clientAsks(c, target) ==
  /\ class = "server" /\ Live(c) /\ obj.who[c] = Asker /\ Len(obj.target) < MaxRequests
  /\ obj' = [obj EXCEPT !.target = Append(@, target), !.answers = Append(@, 0),
               !.inbox[c] = Append(@, [code |-> "Req", n |-> Len(obj.target) + 1, target |-> target])]
  /\ Stay

(* Heartbeats, bounded to the time of the first connection.                 *)
clientBeats(c) ==
  /\ class = "server" /\ Live(c) /\ obj.made = 1 /\ obj.inbox[c] = <<>> /\ obj.outbox[c] = <<>>
  /\ obj' = [obj EXCEPT !.inbox[c] = Append(@, [code |-> "HeartBeat"])]
  /\ Stay

(* A request is answered by whoever gets it; an answer is for the asker.    *)
clientReads(c) ==
  /\ class = "server" /\ Live(c) /\ obj.outbox[c] # <<>>
  /\ LET p == Head(obj.outbox[c])
         rest == [obj EXCEPT !.outbox[c] = Tail(@)]
     IN obj' = CASE p.code = "Req" ->
                      [rest EXCEPT !.inbox[c] =
                         Append(@, [code |-> "Rsp", n |-> p.n, target |-> Asker])]
                 [] p.code = "Rsp" /\ obj.who[c] = Asker -> [rest EXCEPT !.answers[p.n] = @ + 1]
                 [] OTHER -> rest
  /\ Stay

-----------------------------------------------------------------------------
(* The poll thread.  onAccept(): addClient(), then the callbacks.           *)
accept(c) ==
  /\ class = "server" /\ At("poll", "idle") /\ obj.listening = "up" /\ obj.who[c] # 0
  /\ obj.state[c] = "waiting"
  /\ obj' = [obj EXCEPT !.state[c] = "accepted", !.taking = c]
  /\ Go("poll", "add") /\ UNCHANGED class

addClient(c) ==
  /\ class = "server" /\ At("poll", "add") /\ c = obj.taking
  /\ obj' = [obj EXCEPT !.clients = @ \union {c}, !.state[c] = IF @ = "hup" THEN @ ELSE "open",
                        !.taking = 0,
                        !.late = @ \/ pc["stop"] \in {"wait", "asleep", "stopped"}]
  /\ Go("poll", "idle") /\ UNCHANGED class

(* onClientData() with one package.  A client's send() reaches it while its *)
(* connection lives.                                                        *)
SentTo(C, p) ==
  [c \in ConnIds |-> IF c \in C /\ Live(c) THEN Append(obj.outbox[c], p) ELSE obj.outbox[c]]
(* What goes wrong when the target of a request is not looked at, or an     *)
(* answer is sent to those who registered before the asker.                 *)
ReceiversAny(p) ==
  CASE p.code = "Req" -> obj.routes
    [] p.code = "Rsp" -> {d \in obj.clients : obj.id[d] = p.target}
ReceiversFirst(p) ==
  {d \in obj.routes : p.target \in {All, obj.id[d]} /\ \A e \in obj.routes : d <= e}
Receivers(p) ==
  CASE p.code = "Req" -> {d \in obj.routes : p.target \in {All, obj.id[d]}}
    [] p.code = "Rsp" -> {d \in obj.clients : obj.id[d] = p.target}

onClientData(c) ==
  /\ class = "server" /\ At("poll", "idle") /\ c \in obj.clients /\ obj.inbox[c] # <<>>
  /\ LET p == Head(obj.inbox[c])
         rest == [obj EXCEPT !.inbox[c] = Tail(@)]
     IN obj' = CASE p.code = "Register" ->
                      [rest EXCEPT !.id[c] = obj.who[c], !.routes = @ \union {c},
                                   !.outbox = SentTo({c}, [code |-> "Done"])]
                 [] p.code = "HeartBeat" -> [rest EXCEPT !.outbox = SentTo({c}, [code |-> "Done"])]
                 [] OTHER -> [rest EXCEPT !.outbox = SentTo(Receivers(p), p),
                                !.routed = IF p.code = "Req" /\ \A i \in ClientIds : Registered(i)
                                           THEN @ \union {p.n} ELSE @]
  /\ Stay

(* The end of a client: what it sent before is read first, or lost.         *)
removeClientOnly(c) ==
  /\ class = "server" /\ At("poll", "idle") /\ c \in obj.clients /\ obj.state[c] = "hup"
  /\ obj' = [obj EXCEPT !.clients = @ \ {c}, !.state[c] = "gone", !.inbox[c] = <<>>]
  /\ Stay

removeRoutesOnly(c) ==
  /\ class = "server" /\ At("poll", "idle") /\ c \in obj.clients /\ obj.state[c] = "hup"
  /\ obj' = [obj EXCEPT !.routes = @ \ {c}, !.state[c] = "gone", !.inbox[c] = <<>>]
  /\ Stay

removeClient(c) ==
  /\ class = "server" /\ At("poll", "idle") /\ c \in obj.clients /\ obj.state[c] = "hup"
  /\ obj' = [obj EXCEPT !.clients = @ \ {c}, !.routes = @ \ {c}, !.state[c] = "gone",
                        !.inbox[c] = <<>>]
  /\ Stay

(* The listener hangs up: connections not yet accepted are reset; onClose().*)
onClose ==
  /\ class = "server" /\ At("poll", "idle") /\ obj.listening = "shut"
  /\ obj' = [obj EXCEPT !.listening = "closed", !.routes = {}, !.running = FALSE, !.asleep = FALSE,
               !.state = [c \in ConnIds |-> IF @[c] = "waiting" THEN "gone" ELSE @[c]]]
  /\ Stay

-----------------------------------------------------------------------------
(* start() and stop().                                                      *)
serverStart ==
  /\ class = "server" /\ At("stop", "stopped") /\ obj.listening = "closed"
  /\ obj' = [obj EXCEPT !.listening = "up", !.running = TRUE, !.late = FALSE]
  /\ Go("stop", "idle") /\ UNCHANGED class

serverStop ==
  /\ class = "server" /\ At("stop", "idle")
  /\ obj' = [obj EXCEPT !.listening = "shut"]
  /\ Go("stop", "clients") /\ UNCHANGED class

noClientsSeen ==
  /\ class = "server" /\ At("stop", "clients")
  /\ Go("stop", "wait") /\ UNCHANGED <<class, obj>>

noClients ==
  /\ class = "server" /\ At("stop", "clients") /\ obj.clients = {}
  /\ Go("stop", "wait") /\ UNCHANGED <<class, obj>>

(* The wait has no predicate; m_running is looked at once, under m_stopMutex*)
stopWaits ==
  /\ class = "server" /\ At("stop", "wait")
  /\ IF obj.running THEN obj' = [obj EXCEPT !.asleep = TRUE] /\ Go("stop", "asleep")
     ELSE Go("stop", "stopped") /\ UNCHANGED obj
  /\ UNCHANGED class
stopWoken ==
  /\ class = "server" /\ At("stop", "asleep") /\ ~obj.asleep
  /\ Go("stop", "stopped") /\ UNCHANGED <<class, obj>>

ServerNext ==
  \/ \E i \in ClientIds : clientConnects(i)
  \/ \E c \in ConnIds : \/ clientLeaves(c) \/ clientBeats(c) \/ clientReads(c)
                        \/ \E g \in {All, Answerer} : clientAsks(c, g)
                        \/ accept(c) \/ addClient(c) \/ onClientData(c) \/ removeClient(c)
  \/ onClose \/ serverStart \/ serverStop \/ noClients \/ stopWaits \/ stopWoken

ServerSpec == ServerInit /\ [][ServerNext]_mvars

-----------------------------------------------------------------------------
(* Requests are routed to sessions the server still has, under the id and   *)
(* the client they belong to; a client that left is soon in neither table.  *)
RoutesLive ==
  class = "server" =>
    /\ obj.routes \subseteq obj.clients
    /\ \A c \in obj.clients : obj.id[c] \in {0, obj.who[c]}

(* When stop() is back nothing of the server is called any more, unless a   *)
(* connection was being taken in while stop() saw that there was none.      *)
StoppedEmpty ==
  class = "server" /\ At("stop", "stopped") /\ ~obj.late =>
    obj.clients = {} /\ ~obj.running /\ obj.listening = "closed"

(* A route leads to a session that is open, and a server that was stopped   *)
(* has none left.                                                           *)
SessionsExact == RoutesLive /\ StoppedEmpty

(* A request to one client is answered at most once, however often the two  *)
(* come back on new connections while the old ones are still registered;    *)
(* one to all who registered the id by each client at most once.            *)
AnsweredOnce ==
  class = "server" =>
    \A n \in DOMAIN obj.target :
      obj.answers[n] <= IF obj.target[n] = All THEN Cardinality(ClientIds) ELSE 1

(* stop() comes back when the clients leave: the server does not close      *)
(* their connections.                                                       *)
Stopping == class = "server" /\ At("stop", "clients")
ClientStays == class = "server" /\ \E c \in obj.clients : Live(c)
ServerStops == Stopping ~> (~Stopping \/ ClientStays)

(* A request that is sent on to a registered client is answered, unless one *)
(* of the two leaves or the server stops.                                   *)
Pending(n) ==
  class = "server" /\ n \in obj.routed /\ obj.target[n] = Answerer /\ obj.answers[n] = 0
    /\ obj.listening = "up"
Answered(n) == Pending(n) ~> ~Pending(n)

(* The poll thread, the one that stops, and the clients go on.              *)
PollStep ==
  \/ \E c \in ConnIds : accept(c) \/ addClient(c) \/ onClientData(c) \/ removeClient(c)
  \/ onClose
ServerFairness ==
  /\ WF_mvars(PollStep)
  /\ WF_mvars(\E c \in ConnIds : clientReads(c))
  /\ WF_mvars(noClients \/ stopWaits \/ stopWoken)
=============================================================================
