------------------------------- MODULE BusClient -------------------------------
(***************************************************************************)
(* A MessageBusClient (MessageBus.cpp) keeping its connection: the thread  *)
(* of start(), which connects, registers the handlers with the server and  *)
(* then sends heartbeats; the poll thread, which brings answers, requests  *)
(* and the end of a connection; and a user's thread in on() or stop().     *)
(* The TcpConnection below and the server are as small as the client can   *)
(* tell them apart (TcpConnection has the first in full).                  *)
(*                                                                         *)
(* Of the mutexes, m_mutex is held over a step only by stop(), and         *)
(* m_mutexMsgId2Func only by sendRegisterInfo() while it waits.            *)
(***************************************************************************)
EXTENDS Integers, Sequences

CONSTANTS
  MsgIds,     \* the message ids handlers are added for
  MaxFaults,  \* bound: failed connects, broken or silent connections, slow answers
  MaxStarts,  \* bound: calls of start()
  MaxInbox    \* bound: packages on the way to the client

ASSUME ClientAssumption == MaxFaults \in Nat /\ MaxStarts \in Nat /\ MaxInbox \in Nat

VARIABLES
  cpc,                 \* the thread of start()
  upc,                 \* the user's thread
  ppc,                 \* the poll thread
  m_stoped, m_connected,
  m_heartbeatLossCnt,
  msgId2Func,          \* the ids with a handler
  regOwner,            \* who is in sendRegisterInfo(): "conn", "user" or "none"
  stopping,            \* stop() holds m_mutex
  sock,                \* "none", "up", "shut" (HUP is due) or "closed"
  registered,          \* epoll has an entry for the socket,
  armed,               \* which asks for POLLOUT
  silent,              \* the connection carries nothing any more
  outbox, inbox,       \* the packages on their way
  replied,             \* those whose promise was set
  session, known,      \* the server: a Register came on this connection; the ids in it
  faults, starts

sockVars == <<sock, registered, silent>>
pkgVars == <<armed, outbox, inbox, replied, session, known>>
boundVars == <<faults, starts>>
flagVars == <<m_stoped, m_connected, m_heartbeatLossCnt>>
vars == <<cpc, upc, ppc, flagVars, msgId2Func, regOwner, stopping, sockVars, pkgVars, boundVars>>

Init ==
  /\ cpc = "off" /\ upc = "idle" /\ ppc = "idle"
  /\ m_stoped = TRUE /\ m_connected = FALSE /\ m_heartbeatLossCnt = 0
  /\ msgId2Func = {} /\ regOwner = "none" /\ stopping = FALSE
  /\ sock = "none" /\ registered = FALSE /\ silent = FALSE
  /\ armed = FALSE /\ outbox = <<>> /\ inbox = <<>> /\ replied = {} /\ session = FALSE /\ known = {}
  /\ faults = 0 /\ starts = 0

\* A fault is used up.
Fault == faults < MaxFaults /\ faults' = faults + 1 /\ UNCHANGED starts

\* What getSocket().isConnected() may say: of a socket that is shut, both.
Connected == sock \in {"up", "shut"}
Disconnected == sock # "up"

\* The socket leaves "up": what was on its way is lost, the server forgets.
Break(s) ==
  /\ sock' = s
  /\ armed' = FALSE /\ outbox' = <<>> /\ inbox' = <<>> /\ session' = FALSE /\ known' = {}

\* TcpConnection::close.
CloseConn ==
  IF sock = "up" THEN Break("shut") ELSE UNCHANGED <<sock, armed, outbox, inbox, session, known>>

\* req() for one of the exchanges: its promise is unset, and a package goes out,
\* as soon as a send() finds the entry to arm.
Request(by, reg) ==
  /\ outbox' = IF sock = "up" /\ ~silent
                 THEN Append(outbox, [by |-> by, reg |-> reg, codes |-> IF reg THEN msgId2Func ELSE {}])
                 ELSE outbox
  /\ armed' = (armed \/ registered)
  /\ replied' = replied \ {by}
  /\ UNCHANGED <<inbox, session, known>>

\* get() gives up: an answer that still comes finds no promise.
Forgotten(box, by) == [i \in DOMAIN box |-> IF box[i].by = by THEN [box[i] EXCEPT !.by = "old"] ELSE box[i]]

\* The poll thread waits for a mutex that is held for long.
HeldUp == \/ ppc = "handleReq" /\ regOwner # "none"
          \/ ppc = "onClose" /\ stopping

\* The answer to `by' cannot come: nothing of it is on its way, or the poll
\* thread is held up.
Hopeless(by) ==
  \/ sock # "up" \/ ~registered \/ HeldUp
  \/ /\ armed => \A i \in DOMAIN outbox : outbox[i].by # by
     /\ \A j \in DOMAIN inbox : inbox[j].by # by

\* get() times out: with an answer on its way that is a fault.
GiveUp(by) ==
  /\ by \notin replied
  /\ \/ Hopeless(by) /\ UNCHANGED boundVars
     \/ ~Hopeless(by) /\ Fault

-----------------------------------------------------------------------------
\* start() and its thread.

start ==
  /\ upc = "idle" /\ m_stoped /\ cpc \in {"off", "done"} /\ starts < MaxStarts
  /\ starts' = starts + 1
  /\ m_stoped' = FALSE
  /\ cpc' = "loop"
  /\ UNCHANGED <<upc, ppc, m_connected, m_heartbeatLossCnt, msgId2Func, regOwner, stopping,
                 sockVars, pkgVars, faults>>

Finish ==
  /\ cpc = "loop" /\ m_stoped
  /\ cpc' = "done"
  /\ UNCHANGED <<upc, ppc, flagVars, msgId2Func, regOwner, stopping, sockVars, pkgVars, boundVars>>

InUse ==
  /\ cpc = "loop" /\ ~m_stoped
  /\ Connected /\ m_connected
  /\ cpc' = "beat"
  /\ UNCHANGED <<upc, ppc, flagVars, msgId2Func, regOwner, stopping, sockVars, pkgVars, boundVars>>

\* connect(): the old socket is closed and a new one connected, or not.
Connect ==
  /\ cpc = "loop" /\ ~m_stoped
  /\ Disconnected \/ ~m_connected
  /\ \/ Break("up") /\ cpc' = "addFd" /\ silent' = FALSE /\ UNCHANGED boundVars
     \/ Break("closed") /\ cpc' = "loop" /\ silent' = FALSE /\ Fault
  /\ registered' = FALSE
  /\ UNCHANGED <<upc, ppc, flagVars, msgId2Func, regOwner, stopping, replied>>

\* The end of connect(): a socket that is closed by now gets no entry.
AddFd ==
  /\ cpc = "addFd"
  /\ registered' = (sock # "closed")
  /\ cpc' = "register"
  /\ UNCHANGED <<upc, ppc, flagVars, msgId2Func, regOwner, stopping, sock, silent, pkgVars, boundVars>>

\* sendRegisterInfo() from here; when it fails the connection is closed.
ConnRegister ==
  /\ cpc = "register" /\ regOwner = "none"
  /\ \/ /\ Connected
        /\ regOwner' = "conn" /\ Request("conn", TRUE)
        /\ cpc' = "regWait"
        /\ UNCHANGED sock
     \/ /\ Disconnected
        /\ CloseConn
        /\ cpc' = "unwind"
        /\ UNCHANGED <<regOwner, replied>>
  /\ UNCHANGED <<upc, ppc, flagVars, msgId2Func, stopping, registered, silent, boundVars>>

ConnRegistered ==
  /\ cpc = "regWait" /\ "conn" \in replied
  /\ regOwner' = "none"
  /\ cpc' = "ready"
  /\ UNCHANGED <<upc, ppc, flagVars, msgId2Func, stopping, sockVars, pkgVars, boundVars>>

\* Defect: a registration that was not answered is taken for done.
ConnGivesUpAnyway ==
  /\ cpc = "regWait" /\ GiveUp("conn")
  /\ regOwner' = "none"
  /\ outbox' = Forgotten(outbox, "conn") /\ inbox' = Forgotten(inbox, "conn")
  /\ cpc' = "ready"
  /\ UNCHANGED <<upc, ppc, flagVars, msgId2Func, stopping, sockVars, armed, replied, session, known>>

ConnGivesUp ==
  /\ cpc = "regWait" /\ GiveUp("conn")
  /\ regOwner' = "none"
  /\ IF sock = "up" THEN CloseConn
     ELSE /\ outbox' = Forgotten(outbox, "conn") /\ inbox' = Forgotten(inbox, "conn")
          /\ UNCHANGED <<sock, armed, session, known>>
  /\ cpc' = "unwind"
  /\ UNCHANGED <<upc, ppc, flagVars, msgId2Func, stopping, registered, silent, replied>>

Unwind ==
  /\ cpc = "unwind" /\ Disconnected
  /\ cpc' = "loop"
  /\ UNCHANGED <<upc, ppc, flagVars, msgId2Func, regOwner, stopping, sockVars, pkgVars, boundVars>>

\* Under m_mutex; the connected callback is called.
Ready ==
  /\ cpc = "ready" /\ ~stopping
  /\ m_connected' = TRUE /\ m_heartbeatLossCnt' = 0
  /\ cpc' = "loop"
  /\ UNCHANGED <<upc, ppc, m_stoped, msgId2Func, regOwner, stopping, sockVars, pkgVars, boundVars>>

\* A second later: a heartbeat, every five seconds, or another turn.
Beat ==
  /\ cpc = "beat"
  /\ Request("beat", FALSE)
  /\ cpc' = "beatWait"
  /\ UNCHANGED <<upc, ppc, flagVars, msgId2Func, regOwner, stopping, sockVars, boundVars>>

Sleep ==
  /\ cpc = "beat"
  /\ cpc' = "loop"
  /\ UNCHANGED <<upc, ppc, flagVars, msgId2Func, regOwner, stopping, sockVars, pkgVars, boundVars>>

BeatAnswered ==
  /\ cpc = "beatWait" /\ "beat" \in replied
  /\ cpc' = "loop"
  /\ UNCHANGED <<upc, ppc, flagVars, msgId2Func, regOwner, stopping, sockVars, pkgVars, boundVars>>

\* Defect: lost heartbeats are counted and nothing more.
BeatLostOnly ==
  /\ cpc = "beatWait" /\ GiveUp("beat")
  /\ m_heartbeatLossCnt' = IF m_heartbeatLossCnt < 3 THEN m_heartbeatLossCnt + 1 ELSE 3
  /\ cpc' = "loop"
  /\ outbox' = Forgotten(outbox, "beat") /\ inbox' = Forgotten(inbox, "beat")
  /\ UNCHANGED <<upc, ppc, m_stoped, m_connected, msgId2Func, regOwner, stopping, sockVars,
                 armed, replied, session, known>>

BeatLost ==
  /\ cpc = "beatWait" /\ GiveUp("beat")
  /\ m_heartbeatLossCnt' = m_heartbeatLossCnt + 1
  /\ cpc' = IF m_heartbeatLossCnt' >= 3 THEN "loss" ELSE "loop"
  /\ outbox' = Forgotten(outbox, "beat") /\ inbox' = Forgotten(inbox, "beat")
  /\ UNCHANGED <<upc, ppc, m_stoped, m_connected, msgId2Func, regOwner, stopping, sockVars,
                 armed, replied, session, known>>

\* The third in a row, under m_mutex.
HeartbeatLoss ==
  /\ cpc = "loss" /\ ~stopping
  /\ CloseConn
  /\ m_heartbeatLossCnt' = 0
  /\ cpc' = "loop"
  /\ UNCHANGED <<upc, ppc, m_stoped, m_connected, msgId2Func, regOwner, stopping, registered,
                 silent, replied, boundVars>>

ConnThread ==
  \/ Finish \/ InUse \/ Connect \/ AddFd \/ ConnRegister \/ ConnRegistered \/ ConnGivesUp
  \/ Unwind \/ Ready \/ Beat \/ Sleep \/ BeatAnswered \/ BeatLost \/ HeartbeatLoss

-----------------------------------------------------------------------------
\* The user's thread.

\* Defect: on() leaves the registration to the next connection.
onUnregistered(m) ==
  /\ upc = "idle" /\ m \notin msgId2Func
  /\ regOwner = "none"
  /\ msgId2Func' = msgId2Func \cup {m}
  /\ upc' = "idle"
  /\ UNCHANGED <<cpc, ppc, flagVars, regOwner, stopping, sockVars, pkgVars, boundVars>>

\* on(): the handler is added, then sendRegisterInfo() is called.
on(m) ==
  /\ upc = "idle" /\ m \notin msgId2Func
  /\ regOwner = "none"
  /\ msgId2Func' = msgId2Func \cup {m}
  /\ upc' = "register"
  /\ UNCHANGED <<cpc, ppc, flagVars, regOwner, stopping, sockVars, pkgVars, boundVars>>

UserRegister ==
  /\ upc = "register" /\ regOwner = "none"
  /\ \/ Connected /\ regOwner' = "user" /\ Request("user", TRUE) /\ upc' = "regWait"
     \/ Disconnected /\ upc' = "idle" /\ UNCHANGED <<regOwner, pkgVars>>
  /\ UNCHANGED <<cpc, ppc, flagVars, msgId2Func, stopping, sockVars, boundVars>>

\* Whether it was answered or not, on() comes back.
UserRegistered ==
  /\ upc = "regWait"
  /\ \/ "user" \in replied /\ UNCHANGED <<boundVars, outbox, inbox>>
     \/ /\ GiveUp("user")
        /\ outbox' = Forgotten(outbox, "user") /\ inbox' = Forgotten(inbox, "user")
  /\ regOwner' = "none"
  /\ upc' = "idle"
  /\ UNCHANGED <<cpc, ppc, flagVars, msgId2Func, stopping, sockVars, armed, replied, session, known>>

\* stop(), which holds m_mutex,
stop ==
  /\ upc = "idle" /\ ~m_stoped
  /\ stopping' = TRUE
  /\ m_stoped' = TRUE
  /\ CloseConn
  /\ upc' = "join"
  /\ UNCHANGED <<cpc, ppc, m_connected, m_heartbeatLossCnt, msgId2Func, regOwner, registered,
                 silent, replied, boundVars>>

\* while it joins the thread.
Join ==
  /\ upc = "join" /\ cpc = "done"
  /\ stopping' = FALSE
  /\ upc' = "idle"
  /\ UNCHANGED <<cpc, ppc, flagVars, msgId2Func, regOwner, sockVars, pkgVars, boundVars>>

-----------------------------------------------------------------------------
\* The poll thread.

\* onData() with one package: handleRsp() sets its promise, handleReq() needs
\* the mutex of the handlers.
onData ==
  /\ ppc = "idle" /\ registered /\ sock = "up" /\ inbox # <<>>
  /\ m_heartbeatLossCnt' = 0
  /\ inbox' = Tail(inbox)
  /\ ppc' = IF Head(inbox).by = "peer" THEN "handleReq" ELSE "idle"
  /\ replied' = replied \cup ({Head(inbox).by} \cap {"conn", "user", "beat"})
  /\ UNCHANGED <<cpc, upc, m_stoped, m_connected, msgId2Func, regOwner, stopping, sockVars,
                 armed, outbox, session, known, boundVars>>

handleReq ==
  /\ ppc = "handleReq" /\ regOwner = "none"
  /\ ppc' = "idle"
  /\ UNCHANGED <<cpc, upc, flagVars, msgId2Func, regOwner, stopping, sockVars, pkgVars, boundVars>>

\* The event of a connection's end is got,
Hup ==
  /\ ppc = "idle" /\ registered /\ sock = "shut"
  /\ ppc' = "hup"
  /\ UNCHANGED <<cpc, upc, flagVars, msgId2Func, regOwner, stopping, sockVars, pkgVars, boundVars>>

\* the entry removed that the socket has by now,
DelFd ==
  /\ ppc = "hup"
  /\ registered' = FALSE
  /\ ppc' = "onClose"
  /\ UNCHANGED <<cpc, upc, flagVars, msgId2Func, regOwner, stopping, sock, silent, pkgVars, boundVars>>

\* Defect: the socket is left open.
onCloseKeeping ==
  /\ ppc = "onClose" /\ ~stopping
  /\ m_connected' = FALSE
  /\ ppc' = "idle"
  /\ UNCHANGED <<cpc, upc, m_stoped, m_heartbeatLossCnt, msgId2Func, regOwner, stopping,
                 sockVars, pkgVars, boundVars>>

\* and onClose() closes that socket, too, under m_mutex.
onClose ==
  /\ ppc = "onClose" /\ ~stopping
  /\ m_connected' = FALSE
  /\ Break("closed")
  /\ ppc' = "idle"
  /\ UNCHANGED <<cpc, upc, m_stoped, m_heartbeatLossCnt, msgId2Func, regOwner, stopping,
                 registered, silent, replied, boundVars>>

PollThread == onData \/ handleReq \/ Hup \/ DelFd \/ onClose

-----------------------------------------------------------------------------
\* The server, the other clients and the network.

\* A Register or a heartbeat is answered (onClientData of the server).
Serve ==
  /\ sock = "up" /\ ~silent /\ armed /\ outbox # <<>> /\ Len(inbox) < MaxInbox
  /\ outbox' = Tail(outbox)
  /\ armed' = (Tail(outbox) # <<>>)
  /\ inbox' = Append(inbox, [by |-> Head(outbox).by])
  /\ session' = (session \/ Head(outbox).reg)
  /\ known' = known \cup Head(outbox).codes
  /\ UNCHANGED <<cpc, upc, ppc, flagVars, msgId2Func, regOwner, stopping, sockVars, replied, boundVars>>

\* Another client's request for a known id.
Ask ==
  /\ sock = "up" /\ ~silent /\ known # {} /\ Len(inbox) < MaxInbox
  /\ inbox' = Append(inbox, [by |-> "peer"])
  /\ UNCHANGED <<cpc, upc, ppc, flagVars, msgId2Func, regOwner, stopping, sockVars, armed,
                 outbox, replied, session, known, boundVars>>

\* The connection breaks, or goes silent without a word.
Lose ==
  /\ sock = "up" /\ Fault
  /\ \/ Break("shut") /\ UNCHANGED silent
     \/ silent' = TRUE /\ armed' = FALSE /\ outbox' = <<>> /\ inbox' = <<>> /\ UNCHANGED <<sock, session, known>>
  /\ UNCHANGED <<cpc, upc, ppc, flagVars, msgId2Func, regOwner, stopping, registered, replied>>

Next ==
  \/ start \/ ConnThread
  \/ \E m \in MsgIds : on(m)
  \/ UserRegister \/ UserRegistered \/ stop \/ Join
  \/ PollThread
  \/ Serve \/ Ask \/ Lose

Spec == Init /\ [][Next]_vars

\* The threads go on, a mutex is got that is free again and again, heartbeats
\* are sent, and what the network carries arrives.
Fairness ==
  /\ WF_vars(ConnThread) /\ SF_vars(ConnRegister) /\ SF_vars(Beat)
  /\ SF_vars(UserRegister) /\ WF_vars(UserRegistered) /\ WF_vars(Join)
  /\ WF_vars(PollThread) /\ SF_vars(handleReq) /\ SF_vars(Serve)
FairSpec == Spec /\ Fairness
-----------------------------------------------------------------------------
Exchanges == {"conn", "user", "beat"}

TypeOK ==
  /\ cpc \in {"off", "loop", "beat", "beatWait", "loss", "addFd", "register", "regWait",
              "unwind", "ready", "done"}
  /\ upc \in {"idle", "register", "regWait", "join"}
  /\ ppc \in {"idle", "handleReq", "hup", "onClose"}
  /\ m_stoped \in BOOLEAN /\ m_connected \in BOOLEAN /\ m_heartbeatLossCnt \in 0 .. 3
  /\ msgId2Func \subseteq MsgIds /\ regOwner \in {"none", "conn", "user"}
  /\ stopping \in BOOLEAN
  /\ sock \in {"none", "up", "shut", "closed"}
  /\ registered \in BOOLEAN /\ armed \in BOOLEAN /\ silent \in BOOLEAN
  /\ outbox \in Seq([by : Exchanges \cup {"old"}, reg : BOOLEAN, codes : SUBSET MsgIds])
  /\ inbox \in Seq([by : Exchanges \cup {"old", "peer"}])
  /\ replied \subseteq Exchanges
  /\ session \in BOOLEAN /\ known \subseteq msgId2Func
  /\ faults \in 0 .. MaxFaults /\ starts \in 0 .. MaxStarts

\* A connection that the client calls connected, and keeps alive, is one the
\* server has its Register of, whatever happened between the connections.
InUseRegistered ==
  cpc \in {"loop", "beat", "beatWait", "loss"} /\ m_connected /\ sock = "up" => session

\* The client has a live connection, and the server knows all its handlers.
Serving ==
  /\ m_connected /\ sock = "up" /\ registered /\ ~silent
  /\ msgId2Func \subseteq known

\* When the faults have an end a started client comes to serve, and stays so:
\* a silent connection is noticed, a broken one replaced, and a handler added
\* at any moment is registered.
Settles == <>[](cpc = "off" \/ m_stoped \/ Serving)

\* stop() comes back.
StopReturns == upc = "join" ~> upc = "idle"
=============================================================================
