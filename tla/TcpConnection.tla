----------------------------- MODULE TcpConnection -----------------------------
(***************************************************************************)
(* A client's ff::TcpConnection on Linux (ff/src/network/TcpConnection.cpp)*)
(* and its entry in EPoll (ff/src/network/EPoll.cpp).  Any thread may call *)
(* send() and close(); connect() is called by one thread whenever it finds *)
(* the socket not connected, also for another connection of the same       *)
(* object; all events are handled by the one thread of PollMgr.            *)
(*                                                                         *)
(* A byte is named by its place in the stream of all bytes given to        *)
(* send(): 1, 2, 3, ...  A Buffer is the run of bytes from `first' on.     *)
(***************************************************************************)
EXTENDS Integers, Sequences

CONSTANTS
  Sizes,      \* the sizes of the blocks given to send()
  Space,      \* the room in the kernel's send buffer
  MaxBytes,   \* bound: the bytes given to send()
  MaxQueue,   \* bound: the Buffers in m_sendBuffers
  MaxConns    \* bound: calls of connect()

ASSUME TcpAssumption ==
  /\ Sizes \subseteq Nat /\ Space \in Nat \ {0}
  /\ MaxBytes \in Nat /\ MaxQueue \in Nat /\ MaxConns \in Nat

VARIABLES
  conns,              \* calls of connect() so far; the handle in use is the last one's
  connecting,         \* connect() has a connected socket, not yet registered
  sock,               \* the socket: "none", "open", "shut" (HUP is due) or "closed"
  eof,                \* the peer closed its half
  inbox,              \* there are bytes to be read
  room,               \* room in the kernel's send buffer
  registered,         \* m_fdInfos has an entry for the handle in use,
  events,             \* with these events
  m_sendBuffers,      \* filled by send(), under m_sendMutex
  m_currSendBuffers,  \* the poll thread's own
  m_currSendSize,     \* what is left of its first Buffer; 0: all of it
  total,              \* bytes given to send()
  wire,               \* the bytes the kernel took, in order
  sentHere,           \* send() was called since the handle was registered
  pc, todo,           \* where the poll thread is, and the events it has to handle
  closes              \* calls of the close callback

sendVars == <<m_sendBuffers, m_currSendBuffers, m_currSendSize, total, wire, sentHere>>
connVars == <<conns, connecting, sock, eof, inbox, registered>>
vars == <<connVars, room, events, sendVars, pc, todo, closes>>

Smaller(a, b) == IF a <= b THEN a ELSE b

Init ==
  /\ conns = 0 /\ connecting = FALSE /\ sock = "none" /\ eof = FALSE /\ inbox = FALSE /\ room = Space
  /\ registered = FALSE /\ events = {}
  /\ m_sendBuffers = <<>> /\ m_currSendBuffers = <<>> /\ m_currSendSize = 0
  /\ total = 0 /\ wire = <<>> /\ sentHere = FALSE
  /\ pc = "wait" /\ todo = {} /\ closes = 0

\* EPoll::addEvents and delEvents; both fail without an entry.
addEvents(es) == events' = IF registered THEN events \cup es ELSE events
delEvents(es) == events' = IF registered THEN events \ es ELSE events

-----------------------------------------------------------------------------
\* The user's threads.

\* send(): one block, under m_sendMutex.
send(n) ==
  /\ total + n <= MaxBytes /\ Len(m_sendBuffers) < MaxQueue
  /\ m_sendBuffers' = Append(m_sendBuffers, [first |-> total + 1, size |-> n])
  /\ total' = total + n
  /\ addEvents({"out"})
  /\ sentHere' = registered
  /\ UNCHANGED <<connVars, room, m_currSendBuffers, m_currSendSize, wire, pc, todo, closes>>

\* connect(): createTcp() closes the old socket, and with it what epoll knew of
\* it; the new one is connected, or closed because that failed.
ConnectSocket ==
  /\ sock # "open" /\ ~connecting /\ conns < MaxConns
  /\ conns' = conns + 1
  /\ \E ok \in BOOLEAN : /\ sock' = IF ok THEN "open" ELSE "closed"
                         /\ connecting' = ok
  /\ eof' = FALSE /\ inbox' = FALSE /\ room' = Space
  /\ registered' = FALSE /\ events' = {} /\ sentHere' = FALSE
  /\ UNCHANGED <<m_sendBuffers, m_currSendBuffers, m_currSendSize, total, wire, pc, todo, closes>>

\* connect(): addFd() and addEvents(POLLIN); both refuse a closed handle.
Register ==
  /\ connecting
  /\ connecting' = FALSE
  /\ registered' = (sock # "closed")
  /\ events' = IF sock # "closed" THEN {"in"} ELSE {}
  /\ UNCHANGED <<conns, sock, eof, inbox, room, sendVars, pc, todo, closes>>

\* Shutdown ends both halves: HUP is due.
Shut == IF sock = "open" THEN "shut" ELSE sock

close ==
  /\ sock = "open"
  /\ sock' = Shut
  /\ UNCHANGED <<conns, connecting, eof, inbox, registered, room, events, sendVars, pc, todo, closes>>

-----------------------------------------------------------------------------
\* The poll thread: EPoll::update and onClientSocketUpdate.

\* What epoll_wait reports: HUP always, the others if asked for.
Reported ==
  (IF sock = "shut" THEN {"hup"} ELSE {})
    \cup ((  (IF inbox \/ eof \/ sock = "shut" THEN {"in"} ELSE {})
        \cup (IF room > 0 \/ sock = "shut" THEN {"out"} ELSE {})) \cap events)

After(es) == IF "out" \in es THEN "take" ELSE "wait"

poll ==
  /\ pc = "wait"
  /\ registered /\ Reported # {}
  /\ todo' = Reported
  /\ pc' = IF "hup" \in Reported THEN "hup"
           ELSE IF "in" \in Reported THEN "read" ELSE After(Reported)
  /\ UNCHANGED <<connVars, room, events, sendVars, closes>>

\* Defect: the entry stays in m_fdInfos.
onHupKeeping ==
  /\ pc = "hup"
  /\ pc' = "onclose"
  /\ UNCHANGED <<connVars, events, room, sendVars, todo, closes>>

\* HUP: the handle in use by now is taken out of m_fdInfos.
onHup ==
  /\ pc = "hup"
  /\ registered' = FALSE /\ events' = {} /\ sentHere' = FALSE
  /\ pc' = "onclose"
  /\ UNCHANGED <<conns, connecting, sock, eof, inbox, room, m_sendBuffers, m_currSendBuffers,
                 m_currSendSize, total, wire, todo, closes>>

\* The user's close callback, which may close the socket.
onClose ==
  /\ pc = "onclose"
  /\ closes' = closes + 1
  /\ sock' \in {sock, "closed"}
  /\ pc' = "wait" /\ todo' = {}
  /\ UNCHANGED <<conns, connecting, eof, inbox, registered, room, events, sendVars>>

\* POLLIN: read() hands some bytes to the data callback; at the end of the
\* peer's stream, or of the socket, both halves are shut.
onRead ==
  /\ pc = "read"
  /\ \/ /\ sock = "open" /\ inbox
        /\ inbox' \in BOOLEAN
        /\ UNCHANGED sock
     \/ /\ sock # "open" \/ ~inbox
        /\ sock' = Shut
        /\ UNCHANGED inbox
  /\ pc' = After(todo)
  /\ UNCHANGED <<conns, connecting, eof, registered, room, events, sendVars, todo, closes>>

\* POLLOUT: under m_sendMutex the filled list is taken over, if the last one is
\* used up; if there is none, the event is given up.
take ==
  /\ pc = "take"
  /\ IF m_currSendBuffers # <<>>
       THEN UNCHANGED <<m_currSendBuffers, m_currSendSize, m_sendBuffers, events>>
       ELSE /\ m_currSendSize' = 0
            /\ m_currSendBuffers' = m_sendBuffers
            /\ m_sendBuffers' = <<>>
            /\ IF m_sendBuffers = <<>> THEN delEvents({"out"}) ELSE UNCHANGED events
  /\ pc' = "write"
  /\ UNCHANGED <<connVars, room, total, wire, sentHere, todo, closes>>

\* What is left of the first Buffer, and (Start) the first byte of that.
Left == IF m_currSendSize > 0 THEN m_currSendSize ELSE Head(m_currSendBuffers).size
Start == Head(m_currSendBuffers).first + Head(m_currSendBuffers).size - Left

\* The Buffer is sent: the next one begins.
Pop == /\ m_currSendBuffers' = Tail(m_currSendBuffers)
       /\ m_currSendSize' = 0

\* Defect: after a part of a Buffer the next event begins it again.
writeFromStart(n) ==
  /\ pc = "write" /\ m_currSendBuffers # <<>>
  /\ Left > 0 /\ sock = "open" /\ n <= Smaller(Left, room)
  /\ wire' = wire \o [i \in 1 .. n |-> Start + i - 1]
  /\ room' = room - n
  /\ IF n = Left THEN Pop ELSE m_currSendSize' = 0 /\ UNCHANGED m_currSendBuffers
  /\ UNCHANGED <<connVars, events, m_sendBuffers, total, sentHere, pc, todo, closes>>

\* The kernel takes n bytes of the first Buffer, all of it or the room it has.
write(n) ==
  /\ pc = "write" /\ m_currSendBuffers # <<>>
  /\ Left > 0 /\ sock = "open" /\ n <= Smaller(Left, room)
  /\ wire' = wire \o [i \in 1 .. n |-> Start + i - 1]
  /\ room' = room - n
  /\ IF n = Left THEN Pop ELSE m_currSendSize' = Left - n /\ UNCHANGED m_currSendBuffers
  /\ UNCHANGED <<connVars, events, m_sendBuffers, total, sentHere, pc, todo, closes>>

\* An empty Buffer is passed over.
skip ==
  /\ pc = "write" /\ m_currSendBuffers # <<>>
  /\ Left = 0
  /\ Pop
  /\ UNCHANGED <<connVars, room, events, m_sendBuffers, total, wire, sentHere, pc, todo, closes>>

\* No room, or the socket failed: the rest waits for the next POLLOUT.
interrupted ==
  /\ pc = "write" /\ m_currSendBuffers # <<>>
  /\ Left > 0 /\ (sock # "open" \/ room = 0)
  /\ m_currSendSize' = Left
  /\ addEvents({"out"})
  /\ pc' = "wait" /\ todo' = {}
  /\ UNCHANGED <<connVars, room, m_sendBuffers, m_currSendBuffers, total, wire, sentHere, closes>>

\* Defect: with its list written the thread gives the event up, although
\* send() may have filled the other list meanwhile.
writtenAndDisarmed ==
  /\ pc = "write" /\ m_currSendBuffers = <<>>
  /\ delEvents({"out"})
  /\ pc' = "wait" /\ todo' = {}
  /\ UNCHANGED <<connVars, room, sendVars, closes>>

written ==
  /\ pc = "write" /\ m_currSendBuffers = <<>>
  /\ pc' = "wait" /\ todo' = {}
  /\ UNCHANGED <<connVars, room, events, sendVars, closes>>

Handle == \/ poll \/ onHup \/ onClose \/ onRead \/ take
          \/ \E n \in 1 .. Space : write(n)
          \/ skip \/ interrupted \/ written

-----------------------------------------------------------------------------
\* The kernel and the peer.

drain ==
  /\ sock = "open" /\ room < Space
  /\ room' = Space
  /\ UNCHANGED <<connVars, events, sendVars, pc, todo, closes>>

arrive ==
  /\ sock = "open" /\ ~eof
  /\ \/ ~inbox /\ inbox' = TRUE /\ UNCHANGED eof
     \/ eof' = TRUE /\ UNCHANGED inbox
  /\ UNCHANGED <<conns, connecting, sock, registered, room, events, sendVars, pc, todo, closes>>

Next == \/ \E n \in Sizes : send(n)
        \/ ConnectSocket \/ Register \/ close
        \/ Handle
        \/ drain \/ arrive

Spec == Init /\ [][Next]_vars

\* The poll thread and the thread in connect() run; the peer reads.
FairSpec == Spec /\ WF_vars(Handle) /\ WF_vars(Register) /\ WF_vars(drain)
-----------------------------------------------------------------------------
Buffers == [first : 1 .. (MaxBytes + 1), size : Sizes]

TypeOK ==
  /\ conns \in 0 .. MaxConns /\ connecting \in BOOLEAN
  /\ sock \in {"none", "open", "shut", "closed"}
  /\ eof \in BOOLEAN /\ inbox \in BOOLEAN /\ room \in 0 .. Space
  /\ registered \in BOOLEAN /\ events \subseteq {"in", "out"}
  /\ m_sendBuffers \in Seq(Buffers) /\ m_currSendBuffers \in Seq(Buffers)
  /\ m_currSendSize \in 0 .. MaxBytes
  /\ total \in 0 .. MaxBytes /\ wire \in Seq(1 .. MaxBytes)
  /\ sentHere \in BOOLEAN
  /\ pc \in {"wait", "hup", "onclose", "read", "take", "write"}
  /\ todo \subseteq {"hup", "in", "out"}
  /\ closes \in Nat

\* The kernel gets the bytes of all blocks once each and in the order of the
\* calls, however the socket cuts them up and whatever is sent while the poll
\* thread writes; when both lists are empty it has got all of them.
StreamInOrder ==
  /\ wire = [i \in 1 .. Len(wire) |-> i]
  /\ m_sendBuffers = <<>> /\ m_currSendBuffers = <<>> => Len(wire) = total

\* What was handed to send() on a registered connection is not left behind:
\* POLLOUT stays asked for as long as a list is not empty.  (Before addFd the
\* event is refused, and the block waits for the next send().)
NothingStranded ==
  sentHere /\ (m_sendBuffers # <<>> \/ m_currSendBuffers # <<>>) => "out" \in events

\* The close callback is called at most once for a connection.
OneCloseEach == closes <= conns

\* A block sent on a registered connection gets to the kernel, unless the
\* connection ends.
Flushed ==
  \A n \in 1 .. MaxBytes :
    (sentHere /\ total >= n) ~> (Len(wire) >= n \/ sock # "open" \/ ~registered)
=============================================================================
