------------------------------- MODULE Sockets -------------------------------
(***************************************************************************)
(* Socket (src/network/Socket.cpp): who owns a descriptor and whether it   *)
(* blocks, class "sockets"; and the calls that wait with select() before   *)
(* they read or write, class "socketRead", with two threads on one socket. *)
(***************************************************************************)
EXTENDS Monitor, SequencesExt

CONSTANTS MaxFd,    \* bound: descriptors are 0..MaxFd
          MaxChunks \* bound: pieces of data that arrive
ASSUME SocketsAssumption == MaxFd \in Nat /\ MaxChunks \in Nat

SocketIds == {1, 2}
Fds == 0..MaxFd
INVALID_SOCKET == -1
O_RDWR == 2
O_NONBLOCK == 2048

(* os: the descriptors, what each is and whether it blocks; fd, mode:       *)
(* m_socketFd and m_blockingType of two sockets; user: descriptors in the   *)
(* hands of the user; foreign: sockets that took over a descriptor that     *)
(* does not block; zero: an accept() gave a Socket of descriptor 0; junk: a *)
(* move has closed what an uninitialised member said.                       *)
Unused == [kind |-> "none", nonblock |-> FALSE]
SocketsInit ==
  /\ class = "sockets" /\ pc = <<>>
  /\ obj = [os |-> [f \in Fds |-> IF f = 0 THEN [Unused EXCEPT !.kind = "stdin"] ELSE Unused],
            fd |-> [s \in SocketIds |-> INVALID_SOCKET], mode |-> [s \in SocketIds |-> "Blocking"],
            user |-> {}, foreign |-> {}, zero |-> FALSE, junk |-> FALSE]
SocketsAt == class = "sockets" /\ ~obj.junk /\ ~(obj.zero /\ obj.os[0].kind # "stdin")
Valid(s) == obj.fd[s] # INVALID_SOCKET
FreeFds(os) == {f \in Fds : os[f].kind = "none"}
NewFd(os) == CHOOSE f \in FreeFds(os) : \A g \in FreeFds(os) : f <= g

OpenAs(os, f, kind) == [os EXCEPT ![f] = [kind |-> kind, nonblock |-> FALSE]]
SetBlockingOf(os, f, mode) == [os EXCEPT ![f].nonblock = (mode = "NonBlocking")]
(* It multiplies the flags with O_NONBLOCK.                                 *)
IsNonBlocking(os, f) ==
  LET opts == O_RDWR + (IF os[f].nonblock THEN O_NONBLOCK ELSE 0)
  IN os[f].kind # "none" /\ opts * O_NONBLOCK = O_NONBLOCK

ClosedOs(o, s) == IF o.fd[s] = INVALID_SOCKET THEN o.os ELSE [o.os EXCEPT ![o.fd[s]] = Unused]
Closed(o, s) ==
  [o EXCEPT !.os = ClosedOs(o, s), !.fd[s] = INVALID_SOCKET, !.foreign = @ \ {s}]
(* The socket has this descriptor now.                                      *)
Holding(o, s, f) ==
  [o EXCEPT !.fd[s] = f,
            !.mode[s] = IF f # INVALID_SOCKET /\ IsNonBlocking(o.os, f) THEN "NonBlocking" ELSE "Blocking",
            !.foreign = IF f # INVALID_SOCKET /\ o.os[f].nonblock THEN @ \union {s} ELSE @ \ {s}]

create(s) ==
  /\ SocketsAt
  /\ LET o == Closed(obj, s)
     IN \/ /\ FreeFds(o.os) # {}
           /\ LET f == NewFd(o.os)
              IN obj' = [o EXCEPT !.fd[s] = f,
                                  !.os = SetBlockingOf(OpenAs(o.os, f, "fresh"), f, o.mode[s])]
        \/ obj' = o
  /\ Stay

(* close() and the destructor.                                              *)
socketClose(s) == SocketsAt /\ Valid(s) /\ obj' = Closed(obj, s) /\ Stay

(* attach(), and Socket(int) where the socket has nothing.                  *)
attach(s, f) ==
  /\ SocketsAt /\ f \in obj.user
  /\ obj' = [Holding(Closed(obj, s), s, f) EXCEPT !.user = @ \ {f}]
  /\ Stay
dettachKept(s) ==
  /\ SocketsAt /\ Valid(s)
  /\ obj' = [obj EXCEPT !.user = @ \union {obj.fd[s]}]
  /\ Stay
dettach(s) ==
  /\ SocketsAt /\ Valid(s)
  /\ obj' = [obj EXCEPT !.user = @ \union {obj.fd[s]}, !.fd[s] = INVALID_SOCKET, !.foreign = @ \ {s}]
  /\ Stay

(* Socket(Socket&&) closes before it has a descriptor of its own.           *)
moveSocket(s, t) ==
  /\ SocketsAt /\ s # t /\ ~Valid(s) /\ Valid(t)
  /\ \E junk \in Fds \union {INVALID_SOCKET} :
       LET os == IF junk = INVALID_SOCKET THEN obj.os ELSE [obj.os EXCEPT ![junk] = Unused]
       IN obj' = [obj EXCEPT !.os = os, !.junk = (os # obj.os),
                             !.fd = [@ EXCEPT ![s] = obj.fd[t], ![t] = INVALID_SOCKET],
                             !.mode[s] = obj.mode[t],
                             !.foreign = IF t \in @ THEN (@ \ {t}) \union {s} ELSE @]
  /\ Stay

setBlocking(s, mode) ==
  /\ SocketsAt
  /\ obj' = [obj EXCEPT !.mode[s] = mode, !.foreign = @ \ {s},
                        !.os = IF Valid(s) THEN SetBlockingOf(@, obj.fd[s], mode) ELSE @]
  /\ Stay

bindAndListen(s) ==
  /\ SocketsAt /\ Valid(s) /\ obj.os[obj.fd[s]].kind = "fresh"
  /\ obj' = [obj EXCEPT !.os[obj.fd[s]].kind = "listening"]
  /\ Stay

(* A socket that is not valid gives `0', and that is a Socket of stdin.     *)
socketAccept(s, t) ==
  /\ SocketsAt /\ s # t /\ ~Valid(t)
  /\ IF ~Valid(s) THEN obj' = [Holding(obj, t, 0) EXCEPT !.zero = TRUE]
     ELSE \/ /\ obj.os[obj.fd[s]].kind = "listening" /\ FreeFds(obj.os) # {}
             /\ LET f == NewFd(obj.os)
                IN obj' = Holding([obj EXCEPT !.os = OpenAs(@, f, "connected")], t, f)
          \/ obj' = Holding(obj, t, INVALID_SOCKET)
  /\ Stay

(* connect() does not block while it connects.  It says FALSE of what is    *)
(* connected at once; that it says so changes nothing here.                 *)
socketConnect(s) ==
  /\ SocketsAt /\ Valid(s) /\ obj.os[obj.fd[s]].kind = "fresh"
  /\ \E kind \in {"fresh", "connected"} :
       obj' = [obj EXCEPT !.os[obj.fd[s]] =
                 [kind |-> kind, nonblock |-> obj.mode[s] = "NonBlocking"], !.foreign = @ \ {s}]
  /\ Stay

(* The user: SocketPair() and descriptors of other origin, and close().     *)
socketPair ==
  /\ SocketsAt /\ Cardinality(FreeFds(obj.os)) > 1
  /\ LET f == NewFd(obj.os)
         os1 == OpenAs(obj.os, f, "connected")
         g == NewFd(os1)
     IN obj' = [obj EXCEPT !.os = OpenAs(os1, g, "connected"), !.user = @ \union {f, g}]
  /\ Stay
userCloses(f) ==
  /\ SocketsAt /\ f \in obj.user
  /\ obj' = [obj EXCEPT !.os[f] = Unused, !.user = @ \ {f}]
  /\ Stay
userNonBlocking(f) ==
  /\ SocketsAt /\ f \in obj.user /\ ~obj.os[f].nonblock
  /\ obj' = [obj EXCEPT !.os[f].nonblock = TRUE]
  /\ Stay

SocketsNext ==
  \/ \E s \in SocketIds :
       \/ create(s) \/ socketClose(s) \/ dettach(s) \/ bindAndListen(s) \/ socketConnect(s)
       \/ \E f \in Fds : attach(s, f)
       \/ \E t \in SocketIds : moveSocket(s, t) \/ socketAccept(s, t)
       \/ \E m \in {"Blocking", "NonBlocking"} : setBlocking(s, m)
  \/ socketPair \/ \E f \in Fds : userCloses(f) \/ userNonBlocking(f)

(* Every descriptor that is open is in one pair of hands, and what a socket *)
(* holds is open and blocks or not as the socket believes: until a move has *)
(* closed a descriptor of somebody else, with stdin aside, and but for      *)
(* descriptors that did not block when they were taken over.                *)
FdsOwned ==
  class = "sockets" /\ ~obj.junk =>
    /\ \A f \in Fds \ {0} :
         Cardinality({s \in SocketIds : obj.fd[s] = f}) + (IF f \in obj.user THEN 1 ELSE 0)
           = (IF obj.os[f].kind = "none" THEN 0 ELSE 1)
    /\ \A s \in SocketIds : obj.fd[s] \in Fds \ {0} /\ s \notin obj.foreign =>
         (obj.os[obj.fd[s]].nonblock <=> obj.mode[s] = "NonBlocking")
    /\ obj.os[0].kind # "stdin" => obj.zero

-----------------------------------------------------------------------------
(* Threads u1 and u2 read one socket that blocks.  queue: the pieces that   *)
(* are there to be read; got: what each thread has; late: threads that have *)
(* been told there is something, and it was read since.                     *)
Readers == {"u1", "u2"}
SocketReadInit ==
  /\ class = "socketRead" /\ pc = [t \in Readers |-> "idle"]
  /\ obj = [sent |-> 0, queue |-> <<>>, got |-> [t \in Readers |-> <<>>], late |-> {},
            useSelect |-> TRUE]

peerSends ==
  /\ class = "socketRead" /\ obj.sent < MaxChunks
  /\ obj' = [obj EXCEPT !.sent = @ + 1, !.queue = Append(@, obj.sent + 1)]
  /\ Stay

setUseSelect ==
  /\ class = "socketRead" /\ \A t \in Readers : pc[t] = "idle"
  /\ obj' = [obj EXCEPT !.useSelect = ~@]
  /\ Stay

(* read() and recvFrom(): select(), if it is used; then the read.           *)
socketSelect(t) ==
  /\ class = "socketRead" /\ At(t, "idle")
  /\ obj.useSelect => obj.queue # <<>>
  /\ Go(t, "read") /\ UNCHANGED <<class, obj>>

socketRead(t) ==
  /\ class = "socketRead" /\ At(t, "read") /\ obj.queue # <<>>
  /\ obj' = [obj EXCEPT !.queue = Tail(@), !.got[t] = Append(@, Head(obj.queue)),
                        !.late = IF Len(obj.queue) > 1 THEN @ \ {t}
                                 ELSE (@ \union {u \in Readers : pc[u] = "read"}) \ {t}]
  /\ Go(t, "idle") /\ UNCHANGED class

SocketReadNext == peerSends \/ setUseSelect \/ \E t \in Readers : socketSelect(t) \/ socketRead(t)

(* Every piece is read by one thread, in the order it came; and a thread    *)
(* that select() let go on has something to read, or waits longer than it   *)
(* was told to because the other thread has read in between.                *)
ReadsShared ==
  class = "socketRead" =>
    /\ \A t \in Readers : \A i, j \in DOMAIN obj.got[t] : i < j => obj.got[t][i] < obj.got[t][j]
    /\ \A n \in 1..obj.sent :
         Cardinality({t \in Readers : n \in ToSet(obj.got[t])})
           = (IF n \in ToSet(obj.queue) THEN 0 ELSE 1)
    /\ obj.useSelect => \A t \in Readers : At(t, "read") /\ obj.queue = <<>> => t \in obj.late
=============================================================================
