--------------------------------- MODULE EPoll ---------------------------------
(***************************************************************************)
(* EPoll and PollMgr (src/network/EPoll.cpp): a table from descriptors to  *)
(* FdInfo objects, the kernel's set, which holds pointers to the same      *)
(* objects, and a thread that asks the kernel for a batch of pointers and  *)
(* follows them one by one without m_fdInfosMutex.  Connections are what   *)
(* TcpConnection.cpp does with it: createTcp and close, addFd, addEvents,  *)
(* and in the handler of a hangup delFd and the close callback.            *)
(*                                                                         *)
(* Class "epoll": u1 is the user of the connections, "poll" the poll       *)
(* thread, u3 starts and stops PollMgr.                                    *)
(***************************************************************************)
EXTENDS Monitor, FiniteSets

CONSTANTS Conns,    \* connection objects
          MaxInfos  \* bound: addFd() calls

ASSUME EPollAssumption == IsFiniteSet(Conns) /\ Conns # {} /\ MaxInfos \in Nat

NoInfo == 0
Fds == 1..Cardinality(Conns)
InfoIds == 1..MaxInfos

(* fd: m_socket's descriptor, 0 if none; table: m_fdInfos; kset: the        *)
(* kernel's pointer for a descriptor; asked: POLLIN is in its mask; who:    *)
(* whose handler an FdInfo holds; freed: deleted FdInfos; hup: descriptors  *)
(* whose peer has closed; batch: what the poll thread has yet to follow;    *)
(* told: connections whose close callback ran; dead: destroyed connections; *)
(* careful: the user waits for the callback before it connects again or     *)
(* destroys; wild: the poll thread followed a pointer to what is gone.      *)
EPollInit ==
  /\ class = "epoll"
  /\ pc = [t \in {"u1", "u3", "poll"} |-> IF t = "poll" THEN "done" ELSE "idle"]
  /\ obj \in [fd : {[c \in Conns |-> 0]}, table : {[f \in Fds |-> NoInfo]},
              kset : {[f \in Fds |-> NoInfo]}, asked : {{}}, made : {0},
              who : {[i \in InfoIds |-> CHOOSE c \in Conns : TRUE]}, freed : {{}},
              hup : {{}}, batch : {{}}, told : {{}}, dead : {{}}, adds : {CHOOSE c \in Conns : TRUE},
              careful : BOOLEAN, wild : {FALSE}, selfStop : {FALSE}, stoped : {TRUE}, ended : {FALSE}]

FreeFds(o) == {f \in Fds : \A c \in Conns : o.fd[c] # f}
LowestFree(o) == CHOOSE f \in FreeFds(o) : \A g \in FreeFds(o) : f <= g
MayDrop(c) == obj.careful => obj.fd[c] = 0 \/ c \in obj.told

(* close() of a descriptor takes it out of the kernel's set; m_fdInfos is   *)
(* not told.                                                                *)
Closed(o, c) ==
  IF o.fd[c] = 0 THEN o
  ELSE [o EXCEPT !.fd[c] = 0, !.kset[o.fd[c]] = NoInfo, !.hup = @ \ {o.fd[c]}]

createTcp(c) ==
  /\ class = "epoll" /\ At("u1", "idle") /\ c \notin obj.dead /\ MayDrop(c)
  /\ obj.made < MaxInfos
  /\ LET o == Closed(obj, c)
     IN obj' = [o EXCEPT !.fd[c] = LowestFree(o), !.told = @ \ {c}, !.adds = c]
  /\ Go("u1", "add") /\ UNCHANGED class

(* The entry a descriptor may still have is erased and its FdInfo, whoever  *)
(* points to it, neither deleted nor taken out of a batch.                  *)
addFd ==
  /\ class = "epoll" /\ At("u1", "add")
  /\ LET f == obj.fd[obj.adds] i == obj.made + 1
     IN obj' = [obj EXCEPT !.made = i, !.who[i] = obj.adds, !.table[f] = i, !.kset[f] = i,
                           !.asked = @ \ {f}]
  /\ Go("u1", "events") /\ UNCHANGED class

(* Nothing happens when a hangup came first and delFd() took the entry.     *)
addEvents ==
  /\ class = "epoll" /\ At("u1", "events")
  /\ LET f == obj.fd[obj.adds]
     IN obj' = [obj EXCEPT !.asked = IF obj.table[f] = NoInfo THEN @ ELSE @ \union {f}]
  /\ Go("u1", "idle") /\ UNCHANGED class

(* ~TcpConnection() leaves the entry; ~Socket() closes.                     *)
destroyConn(c) ==
  /\ class = "epoll" /\ At("u1", "idle") /\ c \notin obj.dead /\ MayDrop(c)
  /\ obj' = [Closed(obj, c) EXCEPT !.dead = @ \union {c}, !.told = @ \ {c}]
  /\ Stay

peerCloses(c) ==
  /\ class = "epoll" /\ obj.fd[c] # 0 /\ obj.kset[obj.fd[c]] # NoInfo
  /\ obj' = [obj EXCEPT !.hup = @ \union {obj.fd[c]}]
  /\ Stay

(* epoll_wait(): the descriptors with something to tell, which the thread   *)
(* then takes in any order: a hangup asked for or not, or data if asked for.*)
ReadyFds == {f \in Fds : obj.kset[f] # NoInfo /\ f \in obj.hup \union obj.asked}
doPoll ==
  /\ class = "epoll" /\ At("poll", "loop")
  /\ IF obj.stoped THEN Go("poll", "done") /\ UNCHANGED obj
     ELSE /\ obj' = [obj EXCEPT !.batch = {<<obj.kset[f], f \in obj.hup>> : f \in ReadyFds}]
          /\ Go("poll", "follow")
  /\ UNCHANGED class

delFdInSet(f) ==
  IF f = 0 \/ obj.table[f] = NoInfo THEN obj
  ELSE [obj EXCEPT !.freed = @ \union {obj.table[f]}, !.table[f] = NoInfo, !.asked = @ \ {f}]

(* One pointer of the batch: fdInfo->events and fdInfo->updateFunc.  The    *)
(* handler of a hangup deletes the entry of the descriptor its connection   *)
(* has now, and calls the close callback.                                   *)
delFd(f) ==
  IF f = 0 \/ obj.table[f] = NoInfo THEN obj
  ELSE [obj EXCEPT !.freed = @ \union {obj.table[f]}, !.table[f] = NoInfo, !.kset[f] = NoInfo,
                   !.asked = @ \ {f}]
Gone(i) == i \in obj.freed \/ obj.who[i] \in obj.dead

update(i, hangup) ==
  /\ class = "epoll" /\ At("poll", "follow") /\ <<i, hangup>> \in obj.batch
  /\ obj' = [(IF hangup /\ ~Gone(i) THEN delFd(obj.fd[obj.who[i]]) ELSE obj)
               EXCEPT !.batch = @ \ {<<i, hangup>>},
                      !.wild = @ \/ Gone(i),
                      !.told = IF hangup /\ ~Gone(i) THEN @ \union {obj.who[i]} ELSE @]
  /\ Stay

batchDone ==
  /\ class = "epoll" /\ At("poll", "follow") /\ obj.batch = {}
  /\ Go("poll", "loop") /\ UNCHANGED <<class, obj>>

(* PollMgr.  stop() from a callback does not join; a start() after it puts  *)
(* a new thread where one is still joinable, which ends the program.        *)
pollStart ==
  /\ class = "epoll" /\ At("u3", "idle") /\ obj.stoped /\ ~obj.ended
  /\ obj' = [obj EXCEPT !.stoped = FALSE, !.ended = obj.selfStop]
  /\ Go("poll", IF obj.selfStop THEN pc["poll"] ELSE "loop") /\ UNCHANGED class

pollStopUnset ==
  /\ class = "epoll" /\ At("u3", "idle") /\ ~obj.stoped
  /\ Go("u3", "join") /\ UNCHANGED <<class, obj>>

pollStop ==
  /\ class = "epoll" /\ At("u3", "idle") /\ ~obj.stoped
  /\ obj' = [obj EXCEPT !.stoped = TRUE]
  /\ Go("u3", "join") /\ UNCHANGED class

pollJoined ==
  /\ class = "epoll" /\ At("u3", "join") /\ At("poll", "done")
  /\ Go("u3", "idle") /\ UNCHANGED <<class, obj>>

pollStopSelf ==
  /\ class = "epoll" /\ At("poll", "follow") /\ obj.batch # {} /\ ~obj.stoped
  /\ obj' = [obj EXCEPT !.stoped = TRUE, !.selfStop = TRUE]
  /\ Stay

EPollNext ==
  \/ \E c \in Conns : createTcp(c) \/ destroyConn(c) \/ peerCloses(c)
  \/ addFd \/ addEvents \/ doPoll \/ batchDone \/ \E i \in InfoIds, b \in BOOLEAN : update(i, b)
  \/ pollStart \/ pollStop \/ pollJoined \/ pollStopSelf
EPollSpec == EPollInit /\ [][EPollNext]_mvars

-----------------------------------------------------------------------------
(* With a user who connects again or destroys only after the callback, the  *)
(* poll thread follows no pointer to what is gone, though it holds no lock; *)
(* every FdInfo is in the table, and in the kernel's set, or deleted.       *)
PointersLive ==
  class = "epoll" /\ obj.careful =>
    /\ ~obj.wild
    /\ \A i \in 1..obj.made : (i \in obj.freed) # (\E f \in Fds : obj.table[f] = i /\ obj.kset[f] = i)

(* Whoever the user is: the kernel's pointers are to the table's FdInfos,   *)
(* none of them deleted.                                                    *)
SetMatchesTable ==
  class = "epoll" =>
    \A f \in Fds : obj.kset[f] # NoInfo => obj.kset[f] = obj.table[f] /\ obj.kset[f] \notin obj.freed

(* The poll thread follows no pointer to an FdInfo that is gone, with users *)
(* that wait for the callback; and the kernel's pointers are to FdInfos of  *)
(* the table.                                                               *)
PollExact == PointersLive /\ SetMatchesTable

EPollStep(t) == (t = "u1" /\ (addFd \/ addEvents)) \/ (t = "u3" /\ pollJoined)
PollStep == doPoll \/ batchDone \/ \E i \in InfoIds, b \in BOOLEAN : update(i, b)
=============================================================================
