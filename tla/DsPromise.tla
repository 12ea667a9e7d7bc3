------------------------------ MODULE DsPromise ------------------------------
(***************************************************************************)
(* getDataEntityNames() of a DataServiceClient (src/data_service/          *)
(* DataService.cpp), called by two users at once, and the poll thread that *)
(* brings the answers: send() puts a promise into the table under the id   *)
(* of the package, which is 2 for every call; get() waits for a second; the*)
(* promise takes itself out of the table when it is dropped.  An answer is *)
(* set in the promise the table has, and goes out of the table.            *)
(* Class "dsPromise".                                                      *)
(***************************************************************************)
EXTENDS Monitor, TLC

CONSTANT MaxNames   \* bound: calls made

Users == {"u1", "u2"}
NoUser == "none"

(* entry: whose promise the table has under id 2, NoUser if it has none;    *)
(* asked: requests on their way; answer: promises that are set; table: who  *)
(* holds m_mutexPkgId2Promise; own: the promises that are locked; given:    *)
(* what the calls of each user gave, "names" or "nothing"; calls: made.     *)
DsInit ==
  /\ class = "dsPromise"
  /\ pc = [t \in Users \union {"poll"} |-> "idle"]
  /\ obj = [entry |-> NoUser, asked |-> 0, answer |-> {}, table |-> NoUser, own |-> {},
            given |-> [u \in Users |-> <<>>], calls |-> 0]

Free == obj.table = NoUser

(* send(), in one hold of the table's mutex: insert() keeps what is there.  *)
dsSend(u) ==
  /\ class = "dsPromise" /\ At(u, "idle") /\ Free /\ obj.calls < MaxNames
  /\ obj' = [obj EXCEPT !.entry = IF @ = NoUser THEN u ELSE @, !.asked = @ + 1, !.calls = @ + 1]
  /\ Go(u, "get") /\ UNCHANGED class

(* get(): the answer, or nothing after a second.                            *)
getSet(u) ==
  /\ class = "dsPromise" /\ At(u, "get") /\ u \in obj.answer
  /\ obj' = [obj EXCEPT !.given[u] = Append(@, "names")]
  /\ Go(u, "drop") /\ UNCHANGED class
getTimeout(u) ==
  /\ class = "dsPromise" /\ At(u, "get") /\ u \notin obj.answer
  /\ obj' = [obj EXCEPT !.given[u] = Append(@, "nothing")]
  /\ Go(u, "drop") /\ UNCHANGED class

(* ~DsPkgPromise(): its own mutex, then, in removePromise(), the table's.   *)
dropLock(u) ==
  /\ class = "dsPromise" /\ At(u, "drop") /\ u \notin obj.own
  /\ obj' = [obj EXCEPT !.own = @ \union {u}]
  /\ Go(u, "remove") /\ UNCHANGED class
removePromiseMine(u) ==
  /\ class = "dsPromise" /\ At(u, "remove") /\ Free
  /\ obj' = [obj EXCEPT !.own = @ \ {u}, !.answer = @ \ {u},
                        !.entry = IF u \in obj.answer THEN NoUser ELSE @]
  /\ Go(u, "idle") /\ UNCHANGED class
dsRemovePromise(u) ==
  /\ class = "dsPromise" /\ At(u, "remove") /\ Free
  /\ obj' = [obj EXCEPT !.entry = NoUser, !.own = @ \ {u}, !.answer = @ \ {u}]
  /\ Go(u, "idle") /\ UNCHANGED class

(* The server's answer; it may not come.  handleRsp(): under the table's    *)
(* mutex, set() under the promise's.                                        *)
dsHandleRsp ==
  /\ class = "dsPromise" /\ At("poll", "idle") /\ Free /\ obj.asked > 0
  /\ IF obj.entry = NoUser
     THEN obj' = [obj EXCEPT !.asked = @ - 1] /\ UNCHANGED pc
     ELSE obj' = [obj EXCEPT !.asked = @ - 1, !.table = "poll"] /\ Go("poll", "set")
  /\ UNCHANGED class
dsSet ==
  /\ class = "dsPromise" /\ At("poll", "set") /\ obj.entry \notin obj.own
  /\ obj' = [obj EXCEPT !.answer = @ \union {obj.entry}, !.entry = NoUser, !.table = NoUser]
  /\ Go("poll", "idle") /\ UNCHANGED class
noAnswer ==
  /\ class = "dsPromise" /\ obj.asked > 0
  /\ obj' = [obj EXCEPT !.asked = @ - 1]
  /\ Stay

DsNext ==
  \/ \E u \in Users : dsSend(u) \/ getSet(u) \/ getTimeout(u) \/ dropLock(u) \/ dsRemovePromise(u)
  \/ dsHandleRsp \/ dsSet \/ noAnswer
DsSpec == DsInit /\ [][DsNext]_mvars

-----------------------------------------------------------------------------
(* The table's pointer is to a promise that still is: whichever of two calls*)
(* with one id is over first takes the entry out, the other's or its own.   *)
(* And an answered promise is not in the table.                             *)
EntryLive ==
  class = "dsPromise" /\ obj.entry # NoUser =>
    pc[obj.entry] \in {"get", "drop", "remove"} /\ obj.entry \notin obj.answer
=============================================================================
