------------------------------ MODULE Processes ------------------------------
(***************************************************************************)
(* Process (src/process/Process.cpp, ProcessImplLinux.cpp and              *)
(* ProcessImplWindows.cpp), class "process": threads u1 and u2 have a      *)
(* Process each.  A child gets, besides its own pipes, every end of a pipe *)
(* the parent has open at that moment.                                     *)
(***************************************************************************)
EXTENDS Monitor

CONSTANT MaxPid, \* bound: the numbers processes can have
         MaxStarts \* bound: calls of start()
ASSUME ProcessesAssumption == MaxPid \in Nat

Parents == {"u1", "u2"}
NoPid == 0
Failed == -1
Pids == 1..MaxPid

(* owner: whose child a process is, "stranger" or "none"; dead: children    *)
(* that ended and were not waited for; pid: pid of the Linux code, or the   *)
(* child of pi; open: the parent has the end of t's pipe that children write*)
(* to; held: <<t, p>>, process p has it; reader: the thread of doReadData();*)
(* next: where stop() goes on; waited: objects whose child was waited for;  *)
(* struck: objects that killed what is not their child; bare: fork() failed.*)
ProcessInit ==
  /\ class = "process" /\ pc = [t \in Parents |-> "idle"]
  /\ \E windows \in BOOLEAN :
       obj = [windows |-> windows, owner |-> [p \in Pids |-> "none"], dead |-> {}, starts |-> 0,
              pid |-> [t \in Parents |-> NoPid], open |-> [t \in Parents |-> FALSE], held |-> {},
              reader |-> [t \in Parents |-> "none"], next |-> [t \in Parents |-> "idle"],
              async |-> [t \in Parents |-> TRUE],
              waited |-> {}, struck |-> {}, bare |-> {}]

Alive(p) == obj.owner[p] # "none" /\ p \notin obj.dead
Died(o, P) ==
  [o EXCEPT !.dead = @ \union {p \in P : o.owner[p] \in Parents},
            !.owner = [p \in Pids |-> IF p \in P /\ o.owner[p] = "stranger" THEN "none" ELSE o.owner[p]],
            !.held = {h \in @ : h[2] \notin P}]

procSetAsyncRead(t) ==
  /\ class = "process" /\ At(t, "idle") /\ obj.pid[t] = NoPid
  /\ obj' = [obj EXCEPT !.async[t] = ~@]
  /\ Stay

procStart(t) ==
  /\ class = "process" /\ At(t, "idle") /\ obj.starts < MaxStarts
  /\ obj' = [obj EXCEPT !.starts = @ + 1, !.next[t] = "pipe"]
  /\ Go(t, IF obj.pid[t] = NoPid THEN "pipe" ELSE "kill") /\ UNCHANGED class
procStop(t) ==
  /\ class = "process" /\ At(t, "idle") /\ obj.pid[t] # NoPid
  /\ obj' = [obj EXCEPT !.next[t] = "idle"]
  /\ Go(t, "kill") /\ UNCHANGED class

(* kill() of -1 is for every process.                                       *)
procKill(t) ==
  /\ class = "process" /\ At(t, "kill")
  /\ LET hit == IF obj.pid[t] = Failed THEN {p \in Pids : Alive(p)}
                ELSE {p \in {obj.pid[t]} : Alive(p)}
     IN obj' = [Died(obj, hit) EXCEPT
                  !.struck = IF \E p \in hit : obj.owner[p] # t THEN @ \union {t} ELSE @]
  /\ Go(t, "join") /\ UNCHANGED class
(* Nobody waits for the child, on Linux.                                    *)
procJoin(t) ==
  /\ class = "process" /\ At(t, "join") /\ obj.reader[t] # "reads"
  /\ obj' = [obj EXCEPT !.pid[t] = NoPid, !.reader[t] = "none", !.open[t] = FALSE,
                        !.waited = @ \ {t}, !.bare = @ \ {t}, !.struck = @ \ {t},
                        !.owner = IF obj.windows THEN [@ EXCEPT ![obj.pid[t]] = "none"] ELSE @,
                        !.dead = IF obj.windows THEN @ \ {obj.pid[t]} ELSE @]
  /\ Go(t, obj.next[t]) /\ UNCHANGED class

(* A pipe() or CreatePipe() that fails throws, and leaves what was made.    *)
procPipe(t) ==
  /\ class = "process" /\ At(t, "pipe")
  /\ \/ /\ obj' = [obj EXCEPT !.open[t] = TRUE, !.held = {h \in @ : h[1] # t}]
        /\ Go(t, "fork")
     \/ /\ \E made \in BOOLEAN :
             obj' = IF made THEN [obj EXCEPT !.open[t] = TRUE, !.held = {h \in @ : h[1] # t}] ELSE obj
        /\ Go(t, "idle")
  /\ UNCHANGED class

(* On Windows a CreateProcess() that fails throws; what fork() says when it *)
(* fails is kept as the pid.                                                *)
procFork(t) ==
  /\ class = "process" /\ At(t, "fork")
  /\ \/ \E p \in Pids :
          /\ obj.owner[p] = "none"
          /\ obj' = [obj EXCEPT !.owner[p] = t, !.pid[t] = p,
                                !.held = @ \union {<<u, p>> : u \in {u \in Parents : obj.open[u]}}]
          /\ Go(t, "close")
     \/ IF obj.windows THEN Go(t, "idle") /\ UNCHANGED obj
        ELSE /\ obj' = [obj EXCEPT !.pid[t] = Failed, !.bare = @ \union {t}]
             /\ Go(t, "close")
  /\ UNCHANGED class

Reading(t) == IF obj.async[t] THEN "reads" ELSE "none"
procCloseNone(t) ==
  /\ class = "process" /\ At(t, "close")
  /\ obj' = [obj EXCEPT !.reader[t] = Reading(t)]
  /\ Go(t, "idle") /\ UNCHANGED class
procClose(t) ==
  /\ class = "process" /\ At(t, "close")
  /\ obj' = [obj EXCEPT !.open[t] = FALSE, !.reader[t] = Reading(t)]
  /\ Go(t, "idle") /\ UNCHANGED class

(* doReadData() ends when nobody can write any more.                        *)
CanEnd(t) == ~obj.open[t] /\ \A h \in obj.held : h[1] # t
procReaderEnds(t) ==
  /\ class = "process" /\ obj.reader[t] = "reads" /\ CanEnd(t)
  /\ obj' = [obj EXCEPT !.reader[t] = "ended"]
  /\ Stay

(* waitForFinished(): -1 stands for any child, and the pid is kept.         *)
procWait(t) ==
  /\ class = "process" /\ At(t, "idle") /\ obj.pid[t] # NoPid
  /\ \E p \in obj.dead :
       /\ obj.pid[t] \in {p, Failed}
       /\ obj' = IF obj.windows THEN obj
                 ELSE [obj EXCEPT !.dead = @ \ {p}, !.owner[p] = "none",
                                  !.waited = @ \union {t, obj.owner[p]}]
  /\ Stay

childEnds(p) ==
  /\ class = "process" /\ Alive(p)
  /\ obj' = Died(obj, {p})
  /\ Stay
strangerStarts(p) ==
  /\ class = "process" /\ obj.owner[p] = "none" /\ \A q \in Pids : obj.owner[q] # "stranger"
  /\ obj' = [obj EXCEPT !.owner[p] = "stranger"]
  /\ Stay

ProcessNext ==
  \/ \E t \in Parents :
       \/ procStart(t) \/ procStop(t) \/ procKill(t) \/ procJoin(t) \/ procPipe(t) \/ procFork(t)
       \/ procClose(t) \/ procReaderEnds(t) \/ procWait(t) \/ procSetAsyncRead(t)
  \/ \E p \in Pids : childEnds(p) \/ strangerStarts(p)

(* stop() and start() kill the child of their object and no other process,  *)
(* but after a wait for the child, when its number may be another's, or a   *)
(* fork() that failed; and they do not wait for the reading thread longer   *)
(* than a child of the other object lives that was started between the      *)
(* pipe() and the close() of this one.                                      *)
OwnChildStopped ==
  class = "process" =>
    /\ \A t \in Parents : At(t, "join") /\ t \in obj.struck => t \in obj.waited \union obj.bare
    /\ \A t \in Parents : At(t, "join") /\ obj.reader[t] = "reads" /\ ~CanEnd(t) =>
         \E h \in obj.held : h[1] = t /\ Alive(h[2]) /\ obj.owner[h[2]] # t
    /\ obj.windows => obj.struck = {}
=============================================================================
