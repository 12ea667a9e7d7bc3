------------------------------- MODULE Logging -------------------------------
(***************************************************************************)
(* Logger (src/log/Logger.cpp): records, and a thread that writes them in  *)
(* batches; and the table of loggers by module name (src/log/Log.cpp).     *)
(*                                                                         *)
(* Class "logger": u1 logs, u2 flushes, u3 starts and stops.  A record is  *)
(* its number in the order of m_mutexLog.  Class "log": u1 and u2 create   *)
(* and use the logger of one name, u3 removes it.                          *)
(***************************************************************************)
EXTENDS Monitor, SequencesExt

CONSTANTS MaxRecords, \* bound: records logged
          MaxLoggers  \* bound: loggers made for the name

(* infos: m_logInfos; batch: what the thread moved out of it; out: written  *)
(* by the appenders; overtaken: a flush() wrote while a batch was on hand.  *)
LoggerInit ==
  /\ class = "logger"
  /\ pc = [t \in Callers \union {"batch"} |-> IF t = "batch" THEN "done" ELSE "idle"]
  /\ obj \in [threading : BOOLEAN, stoped : {TRUE}, infos : {<<>>}, batch : {<<>>},
              out : {<<>>}, logged : {0}, asleep : {FALSE}, overtaken : {FALSE},
              starts : {0}]

LogStart ==
  /\ class = "logger" /\ At("u3", "idle") /\ obj.threading
  /\ obj.stoped /\ At("batch", "done") /\ obj.starts < 2
  /\ obj' = [obj EXCEPT !.stoped = FALSE, !.starts = @ + 1]
  /\ Go("batch", "loop") /\ UNCHANGED class

LogRecord ==
  /\ class = "logger" /\ At("u1", "idle") /\ obj.logged < MaxRecords
  /\ LET r == obj.logged + 1 IN
       obj' = IF obj.threading
              THEN [obj EXCEPT !.logged = r, !.infos = Append(@, r), !.asleep = FALSE]
              ELSE [obj EXCEPT !.logged = r, !.out = Append(@, r)]
  /\ Stay

flushKeeping ==
  /\ class = "logger" /\ At("u2", "idle")
  /\ obj' = [obj EXCEPT !.out = @ \o obj.infos]
  /\ Stay

flush ==
  /\ class = "logger" /\ At("u2", "idle")
  /\ obj' = [obj EXCEPT !.out = @ \o obj.infos, !.infos = <<>>,
                        !.overtaken = @ \/ (obj.batch # <<>> /\ obj.infos # <<>>)]
  /\ Stay

LogStop ==
  /\ class = "logger" /\ At("u3", "idle") /\ ~obj.stoped
  /\ obj' = [obj EXCEPT !.stoped = TRUE, !.asleep = FALSE]
  /\ Go("u3", "join") /\ UNCHANGED class

LogJoined ==
  /\ class = "logger" /\ At("u3", "join") /\ At("batch", "done")
  /\ Go("u3", "idle") /\ UNCHANGED <<class, obj>>

(* The thread under m_mutexLog: stops, waits, or moves the records out.     *)
BatchTake ==
  /\ class = "logger" /\ pc["batch"] \in {"loop", "woken"} /\ ~obj.asleep
  /\ IF obj.stoped THEN Go("batch", "done") /\ UNCHANGED obj
     ELSE IF obj.infos # <<>>
     THEN obj' = [obj EXCEPT !.batch = obj.infos, !.infos = <<>>] /\ Go("batch", "write")
     ELSE IF At("batch", "loop") THEN obj' = [obj EXCEPT !.asleep = TRUE] /\ Go("batch", "woken")
     ELSE Go("batch", "loop") /\ UNCHANGED obj
  /\ UNCHANGED class

BatchWrite ==
  /\ class = "logger" /\ At("batch", "write")
  /\ obj' = [obj EXCEPT !.out = @ \o obj.batch, !.batch = <<>>]
  /\ Go("batch", "loop") /\ UNCHANGED class

(***************************************************************************)
(* Class "log": s_loggers under s_mutex.  table: the registered logger, 0  *)
(* if none; made: how many were made; got: what a caller holds; dead: the  *)
(* loggers stopped by RemoveLogger(); raced: two callers found none.       *)
(***************************************************************************)
Creators == {"u1", "u2"}
LogInit ==
  /\ class = "log"
  /\ pc = [t \in Callers |-> "idle"]
  /\ obj = [table |-> 0, made |-> 0, got |-> [t \in Creators |-> 0], dead |-> {},
            lostOn |-> {}, raced |-> FALSE]

HasLogger(t) ==
  /\ class = "log" /\ At(t, "idle")
  /\ obj.made + Cardinality({u \in Creators : At(u, "create")}) < MaxLoggers
  /\ Go(t, IF obj.table # 0 THEN "get" ELSE "create")
  /\ obj' = [obj EXCEPT !.raced = @ \/ (obj.table = 0 /\ \E u \in Creators : At(u, "create"))]
  /\ UNCHANGED class

GetLogger(t) ==
  /\ class = "log" /\ At(t, "get")
  /\ obj' = [obj EXCEPT !.got[t] = obj.table]
  /\ Go(t, "log") /\ UNCHANGED class

(* insert() leaves a logger alone that is there; the new one is returned.   *)
CreateLogger(t) ==
  /\ class = "log" /\ At(t, "create")
  /\ LET n == obj.made + 1 IN
       obj' = [obj EXCEPT !.made = n, !.got[t] = n, !.table = IF @ = 0 THEN n ELSE @]
  /\ Go(t, "log") /\ UNCHANGED class

(* A record for a logger that was found and has been stopped since stays in *)
(* its list.                                                                *)
LogOn(t) ==
  /\ class = "log" /\ At(t, "log")
  /\ obj' = [obj EXCEPT !.lostOn = IF obj.got[t] \in obj.dead THEN @ \union {obj.got[t]} ELSE @]
  /\ Go(t, "idle") /\ UNCHANGED class

RemoveLogger ==
  /\ class = "log" /\ At("u3", "idle") /\ obj.table # 0
  /\ obj' = [obj EXCEPT !.dead = @ \union {obj.table}, !.table = 0]
  /\ Stay

LoggerNext == LogStart \/ LogRecord \/ flush \/ LogStop \/ LogJoined \/ BatchTake \/ BatchWrite
LogNext ==
  \/ \E t \in Creators : HasLogger(t) \/ GetLogger(t) \/ CreateLogger(t) \/ LogOn(t)
  \/ RemoveLogger

LoggingInit == LoggerInit \/ LogInit
LoggingNext == LoggerNext \/ LogNext
LoggingSpec == LoggingInit /\ [][LoggingNext]_mvars

-----------------------------------------------------------------------------
(* Every record is written once, and in the order of the calls unless a     *)
(* flush() overtook the batch in the thread's hand; what stop() finds       *)
(* unwritten stays in the list.                                             *)
LogKept ==
  class = "logger" =>
    LET all == obj.out \o obj.batch \o obj.infos IN
    /\ ToSet(all) = 1..obj.logged /\ Len(all) = obj.logged
    /\ ~obj.overtaken => all = [i \in 1..obj.logged |-> i]

(* Whoever asked for the logger of a name has the registered one, or one    *)
(* that was removed since, unless two callers found none at the same time;  *)
(* it has none at all only if one was removed under its hands.              *)
OneLogger ==
  class = "log" /\ ~obj.raced =>
    \A t \in Creators : At(t, "log") =>
       IF obj.got[t] = 0 THEN obj.dead # {} ELSE obj.got[t] \in {obj.table} \union obj.dead

(* Every record is written once, and in the order of the calls unless       *)
(* flush() overtook a batch; and a name has one Logger unless two callers   *)
(* of CreateLogger() found none.                                            *)
LogsExact == LogKept /\ OneLogger

LogStep(t) ==
  \/ t = "u3" /\ LogJoined
  \/ t \in Creators /\ (GetLogger(t) \/ CreateLogger(t) \/ LogOn(t))
BatchStep == BatchTake \/ BatchWrite
=============================================================================
