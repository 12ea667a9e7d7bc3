---------------------------------- MODULE Ipc ----------------------------------
(***************************************************************************)
(* SHMConnection (src/ipc/SHM.cpp) over named semaphores                   *)
(* (src/thread/Semaphore.cpp): one direction of a connection is a slot in  *)
(* shared memory, a semaphore `in` that says it is full and a semaphore    *)
(* `out` that says it is free.  Class "shm": u1 and u3 are threads of the  *)
(* process that writes, u2 is the process that reads.                      *)
(***************************************************************************)
EXTENDS Monitor, SequencesExt

CONSTANTS MaxMessages, \* bound: messages written
          MaxCrashes,  \* bound: processes that end without warning
          MaxSignals   \* bound: signal handlers that interrupt a wait

ShmWriters == {"u1", "u3"}
Process(t) == IF t = "u2" THEN {"u2"} ELSE ShmWriters

(* len, data: the two copies that fill the slot, as the number of the       *)
(* message; hold: what a caller writes, or the length u2 has read; posted:  *)
(* handed over with `in`; read: what read() returned; broken: a process     *)
(* ended between its two semaphores; intr: a wait for `out` was interrupted.*)
ShmInit ==
  /\ class = "shm"
  /\ pc = [t \in Callers |-> "idle"]
  /\ obj = [in |-> 0, out |-> 1, len |-> 0, data |-> 0, hold |-> [t \in Callers |-> 0],
            sent |-> 0, posted |-> {}, read |-> <<>>, broken |-> 0,
            crashes |-> 0, signals |-> 0, intr |-> FALSE]

shmWrite(t) ==
  /\ class = "shm" /\ At(t, "idle") /\ t \in ShmWriters /\ obj.sent < MaxMessages
  /\ obj' = [obj EXCEPT !.sent = @ + 1, !.hold[t] = obj.sent + 1]
  /\ Go(t, "out") /\ UNCHANGED class

(* write() does not look at what wait() returned: a signal lets it go on.   *)
shmOut(t) ==
  /\ class = "shm" /\ At(t, "out")
  /\ \/ obj.out > 0 /\ obj' = [obj EXCEPT !.out = @ - 1]
     \/ /\ obj.out = 0 /\ obj.signals < MaxSignals
        /\ obj' = [obj EXCEPT !.signals = @ + 1, !.intr = TRUE]
  /\ Go(t, "length") /\ UNCHANGED class

shmLength(t) ==
  /\ class = "shm" /\ At(t, "length")
  /\ obj' = [obj EXCEPT !.len = obj.hold[t]]
  /\ Go(t, "data") /\ UNCHANGED class

shmData(t) ==
  /\ class = "shm" /\ At(t, "data")
  /\ obj' = [obj EXCEPT !.data = obj.hold[t], !.in = @ + 1, !.posted = @ \union {obj.hold[t]}]
  /\ Go(t, "idle") /\ UNCHANGED class

shmRead ==
  /\ class = "shm" /\ At("u2", "idle")
  /\ Go("u2", "in") /\ UNCHANGED <<class, obj>>

(* A timeout or a signal ends read() with -1.                               *)
shmIn ==
  /\ class = "shm" /\ At("u2", "in")
  /\ \/ obj.in > 0 /\ obj' = [obj EXCEPT !.in = @ - 1] /\ Go("u2", "length")
     \/ obj.in = 0 /\ Go("u2", "idle") /\ UNCHANGED obj
  /\ UNCHANGED class

shmCopyEarlyRelease ==
  /\ class = "shm" /\ At("u2", "length")
  /\ obj' = [obj EXCEPT !.hold["u2"] = obj.len, !.out = @ + 1]
  /\ Go("u2", "copy") /\ UNCHANGED class

shmGot ==
  /\ class = "shm" /\ At("u2", "length")
  /\ obj' = [obj EXCEPT !.hold["u2"] = obj.len]
  /\ Go("u2", "copy") /\ UNCHANGED class

shmCopied ==
  /\ class = "shm" /\ At("u2", "copy")
  /\ obj' = [obj EXCEPT !.read = Append(@, <<obj.hold["u2"], obj.data>>), !.out = @ + 1]
  /\ Go("u2", "idle") /\ UNCHANGED class

(* A process ends and a new one opens the connection: sem_open() with       *)
(* O_CREAT leaves the values of semaphores that exist; nobody unlinks them. *)
shmRestart(t) ==
  /\ class = "shm" /\ obj.crashes < MaxCrashes
  /\ LET held == {u \in Process(t) : pc[u] \in {"length", "data", "copy"}}
     IN /\ \E u \in Process(t) : InCall(u)
        /\ obj' = [obj EXCEPT !.crashes = @ + 1, !.broken = @ + Cardinality(held),
                     !.hold = [u \in Callers |-> IF u \in Process(t) THEN 0 ELSE @[u]]]
  /\ pc' = [u \in Callers |-> IF u \in Process(t) THEN "idle" ELSE pc[u]]
  /\ UNCHANGED class

ShmNext ==
  \/ \E t \in ShmWriters : shmWrite(t) \/ shmOut(t) \/ shmLength(t) \/ shmData(t)
  \/ shmRead \/ shmIn \/ shmGot \/ shmCopied \/ \E t \in Callers : shmRestart(t)
ShmSpec == ShmInit /\ [][ShmNext]_mvars

-----------------------------------------------------------------------------
(* Whatever processes end where, until a signal interrupts a wait for a     *)
(* free slot: the slot is free, full, in the hands of one thread or lost    *)
(* with one; read() returns messages that are whole, and none twice; and a  *)
(* message that was handed over was read or is still there.                 *)
SlotWhole ==
  class = "shm" /\ ~obj.intr =>
    /\ obj.in + obj.out + obj.broken
         + Cardinality({t \in Callers : pc[t] \in {"length", "data", "copy"}}) = 1
    /\ \A i \in DOMAIN obj.read : obj.read[i][1] = obj.read[i][2]
    /\ IsInjective(obj.read)
    /\ \A m \in obj.posted : m = obj.data \/ <<m, m>> \in ToSet(obj.read)

(* A writer waits for as long as nobody reads; and for ever once a process  *)
(* ended between its two semaphores.                                        *)
ShmWaits(t) ==
  class = "shm" /\ At(t, "out") /\ obj.out = 0 /\ (obj.broken > 0 \/ At("u2", "idle"))

ShmStep(t) ==
  \/ t \in ShmWriters /\ (shmOut(t) \/ shmLength(t) \/ shmData(t))
  \/ t = "u2" /\ (shmIn \/ shmGot \/ shmCopied)
=============================================================================
