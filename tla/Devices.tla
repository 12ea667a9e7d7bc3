------------------------------- MODULE Devices -------------------------------
(***************************************************************************)
(* Classes that own something of the operating system: Serial              *)
(* (src/serial/Serial.cpp), class "serial"; NamedPipe                      *)
(* (src/ipc/NamedPipe.cpp) with a FIFO, class "fifo", and on Windows, class*)
(* "winPipe"; FileLock (src/process/FileLock.cpp), class "fileLock"; SHM   *)
(* (src/ipc/SHM.cpp) and DllLoader (src/dll/DllLoader.cpp), class "mapped".*)
(***************************************************************************)
EXTENDS Monitor, SequencesExt

CONSTANTS MaxFifos, \* bound: FIFOs that are made
          MaxSent   \* bound: messages written
ASSUME DevicesAssumption == MaxFifos \in Nat

-----------------------------------------------------------------------------
(* A port is at what it was set to: <<baud, data bits, parity, stop bits>>. *)
(* Port 0 is what descriptor 0 is; there is one port more, and the          *)
(* descriptors are 0 and 1.  at: what each descriptor is open on; set: what *)
(* the ports are at; want: what the user has set; old, new: oldTermios and  *)
(* newTermios; prior: what the port was at before open(); threw: a setter   *)
(* has thrown since; raw: close() or a setter has gone to a descriptor that *)
(* no open() gave.                                                          *)
Start == [baud |-> 9600, bits |-> 8, parity |-> "NONE", stop |-> "_1"]
Unread == [baud |-> 0, bits |-> 5, parity |-> "NONE", stop |-> "_1"]
Closed0 == -1
SerialObj(windows, junk, now) ==
  [windows |-> windows, fd |-> IF windows THEN Closed0 ELSE 0,
   at |-> [f \in {0, 1} |-> IF f = 0 /\ ~windows THEN 0 ELSE Closed0],
   set |-> [p \in {0, 1} |-> IF p = 0 THEN Start ELSE now], want |-> Start, prior |-> now,
   old |-> junk, new |-> IF windows THEN Start ELSE junk,
   threw |-> FALSE, raw |-> FALSE, leaked |-> FALSE]
SerialInit ==
  /\ class = "serial" /\ pc = <<>>
  /\ \E windows \in BOOLEAN, junk \in {Start, Unread}, rate \in {9600, 4800} :
       obj = SerialObj(windows, junk, [Start EXCEPT !.baud = rate])

SerialAt == class = "serial" /\ ~obj.leaked
SerialOpen == IF obj.windows THEN obj.fd # Closed0 ELSE obj.fd > 0
FreeFd == IF obj.at[0] = Closed0 THEN 0 ELSE 1
(* tcsetattr() of a descriptor that is open on a port.                      *)
Tcset(o, fd, t) ==
  IF fd # Closed0 /\ o.at[fd] # Closed0 THEN [o EXCEPT !.set[o.at[fd]] = t] ELSE o

(* On Linux what is not isOpen() may still be descriptor 0, which a user    *)
(* who goes on has lost.  Only Windows keeps what was set before open().    *)
serialOpen ==
  /\ SerialAt /\ ~SerialOpen
  /\ IF obj.windows
     THEN /\ obj.new.bits \in 5..8
          /\ obj' = [obj EXCEPT !.fd = 1, !.at[1] = 1, !.set[1] = obj.new, !.want = obj.new,
                                !.threw = FALSE]
     ELSE \/ obj' = [obj EXCEPT !.fd = Closed0, !.leaked = obj.fd = 0 /\ obj.at[0] = 1]
          \/ /\ obj.at[FreeFd] = Closed0
             /\ obj' = [obj EXCEPT !.fd = FreeFd, !.at[FreeFd] = 1, !.old = obj.set[1],
                          !.new = obj.set[1], !.want = obj.set[1], !.prior = obj.set[1],
                          !.threw = FALSE, !.leaked = obj.fd = 0 /\ obj.at[0] = 1]
  /\ Stay

(* close() and, when the object goes, the destructor.  On Linux nothing     *)
(* asks whether it is open.                                                 *)
closeKeepingSettings ==
  /\ SerialAt
  /\ obj' = [obj EXCEPT !.fd = Closed0, !.at = IF obj.fd = Closed0 THEN @ ELSE [@ EXCEPT ![obj.fd] = Closed0]]
  /\ Stay
serialClose ==
  /\ SerialAt
  /\ LET o == IF obj.windows THEN obj ELSE Tcset(obj, obj.fd, obj.old)
     IN obj' = [o EXCEPT !.fd = Closed0, !.raw = @ \/ (obj.fd = 0 /\ obj.at[0] = 0),
                         !.at = IF obj.fd = Closed0 THEN @ ELSE [@ EXCEPT ![obj.fd] = Closed0]]
  /\ Stay

(* A setter keeps what it is given, then sets the port; where it throws (on *)
(* Windows: is refused) the port stays as it was and newTermios does not.   *)
Setter(now, kept, valid) ==
  /\ SerialAt
  /\ IF obj.windows
     THEN LET takes == SerialOpen /\ now.bits \in 5..8
          IN obj' = [(IF takes THEN Tcset(obj, obj.fd, now) ELSE obj)
                       EXCEPT !.new = now, !.want = IF takes THEN now ELSE @,
                              !.threw = @ \/ (SerialOpen /\ ~takes)]
     ELSE LET fails == ~valid \/ obj.fd = Closed0 \/ obj.at[obj.fd] = Closed0
              o == IF fails THEN [obj EXCEPT !.threw = TRUE] ELSE Tcset(obj, obj.fd, now)
          IN obj' = [o EXCEPT !.new = IF valid THEN now ELSE kept,
                       !.want = IF fails THEN @ ELSE now,
                       !.raw = @ \/ (~fails /\ obj.at[obj.fd] = 0)]
  /\ Stay

(* Rates Linux has and the tables have not: 1200, which is there on systems *)
(* with a B128000 only, 4800 and others.                                    *)
Baudrate(rate) == rate \notin {1200, 4800}
getBaudrate == IF Baudrate(obj.new.baud) THEN obj.new.baud ELSE 0
setBaudrate(rate) == Setter([obj.new EXCEPT !.baud = rate], obj.new, Baudrate(rate))
(* c_cflag has lost its CSIZE when the switch throws, and that is 5 bits.   *)
setDatabit(bits) ==
  Setter([obj.new EXCEPT !.bits = bits], [obj.new EXCEPT !.bits = 5], bits \in 5..8)
setParity(parity) == Setter([obj.new EXCEPT !.parity = parity], obj.new, TRUE)
setStopBit(stop) ==
  Setter([obj.new EXCEPT !.stop = IF stop = "_1P5" /\ ~obj.windows THEN "_1" ELSE stop], obj.new, TRUE)

SerialNext ==
  \/ serialOpen \/ serialClose
  \/ setBaudrate(1200) \/ setBaudrate(2400) \/ setDatabit(7) \/ setDatabit(9)
  \/ setParity("ODD") \/ \E s \in {"_1P5", "_2"} : setStopBit(s)

(* A port that is open is at what was set, setters that threw aside; on     *)
(* Linux one that is closed is at what it was before; and descriptor 0 is   *)
(* closed or changed by nothing but a Serial that was never open.  The rate *)
(* is unknown only if nobody has set it.                                    *)
PortAsSet ==
  class = "serial" =>
    /\ SerialOpen /\ ~obj.threw => obj.set[1] = obj.want
    /\ ~obj.windows /\ SerialOpen /\ ~obj.threw =>
         getBaudrate = (IF obj.set[1].baud = 4800 /\ obj.prior.baud = 4800 THEN 0 ELSE obj.set[1].baud)
    /\ ~obj.windows /\ obj.at[0] # 1 /\ obj.at[1] = Closed0 => obj.set[1] = obj.prior
    /\ (obj.set[0] # Start \/ (obj.at[0] # 0 /\ ~obj.windows)) => obj.raw

-----------------------------------------------------------------------------
(* Two processes with a NamedPipe each, of one name.  node: the FIFO of that*)
(* name, 0 if there is none; at: m_pipeFd, -1, 0 for descriptor 0, or k + 1 *)
(* for a descriptor of FIFO k; made: FIFOs so far; unlinked: processes that *)
(* lost the FIFO's name to a close(); zero: create() gave descriptor 0.     *)
Ends == {1, 2}
FifoInit ==
  /\ class = "fifo" /\ pc = <<>>
  /\ obj = [node |-> 0, made |-> 0, at |-> [p \in Ends |-> -1], data |-> [k \in 1..MaxFifos |-> <<>>],
            stdin |-> [p \in Ends |-> TRUE], zero |-> {}, unlinked |-> {}, sent |-> 0,
            got |-> <<>>]
FifoClosed(o, p) ==
  IF o.at[p] < 0 THEN o
  ELSE LET last == o.at[p] > 0 /\ \A q \in Ends \ {p} : o.at[q] # o.at[p]
       IN [o EXCEPT !.stdin[p] = @ /\ o.at[p] # 0, !.at[p] = -1, !.node = 0,
                    !.unlinked = (@ \union {q \in Ends : o.at[q] > 0}) \ {p},
                    !.zero = @ \ {p},
                    !.data = IF last THEN [@ EXCEPT ![o.at[p] - 1] = <<>>] ELSE @]

(* A FIFO that is there will do; of one that is made, mkfifo()'s 0 is kept  *)
(* as the descriptor.                                                       *)
pipeCreate(p) ==
  /\ class = "fifo"
  /\ LET o == FifoClosed(obj, p)
     IN IF o.node # 0 THEN obj' = o
        ELSE /\ o.made < MaxFifos
             /\ obj' = [o EXCEPT !.made = @ + 1, !.node = o.made + 1, !.at[p] = 0,
                                 !.zero = @ \union {p}]
  /\ Stay
openAlways(p) ==
  /\ class = "fifo" /\ obj.node # 0
  /\ obj' = [obj EXCEPT !.at[p] = 0, !.zero = @ \ {p}, !.unlinked = @ \ {p}]
  /\ Stay
pipeOpen(p) ==
  /\ class = "fifo" /\ obj.at[p] < 0 /\ obj.node # 0
  /\ obj' = [obj EXCEPT !.at[p] = obj.node + 1, !.unlinked = @ \ {p}]
  /\ Stay
pipeClose(p) == class = "fifo" /\ obj.at[p] >= 0 /\ obj' = FifoClosed(obj, p) /\ Stay

(* A writer may read what it wrote itself: it is open for both.             *)
pipeWrite(p) ==
  /\ class = "fifo" /\ obj.at[p] >= 0 /\ obj.sent < MaxSent
  /\ obj' = [obj EXCEPT !.sent = @ + 1,
               !.data = IF obj.at[p] = 0 THEN @ ELSE [obj.data EXCEPT ![obj.at[p] - 1] = Append(@, obj.sent + 1)]]
  /\ Stay
pipeRead(p) ==
  /\ class = "fifo" /\ obj.at[p] > 0 /\ obj.data[obj.at[p] - 1] # <<>>
  /\ obj' = [obj EXCEPT !.got = Append(@, Head(obj.data[obj.at[p] - 1])),
                        !.data[obj.at[p] - 1] = Tail(@)]
  /\ Stay

FifoNext == \E p \in Ends : pipeCreate(p) \/ pipeOpen(p) \/ pipeClose(p) \/ pipeWrite(p) \/ pipeRead(p)

(* Two NamedPipes of one name that are open are the ends of one pipe, until *)
(* one is closed, which takes the name from the others; but the one that    *)
(* made the FIFO is on its standard input, which nothing else closes; and   *)
(* no message is read twice.                                                *)
EndsMeet ==
  class = "fifo" =>
    /\ \A p \in Ends : obj.at[p] >= 0 /\ p \notin obj.unlinked \union obj.zero => obj.at[p] = obj.node + 1
    /\ \A p \in Ends : obj.at[p] = 0 <=> p \in obj.zero
    /\ IsInjective(obj.got)

-----------------------------------------------------------------------------
(* On Windows a pipe carries messages, here of one or two parts.  pipe: what*)
(* is in it; done: the part that a read under way has taken; lost: parts a  *)
(* read took and did not give.                                              *)
Part(m, i) == <<m, i>>
PartsOf(m) == IF m % 2 = 0 THEN <<Part(m, 1), Part(m, 2)>> ELSE <<Part(m, 1)>>
WinPipeInit ==
  /\ class = "winPipe" /\ pc = [u2 |-> "idle"]
  /\ obj = [server |-> "none", client |-> FALSE, pipe |-> <<>>, sent |-> 0, got |-> <<>>, lost |-> <<>>,
            done |-> <<>>, late |-> FALSE]

winCreate ==
  /\ class = "winPipe" /\ obj.server = "none"
  /\ obj' = [obj EXCEPT !.server = "created"] /\ Stay
winOpen ==
  /\ class = "winPipe" /\ obj.server # "none" /\ ~obj.client
  /\ obj' = [obj EXCEPT !.client = TRUE] /\ Stay
(* connect() may time out, and the client connects all the same.            *)
winConnect ==
  /\ class = "winPipe" /\ obj.server = "created"
  /\ obj' = [obj EXCEPT !.server = IF obj.client THEN "connected" ELSE @, !.late = @ \/ ~obj.client]
  /\ Stay
winWrite ==
  /\ class = "winPipe" /\ obj.client /\ obj.sent < MaxSent
  /\ obj' = [obj EXCEPT !.sent = @ + 1, !.pipe = Append(@, PartsOf(obj.sent + 1))]
  /\ Stay

(* What a read of a buffer of one part takes: the rest stays.               *)
FirstPart(pipe) == Head(Head(pipe))
WithoutPart(pipe) ==
  IF Len(Head(pipe)) = 1 THEN Tail(pipe) ELSE <<Tail(Head(pipe))>> \o Tail(pipe)

winRead ==
  /\ class = "winPipe" /\ obj.server # "none" /\ At("u2", "idle")
  /\ IF obj.pipe # <<>>
     THEN /\ obj' = [obj EXCEPT !.got = Append(@, FirstPart(obj.pipe)), !.pipe = WithoutPart(@)]
          /\ Stay
     ELSE Go("u2", "pending") /\ UNCHANGED <<class, obj>>
(* The operation is done in the kernel.                                     *)
winDone ==
  /\ class = "winPipe" /\ At("u2", "pending") /\ obj.pipe # <<>>
  /\ obj' = [obj EXCEPT !.done = <<FirstPart(obj.pipe)>>, !.pipe = WithoutPart(@)]
  /\ Go("u2", "done") /\ UNCHANGED class
winGot ==
  /\ class = "winPipe" /\ At("u2", "done")
  /\ obj' = [obj EXCEPT !.got = @ \o obj.done, !.done = <<>>]
  /\ Go("u2", "idle") /\ UNCHANGED class
winTimeoutUnread ==
  /\ class = "winPipe" /\ (At("u2", "pending") \/ At("u2", "done"))
  /\ obj' = [obj EXCEPT !.done = <<>>]
  /\ Go("u2", "idle") /\ UNCHANGED class
(* The wait is over before: CancelIoEx() finds the operation, or it is done.*)
winTimeout ==
  /\ class = "winPipe" /\ (At("u2", "pending") \/ At("u2", "done"))
  /\ obj' = [obj EXCEPT !.lost = @ \o obj.done, !.done = <<>>]
  /\ Go("u2", "idle") /\ UNCHANGED class
WinPipeNext == winCreate \/ winOpen \/ winConnect \/ winWrite \/ winRead \/ winDone \/ winGot \/ winTimeout

(* Every part written is read once and in order, but for those a read took  *)
(* as its time was over: they are lost, and no other.                       *)
PartBefore(x, y) == x[1] < y[1] \/ (x[1] = y[1] /\ x[2] < y[2])
Ascending(parts) == \A i, j \in DOMAIN parts : i < j => PartBefore(parts[i], parts[j])
AllParts(sent) == UNION {ToSet(PartsOf(m)) : m \in 1..sent}
Waiting(pipe) == UNION {ToSet(pipe[k]) : k \in DOMAIN pipe}
PartsInOrder ==
  class = "winPipe" =>
    LET read == obj.got \o obj.done
        taken == ToSet(read) \union ToSet(obj.lost)
    IN /\ taken \union Waiting(obj.pipe) = AllParts(obj.sent)
       /\ ToSet(read) \intersect ToSet(obj.lost) = {}
       /\ Ascending(read) /\ Ascending(obj.lost)
       /\ \A x \in taken, y \in Waiting(obj.pipe) : PartBefore(x, y)
       /\ \A k \in DOMAIN obj.pipe : Ascending(obj.pipe[k])
       /\ \A k, l \in DOMAIN obj.pipe : k < l =>
            \A x \in ToSet(obj.pipe[k]), y \in ToSet(obj.pipe[l]) : PartBefore(x, y)

-----------------------------------------------------------------------------
(* Two processes with a FileLock of one file.  open: the file could be      *)
(* opened, and no copy of the FileLock has closed it; own: who has flock(); *)
(* in: who believes it has the lock; signalled: whose wait was interrupted. *)
LockUsers == {"u1", "u2"}
FileLockInit ==
  /\ class = "fileLock" /\ pc = [t \in LockUsers |-> "idle"]
  /\ \E open \in SUBSET LockUsers :
       obj = [open |-> open, own |-> {}, in |-> {}, signalled |-> {}]

fileLock(t) ==
  /\ class = "fileLock" /\ At(t, "idle")
  /\ \/ t \notin obj.open /\ obj' = [obj EXCEPT !.in = @ \union {t}]
     \/ t \in obj.open /\ obj.own = {} /\ obj' = [obj EXCEPT !.in = @ \union {t}, !.own = {t}]
     \/ /\ t \in obj.open /\ obj.own # {}
        /\ obj' = [obj EXCEPT !.in = @ \union {t}, !.signalled = @ \union {t}]
  /\ Go(t, "in") /\ UNCHANGED class
fileTrylockLoose(t) ==
  /\ class = "fileLock" /\ At(t, "idle")
  /\ obj' = [obj EXCEPT !.in = @ \union {t}]
  /\ Go(t, "in") /\ UNCHANGED class
fileTrylock(t) ==
  /\ class = "fileLock" /\ At(t, "idle") /\ t \in obj.open /\ obj.own = {}
  /\ obj' = [obj EXCEPT !.in = @ \union {t}, !.own = {t}]
  /\ Go(t, "in") /\ UNCHANGED class
(* unlock(), and the destructor, which closes.                              *)
fileUnlock(t) ==
  /\ class = "fileLock" /\ At(t, "in")
  /\ obj' = [obj EXCEPT !.in = @ \ {t}, !.own = @ \ {t}, !.signalled = @ \ {t}]
  /\ Go(t, "idle") /\ UNCHANGED class
fileCopy(t) ==
  /\ class = "fileLock" /\ t \in obj.open
  /\ obj' = [obj EXCEPT !.open = @ \ {t}, !.own = @ \ {t}]
  /\ Stay

FileLockNext == \E t \in LockUsers : fileLock(t) \/ fileTrylock(t) \/ fileUnlock(t) \/ fileCopy(t)

(* Two processes are never both between lock() and unlock(), if the file    *)
(* could be opened, no wait was interrupted and no FileLock was copied.     *)
LockExclusive ==
  class = "fileLock" =>
    \A t, u \in obj.in : t # u => {t, u} \intersect obj.signalled # {} \/ ~({t, u} \subseteq obj.open)

-----------------------------------------------------------------------------
(* A segment and a library, and how often each is mapped or loaded.  data:  *)
(* m_data; seg: segments that exist, and how often this process has mapped  *)
(* them; dll: m_handle; loads: libraries that are loaded.                   *)
MappedInit ==
  /\ class = "mapped" /\ pc = <<>>
  /\ obj = [data |-> "nullptr", maps |-> 0, seg |-> FALSE, known |-> FALSE, dll |-> 0,
            loads |-> [d \in {1, 2} |-> 0], again |-> FALSE]

(* create() where there is one already maps it again.  What shmat() says    *)
(* when it fails is not nullptr.                                            *)
shmCreate ==
  /\ class = "mapped" /\ obj.maps < 2
  /\ \/ obj' = [obj EXCEPT !.data = "mapped", !.maps = @ + 1, !.seg = TRUE, !.known = TRUE,
                           !.again = @ \/ obj.maps > 0]
     \/ obj' = [obj EXCEPT !.data = "-1", !.again = @ \/ obj.maps > 0, !.known = obj.seg]
  /\ Stay
shmDestroyKept ==
  /\ class = "mapped" /\ obj.data # "nullptr"
  /\ obj' = [obj EXCEPT !.data = "nullptr", !.seg = @ /\ ~obj.known, !.known = FALSE]
  /\ Stay
shmDestroy ==
  /\ class = "mapped" /\ obj.data # "nullptr"
  /\ obj' = [obj EXCEPT !.data = "nullptr", !.maps = IF obj.data = "mapped" THEN @ - 1 ELSE @,
                        !.seg = @ /\ ~obj.known, !.known = FALSE]
  /\ Stay

dllUnload ==
  /\ class = "mapped" /\ obj.dll # 0
  /\ obj' = [obj EXCEPT !.dll = 0, !.loads[obj.dll] = @ - 1]
  /\ Stay
(* load() unloads first, and throws where there is nothing to load.         *)
dllLoad(d) ==
  /\ class = "mapped"
  /\ LET o == IF obj.dll = 0 THEN obj ELSE [obj EXCEPT !.dll = 0, !.loads[obj.dll] = @ - 1]
     IN \/ obj' = [o EXCEPT !.dll = d, !.loads[d] = @ + 1]
        \/ obj' = o
  /\ Stay

MappedNext == shmCreate \/ shmDestroy \/ dllUnload \/ \E d \in {1, 2} : dllLoad(d)

(* A segment is mapped while it is in use and not after, if create() is not *)
(* called again before destroy(); and a library is loaded once while it is  *)
(* the one of the loader, and not after.                                    *)
MappedOnce ==
  class = "mapped" =>
    /\ ~obj.again => obj.maps = (IF obj.data = "mapped" THEN 1 ELSE 0)
    /\ \A d \in {1, 2} : obj.loads[d] = (IF obj.dll = d THEN 1 ELSE 0)
=============================================================================
