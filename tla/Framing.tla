------------------------------- MODULE Framing -------------------------------
(***************************************************************************)
(* Packages in a stream of bytes: MsgBusPackageHelper                      *)
(* (src/message_bus/MessageBus.cpp) and DsPacketHelper                     *)
(* (src/data_service/DataService.cpp), as their four users keep them:      *)
(*   "session"   one for each connection of a MessageBusServer,            *)
(*   "busClient" one for all the connections of a MessageBusClient,        *)
(*   "dsServer"  one for all the clients of a DataServiceServer, which     *)
(*               takes one package for each read,                          *)
(*   "dsClient"  one for the one connection of a DataServiceClient, which  *)
(*               connects before it sets its callback.                     *)
(*                                                                         *)
(* The stream is cut into cells: two for a header, the first with the      *)
(* length and for a DataService the magic, the second with the checksum or *)
(* hash; then the data.  A cell knows which it is: <<connection, package,  *)
(* place, length of the package>>.  That two different headers have one    *)
(* checksum, or two different data one hash, is left out.                  *)
(***************************************************************************)
EXTENDS Monitor, SequencesExt

CONSTANTS MaxPackages, \* bound: packages sent on a connection
          DataCells    \* the sizes of their data

ASSUME FramingAssumption == MaxPackages \in Nat /\ DataCells \subseteq Nat

Streams == {1, 2}
HeaderSize == 2
Garbage == {0, 99}   \* what other cells give when they are read as a length

Package(c, n, size) == [k \in 1..HeaderSize + size |-> <<c, n, k, HeaderSize + size>>]
Place(cell) == cell[3]
LengthIn(cell) == cell[4]
SamePackage(x, y) == x[1] = y[1] /\ x[2] = y[2]

(* wire: what is sent and not read; cur: the connection a helper of one     *)
(* connection reads; buffer: m_buffer; got: the packages handled, with the  *)
(* connection they are taken to be of; by: that of the last read; mixed: a  *)
(* read put bytes behind those of another connection; deaf: there is no     *)
(* callback yet; lost: what was read then.                                  *)
FramingInit ==
  /\ class = "framing"
  /\ pc = [t \in {"poll"} |-> "idle"]
  /\ \E kind \in {"session", "busClient", "dsServer", "dsClient"} :
       obj = [kind |-> kind, wire |-> [c \in Streams |-> <<>>], sent |-> [c \in Streams |-> 0],
              cur |-> 1, buffer |-> <<>>, got |-> <<>>, by |-> 1, mixed |-> FALSE,
              deaf |-> kind = "dsClient", lost |-> FALSE]

Bus == obj.kind \in {"session", "busClient"}
Open(c) == c = obj.cur \/ obj.kind = "dsServer"

(* generate() and send(): a whole package goes into the stream.             *)
generate(c, size) ==
  /\ class = "framing" /\ Open(c) /\ obj.sent[c] < MaxPackages
  /\ obj' = [obj EXCEPT !.sent[c] = @ + 1,
                        !.wire[c] = @ \o Package(c, obj.sent[c] + 1, size)]
  /\ Stay

(* A connection breaks and the next one begins: what was in the stream is   *)
(* gone.  A session begins with a helper of its own.                        *)
reconnect ==
  /\ class = "framing" /\ obj.kind \in {"session", "busClient"} /\ obj.cur = 1 /\ At("poll", "idle")
  /\ obj' = [obj EXCEPT !.cur = 2, !.wire[1] = <<>>,
                        !.buffer = IF obj.kind = "session" THEN <<>> ELSE @]
  /\ Stay

(* The callback of a DataServiceClient is set.                              *)
listenTo ==
  /\ class = "framing" /\ obj.deaf
  /\ obj' = [obj EXCEPT !.deaf = FALSE]
  /\ Stay

(* onData(): a read of any length, put behind what is left.                 *)
append(c, n) ==
  /\ class = "framing" /\ At("poll", "idle") /\ Open(c) /\ n \in 1..Len(obj.wire[c])
  /\ LET bytes == SubSeq(obj.wire[c], 1, n)
         rest == [obj EXCEPT !.wire[c] = SubSeq(@, n + 1, Len(@))]
     IN IF obj.deaf
        THEN obj' = [rest EXCEPT !.lost = TRUE] /\ UNCHANGED pc
        ELSE /\ obj' = [rest EXCEPT !.buffer = @ \o bytes, !.by = c,
                          !.mixed = @ \/ (obj.buffer # <<>> /\ Last(obj.buffer)[1] # c)]
             /\ Go("poll", "parse")
  /\ UNCHANGED class

(* getPackage() returns a package, and the loop goes on where there is one; *)
Take(from, length) ==
  /\ obj' = [obj EXCEPT !.got = Append(@, <<obj.by, SubSeq(obj.buffer, from, from + length - 1)>>),
                        !.buffer = SubSeq(@, from + length, Len(@))]
  /\ Go("poll", IF obj.kind = "dsServer" THEN "idle" ELSE "parse")
(* or nullptr, which ends it, with more left in the buffer or less.         *)
NoPackage(left) == obj' = [obj EXCEPT !.buffer = left] /\ Go("poll", "idle")

(* The bus: the length is believed until there are as many bytes, only then *)
(* is the checksum of the header looked at; a header that fails it clears   *)
(* the buffer.  The data has no checksum.                                   *)
BusHeaderOk ==
  /\ Place(obj.buffer[1]) = 1 /\ Place(obj.buffer[2]) = 2
  /\ SamePackage(obj.buffer[1], obj.buffer[2])
BusTakeLoose(length) ==
  IF BusHeaderOk THEN Take(1, Min2(length, Len(obj.buffer)))
  ELSE IF Len(obj.buffer) < length THEN NoPackage(obj.buffer) ELSE NoPackage(<<>>)

BusTake(length) ==
  IF Len(obj.buffer) < length THEN NoPackage(obj.buffer)
  ELSE IF BusHeaderOk THEN Take(1, length) ELSE NoPackage(<<>>)

getPackage ==
  /\ class = "framing" /\ Bus /\ At("poll", "parse")
  /\ IF Len(obj.buffer) < HeaderSize THEN NoPackage(obj.buffer)
     ELSE \E l \in IF Place(obj.buffer[1]) = 1 THEN {LengthIn(obj.buffer[1])} ELSE Garbage :
            BusTake(l)
  /\ UNCHANGED class

(* DataService: from the next magic on; the hash is that of the data; when  *)
(* it is wrong the magic is skipped, and nothing else tried for this read.  *)
FindNextMagic ==
  LET found == {i \in DOMAIN obj.buffer : Place(obj.buffer[i]) = 1}
  IN IF found = {} THEN 0 ELSE CHOOSE i \in found : \A j \in found : i <= j
DsHashUnread(from, length) == Place(obj.buffer[from + 1]) = 2
DsHashOk(from, length) ==
  /\ Place(obj.buffer[from + 1]) = 2 /\ LengthIn(obj.buffer[from + 1]) = length
  /\ \A k \in HeaderSize + 1..length :
       LET h == obj.buffer[from + 1] IN obj.buffer[from + k - 1] = <<h[1], h[2], k, h[4]>>

DsTake(from) ==
  LET length == LengthIn(obj.buffer[from])
      left == SubSeq(obj.buffer, from + 1, Len(obj.buffer))
  IN IF Len(obj.buffer) - from + 1 < length THEN NoPackage(obj.buffer)
     ELSE IF DsHashOk(from, length) THEN Take(from, length) ELSE NoPackage(left)

getDsPackage ==
  /\ class = "framing" /\ ~Bus /\ At("poll", "parse")
  /\ IF Len(obj.buffer) < HeaderSize THEN NoPackage(obj.buffer)
     ELSE IF FindNextMagic = 0 THEN NoPackage(<<>>) ELSE DsTake(FindNextMagic)
  /\ UNCHANGED class

FramingNext ==
  \/ \E c \in Streams, d \in DataCells : generate(c, d)
  \/ class = "framing" /\ \E c \in Streams : \E n \in 1..Len(obj.wire[c]) : append(c, n)
  \/ reconnect \/ listenTo \/ getPackage \/ getDsPackage

FramingSpec == FramingInit /\ [][FramingNext]_mvars

-----------------------------------------------------------------------------
(* The connection and number of the i-th package handled, by its header.    *)
ConnOf(i) == obj.got[i][2][1][1]
NumberOf(i) == obj.got[i][2][1][2]
InOrder ==
  \A i, j \in DOMAIN obj.got :
    i < j /\ ConnOf(i) = ConnOf(j) => NumberOf(i) < NumberOf(j)
NoneLeftOut ==
  \A j \in DOMAIN obj.got : \A n \in 1..NumberOf(j) - 1 :
    \E i \in DOMAIN obj.got : ConnOf(i) = ConnOf(j) /\ NumberOf(i) = n

(* However the stream is cut into reads, the packages that are handled are  *)
(* the ones that were sent, whole, in order and none left out, and taken to *)
(* be of the connection they came by; and none waits in the buffer that is  *)
(* complete, but for a DataServiceServer, which takes one for each read.    *)
(* Until the bytes of two connections are put together.                     *)
PackagesExact ==
  class = "framing" /\ ~obj.mixed /\ ~obj.lost =>
    /\ \A i \in DOMAIN obj.got :
         LET g == obj.got[i] IN
         /\ g[2] = Package(g[1], g[2][1][2], LengthIn(g[2][1]) - HeaderSize)
    /\ InOrder /\ NoneLeftOut
    /\ At("poll", "idle") /\ obj.buffer # <<>> =>
         /\ Place(obj.buffer[1]) = 1
         /\ obj.kind = "dsServer" \/ Len(obj.buffer) < LengthIn(obj.buffer[1])

(* Where the bytes of two connections are put together, or the beginning is *)
(* missed, a DataService still handles only data that was sent as one       *)
(* package, and the packages of a connection in order; the first part of a  *)
(* header, which no hash covers, may be another package's.                  *)
FoundAgain ==
  class = "framing" /\ ~Bus /\ (obj.mixed \/ obj.lost) =>
    /\ \A i \in DOMAIN obj.got :
         LET p == obj.got[i][2]
         IN Tail(p) = Tail(Package(p[2][1], p[2][2], LengthIn(p[2]) - HeaderSize))
    /\ InOrder

(* Until the bytes of two connections are put together, the packages of a   *)
(* connection are given once and in order, and none that is complete waits; *)
(* from then on a DataService still handles only packages that were sent.   *)
FramingExact == PackagesExact /\ FoundAgain
=============================================================================
