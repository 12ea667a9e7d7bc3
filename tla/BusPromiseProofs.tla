--------------------------- MODULE BusPromiseProofs ---------------------------
(***************************************************************************)
(* The safety invariants of BusPromise and of BusServer, the two sides of  *)
(* the message bus, and of Framing, the packages between them, for any     *)
(* number of threads, packages, connections and requests.  Those of        *)
(* BusPromise hold because an entry is found, set and erased under one     *)
(* hold of m_mutexPkgId2Promise, which ~PkgPromise needs before the        *)
(* promise is gone: the same order of the mutexes that lets the two wait   *)
(* for each other.                                                         *)
(***************************************************************************)
EXTENDS BusPromise, BusServer, Framing, FiniteSetTheorems, SequenceTheorems, NaturalsInduction,
        WellFoundedInduction, TLAPS

\* The poll thread holds the map's mutex throughout handleRsp.
Locked == mapOwner = Poll <=> hpc # "wait"

\* A thread has a promise exactly while it is in a request, and it has it alone.
Owned ==
  /\ \A r \in Requesters : held[r] = 0 <=> rpc[r] = "idle"
  /\ \A r, s \in Requesters : held[r] = held[s] /\ held[r] # 0 => r = s

\* No promise of an id that was not given out.
Fresh == \A i \in alive \cup value : i <= g_id

\* The entries are the promises not set, and the one in the poll thread's hand.
Entries ==
  /\ hpc # "erase" => m_pkgId2Promise = alive \ value
  /\ hpc = "erase" => m_pkgId2Promise = (alive \ value) \cup {hid} /\ hid \in value
  /\ hpc # "wait" => hid \in alive
  /\ hpc = "set" => hid \notin value

IInv == TypeOK /\ Locked /\ Owned /\ Fresh /\ Entries

-----------------------------------------------------------------------------
LEMMA OwnersDiffer == Poll # None
BY DEF Poll, None

LEMMA IInvInit == Init => IInv
<1> SUFFICES ASSUME Init PROVE IInv
  OBVIOUS
<1>1. TypeOK
  BY PromiseAssumption DEF Init, TypeOK, Ids
<1>2. Locked /\ Owned /\ Fresh /\ Entries
  BY OwnersDiffer DEF Init, Locked, Owned, Fresh, Entries
<1>3. QED
  BY <1>1, <1>2 DEF IInv

LEMMA ReqStep ==
  ASSUME IInv, NEW r \in Requesters, req(r)
  PROVE  IInv'
<1>1. /\ rpc[r] = "idle" /\ g_id < MaxIds /\ mapOwner = None
      /\ g_id' = g_id + 1
      /\ held' = [held EXCEPT ![r] = g_id']
      /\ alive' = alive \cup {g_id'}
      /\ m_pkgId2Promise' = m_pkgId2Promise \cup {g_id'}
      /\ rpc' = [rpc EXCEPT ![r] = "get"]
      /\ UNCHANGED <<value, answered, mapOwner, owner, hpc, hid>>
  BY DEF req
<1>2. g_id \in Nat /\ g_id' \in Ids /\ g_id' \in 0 .. MaxIds /\ g_id' # 0
  BY <1>1, PromiseAssumption DEF IInv, TypeOK, Ids
<1>3. hpc = "wait"
  BY <1>1, OwnersDiffer DEF IInv, TypeOK, Locked
<1>4. g_id' \notin alive /\ g_id' \notin value
  BY <1>1, <1>2 DEF IInv, Fresh
<1>5. TypeOK'
  BY <1>1, <1>2 DEF IInv, TypeOK
<1>6. Locked' /\ Entries'
  BY <1>1, <1>3, <1>4 DEF IInv, Locked, Entries
<1>7. Fresh'
  <2> SUFFICES ASSUME NEW i \in alive' \cup value' PROVE i <= g_id'
    BY DEF Fresh
  <2>1. CASE i = g_id'
    BY <1>2, <2>1
  <2>2. CASE i # g_id'
    <3>1. i \in alive \cup value /\ i \in Nat
      BY <1>1, <2>2, PromiseAssumption DEF IInv, TypeOK, Ids
    <3>2. QED
      BY <1>1, <1>2, <3>1 DEF IInv, Fresh
  <2>3. QED
    BY <2>1, <2>2
<1>8. Owned'
  <2>1. \A q \in Requesters : held[q] # g_id'
    BY <1>2, <1>4 DEF IInv, TypeOK
  <2>2. /\ held'[r] = g_id' /\ rpc'[r] = "get"
        /\ \A q \in Requesters \ {r} : held'[q] = held[q] /\ rpc'[q] = rpc[q]
    BY <1>1 DEF IInv, TypeOK
  <2>3. QED
    BY <1>2, <2>1, <2>2 DEF IInv, Owned
<1>9. QED
  BY <1>5, <1>6, <1>7, <1>8 DEF IInv

LEMMA RemoveStep ==
  ASSUME IInv, NEW r \in Requesters, removePromise(r)
  PROVE  IInv'
<1> DEFINE i == held[r]
<1>1. /\ rpc[r] = "remove" /\ mapOwner = None
      /\ m_pkgId2Promise' = m_pkgId2Promise \ {i}
      /\ owner' = [owner EXCEPT ![i] = None]
      /\ alive' = alive \ {i}
      /\ held' = [held EXCEPT ![r] = 0]
      /\ rpc' = [rpc EXCEPT ![r] = "idle"]
      /\ UNCHANGED <<g_id, value, answered, mapOwner, hpc, hid>>
  BY DEF removePromise
<1>2. hpc = "wait"
  BY <1>1, OwnersDiffer DEF IInv, TypeOK, Locked
<1>3. i # 0 /\ i \in alive
  BY <1>1 DEF IInv, Owned, TypeOK
<1>4. /\ held'[r] = 0 /\ rpc'[r] = "idle"
      /\ \A q \in Requesters \ {r} : held'[q] = held[q] /\ rpc'[q] = rpc[q]
  BY <1>1 DEF IInv, TypeOK
<1>5. \A q \in Requesters \ {r} : held[q] # i
  BY <1>3 DEF IInv, Owned
<1>6. TypeOK'
  <2>1. held' \in [Requesters -> alive' \cup {0}]
    BY <1>1, <1>4, <1>5 DEF IInv, TypeOK
  <2>2. owner' \in [Ids -> Requesters \cup {None}]
    BY <1>1 DEF IInv, TypeOK
  <2>3. QED
    BY <1>1, <2>1, <2>2 DEF IInv, TypeOK
<1>7. Owned'
  BY <1>4 DEF IInv, Owned
<1>8. Locked' /\ Fresh' /\ Entries'
  BY <1>1, <1>2 DEF IInv, Locked, Fresh, Entries
<1>9. QED
  BY <1>6, <1>7, <1>8 DEF IInv

LEMMA IInvStep == IInv /\ [Next]_vars => IInv'
<1> SUFFICES ASSUME IInv, [Next]_vars PROVE IInv'
  OBVIOUS
<1>1. CASE \E r \in Requesters : Requester(r)
  <2> SUFFICES ASSUME NEW r \in Requesters, Requester(r) PROVE IInv'
    BY <1>1
  <2>1. CASE req(r)
    BY <2>1, ReqStep
  <2>2. CASE get(r)
    BY <2>2 DEF get, IInv, TypeOK, Locked, Owned, Fresh, Entries
  <2>3. CASE Destroy(r)
    BY <2>3 DEF Destroy, IInv, TypeOK, Locked, Owned, Fresh, Entries
  <2>4. CASE removePromise(r)
    BY <2>4, RemoveStep
  <2>5. QED
    BY <2>1, <2>2, <2>3, <2>4 DEF Requester
<1>2. CASE \E i \in Ids : handleRsp(i)
  <2> SUFFICES ASSUME NEW i \in Ids, handleRsp(i) PROVE IInv'
    BY <1>2
  <2>1. answered' \in [Ids -> 0 .. Answers]
    <3>1. answered[i] \in 0 .. Answers /\ answered[i] < Answers /\ Answers \in Nat
      BY PromiseAssumption DEF handleRsp, IInv, TypeOK
    <3>2. answered[i] + 1 \in 0 .. Answers
      BY <3>1
    <3>3. answered' = [answered EXCEPT ![i] = answered[i] + 1]
      BY DEF handleRsp
    <3>4. QED
      BY <3>2, <3>3 DEF IInv, TypeOK
  <2>2. TypeOK'
    BY <2>1 DEF handleRsp, IInv, TypeOK, Ids
  <2>3. Locked' /\ Owned' /\ Fresh' /\ Entries'
    BY OwnersDiffer DEF handleRsp, IInv, Locked, Owned, Fresh, Entries
  <2>4. QED
    BY <2>2, <2>3 DEF IInv
<1>3. CASE set
  <2>1. TypeOK'
    BY <1>3 DEF set, IInv, TypeOK, Entries
  <2>2. Locked' /\ Owned'
    BY <1>3 DEF set, IInv, Locked, Owned
  <2>3. Fresh' /\ Entries'
    BY <1>3 DEF set, IInv, Fresh, Entries
  <2>4. QED
    BY <2>1, <2>2, <2>3 DEF IInv
<1>4. CASE Erase
  <2>1. TypeOK'
    BY <1>4, PromiseAssumption DEF Erase, IInv, TypeOK
  <2>2. Locked' /\ Owned'
    BY <1>4, OwnersDiffer DEF Erase, IInv, Locked, Owned
  <2>3. Fresh' /\ Entries'
    BY <1>4 DEF Erase, IInv, Fresh, Entries
  <2>4. QED
    BY <2>1, <2>2, <2>3 DEF IInv
<1>5. CASE UNCHANGED vars
  BY <1>5 DEF vars, IInv, TypeOK, Locked, Owned, Fresh, Entries
<1>6. QED
  BY <1>1, <1>2, <1>3, <1>4, <1>5 DEF Next

LEMMA Invariant == Spec => []IInv
BY IInvInit, IInvStep, PTL DEF Spec

\* Every variable keeps its type; a held id is that of a living promise.
THEOREM PromiseTypeCorrect == Spec => []TypeOK
<1>1. IInv => TypeOK
  BY DEF IInv
<1>2. QED
  BY Invariant, <1>1, PTL

\* No pointer to a promise outlives it.
THEOREM NoDanglingAlways == Spec => []NoDangling
<1>1. IInv => NoDangling
  BY DEF IInv, Entries, NoDangling
<1>2. QED
  BY Invariant, <1>1, PTL

\* No promise is set twice.
THEOREM SetOnceAlways == Spec => []SetOnce
<1>1. IInv => SetOnce
  BY DEF IInv, Entries, SetOnce
<1>2. QED
  BY Invariant, <1>1, PTL

\* Between two answers the entries are the promises that wait for one.
THEOREM EntriesExactAlways == Spec => []EntriesExact
<1>1. IInv => EntriesExact
  BY DEF IInv, Entries, EntriesExact
<1>2. QED
  BY Invariant, <1>1, PTL

-----------------------------------------------------------------------------
(* The server: the sessions and the tables that point to them, stop(), and  *)
(* the copies of each request under way.  What a request may still bring is *)
(* bounded by its copies: each becomes one answer, or is lost.              *)

(* What a package can be: a client's own, or a copy of a request or of an   *)
(* answer to it.                                                            *)
Packets ==
  [code : {"Register", "HeartBeat", "Done"}]
    \union [code : {"Req"}, n : 1..MaxRequests, target : {All, Answerer}]
    \union [code : {"Rsp"}, n : 1..MaxRequests, target : {Asker}]

ServerFields ==
  {"who", "state", "clients", "id", "routes", "inbox", "outbox", "target", "answers",
   "listening", "running", "asleep", "late", "made", "taking", "routed"}

ServerTypeOK ==
  /\ class = "server"
  /\ DOMAIN obj = ServerFields
  /\ pc \in [{"stop", "poll"} -> {"idle", "add", "clients", "wait", "asleep", "stopped"}]
  /\ obj.who \in [ConnIds -> {0} \union ClientIds]
  /\ obj.id \in [ConnIds -> {0} \union ClientIds]
  /\ obj.state \in [ConnIds -> {"none", "waiting", "accepted", "open", "hup", "gone"}]
  /\ obj.clients \subseteq ConnIds
  /\ obj.routes \subseteq ConnIds
  /\ obj.inbox \in [ConnIds -> Seq(Packets)]
  /\ obj.outbox \in [ConnIds -> Seq(Packets)]
  /\ obj.target \in Seq({All, Answerer})
  /\ obj.answers \in Seq(Nat)
  /\ Len(obj.answers) = Len(obj.target)
  /\ Len(obj.target) <= MaxRequests
  /\ obj.listening \in {"up", "shut", "closed"}
  /\ obj.made \in 0..MaxConns
  /\ obj.taking \in 0..MaxConns

(* A connection is made by one client; only its latest one can live; the    *)
(* server's tables hold sessions of connections that were accepted.         *)
SessionInv ==
  /\ \A c \in ConnIds :
       /\ c > obj.made => obj.who[c] = 0 /\ obj.state[c] = "none" /\ obj.id[c] = 0
       /\ obj.state[c] # "none" => obj.who[c] \in ClientIds
       /\ obj.id[c] \in {0, obj.who[c]}
  /\ \A c \in obj.clients : obj.state[c] \in {"open", "hup"}
  /\ obj.routes \subseteq obj.clients
  /\ pc["poll"] = "add" =>
       obj.taking \in ConnIds /\ obj.state[obj.taking] \in {"accepted", "hup"}
  /\ \A c, d \in ConnIds : Live(c) /\ Live(d) /\ obj.who[c] = obj.who[d] => c = d

(* Where stop() is, and what has happened by then.                          *)
StopInv ==
  /\ pc["stop"] \in {"wait", "asleep", "stopped"} /\ ~obj.late => obj.clients = {}
  /\ obj.running => obj.listening # "closed"
  /\ ~obj.running => obj.listening = "closed"
  /\ pc["stop"] = "idle" => obj.listening = "up"
  /\ pc["stop"] = "stopped" => ~obj.running
  /\ pc["stop"] = "asleep" /\ ~obj.asleep => ~obj.running

(* The packages under way, by side and connection, and which of them are    *)
(* copies of request n or answers to it.                                    *)
Sides == {"in", "out"} \X ConnIds
BoxesOf(in, out) == [x \in Sides |-> IF x[1] = "in" THEN in[x[2]] ELSE out[x[2]]]
Boxes == BoxesOf(obj.inbox, obj.outbox)
IsOf(p, n) == p.code \in {"Req", "Rsp"} /\ p.n = n
Copies(box, n) == {m \in Sides \X Nat : m[2] \in DOMAIN box[m[1]] /\ IsOf(box[m[1]][m[2]], n)}

(* How many answers request n has, and how many it may have.                *)
Most(g) == IF g = All THEN Cardinality(ClientIds) ELSE 1
MostOf(n) == IF n \in DOMAIN obj.target THEN Most(obj.target[n]) ELSE 0
AnswersOf(n) == IF n \in DOMAIN obj.target THEN obj.answers[n] ELSE 0

(* Copies and answers together are never more than may answer; a request    *)
(* that the server has not read is the only trace of itself.                *)
Unread(box, m) == m[1][1] = "in" /\ box[m[1]][m[2]].code = "Req"
Bounded(box, n, answers, most) ==
  /\ IsFiniteSet(Copies(box, n))
  /\ answers + Cardinality(Copies(box, n)) <= most
  /\ \A m \in Copies(box, n) :
       /\ box[m[1]][m[2]].code = "Req" => Most(box[m[1]][m[2]].target) = most
       /\ Unread(box, m) => answers = 0 /\ Cardinality(Copies(box, n)) <= 1
CountInv == \A n \in 1..MaxRequests : Bounded(Boxes, n, AnswersOf(n), MostOf(n))

ServerInv == ServerTypeOK /\ SessionInv /\ StopInv /\ CountInv

LEMMA Fewer ==
  ASSUME NEW S, IsFiniteSet(S), NEW T, NEW f \in [T -> S],
         \A a, b \in T : f[a] = f[b] => a = b
  PROVE  IsFiniteSet(T) /\ Cardinality(T) \in Nat /\ Cardinality(S) \in Nat
           /\ Cardinality(T) <= Cardinality(S)
<1>1. f \in Injection(T, S)
  BY DEF Injection, IsInjective
<1>2. IsFiniteSet(T) /\ Cardinality(T) <= Cardinality(S)
  BY <1>1, FS_Injection
<1>3. QED
  BY <1>2, FS_CardinalityType

LEMMA CopyPlace ==
  ASSUME NEW box \in [Sides -> Seq(Packets)], NEW n, NEW m \in Copies(box, n)
  PROVE  /\ m[1] \in Sides /\ m[2] \in Nat /\ m = <<m[1], m[2]>>
         /\ m[2] \in 1..Len(box[m[1]]) /\ IsOf(box[m[1]][m[2]], n)
         /\ box[m[1]] \in Seq(Packets)
BY DEF Copies

LEMMA CopyAt ==
  ASSUME NEW box \in [Sides -> Seq(Packets)], NEW n, NEW x \in Sides,
         NEW i \in 1..Len(box[x]), IsOf(box[x][i], n)
  PROVE  <<x, i>> \in Copies(box, n)
BY DEF Copies

\* A package is read from x; a package is put into each of R.
ReadFrom(box, x, box2) == box2 = [box EXCEPT ![x] = Tail(@)]
SentInto(box, R, p, box2) ==
  box2 = [x \in Sides |-> IF x \in R THEN Append(box[x], p) ELSE box[x]]
\* The copies of request n in box2 were in box, on the same sides.
Stems(box, box2, n) ==
  \A m \in Copies(box2, n) : \E k \in Copies(box, n) :
    k[1] = m[1] /\ box2[m[1]][m[2]] = box[k[1]][k[2]]

\* ... or are copies of p, where it was put.
OldOrSent(box, R, p, box2, n) ==
  \A m \in Copies(box2, n) :
    \/ m \in Copies(box, n) /\ box2[m[1]][m[2]] = box[m[1]][m[2]]
    \/ IsOf(p, n) /\ m[1] \in R /\ box2[m[1]][m[2]] = p

LEMMA ReadOne ==
  ASSUME NEW box \in [Sides -> Seq(Packets)], NEW x \in Sides, box[x] # <<>>,
         NEW box2 \in [Sides -> Seq(Packets)], ReadFrom(box, x, box2),
         NEW n, IsFiniteSet(Copies(box, n))
  PROVE  /\ IsFiniteSet(Copies(box2, n))
         /\ Cardinality(Copies(box2, n)) \in Nat /\ Cardinality(Copies(box, n)) \in Nat
         /\ Cardinality(Copies(box2, n)) <= Cardinality(Copies(box, n))
         /\ IsOf(Head(box[x]), n) =>
              Cardinality(Copies(box2, n)) + 1 <= Cardinality(Copies(box, n))
         /\ Stems(box, box2, n)
<1> DEFINE S == Copies(box, n)
           T == Copies(box2, n)
           f == [m \in T |-> <<m[1], IF m[1] = x THEN m[2] + 1 ELSE m[2]>>]
<1>0. box2 = [box EXCEPT ![x] = Tail(@)]
  BY DEF ReadFrom
<1>1. ASSUME NEW m \in T
      PROVE  f[m] \in S \ {<<x, 1>>} /\ f[m][1] = m[1]
               /\ box2[m[1]][m[2]] = box[f[m][1]][f[m][2]]
  <2>1. /\ m[1] \in Sides /\ m[2] \in Nat /\ m = <<m[1], m[2]>>
        /\ m[2] \in 1..Len(box2[m[1]]) /\ IsOf(box2[m[1]][m[2]], n)
    BY CopyPlace
  <2>2. CASE m[1] = x
    <3>1. box2[x] = Tail(box[x]) /\ box[x] \in Seq(Packets)
      BY <1>0
    <3>2. Len(box2[x]) = Len(box[x]) - 1
      BY <3>1
    <3>3. m[2] + 1 \in 1..Len(box[x]) /\ box2[x][m[2]] = box[x][m[2] + 1]
      BY <2>1, <2>2, <3>1, <3>2
    <3>4. <<x, m[2] + 1>> \in S
      BY <2>1, <2>2, <3>3, CopyAt
    <3>5. f[m] = <<x, m[2] + 1>> /\ m[2] + 1 # 1
      BY <2>1, <2>2
    <3>6. QED
      BY <2>2, <3>3, <3>4, <3>5
  <2>3. CASE m[1] # x
    <3>1. box2[m[1]] = box[m[1]] /\ f[m] = m
      BY <1>0, <2>1, <2>3
    <3>2. m \in S
      BY <2>1, <3>1, CopyAt
    <3>3. QED
      BY <2>1, <2>3, <3>1, <3>2
  <2>4. QED
    BY <2>2, <2>3
<1>2. ASSUME NEW a \in T, NEW b \in T, f[a] = f[b]
      PROVE  a = b
  <2>1. /\ a[2] \in Nat /\ a = <<a[1], a[2]>> /\ b[2] \in Nat /\ b = <<b[1], b[2]>>
    BY CopyPlace
  <2>2. a[1] = b[1]
    BY <1>2
  <2>3. a[2] = b[2]
    BY <1>2, <2>1, <2>2
  <2>4. QED
    BY <2>1, <2>2, <2>3
<1>3. f \in [T -> S] /\ f \in [T -> S \ {<<x, 1>>}]
  BY <1>1
<1> HIDE DEF f, S, T
<1>4. /\ IsFiniteSet(T) /\ Cardinality(T) \in Nat /\ Cardinality(S) \in Nat
      /\ Cardinality(T) <= Cardinality(S)
  BY <1>2, <1>3, Fewer DEF S
<1>5. ASSUME IsOf(Head(box[x]), n)
      PROVE  Cardinality(T) + 1 <= Cardinality(S)
  <2>1. 1 \in 1..Len(box[x]) /\ Head(box[x]) = box[x][1]
    <3>1. box[x] \in Seq(Packets)
      OBVIOUS
    <3>2. QED
      BY <3>1
  <2>2. <<x, 1>> \in S
    BY <1>5, <2>1, CopyAt DEF S
  <2>3. IsFiniteSet(S \ {<<x, 1>>}) /\ Cardinality(S \ {<<x, 1>>}) = Cardinality(S) - 1
    BY <2>2, FS_RemoveElement DEF S
  <2>4. Cardinality(T) <= Cardinality(S \ {<<x, 1>>})
    BY <1>2, <1>3, <2>3, Fewer
  <2>5. QED
    BY <1>4, <2>3, <2>4
<1>6. \A m \in T : \E k \in S : k[1] = m[1] /\ box2[m[1]][m[2]] = box[k[1]][k[2]]
  BY <1>1
<1>7. QED
  BY <1>4, <1>5, <1>6 DEF S, T, Stems

LEMMA SentAll ==
  ASSUME NEW box \in [Sides -> Seq(Packets)], NEW R \in SUBSET Sides, IsFiniteSet(R),
         NEW p \in Packets, NEW box2,
         SentInto(box, R, p, box2),
         NEW n, IsFiniteSet(Copies(box, n))
  PROVE  /\ box2 \in [Sides -> Seq(Packets)]
         /\ IsFiniteSet(Copies(box2, n))
         /\ Cardinality(Copies(box2, n)) \in Nat /\ Cardinality(Copies(box, n)) \in Nat
         /\ Cardinality(R) \in Nat
         /\ Cardinality(Copies(box2, n)) <= Cardinality(Copies(box, n)) + Cardinality(R)
         /\ ~IsOf(p, n) => Cardinality(Copies(box2, n)) <= Cardinality(Copies(box, n))
         /\ OldOrSent(box, R, p, box2, n)
<1> DEFINE S == Copies(box, n)
           T == Copies(box2, n)
           f == [m \in T \ S |-> m[1]]
<1>0. /\ box2 = [x \in Sides |-> IF x \in R THEN Append(box[x], p) ELSE box[x]]
      /\ box2 \in [Sides -> Seq(Packets)]
  BY DEF SentInto
<1>1. ASSUME NEW m \in T
      PROVE  \/ m \in S /\ box2[m[1]][m[2]] = box[m[1]][m[2]]
             \/ IsOf(p, n) /\ m[1] \in R /\ box2[m[1]][m[2]] = p
                  /\ m = <<m[1], Len(box[m[1]]) + 1>>
  <2>1. /\ m[1] \in Sides /\ m[2] \in Nat /\ m = <<m[1], m[2]>>
        /\ m[2] \in 1..Len(box2[m[1]]) /\ IsOf(box2[m[1]][m[2]], n)
    BY <1>0, CopyPlace
  <2>2. CASE m[1] \in R
    <3>1. box2[m[1]] = Append(box[m[1]], p) /\ box[m[1]] \in Seq(Packets)
      BY <1>0, <2>1, <2>2
    <3>2. Len(box2[m[1]]) = Len(box[m[1]]) + 1
      BY <3>1
    <3>3. CASE m[2] = Len(box[m[1]]) + 1
      BY <2>1, <2>2, <3>1, <3>3
    <3>4. CASE m[2] # Len(box[m[1]]) + 1
      <4>1. m[2] \in 1..Len(box[m[1]]) /\ box2[m[1]][m[2]] = box[m[1]][m[2]]
        BY <2>1, <3>1, <3>2, <3>4
      <4>2. QED
        BY <2>1, <4>1, CopyAt
    <3>5. QED
      BY <3>3, <3>4
  <2>3. CASE m[1] \notin R
    <3>1. box2[m[1]] = box[m[1]]
      BY <1>0, <2>1, <2>3
    <3>2. QED
      BY <2>1, <3>1, CopyAt
  <2>4. QED
    BY <2>2, <2>3
<1>2. f \in [T \ S -> R]
  BY <1>1
<1>3. ASSUME NEW a \in T \ S, NEW b \in T \ S, f[a] = f[b]
      PROVE  a = b
  BY <1>1, <1>3
<1> HIDE DEF f, S, T
<1>4. /\ IsFiniteSet(T \ S) /\ Cardinality(T \ S) \in Nat /\ Cardinality(R) \in Nat
      /\ Cardinality(T \ S) <= Cardinality(R)
  BY <1>2, <1>3, Fewer
<1>5. /\ IsFiniteSet(S \union (T \ S)) /\ Cardinality(S) \in Nat
      /\ Cardinality(S \union (T \ S)) <= Cardinality(S) + Cardinality(R)
  <2>1. IsFiniteSet(S)
    BY DEF S
  <2>2. /\ IsFiniteSet(S \union (T \ S))
        /\ Cardinality(S \union (T \ S)) =
             Cardinality(S) + Cardinality(T \ S) - Cardinality(S \cap (T \ S))
    BY <1>4, <2>1, FS_Union
  <2>3. S \cap (T \ S) = {}
    OBVIOUS
  <2>4. Cardinality(S \cap (T \ S)) = 0 /\ Cardinality(S) \in Nat
    BY <2>1, <2>3, FS_EmptySet, FS_CardinalityType
  <2>5. QED
    BY <1>4, <2>2, <2>4
<1>6. /\ IsFiniteSet(T) /\ Cardinality(T) \in Nat
      /\ Cardinality(T) <= Cardinality(S) + Cardinality(R)
  <2>1. T \in SUBSET (S \union (T \ S))
    OBVIOUS
  <2>2. IsFiniteSet(T) /\ Cardinality(T) <= Cardinality(S \union (T \ S))
    BY <1>5, <2>1, FS_Subset
  <2>3. Cardinality(T) \in Nat /\ Cardinality(S \union (T \ S)) \in Nat
    BY <1>5, <2>2, FS_CardinalityType
  <2>4. QED
    BY <1>4, <1>5, <2>2, <2>3
<1>7. ASSUME ~IsOf(p, n)
      PROVE  Cardinality(T) <= Cardinality(S)
  <2>1. T \in SUBSET S
    BY <1>1, <1>7
  <2>2. QED
    BY <2>1, FS_Subset DEF S
<1>8. QED
  BY <1>0, <1>1, <1>4, <1>5, <1>6, <1>7 DEF S, T, OldOrSent

LEMMA Dropped ==
  ASSUME NEW box \in [Sides -> Seq(Packets)], NEW box2 \in [Sides -> Seq(Packets)],
         \A x \in Sides : box2[x] = box[x]
           \/ \A i \in DOMAIN box2[x] : box2[x][i].code \notin {"Req", "Rsp"},
         NEW n, IsFiniteSet(Copies(box, n))
  PROVE  /\ IsFiniteSet(Copies(box2, n))
         /\ Cardinality(Copies(box2, n)) \in Nat /\ Cardinality(Copies(box, n)) \in Nat
         /\ Cardinality(Copies(box2, n)) <= Cardinality(Copies(box, n))
         /\ \A m \in Copies(box2, n) :
              m \in Copies(box, n) /\ box2[m[1]][m[2]] = box[m[1]][m[2]]
<1>1. ASSUME NEW m \in Copies(box2, n)
      PROVE  m \in Copies(box, n) /\ box2[m[1]][m[2]] = box[m[1]][m[2]]
  <2>1. /\ m[1] \in Sides /\ m[2] \in Nat /\ m = <<m[1], m[2]>>
        /\ m[2] \in DOMAIN box2[m[1]] /\ IsOf(box2[m[1]][m[2]], n)
    BY DEF Copies
  <2>2. box2[m[1]] = box[m[1]]
    BY <2>1 DEF IsOf
  <2>3. QED
    BY <2>1, <2>2 DEF Copies
<1>2. Copies(box2, n) \in SUBSET Copies(box, n)
  BY <1>1
<1>3. /\ IsFiniteSet(Copies(box2, n))
      /\ Cardinality(Copies(box2, n)) <= Cardinality(Copies(box, n))
  BY <1>2, FS_Subset
<1>4. QED
  BY <1>1, <1>3, FS_CardinalityType

LEMMA MostBound == \A g : Most(g) \in Nat /\ Most(g) >= 1
<1>1. Cardinality(ClientIds) = 2 /\ IsFiniteSet({Asker})
  <2>1. IsFiniteSet({Asker}) /\ Cardinality({Asker}) = 1
    BY FS_Singleton, Zenon
  <2>2. /\ IsFiniteSet({Asker} \union {Answerer})
        /\ Cardinality({Asker} \union {Answerer}) =
             IF Answerer \in {Asker} THEN Cardinality({Asker}) ELSE Cardinality({Asker}) + 1
    BY <2>1, FS_AddElement, Zenon
  <2>3. Answerer \notin {Asker}
    BY DEF Answerer, Asker
  <2>4. {Asker} \union {Answerer} = ClientIds
    BY DEF ClientIds
  <2>5. QED
    BY <2>1, <2>2, <2>3, <2>4
<1>2. QED
  BY <1>1 DEF Most

LEMMA BoundedRead ==
  ASSUME NEW box \in [Sides -> Seq(Packets)], NEW x \in Sides, box[x] # <<>>,
         NEW box2 \in [Sides -> Seq(Packets)], ReadFrom(box, x, box2),
         NEW n, NEW answers \in Nat, NEW most \in Nat, Bounded(box, n, answers, most)
  PROVE  /\ Bounded(box2, n, answers, most)
         /\ IsOf(Head(box[x]), n) =>
              /\ answers + Cardinality(Copies(box2, n)) + 1 <= most
              /\ \A m \in Copies(box2, n) : ~Unread(box2, m)
<1> DEFINE S == Cardinality(Copies(box, n))
           T == Cardinality(Copies(box2, n))
<1>1. IsFiniteSet(Copies(box, n)) /\ answers + S <= most
  BY DEF Bounded
<1>2. IsFiniteSet(Copies(box2, n)) /\ S \in Nat /\ T \in Nat /\ T <= S
  BY <1>1, ReadOne
<1>d. IsOf(Head(box[x]), n) => T + 1 <= S
  BY <1>1, ReadOne
<1>e. Stems(box, box2, n)
  BY <1>1, ReadOne
<1>a. ASSUME NEW k \in Copies(box, n)
      PROVE  /\ box[k[1]][k[2]].code = "Req" => Most(box[k[1]][k[2]].target) = most
             /\ Unread(box, k) => answers = 0 /\ S <= 1
  BY DEF Bounded
<1>b. (Bounded(box2, n, answers, most) <=>
        /\ IsFiniteSet(Copies(box2, n))
        /\ answers + T <= most
        /\ \A m \in Copies(box2, n) :
             /\ box2[m[1]][m[2]].code = "Req" => Most(box2[m[1]][m[2]].target) = most
             /\ Unread(box2, m) => answers = 0 /\ T <= 1)
  BY DEF Bounded
<1>c. T = 0 => Copies(box2, n) = {}
  BY <1>2, FS_EmptySet
<1> HIDE DEF S, T
<1>3. ASSUME NEW m \in Copies(box2, n)
      PROVE  /\ box2[m[1]][m[2]].code = "Req" => Most(box2[m[1]][m[2]].target) = most
             /\ Unread(box2, m) => answers = 0 /\ T <= 1 /\ S <= 1
  <2>1. PICK k \in Copies(box, n) : k[1] = m[1] /\ box2[m[1]][m[2]] = box[k[1]][k[2]]
    BY <1>e DEF Stems
  <2>2. Unread(box2, m) => Unread(box, k)
    BY <2>1 DEF Unread
  <2>3. /\ box[k[1]][k[2]].code = "Req" => Most(box[k[1]][k[2]].target) = most
        /\ Unread(box, k) => answers = 0 /\ S <= 1
    BY <1>a
  <2>4. S <= 1 => T <= 1
    BY <1>2
  <2>5. QED
    BY <2>1, <2>2, <2>3, <2>4
<1>4. Bounded(box2, n, answers, most)
  <2>1. answers + T <= most
    BY <1>1, <1>2
  <2>2. QED
    BY <2>1, <1>2, <1>3, <1>b
<1>5. ASSUME IsOf(Head(box[x]), n)
      PROVE  /\ answers + T + 1 <= most
             /\ \A m \in Copies(box2, n) : ~Unread(box2, m)
  <2>1. answers + T + 1 <= most
    BY <1>1, <1>2, <1>5, <1>d
  <2>2. ASSUME NEW m \in Copies(box2, n), Unread(box2, m)
        PROVE  FALSE
    <3>1. T = 0
      BY <1>2, <1>3, <1>5, <1>d, <2>2
    <3>2. Copies(box2, n) = {}
      BY <3>1, <1>c
    <3>3. QED
      BY <3>2
  <2>3. QED
    BY <2>1, <2>2
<1>6. QED
  BY <1>4, <1>5 DEF T

\* p may be put into each of R: if it is of request n, so many answers are left.
Room(box, R, p, n, answers, most) ==
  IsOf(p, n) =>
    /\ answers + Cardinality(Copies(box, n)) + Cardinality(R) <= most
    /\ \A m \in Copies(box, n) : ~Unread(box, m)
    /\ p.code = "Req" => Most(p.target) = most
    /\ p.code = "Req" =>
         \/ \A x \in R : x[1] = "out"
         \/ answers = 0 /\ Cardinality(Copies(box, n)) = 0 /\ Cardinality(R) <= 1

LEMMA BoundedSent ==
  ASSUME NEW box \in [Sides -> Seq(Packets)], NEW R \in SUBSET Sides, IsFiniteSet(R),
         NEW p \in Packets, NEW box2,
         SentInto(box, R, p, box2),
         NEW n, NEW answers \in Nat, NEW most \in Nat, Bounded(box, n, answers, most),
         Room(box, R, p, n, answers, most)
  PROVE  Bounded(box2, n, answers, most)
<1> DEFINE S == Cardinality(Copies(box, n))
           T == Cardinality(Copies(box2, n))
<1>1. IsFiniteSet(Copies(box, n)) /\ answers + S <= most
  BY DEF Bounded
<1>2. /\ IsFiniteSet(Copies(box2, n)) /\ S \in Nat /\ T \in Nat /\ Cardinality(R) \in Nat
      /\ T <= S + Cardinality(R)
      /\ ~IsOf(p, n) => T <= S
  BY <1>1, SentAll
<1>d. OldOrSent(box, R, p, box2, n)
  BY <1>1, SentAll
<1>a. ASSUME NEW k \in Copies(box, n)
      PROVE  /\ box[k[1]][k[2]].code = "Req" => Most(box[k[1]][k[2]].target) = most
             /\ Unread(box, k) => answers = 0 /\ S <= 1
  BY DEF Bounded
<1>b. (Bounded(box2, n, answers, most) <=>
        /\ IsFiniteSet(Copies(box2, n))
        /\ answers + T <= most
        /\ \A m \in Copies(box2, n) :
             /\ box2[m[1]][m[2]].code = "Req" => Most(box2[m[1]][m[2]].target) = most
             /\ Unread(box2, m) => answers = 0 /\ T <= 1)
  BY DEF Bounded
<1>c. IsOf(p, n) =>
        /\ answers + S + Cardinality(R) <= most
        /\ \A m \in Copies(box, n) : ~Unread(box, m)
        /\ p.code = "Req" => Most(p.target) = most
        /\ p.code = "Req" =>
             (\A x \in R : x[1] = "out") \/ (answers = 0 /\ S = 0 /\ Cardinality(R) <= 1)
  BY DEF Room
<1> HIDE DEF S, T
<1>3. answers + T <= most
  BY <1>1, <1>2, <1>c
<1>4. ASSUME NEW m \in Copies(box2, n)
      PROVE  /\ box2[m[1]][m[2]].code = "Req" => Most(box2[m[1]][m[2]].target) = most
             /\ Unread(box2, m) => answers = 0 /\ T <= 1
  <2>1. CASE m \in Copies(box, n) /\ box2[m[1]][m[2]] = box[m[1]][m[2]]
    <3>1. Unread(box2, m) => Unread(box, m)
      BY <2>1 DEF Unread
    <3>2. /\ box[m[1]][m[2]].code = "Req" => Most(box[m[1]][m[2]].target) = most
          /\ Unread(box, m) => answers = 0 /\ S <= 1
      BY <2>1, <1>a
    <3>3. IsOf(p, n) => ~Unread(box, m)
      BY <2>1, <1>c
    <3>4. QED
      BY <2>1, <3>1, <3>2, <3>3, <1>2
  <2>2. CASE IsOf(p, n) /\ m[1] \in R /\ box2[m[1]][m[2]] = p
    <3>1. Unread(box2, m) => m[1][1] = "in" /\ p.code = "Req"
      BY <2>2 DEF Unread
    <3>2. Unread(box2, m) => answers = 0 /\ S = 0 /\ Cardinality(R) <= 1
      BY <2>2, <3>1, <1>c
    <3>3. Unread(box2, m) => T <= 1
      BY <3>2, <1>2
    <3>4. QED
      BY <2>2, <3>2, <3>3, <1>c
  <2>3. QED
    BY <1>d, <2>1, <2>2 DEF OldOrSent
<1>5. QED
  BY <1>2, <1>3, <1>4, <1>b

LEMMA BoundedDropped ==
  ASSUME NEW box \in [Sides -> Seq(Packets)], NEW box2 \in [Sides -> Seq(Packets)],
         \A x \in Sides : box2[x] = box[x]
           \/ \A i \in DOMAIN box2[x] : box2[x][i].code \notin {"Req", "Rsp"},
         NEW n, NEW answers \in Nat, NEW most \in Nat, Bounded(box, n, answers, most)
  PROVE  Bounded(box2, n, answers, most)
<1> DEFINE S == Cardinality(Copies(box, n))
           T == Cardinality(Copies(box2, n))
<1>1. IsFiniteSet(Copies(box, n)) /\ answers + S <= most
  BY DEF Bounded
<1>2. /\ IsFiniteSet(Copies(box2, n)) /\ S \in Nat /\ T \in Nat /\ T <= S
      /\ \A m \in Copies(box2, n) :
           m \in Copies(box, n) /\ box2[m[1]][m[2]] = box[m[1]][m[2]]
  BY <1>1, Dropped
<1>3. ASSUME NEW m \in Copies(box2, n)
      PROVE  /\ box2[m[1]][m[2]].code = "Req" => Most(box2[m[1]][m[2]].target) = most
             /\ Unread(box2, m) => answers = 0 /\ T <= 1
  <2>1. m \in Copies(box, n) /\ box2[m[1]][m[2]] = box[m[1]][m[2]]
    BY <1>2
  <2>2. Unread(box2, m) => Unread(box, m)
    BY <2>1 DEF Unread
  <2>3. QED
    BY <2>1, <2>2, <1>2 DEF Bounded
<1>4. QED
  BY <1>1, <1>2, <1>3 DEF Bounded

-----------------------------------------------------------------------------
LEMMA BoxesType ==
  ASSUME NEW in \in [ConnIds -> Seq(Packets)], NEW out \in [ConnIds -> Seq(Packets)]
  PROVE  /\ BoxesOf(in, out) \in [Sides -> Seq(Packets)]
         /\ \A c \in ConnIds : /\ <<"in", c>> \in Sides /\ <<"out", c>> \in Sides
                               /\ BoxesOf(in, out)[<<"in", c>>] = in[c]
                               /\ BoxesOf(in, out)[<<"out", c>>] = out[c]
BY DEF BoxesOf, Sides

LEMMA BoxesRead ==
  ASSUME NEW in \in [ConnIds -> Seq(Packets)], NEW out \in [ConnIds -> Seq(Packets)],
         NEW c \in ConnIds
  PROVE  /\ ReadFrom(BoxesOf(in, out), <<"in", c>>, BoxesOf([in EXCEPT ![c] = Tail(@)], out))
         /\ ReadFrom(BoxesOf(in, out), <<"out", c>>, BoxesOf(in, [out EXCEPT ![c] = Tail(@)]))
<1> DEFINE box == BoxesOf(in, out)
           a == BoxesOf([in EXCEPT ![c] = Tail(@)], out)
           b == BoxesOf(in, [out EXCEPT ![c] = Tail(@)])
<1>1. \A x \in Sides : x[1] \in {"in", "out"} /\ x[2] \in ConnIds /\ x = <<x[1], x[2]>>
  BY DEF Sides
<1>2. \A x \in Sides : /\ a[x] = IF x = <<"in", c>> THEN Tail(box[x]) ELSE box[x]
                       /\ b[x] = IF x = <<"out", c>> THEN Tail(box[x]) ELSE box[x]
  BY <1>1 DEF BoxesOf
<1>3. a = [x \in Sides |-> a[x]] /\ b = [x \in Sides |-> b[x]] /\ box = [x \in Sides |-> box[x]]
  BY DEF BoxesOf
<1> HIDE DEF box, a, b
<1>4. /\ a = [box EXCEPT ![<<"in", c>>] = Tail(@)]
      /\ b = [box EXCEPT ![<<"out", c>>] = Tail(@)]
  BY <1>2, <1>3
<1>5. QED
  BY <1>4 DEF box, a, b, ReadFrom

LEMMA BoxesPut ==
  ASSUME NEW in \in [ConnIds -> Seq(Packets)], NEW out \in [ConnIds -> Seq(Packets)],
         NEW p, NEW c \in ConnIds
  PROVE  /\ SentInto(BoxesOf(in, out), {<<"in", c>>}, p,
                     BoxesOf([in EXCEPT ![c] = Append(@, p)], out))
         /\ {<<"in", c>>} \in SUBSET Sides
<1>1. \A x \in Sides : x[1] \in {"in", "out"} /\ x[2] \in ConnIds /\ x = <<x[1], x[2]>>
  BY DEF Sides
<1>2. \A x \in Sides : x \in {<<"in", c>>} <=> x[1] = "in" /\ x[2] = c
  BY <1>1
<1>3. {<<"in", c>>} \in SUBSET Sides
  BY DEF Sides
<1>4. QED
  BY <1>1, <1>2, <1>3 DEF BoxesOf, SentInto

LEMMA BoxesSent ==
  ASSUME NEW in \in [ConnIds -> Seq(Packets)], NEW out \in [ConnIds -> Seq(Packets)],
         NEW p, NEW R \in SUBSET ConnIds, NEW out2,
         out2 = [d \in ConnIds |-> IF d \in R THEN Append(out[d], p) ELSE out[d]]
  PROVE  /\ SentInto(BoxesOf(in, out), {"out"} \X R, p, BoxesOf(in, out2))
         /\ {"out"} \X R \in SUBSET Sides
<1>1. \A x \in Sides : x[1] \in {"in", "out"} /\ x[2] \in ConnIds /\ x = <<x[1], x[2]>>
  BY DEF Sides
<1>2. \A x \in Sides : x \in {"out"} \X R <=> x[1] = "out" /\ x[2] \in R
  BY <1>1
<1>3. {"out"} \X R \in SUBSET Sides
  BY DEF Sides
<1>4. QED
  BY <1>1, <1>2, <1>3 DEF BoxesOf, SentInto

\* The set of the connections that a package is sent on is as small as its clients'.
LEMMA SentCount ==
  ASSUME NEW R \in SUBSET ConnIds, NEW W, IsFiniteSet(W), NEW who \in [ConnIds -> Nat],
         \A c \in R : who[c] \in W,
         \A c, d \in R : who[c] = who[d] => c = d
  PROVE  /\ IsFiniteSet({"out"} \X R) /\ Cardinality({"out"} \X R) \in Nat
         /\ Cardinality({"out"} \X R) <= Cardinality(W)
<1> DEFINE f == [x \in {"out"} \X R |-> who[x[2]]]
<1>1. f \in [{"out"} \X R -> W]
  OBVIOUS
<1>2. \A a, b \in {"out"} \X R : f[a] = f[b] => a = b
  OBVIOUS
<1> HIDE DEF f
<1>3. QED
  BY <1>1, <1>2, Fewer

-----------------------------------------------------------------------------
LEMMA CountNats ==
  ASSUME ServerTypeOK, NEW n
  PROVE  MostOf(n) \in Nat /\ AnswersOf(n) \in Nat
<1>1. CASE n \in DOMAIN obj.target
  <2>1. DOMAIN obj.answers = DOMAIN obj.target
    BY DEF ServerTypeOK
  <2>2. obj.answers[n] \in Nat
    BY <1>1, <2>1 DEF ServerTypeOK
  <2>3. QED
    BY <1>1, <2>2, MostBound DEF MostOf, AnswersOf
<1>2. CASE n \notin DOMAIN obj.target
  BY <1>2 DEF MostOf, AnswersOf
<1>3. QED
  BY <1>1, <1>2

\* The counts of a step that neither asks nor brings an answer.
Quiet == obj'.target = obj.target /\ obj'.answers = obj.answers

LEMMA SameCount ==
  ASSUME Quiet, NEW n
  PROVE  MostOf(n)' = MostOf(n) /\ AnswersOf(n)' = AnswersOf(n)
BY DEF Quiet, MostOf, AnswersOf

LEMMA NowBounded ==
  ASSUME ServerInv, NEW n \in 1..MaxRequests
  PROVE  /\ Bounded(Boxes, n, AnswersOf(n), MostOf(n))
         /\ MostOf(n) \in Nat /\ AnswersOf(n) \in Nat
         /\ Boxes \in [Sides -> Seq(Packets)]
<1>1. Boxes \in [Sides -> Seq(Packets)]
  BY BoxesType DEF ServerInv, ServerTypeOK, Boxes
<1>2. QED
  BY <1>1, CountNats DEF ServerInv, CountInv

\* Packages that are neither requests nor answers come in, or some are lost.
LEMMA CountDropped ==
  ASSUME ServerInv, Quiet,
         obj'.inbox \in [ConnIds -> Seq(Packets)], obj'.outbox \in [ConnIds -> Seq(Packets)],
         \A c \in ConnIds : /\ obj'.inbox[c] \in {obj.inbox[c], <<>>, <<[code |-> "Register"]>>}
                            /\ obj'.outbox[c] \in {obj.outbox[c], <<>>}
  PROVE  CountInv'
<1> SUFFICES ASSUME NEW n \in 1..MaxRequests
             PROVE  Bounded(Boxes', n, AnswersOf(n)', MostOf(n)')
  BY DEF CountInv
<1>1. Boxes' \in [Sides -> Seq(Packets)]
  BY BoxesType DEF Boxes
<1>2. ASSUME NEW x \in Sides
      PROVE  \/ Boxes'[x] = Boxes[x]
             \/ \A i \in DOMAIN Boxes'[x] : Boxes'[x][i].code \notin {"Req", "Rsp"}
  <2>1. x[1] \in {"in", "out"} /\ x[2] \in ConnIds
    BY DEF Sides
  <2>2. \/ Boxes'[x] = Boxes[x] \/ Boxes'[x] = <<>> \/ Boxes'[x] = <<[code |-> "Register"]>>
    BY <2>1 DEF Boxes, BoxesOf
  <2>3. QED
    BY <2>2
<1>3. Bounded(Boxes', n, AnswersOf(n), MostOf(n))
  BY <1>1, <1>2, NowBounded, BoundedDropped
<1>4. QED
  BY <1>3, SameCount

LEMMA ServerParts ==
  ASSUME ServerInv
  PROVE  ServerTypeOK /\ SessionInv /\ StopInv /\ CountInv
BY DEF ServerInv

LEMMA PlainPackets ==
  ASSUME NEW k \in {"Register", "HeartBeat", "Done"}
  PROVE  [code |-> k] \in Packets /\ \A n : ~IsOf([code |-> k], n)
BY DEF Packets, IsOf

LEMMA ConnectsKept ==
  ASSUME ServerInv, NEW i \in ClientIds, clientConnects(i)
  PROVE  ServerInv'
<1> DEFINE c == obj.made + 1
<1>0. ServerTypeOK /\ SessionInv /\ StopInv
  BY ServerParts
<1>1. obj.made < MaxConns /\ Current(i) = {} /\ class' = class /\ pc' = pc
  BY DEF clientConnects, Stay
<1>2. c \in ConnIds /\ c > obj.made /\ c \in 0..MaxConns
  <2>1. obj.made \in 0..MaxConns /\ MaxConns \in Nat
    BY <1>0, ServerAssumption DEF ServerTypeOK
  <2>2. QED
    BY <1>1, <2>1 DEF ConnIds
<1>3. obj' = [obj EXCEPT !.made = c, !.who[c] = i, !.state[c] = "waiting",
                         !.inbox[c] = <<[code |-> "Register"]>>]
  BY DEF clientConnects
<1>4. /\ DOMAIN obj' = ServerFields
      /\ obj'.made = c
      /\ obj'.who = [obj.who EXCEPT ![c] = i]
      /\ obj'.state = [obj.state EXCEPT ![c] = "waiting"]
      /\ obj'.inbox = [obj.inbox EXCEPT ![c] = <<[code |-> "Register"]>>]
      /\ obj'.clients = obj.clients /\ obj'.id = obj.id /\ obj'.routes = obj.routes
      /\ obj'.outbox = obj.outbox /\ obj'.target = obj.target
      /\ obj'.answers = obj.answers /\ obj'.listening = obj.listening
      /\ obj'.running = obj.running /\ obj'.asleep = obj.asleep /\ obj'.late = obj.late
      /\ obj'.taking = obj.taking
  BY <1>0, <1>3 DEF ServerTypeOK, ServerFields
<1> HIDE DEF c
<1>5. ServerTypeOK'
  <2> DEFINE hello == <<[code |-> "Register"]>>
  <2>1. hello \in Seq(Packets)
    BY PlainPackets
  <2>a. obj'.inbox = [obj.inbox EXCEPT ![c] = hello] /\ obj'.who = [obj.who EXCEPT ![c] = i]
    BY <1>4
  <2> HIDE DEF hello
  <2>b. /\ obj.inbox \in [ConnIds -> Seq(Packets)]
        /\ obj.who \in [ConnIds -> {0} \union ClientIds]
    BY <1>0 DEF ServerTypeOK
  <2>2. obj'.inbox \in [ConnIds -> Seq(Packets)]
    BY <2>a, <2>b, <2>1
  <2>3. obj'.who \in [ConnIds -> {0} \union ClientIds]
    BY <2>a, <2>b
  <2>4. QED
    BY <1>0, <1>1, <1>2, <1>4, <2>2, <2>3 DEF ServerTypeOK
<1>6. SessionInv'
  <2>1. obj.state[c] = "none" /\ obj.who[c] = 0 /\ obj.id[c] = 0
    BY <1>0, <1>2 DEF SessionInv
  <2>2. ASSUME NEW d \in ConnIds
        PROVE  /\ d > obj'.made => obj'.who[d] = 0 /\ obj'.state[d] = "none" /\ obj'.id[d] = 0
               /\ obj'.state[d] # "none" => obj'.who[d] \in ClientIds
               /\ obj'.id[d] \in {0, obj'.who[d]}
    <3>1. CASE d = c
      BY <1>0, <1>2, <1>4, <2>1, <3>1 DEF ServerTypeOK
    <3>2. CASE d # c
      <4>1. obj'.who[d] = obj.who[d] /\ obj'.state[d] = obj.state[d] /\ obj'.id[d] = obj.id[d]
        BY <1>4, <3>2, <1>0 DEF ServerTypeOK
      <4>2. d > obj'.made => d > obj.made
        BY <1>0, <1>2, <1>4 DEF ServerTypeOK, ConnIds
      <4>3. QED
        BY <1>0, <4>1, <4>2 DEF SessionInv
    <3>3. QED
      BY <3>1, <3>2
  <2>3. /\ \A d \in obj'.clients : obj'.state[d] \in {"open", "hup"}
        /\ obj'.routes \subseteq obj'.clients
        /\ pc'["poll"] = "add" =>
             obj'.taking \in ConnIds /\ obj'.state[obj'.taking] \in {"accepted", "hup"}
    <3>1. \A d \in ConnIds : obj.state[d] # "none" => obj'.state[d] = obj.state[d]
      BY <1>0, <1>4, <2>1 DEF ServerTypeOK
    <3>2. /\ \A d \in obj.clients : d \in ConnIds /\ obj.state[d] \in {"open", "hup"}
          /\ obj.routes \subseteq obj.clients
          /\ pc["poll"] = "add" =>
               obj.taking \in ConnIds /\ obj.state[obj.taking] \in {"accepted", "hup"}
      BY <1>0 DEF SessionInv, ServerTypeOK
    <3>3. QED
      BY <1>1, <1>4, <3>1, <3>2
  <2>4. ASSUME NEW d \in ConnIds, NEW e \in ConnIds,
               obj'.state[d] \in {"waiting", "accepted", "open"},
               obj'.state[e] \in {"waiting", "accepted", "open"}, obj'.who[d] = obj'.who[e]
        PROVE  d = e
    <3>1. \A x \in ConnIds : Live(x) => obj.who[x] # i
      BY <1>1 DEF Current
    <3>2. \A x \in ConnIds \ {c} :
            obj'.who[x] = obj.who[x] /\ obj'.state[x] = obj.state[x]
      BY <1>0, <1>4 DEF ServerTypeOK
    <3>3. obj'.who[c] = i
      BY <1>0, <1>2, <1>4 DEF ServerTypeOK
    <3>4. QED
      BY <1>0, <2>4, <3>1, <3>2, <3>3 DEF SessionInv, Live
  <2>5. QED
    BY <2>2, <2>3, <2>4 DEF SessionInv, Live
<1>7. StopInv'
  BY <1>0, <1>1, <1>4 DEF StopInv
<1>8. CountInv'
  <2>1. Quiet
    BY <1>4 DEF Quiet
  <2>2. \A d \in ConnIds : /\ obj'.inbox[d] \in {obj.inbox[d], <<>>, <<[code |-> "Register"]>>}
                           /\ obj'.outbox[d] \in {obj.outbox[d], <<>>}
    BY <1>0, <1>4 DEF ServerTypeOK
  <2>3. QED
    BY <1>5, <2>1, <2>2, CountDropped DEF ServerTypeOK
<1>9. QED
  BY <1>5, <1>6, <1>7, <1>8 DEF ServerInv

LEMMA LeavesKept ==
  ASSUME ServerInv, NEW c \in ConnIds, clientLeaves(c)
  PROVE  ServerInv'
<1>0. ServerTypeOK /\ SessionInv /\ StopInv
  BY ServerParts
<1>1. Live(c) /\ class' = class /\ pc' = pc
  BY DEF clientLeaves, Stay
<1>2. obj' = [obj EXCEPT !.state[c] = "hup", !.outbox[c] = <<>>, !.routed = {}]
  BY DEF clientLeaves
<1>3. /\ DOMAIN obj' = ServerFields
      /\ obj'.state = [obj.state EXCEPT ![c] = "hup"]
      /\ obj'.outbox = [obj.outbox EXCEPT ![c] = <<>>]
      /\ obj'.who = obj.who /\ obj'.clients = obj.clients /\ obj'.id = obj.id
      /\ obj'.routes = obj.routes /\ obj'.inbox = obj.inbox /\ obj'.target = obj.target
      /\ obj'.answers = obj.answers /\ obj'.listening = obj.listening
      /\ obj'.running = obj.running /\ obj'.asleep = obj.asleep /\ obj'.late = obj.late
      /\ obj'.made = obj.made /\ obj'.taking = obj.taking
  BY <1>0, <1>2 DEF ServerTypeOK, ServerFields
<1>4. ServerTypeOK'
  <2>1. <<>> \in Seq(Packets)
    OBVIOUS
  <2>2. obj'.outbox \in [ConnIds -> Seq(Packets)]
    BY <1>0, <1>3, <2>1 DEF ServerTypeOK
  <2>3. QED
    BY <1>0, <1>1, <1>3, <2>2 DEF ServerTypeOK
<1>5. SessionInv'
  <2>1. obj.state[c] # "none"
    BY <1>1 DEF Live
  <2>2. \A d \in ConnIds : obj'.state[d] = IF d = c THEN "hup" ELSE obj.state[d]
    BY <1>0, <1>3 DEF ServerTypeOK
  <2>3. QED
    BY <1>0, <1>1, <1>3, <2>1, <2>2 DEF SessionInv, Live, ServerTypeOK
<1>6. StopInv'
  BY <1>0, <1>1, <1>3 DEF StopInv
<1>7. CountInv'
  <2>1. Quiet
    BY <1>3 DEF Quiet
  <2>2. \A d \in ConnIds : /\ obj'.inbox[d] \in {obj.inbox[d], <<>>, <<[code |-> "Register"]>>}
                           /\ obj'.outbox[d] \in {obj.outbox[d], <<>>}
    BY <1>0, <1>3 DEF ServerTypeOK
  <2>3. QED
    BY <1>4, <2>1, <2>2, CountDropped DEF ServerTypeOK
<1>8. QED
  BY <1>4, <1>5, <1>6, <1>7 DEF ServerInv

LEMMA AcceptKept ==
  ASSUME ServerInv, NEW c \in ConnIds, accept(c)
  PROVE  ServerInv'
<1>0. ServerTypeOK /\ SessionInv /\ StopInv
  BY ServerParts
<1>1. /\ obj.state[c] = "waiting" /\ class' = class
      /\ pc' = [pc EXCEPT !["poll"] = "add"]
  BY DEF accept, Go
<1>2. obj' = [obj EXCEPT !.state[c] = "accepted", !.taking = c]
  BY DEF accept
<1>3. /\ DOMAIN obj' = ServerFields
      /\ obj'.state = [obj.state EXCEPT ![c] = "accepted"]
      /\ obj'.taking = c
      /\ obj'.who = obj.who /\ obj'.clients = obj.clients /\ obj'.id = obj.id
      /\ obj'.routes = obj.routes /\ obj'.inbox = obj.inbox /\ obj'.outbox = obj.outbox
      /\ obj'.target = obj.target /\ obj'.answers = obj.answers
      /\ obj'.listening = obj.listening /\ obj'.running = obj.running
      /\ obj'.asleep = obj.asleep /\ obj'.late = obj.late /\ obj'.made = obj.made
  BY <1>0, <1>2 DEF ServerTypeOK, ServerFields
<1>4. ServerTypeOK'
  <2>1. c \in 0..MaxConns
    BY ServerAssumption DEF ConnIds
  <2>2. pc' \in [{"stop", "poll"} -> {"idle", "add", "clients", "wait", "asleep", "stopped"}]
    BY <1>0, <1>1 DEF ServerTypeOK
  <2>3. QED
    BY <1>0, <1>1, <1>3, <2>1, <2>2 DEF ServerTypeOK
<1>5. SessionInv'
  <2>1. \A d \in ConnIds : obj'.state[d] = IF d = c THEN "accepted" ELSE obj.state[d]
    BY <1>0, <1>3 DEF ServerTypeOK
  <2>2. pc'["poll"] = "add" =>
          obj'.taking \in ConnIds /\ obj'.state[obj'.taking] \in {"accepted", "hup"}
    BY <1>3, <2>1
  <2>3. \A d \in ConnIds : obj'.state[d] \in {"waiting", "accepted", "open"} => Live(d)
    BY <1>1, <2>1 DEF Live
  <2>4. /\ \A d \in ConnIds :
             /\ d > obj'.made => obj'.who[d] = 0 /\ obj'.state[d] = "none" /\ obj'.id[d] = 0
             /\ obj'.state[d] # "none" => obj'.who[d] \in ClientIds
             /\ obj'.id[d] \in {0, obj'.who[d]}
    BY <1>0, <1>1, <1>3, <2>1 DEF SessionInv
  <2>5. (\A d \in obj'.clients : obj'.state[d] \in {"open", "hup"})
          /\ obj'.routes \subseteq obj'.clients
    BY <1>0, <1>1, <1>3, <2>1 DEF SessionInv, ServerTypeOK
  <2>6. \A d, e \in ConnIds : Live(d) /\ Live(e) /\ obj.who[d] = obj.who[e] => d = e
    BY <1>0 DEF SessionInv
  <2>7. QED
    BY <1>3, <2>2, <2>3, <2>4, <2>5, <2>6 DEF SessionInv, Live
<1>6. StopInv'
  BY <1>0, <1>1, <1>3 DEF StopInv, ServerTypeOK
<1>7. CountInv'
  <2>1. Quiet
    BY <1>3 DEF Quiet
  <2>2. \A d \in ConnIds : /\ obj'.inbox[d] \in {obj.inbox[d], <<>>, <<[code |-> "Register"]>>}
                           /\ obj'.outbox[d] \in {obj.outbox[d], <<>>}
    BY <1>0, <1>3 DEF ServerTypeOK
  <2>3. QED
    BY <1>4, <2>1, <2>2, CountDropped DEF ServerTypeOK
<1>8. QED
  BY <1>4, <1>5, <1>6, <1>7 DEF ServerInv

LEMMA AddClientKept ==
  ASSUME ServerInv, NEW c \in ConnIds, addClient(c)
  PROVE  ServerInv'
<1>0. ServerTypeOK /\ SessionInv /\ StopInv
  BY ServerParts
<1> DEFINE s == IF obj.state[c] = "hup" THEN "hup" ELSE "open"
           late == obj.late \/ pc["stop"] \in {"wait", "asleep", "stopped"}
<1>1. /\ pc["poll"] = "add" /\ c = obj.taking /\ class' = class
      /\ pc' = [pc EXCEPT !["poll"] = "idle"]
  BY DEF addClient, Go, At
<1>2. obj' = [obj EXCEPT !.clients = @ \union {c}, !.state[c] = IF @ = "hup" THEN @ ELSE "open",
                         !.taking = 0, !.late = late]
  BY DEF addClient
<1>3. /\ DOMAIN obj' = ServerFields
      /\ obj'.clients = obj.clients \union {c}
      /\ obj'.state = [obj.state EXCEPT ![c] = s]
      /\ obj'.taking = 0
      /\ obj'.late = late
      /\ obj'.who = obj.who /\ obj'.id = obj.id /\ obj'.routes = obj.routes
      /\ obj'.inbox = obj.inbox /\ obj'.outbox = obj.outbox /\ obj'.target = obj.target
      /\ obj'.answers = obj.answers /\ obj'.listening = obj.listening
      /\ obj'.running = obj.running /\ obj'.asleep = obj.asleep /\ obj'.made = obj.made
  BY <1>0, <1>2 DEF ServerTypeOK, ServerFields
<1>a. s \in {"hup", "open"} /\ (s = "open" => Live(c)) /\ obj.state[c] # "none"
  BY <1>0, <1>1 DEF SessionInv, Live
<1> HIDE DEF s
<1>4. ServerTypeOK'
  <2>1. 0 \in 0..MaxConns
    BY ServerAssumption
  <2>2. pc' \in [{"stop", "poll"} -> {"idle", "add", "clients", "wait", "asleep", "stopped"}]
    BY <1>0, <1>1 DEF ServerTypeOK
  <2>3. obj'.state \in [ConnIds -> {"none", "waiting", "accepted", "open", "hup", "gone"}]
    BY <1>0, <1>3, <1>a DEF ServerTypeOK
  <2>4. QED
    BY <1>0, <1>1, <1>3, <2>1, <2>2, <2>3 DEF ServerTypeOK
<1>5. SessionInv'
  <2>1. \A d \in ConnIds : obj'.state[d] = IF d = c THEN s ELSE obj.state[d]
    BY <1>0, <1>3 DEF ServerTypeOK
  <2>2. pc'["poll"] # "add"
    BY <1>0, <1>1 DEF ServerTypeOK
  <2>3. \A d \in ConnIds : obj'.state[d] \in {"waiting", "accepted", "open"} => Live(d)
    BY <1>a, <2>1 DEF Live
  <2>4. /\ \A d \in ConnIds :
             /\ d > obj'.made => obj'.who[d] = 0 /\ obj'.state[d] = "none" /\ obj'.id[d] = 0
             /\ obj'.state[d] # "none" => obj'.who[d] \in ClientIds
             /\ obj'.id[d] \in {0, obj'.who[d]}
    BY <1>0, <1>3, <1>a, <2>1 DEF SessionInv
  <2>5. (\A d \in obj'.clients : obj'.state[d] \in {"open", "hup"})
          /\ obj'.routes \subseteq obj'.clients
    BY <1>0, <1>3, <1>a, <2>1 DEF SessionInv, ServerTypeOK
  <2>6. \A d, e \in ConnIds : Live(d) /\ Live(e) /\ obj.who[d] = obj.who[e] => d = e
    BY <1>0 DEF SessionInv
  <2>7. QED
    BY <1>3, <2>2, <2>3, <2>4, <2>5, <2>6 DEF SessionInv, Live
<1>6. StopInv'
  <2>1. pc'["stop"] = pc["stop"]
    BY <1>0, <1>1 DEF ServerTypeOK
  <2>2. pc["stop"] \notin {"wait", "asleep", "stopped"} \/ obj'.late
    BY <1>3
  <2>3. QED
    BY <1>0, <1>3, <2>1, <2>2 DEF StopInv
<1>7. CountInv'
  <2>1. Quiet
    BY <1>3 DEF Quiet
  <2>2. \A d \in ConnIds : /\ obj'.inbox[d] \in {obj.inbox[d], <<>>, <<[code |-> "Register"]>>}
                           /\ obj'.outbox[d] \in {obj.outbox[d], <<>>}
    BY <1>0, <1>3 DEF ServerTypeOK
  <2>3. QED
    BY <1>4, <2>1, <2>2, CountDropped DEF ServerTypeOK
<1>8. QED
  BY <1>4, <1>5, <1>6, <1>7 DEF ServerInv

LEMMA RemoveClientKept ==
  ASSUME ServerInv, NEW c \in ConnIds, removeClient(c)
  PROVE  ServerInv'
<1>0. ServerTypeOK /\ SessionInv /\ StopInv
  BY ServerParts
<1>1. obj.state[c] = "hup" /\ pc["poll"] = "idle" /\ class' = class /\ pc' = pc
  BY DEF removeClient, Stay, At
<1>2. obj' = [obj EXCEPT !.clients = @ \ {c}, !.routes = @ \ {c}, !.state[c] = "gone",
                         !.inbox[c] = <<>>]
  BY DEF removeClient
<1>3. /\ DOMAIN obj' = ServerFields
      /\ obj'.clients = obj.clients \ {c}
      /\ obj'.routes = obj.routes \ {c}
      /\ obj'.state = [obj.state EXCEPT ![c] = "gone"]
      /\ obj'.inbox = [obj.inbox EXCEPT ![c] = <<>>]
      /\ obj'.who = obj.who /\ obj'.id = obj.id /\ obj'.outbox = obj.outbox
      /\ obj'.target = obj.target /\ obj'.answers = obj.answers
      /\ obj'.listening = obj.listening /\ obj'.running = obj.running
      /\ obj'.asleep = obj.asleep /\ obj'.late = obj.late /\ obj'.made = obj.made
      /\ obj'.taking = obj.taking
  BY <1>0, <1>2 DEF ServerTypeOK, ServerFields
<1>4. ServerTypeOK'
  <2>1. <<>> \in Seq(Packets)
    OBVIOUS
  <2>2. obj'.inbox \in [ConnIds -> Seq(Packets)]
    BY <1>0, <1>3, <2>1 DEF ServerTypeOK
  <2>3. QED
    BY <1>0, <1>1, <1>3, <2>2 DEF ServerTypeOK
<1>5. SessionInv'
  <2>1. \A d \in ConnIds : obj'.state[d] = IF d = c THEN "gone" ELSE obj.state[d]
    BY <1>0, <1>3 DEF ServerTypeOK
  <2>2. QED
    BY <1>0, <1>1, <1>3, <2>1 DEF SessionInv, Live, ServerTypeOK
<1>6. StopInv'
  BY <1>0, <1>1, <1>3 DEF StopInv
<1>7. CountInv'
  <2>1. Quiet
    BY <1>3 DEF Quiet
  <2>2. \A d \in ConnIds : /\ obj'.inbox[d] \in {obj.inbox[d], <<>>, <<[code |-> "Register"]>>}
                           /\ obj'.outbox[d] \in {obj.outbox[d], <<>>}
    BY <1>0, <1>3 DEF ServerTypeOK
  <2>3. QED
    BY <1>4, <2>1, <2>2, CountDropped DEF ServerTypeOK
<1>8. QED
  BY <1>4, <1>5, <1>6, <1>7 DEF ServerInv

LEMMA CloseKept ==
  ASSUME ServerInv, onClose
  PROVE  ServerInv'
<1>0. ServerTypeOK /\ SessionInv /\ StopInv
  BY ServerParts
<1> DEFINE state == [c \in ConnIds |-> IF obj.state[c] = "waiting" THEN "gone" ELSE obj.state[c]]
<1>1. /\ pc["poll"] = "idle" /\ class' = class /\ pc' = pc
      /\ obj.listening = "shut"
  BY DEF onClose, Stay, At
<1>2. obj' = [obj EXCEPT !.listening = "closed", !.routes = {}, !.running = FALSE,
                         !.asleep = FALSE, !.state = state]
  BY DEF onClose
<1>3. /\ DOMAIN obj' = ServerFields
      /\ obj'.listening = "closed"
      /\ obj'.routes = {}
      /\ obj'.running = FALSE
      /\ obj'.asleep = FALSE
      /\ obj'.state = state
      /\ obj'.who = obj.who /\ obj'.clients = obj.clients /\ obj'.id = obj.id
      /\ obj'.inbox = obj.inbox /\ obj'.outbox = obj.outbox /\ obj'.target = obj.target
      /\ obj'.answers = obj.answers /\ obj'.late = obj.late /\ obj'.made = obj.made
      /\ obj'.taking = obj.taking
  BY <1>0, <1>2 DEF ServerTypeOK, ServerFields
<1>a. /\ state \in [ConnIds -> {"none", "waiting", "accepted", "open", "hup", "gone"}]
      /\ \A d \in ConnIds :
           state[d] = IF obj.state[d] = "waiting" THEN "gone" ELSE obj.state[d]
  BY <1>0 DEF ServerTypeOK
<1> HIDE DEF state
<1>4. ServerTypeOK'
  BY <1>0, <1>1, <1>3, <1>a DEF ServerTypeOK
<1>5. SessionInv'
  <2>1. \A d \in ConnIds : obj'.state[d] \in {"waiting", "accepted", "open"} => Live(d)
    BY <1>3, <1>a DEF Live
  <2>2. \A d \in ConnIds :
          /\ d > obj'.made => obj'.who[d] = 0 /\ obj'.state[d] = "none" /\ obj'.id[d] = 0
          /\ obj'.state[d] # "none" => obj'.who[d] \in ClientIds
          /\ obj'.id[d] \in {0, obj'.who[d]}
    BY <1>0, <1>3, <1>a DEF SessionInv
  <2>3. (\A d \in obj'.clients : obj'.state[d] \in {"open", "hup"})
          /\ obj'.routes \subseteq obj'.clients /\ pc'["poll"] # "add"
    BY <1>0, <1>1, <1>3, <1>a DEF SessionInv, ServerTypeOK
  <2>4. \A d, e \in ConnIds : Live(d) /\ Live(e) /\ obj.who[d] = obj.who[e] => d = e
    BY <1>0 DEF SessionInv
  <2>5. QED
    BY <1>3, <2>1, <2>2, <2>3, <2>4 DEF SessionInv, Live
<1>6. StopInv'
  BY <1>0, <1>1, <1>3 DEF StopInv
<1>7. CountInv'
  <2>1. Quiet
    BY <1>3 DEF Quiet
  <2>2. \A d \in ConnIds : /\ obj'.inbox[d] \in {obj.inbox[d], <<>>, <<[code |-> "Register"]>>}
                           /\ obj'.outbox[d] \in {obj.outbox[d], <<>>}
    BY <1>0, <1>3 DEF ServerTypeOK
  <2>3. QED
    BY <1>4, <2>1, <2>2, CountDropped DEF ServerTypeOK
<1>8. QED
  BY <1>4, <1>5, <1>6, <1>7 DEF ServerInv

\* A step of stop() or start() leaves the sessions and the packages alone.
Elsewhere ==
  /\ class' = class /\ DOMAIN obj' = DOMAIN obj
  /\ pc'["poll"] = pc["poll"]
  /\ pc' \in [{"stop", "poll"} -> {"idle", "add", "clients", "wait", "asleep", "stopped"}]
  /\ obj'.who = obj.who /\ obj'.state = obj.state /\ obj'.clients = obj.clients
  /\ obj'.id = obj.id /\ obj'.routes = obj.routes /\ obj'.inbox = obj.inbox
  /\ obj'.outbox = obj.outbox /\ obj'.target = obj.target /\ obj'.answers = obj.answers
  /\ obj'.made = obj.made /\ obj'.taking = obj.taking
  /\ obj'.listening \in {"up", "shut", "closed"}

LEMMA ElsewhereKept ==
  ASSUME ServerInv, Elsewhere, StopInv'
  PROVE  ServerInv'
<1>0. ServerTypeOK /\ SessionInv /\ StopInv
  BY ServerParts
<1>1. ServerTypeOK'
  BY <1>0 DEF ServerTypeOK, Elsewhere
<1>2. SessionInv'
  BY <1>0 DEF SessionInv, Live, Elsewhere
<1>3. CountInv'
  BY ServerParts DEF CountInv, MostOf, AnswersOf, Boxes, Elsewhere
<1>4. QED
  BY <1>1, <1>2, <1>3 DEF ServerInv

LEMMA StoppingKept ==
  ASSUME ServerInv, serverStart \/ serverStop \/ noClients \/ stopWaits \/ stopWoken
  PROVE  ServerInv'
<1>0. ServerTypeOK /\ SessionInv /\ StopInv
  BY ServerParts
<1>1. CASE serverStart
  <2>1. /\ pc' = [pc EXCEPT !["stop"] = "idle"] /\ class' = class
        /\ obj' = [obj EXCEPT !.listening = "up", !.running = TRUE, !.late = FALSE]
    BY <1>1 DEF serverStart, Go
  <2>2. obj'.running /\ obj'.listening = "up" /\ pc'["stop"] = "idle"
    BY <1>0, <2>1 DEF ServerTypeOK, ServerFields
  <2>3. Elsewhere
    BY <1>0, <2>1 DEF Elsewhere, ServerTypeOK, ServerFields
  <2>4. StopInv'
    BY <2>2 DEF StopInv
  <2>5. QED
    BY <2>3, <2>4, ElsewhereKept
<1>2. CASE serverStop
  <2>1. /\ pc["stop"] = "idle" /\ pc' = [pc EXCEPT !["stop"] = "clients"] /\ class' = class
        /\ obj' = [obj EXCEPT !.listening = "shut"]
    BY <1>2 DEF serverStop, Go, At
  <2>2. obj'.running = obj.running /\ obj'.listening = "shut" /\ pc'["stop"] = "clients"
    BY <1>0, <2>1 DEF ServerTypeOK, ServerFields
  <2>3. Elsewhere
    BY <1>0, <2>1 DEF Elsewhere, ServerTypeOK, ServerFields
  <2>4. StopInv'
    BY <1>0, <2>1, <2>2 DEF StopInv
  <2>5. QED
    BY <2>3, <2>4, ElsewhereKept
<1>3. CASE noClients
  <2>1. /\ obj.clients = {} /\ pc' = [pc EXCEPT !["stop"] = "wait"] /\ class' = class
        /\ obj' = obj
    BY <1>3 DEF noClients, Go
  <2>2. pc'["stop"] = "wait"
    BY <1>0, <2>1 DEF ServerTypeOK
  <2>3. Elsewhere
    BY <1>0, <2>1 DEF Elsewhere, ServerTypeOK
  <2>4. StopInv'
    BY <1>0, <2>1, <2>2 DEF StopInv
  <2>5. QED
    BY <2>3, <2>4, ElsewhereKept
<1>4. CASE stopWaits /\ obj.running
  <2>1. /\ pc["stop"] = "wait" /\ pc' = [pc EXCEPT !["stop"] = "asleep"] /\ class' = class
        /\ obj' = [obj EXCEPT !.asleep = TRUE]
    BY <1>4 DEF stopWaits, Go, At
  <2>2. /\ obj'.running = obj.running /\ obj'.listening = obj.listening /\ obj'.asleep
        /\ obj'.late = obj.late /\ obj'.clients = obj.clients /\ pc'["stop"] = "asleep"
    BY <1>0, <2>1 DEF ServerTypeOK, ServerFields
  <2>3. Elsewhere
    BY <1>0, <2>1 DEF Elsewhere, ServerTypeOK, ServerFields
  <2>4. StopInv'
    BY <1>0, <2>1, <2>2 DEF StopInv
  <2>5. QED
    BY <2>3, <2>4, ElsewhereKept
<1>5. CASE (stopWaits /\ ~obj.running) \/ stopWoken
  <2>1. /\ pc["stop"] \in {"wait", "asleep"} /\ pc' = [pc EXCEPT !["stop"] = "stopped"]
        /\ class' = class /\ obj' = obj /\ (pc["stop"] = "asleep" => ~obj.asleep)
        /\ (pc["stop"] = "wait" => ~obj.running)
    BY <1>5 DEF stopWaits, stopWoken, Go, At
  <2>2. pc'["stop"] = "stopped"
    BY <1>0, <2>1 DEF ServerTypeOK
  <2>3. Elsewhere
    BY <1>0, <2>1 DEF Elsewhere, ServerTypeOK
  <2>4. StopInv'
    BY <1>0, <2>1, <2>2 DEF StopInv
  <2>5. QED
    BY <2>3, <2>4, ElsewhereKept
<1>6. QED
  BY <1>1, <1>2, <1>3, <1>4, <1>5

\* A step of a client or of onClientData() changes neither who is connected nor stop().
Carries ==
  /\ class' = class /\ pc' = pc /\ DOMAIN obj' = DOMAIN obj
  /\ obj'.who = obj.who /\ obj'.state = obj.state /\ obj'.clients = obj.clients
  /\ obj'.made = obj.made /\ obj'.taking = obj.taking /\ obj'.listening = obj.listening
  /\ obj'.running = obj.running /\ obj'.asleep = obj.asleep /\ obj'.late = obj.late

LEMMA CarriesKept ==
  ASSUME ServerInv, Carries,
         obj'.id \in [ConnIds -> {0} \union ClientIds],
         \A c \in ConnIds : obj'.id[c] \in {obj.id[c], obj.who[c]}
           /\ (obj'.id[c] # obj.id[c] => c <= obj.made),
         obj'.routes \subseteq obj.clients,
         obj'.inbox \in [ConnIds -> Seq(Packets)], obj'.outbox \in [ConnIds -> Seq(Packets)],
         obj'.target \in Seq({All, Answerer}), obj'.answers \in Seq(Nat),
         Len(obj'.answers) = Len(obj'.target), Len(obj'.target) <= MaxRequests,
         CountInv'
  PROVE  ServerInv'
<1>0. ServerTypeOK /\ SessionInv /\ StopInv
  BY ServerParts
<1>1. ServerTypeOK'
  BY <1>0 DEF ServerTypeOK, Carries
<1>2. SessionInv'
  <2>1. \A c \in ConnIds :
          /\ c > obj'.made => obj'.who[c] = 0 /\ obj'.state[c] = "none" /\ obj'.id[c] = 0
          /\ obj'.state[c] # "none" => obj'.who[c] \in ClientIds
          /\ obj'.id[c] \in {0, obj'.who[c]}
    <3> SUFFICES ASSUME NEW c \in ConnIds
                 PROVE  /\ c > obj'.made =>
                             obj'.who[c] = 0 /\ obj'.state[c] = "none" /\ obj'.id[c] = 0
                        /\ obj'.state[c] # "none" => obj'.who[c] \in ClientIds
                        /\ obj'.id[c] \in {0, obj'.who[c]}
      OBVIOUS
    <3>1. /\ c > obj.made => obj.who[c] = 0 /\ obj.state[c] = "none" /\ obj.id[c] = 0
          /\ obj.state[c] # "none" => obj.who[c] \in ClientIds
          /\ obj.id[c] \in {0, obj.who[c]}
      BY <1>0 DEF SessionInv
    <3>2. obj'.made = obj.made /\ obj'.who[c] = obj.who[c] /\ obj'.state[c] = obj.state[c]
      BY DEF Carries
    <3>3. /\ obj'.id[c] \in {obj.id[c], obj.who[c]}
          /\ (obj'.id[c] # obj.id[c] => c <= obj.made)
      OBVIOUS
    <3>4. c \in Nat /\ obj.made \in Nat
      BY <1>0, ServerAssumption DEF ServerTypeOK, ConnIds
    <3>5. c > obj.made => obj'.id[c] = obj.id[c]
      BY <3>3, <3>4
    <3>6. QED
      BY <3>1, <3>2, <3>3, <3>5
  <2>2. (\A d \in obj'.clients : obj'.state[d] \in {"open", "hup"})
          /\ obj'.routes \subseteq obj'.clients
    BY <1>0 DEF SessionInv, Carries
  <2>3. QED
    BY <1>0, <2>1, <2>2 DEF SessionInv, Carries, Live
<1>3. StopInv'
  BY <1>0 DEF StopInv, Carries
<1>4. QED
  BY <1>1, <1>2, <1>3 DEF ServerInv

LEMMA AsksKept ==
  ASSUME ServerInv, NEW c \in ConnIds, NEW g \in {All, Answerer}, clientAsks(c, g)
  PROVE  ServerInv'
<1> DEFINE q == Len(obj.target) + 1
           p == [code |-> "Req", n |-> q, target |-> g]
<1>0. ServerTypeOK /\ SessionInv /\ StopInv
  BY ServerParts
<1>1. Len(obj.target) < MaxRequests /\ class' = class /\ pc' = pc
  BY DEF clientAsks, Stay
<1>2. obj' = [obj EXCEPT !.target = Append(@, g), !.answers = Append(@, 0),
                         !.inbox[c] = Append(@, p)]
  BY DEF clientAsks
<1>3. /\ DOMAIN obj' = ServerFields
      /\ obj'.target = Append(obj.target, g)
      /\ obj'.answers = Append(obj.answers, 0)
      /\ obj'.inbox = [obj.inbox EXCEPT ![c] = Append(@, p)]
      /\ obj'.who = obj.who /\ obj'.state = obj.state /\ obj'.clients = obj.clients
      /\ obj'.id = obj.id /\ obj'.routes = obj.routes /\ obj'.outbox = obj.outbox
      /\ obj'.listening = obj.listening /\ obj'.running = obj.running
      /\ obj'.asleep = obj.asleep /\ obj'.late = obj.late /\ obj'.made = obj.made
      /\ obj'.taking = obj.taking
  BY <1>0, <1>2 DEF ServerTypeOK, ServerFields
<1>4. /\ obj.inbox \in [ConnIds -> Seq(Packets)] /\ obj.outbox \in [ConnIds -> Seq(Packets)]
      /\ obj.target \in Seq({All, Answerer}) /\ obj.answers \in Seq(Nat)
      /\ Len(obj.answers) = Len(obj.target) /\ DOMAIN obj = ServerFields
  BY <1>0 DEF ServerTypeOK
<1>5. q \in 1..MaxRequests /\ q \notin DOMAIN obj.target
  BY <1>1, <1>4, ServerAssumption
<1>6. p \in Packets /\ p.code = "Req" /\ p.target = g /\ \A n : IsOf(p, n) <=> n = q
  BY <1>5 DEF Packets, IsOf
<1>7. /\ obj'.target \in Seq({All, Answerer}) /\ obj'.answers \in Seq(Nat)
      /\ Len(obj'.answers) = Len(obj'.target) /\ Len(obj'.target) = q
      /\ obj'.target[q] = g /\ obj'.answers[q] = 0
      /\ \A n \in 1..Len(obj.target) :
           obj'.target[n] = obj.target[n] /\ obj'.answers[n] = obj.answers[n]
  <2>1. g \in {All, Answerer} /\ obj'.target = Append(obj.target, g)
          /\ obj'.answers = Append(obj.answers, 0)
    BY <1>3
  <2>2. /\ obj'.target \in Seq({All, Answerer}) /\ Len(obj'.target) = q /\ obj'.target[q] = g
        /\ \A n \in 1..Len(obj.target) : obj'.target[n] = obj.target[n]
    BY <2>1, <1>4
  <2>3. /\ obj'.answers \in Seq(Nat) /\ Len(obj'.answers) = q /\ obj'.answers[q] = 0
        /\ \A n \in 1..Len(obj.target) : obj'.answers[n] = obj.answers[n]
    BY <2>1, <1>4
  <2>4. QED
    BY <2>2, <2>3
<1> HIDE DEF p, q
<1>8. obj'.inbox \in [ConnIds -> Seq(Packets)] /\ obj'.outbox \in [ConnIds -> Seq(Packets)]
  BY <1>3, <1>4, <1>6
<1>9. CountInv'
  <2> SUFFICES ASSUME NEW n \in 1..MaxRequests
               PROVE  Bounded(Boxes', n, AnswersOf(n)', MostOf(n)')
    BY DEF CountInv
  <2> DEFINE R == {<<"in", c>>}
  <2>a. Boxes' = BoxesOf([obj.inbox EXCEPT ![c] = Append(@, p)], obj.outbox)
    BY <1>3 DEF Boxes
  <2>b. /\ SentInto(BoxesOf(obj.inbox, obj.outbox), R, p,
                    BoxesOf([obj.inbox EXCEPT ![c] = Append(@, p)], obj.outbox))
        /\ R \in SUBSET Sides
    BY <1>4, BoxesPut
  <2>1. SentInto(Boxes, R, p, Boxes') /\ R \in SUBSET Sides
    BY <2>a, <2>b DEF Boxes
  <2>2. IsFiniteSet(R) /\ Cardinality(R) = 1
    BY FS_Singleton, Zenon
  <2> HIDE DEF R
  <2>3. /\ Bounded(Boxes, n, AnswersOf(n), MostOf(n))
        /\ MostOf(n) \in Nat /\ AnswersOf(n) \in Nat
        /\ Boxes \in [Sides -> Seq(Packets)]
    BY NowBounded
  <2>4. CASE n # q
    <3>1. AnswersOf(n)' = AnswersOf(n) /\ MostOf(n)' = MostOf(n)
      <4>1. DOMAIN obj'.target = 1..q /\ DOMAIN obj.target = 1..Len(obj.target)
              /\ q = Len(obj.target) + 1
        BY <1>4, <1>7 DEF q
      <4>2. n \in DOMAIN obj'.target <=> n \in DOMAIN obj.target
        BY <2>4, <4>1, <1>4
      <4>3. QED
        BY <1>7, <4>1, <4>2 DEF AnswersOf, MostOf
    <3>2. ~IsOf(p, n)
      BY <1>6, <2>4
    <3>3. Bounded(Boxes', n, AnswersOf(n), MostOf(n))
      BY <1>6, <2>1, <2>2, <2>3, <3>2, BoundedSent DEF Room
    <3>4. QED
      BY <3>1, <3>3
  <2>5. CASE n = q
    <3>1. AnswersOf(n) = 0 /\ MostOf(n) = 0
      BY <1>5, <2>5 DEF AnswersOf, MostOf
    <3>2. AnswersOf(n)' = 0 /\ MostOf(n)' = Most(g) /\ Most(g) \in Nat /\ Most(g) >= 1
      <4>1. n \in DOMAIN obj'.target
        BY <1>5, <1>7, <2>5
      <4>2. QED
        BY <1>7, <2>5, <4>1, MostBound DEF AnswersOf, MostOf
    <3>3. IsFiniteSet(Copies(Boxes, n)) /\ 0 + Cardinality(Copies(Boxes, n)) <= 0
      BY <2>3, <3>1 DEF Bounded
    <3>4. Cardinality(Copies(Boxes, n)) = 0
      BY <3>3, FS_CardinalityType
    <3>5. Copies(Boxes, n) = {}
      BY <3>3, <3>4, FS_EmptySet
    <3>6. Bounded(Boxes, n, 0, Most(g))
      BY <3>2, <3>3, <3>4, <3>5 DEF Bounded
    <3>a. Room(Boxes, R, p, n, 0, Most(g))
      BY <1>6, <2>2, <3>2, <3>4, <3>5 DEF Room
    <3>7. Bounded(Boxes', n, 0, Most(g))
      BY <1>6, <2>1, <2>2, <2>3, <3>2, <3>6, <3>a, BoundedSent
    <3>8. QED
      BY <3>2, <3>7
  <2>6. QED
    BY <2>4, <2>5
<1>10. Carries
  BY <1>1, <1>3, <1>4 DEF Carries
<1>11. /\ obj'.id \in [ConnIds -> {0} \union ClientIds] /\ obj'.id = obj.id
       /\ obj'.routes \subseteq obj.clients
  BY <1>0, <1>3 DEF ServerTypeOK, SessionInv
<1>12. Len(obj'.target) <= MaxRequests
  BY <1>5, <1>7
<1>13. QED
  BY <1>7, <1>8, <1>9, <1>10, <1>11, <1>12, CarriesKept

LEMMA BeatsKept ==
  ASSUME ServerInv, NEW c \in ConnIds, clientBeats(c)
  PROVE  ServerInv'
<1> DEFINE p == [code |-> "HeartBeat"]
<1>0. ServerTypeOK /\ SessionInv /\ StopInv
  BY ServerParts
<1>1. class' = class /\ pc' = pc
  BY DEF clientBeats, Stay
<1>2. obj' = [obj EXCEPT !.inbox[c] = Append(@, p)]
  BY DEF clientBeats
<1>3. /\ DOMAIN obj' = ServerFields
      /\ obj'.inbox = [obj.inbox EXCEPT ![c] = Append(@, p)]
      /\ obj'.who = obj.who /\ obj'.state = obj.state /\ obj'.clients = obj.clients
      /\ obj'.id = obj.id /\ obj'.routes = obj.routes /\ obj'.outbox = obj.outbox
      /\ obj'.target = obj.target /\ obj'.answers = obj.answers
      /\ obj'.listening = obj.listening /\ obj'.running = obj.running
      /\ obj'.asleep = obj.asleep /\ obj'.late = obj.late /\ obj'.made = obj.made
      /\ obj'.taking = obj.taking
  BY <1>0, <1>2 DEF ServerTypeOK, ServerFields
<1>4. /\ obj.inbox \in [ConnIds -> Seq(Packets)] /\ obj.outbox \in [ConnIds -> Seq(Packets)]
      /\ DOMAIN obj = ServerFields
  BY <1>0 DEF ServerTypeOK
<1>5. p \in Packets /\ \A n : ~IsOf(p, n)
  BY PlainPackets
<1> HIDE DEF p
<1>6. obj'.inbox \in [ConnIds -> Seq(Packets)] /\ obj'.outbox \in [ConnIds -> Seq(Packets)]
  BY <1>3, <1>4, <1>5
<1>7. CountInv'
  <2> SUFFICES ASSUME NEW n \in 1..MaxRequests
               PROVE  Bounded(Boxes', n, AnswersOf(n)', MostOf(n)')
    BY DEF CountInv
  <2> DEFINE R == {<<"in", c>>}
  <2>a. Boxes' = BoxesOf([obj.inbox EXCEPT ![c] = Append(@, p)], obj.outbox)
    BY <1>3 DEF Boxes
  <2>b. /\ SentInto(BoxesOf(obj.inbox, obj.outbox), R, p,
                    BoxesOf([obj.inbox EXCEPT ![c] = Append(@, p)], obj.outbox))
        /\ R \in SUBSET Sides
    BY <1>4, BoxesPut
  <2>1. SentInto(Boxes, R, p, Boxes') /\ R \in SUBSET Sides
    BY <2>a, <2>b DEF Boxes
  <2>2. IsFiniteSet(R)
    BY FS_Singleton, Zenon
  <2> HIDE DEF R
  <2>3. /\ Bounded(Boxes, n, AnswersOf(n), MostOf(n))
        /\ MostOf(n) \in Nat /\ AnswersOf(n) \in Nat
        /\ Boxes \in [Sides -> Seq(Packets)]
    BY NowBounded
  <2>4. Bounded(Boxes', n, AnswersOf(n), MostOf(n))
    BY <1>5, <2>1, <2>2, <2>3, BoundedSent DEF Room
  <2>5. QED
    BY <1>3, <2>4, SameCount DEF Quiet
<1>8. Carries
  BY <1>1, <1>3, <1>4 DEF Carries
<1>9. /\ obj'.id \in [ConnIds -> {0} \union ClientIds] /\ obj'.id = obj.id
      /\ obj'.routes \subseteq obj.clients
      /\ obj'.target \in Seq({All, Answerer}) /\ obj'.answers \in Seq(Nat)
      /\ Len(obj'.answers) = Len(obj'.target) /\ Len(obj'.target) <= MaxRequests
  BY <1>0, <1>3 DEF ServerTypeOK, SessionInv
<1>10. QED
  BY <1>6, <1>7, <1>8, <1>9, CarriesKept

LEMMA HeadPacket ==
  ASSUME NEW s \in Seq(Packets), s # <<>>
  PROVE  Head(s) \in Packets /\ Tail(s) \in Seq(Packets)
OBVIOUS

LEMMA PacketKinds ==
  ASSUME NEW p \in Packets
  PROVE  /\ p.code \in {"Register", "HeartBeat", "Done", "Req", "Rsp"}
         /\ p.code \in {"Req", "Rsp"} => p.n \in 1..MaxRequests /\ IsOf(p, p.n)
         /\ p.code = "Req" => p.target \in {All, Answerer}
         /\ p.code = "Rsp" => p.target = Asker
         /\ \A n : IsOf(p, n) => n = p.n /\ p.code \in {"Req", "Rsp"}
BY DEF Packets, IsOf

LEMMA ReadsKept ==
  ASSUME ServerInv, NEW c \in ConnIds, clientReads(c)
  PROVE  ServerInv'
<1> DEFINE p == Head(obj.outbox[c])
           q == [code |-> "Rsp", n |-> p.n, target |-> Asker]
           out == [obj.outbox EXCEPT ![c] = Tail(@)]
           box == BoxesOf(obj.inbox, out)
           rest == [obj EXCEPT !.outbox[c] = Tail(@)]
<1>0. ServerTypeOK /\ SessionInv /\ StopInv
  BY ServerParts
<1>1. class' = class /\ pc' = pc /\ obj.outbox[c] # <<>>
  BY DEF clientReads, Stay
<1>2. obj' = CASE p.code = "Req" -> [rest EXCEPT !.inbox[c] = Append(@, q)]
               [] p.code = "Rsp" /\ obj.who[c] = Asker -> [rest EXCEPT !.answers[p.n] = @ + 1]
               [] OTHER -> rest
  BY DEF clientReads
<1>3. /\ obj.inbox \in [ConnIds -> Seq(Packets)] /\ obj.outbox \in [ConnIds -> Seq(Packets)]
      /\ obj.target \in Seq({All, Answerer}) /\ obj.answers \in Seq(Nat)
      /\ Len(obj.answers) = Len(obj.target) /\ Len(obj.target) <= MaxRequests
      /\ DOMAIN obj = ServerFields
      /\ obj.id \in [ConnIds -> {0} \union ClientIds] /\ obj.routes \subseteq obj.clients
  BY <1>0 DEF ServerTypeOK, SessionInv
<1>4. p \in Packets /\ out \in [ConnIds -> Seq(Packets)]
  <2>1. obj.outbox[c] \in Seq(Packets)
    BY <1>3
  <2>2. p \in Packets /\ Tail(obj.outbox[c]) \in Seq(Packets)
    BY <1>1, <2>1, HeadPacket
  <2>3. QED
    BY <1>3, <2>2
<1>5. ASSUME NEW n \in 1..MaxRequests
      PROVE  /\ box \in [Sides -> Seq(Packets)]
             /\ AnswersOf(n) \in Nat /\ MostOf(n) \in Nat
             /\ Bounded(box, n, AnswersOf(n), MostOf(n))
             /\ IsOf(p, n) => /\ AnswersOf(n) + Cardinality(Copies(box, n)) + 1 <= MostOf(n)
                              /\ \A m \in Copies(box, n) : ~Unread(box, m)
  <2>1. /\ Bounded(Boxes, n, AnswersOf(n), MostOf(n))
        /\ MostOf(n) \in Nat /\ AnswersOf(n) \in Nat
        /\ Boxes \in [Sides -> Seq(Packets)]
    BY NowBounded
  <2>2. box \in [Sides -> Seq(Packets)] /\ <<"out", c>> \in Sides
    BY <1>3, <1>4, BoxesType
  <2>3. Boxes[<<"out", c>>] = obj.outbox[c]
    BY <1>3, BoxesType DEF Boxes
  <2>4. ReadFrom(Boxes, <<"out", c>>, box)
    BY <1>3, BoxesRead DEF Boxes
  <2> HIDE DEF box
  <2>5. /\ Bounded(box, n, AnswersOf(n), MostOf(n))
        /\ IsOf(Head(Boxes[<<"out", c>>]), n) =>
             /\ AnswersOf(n) + Cardinality(Copies(box, n)) + 1 <= MostOf(n)
             /\ \A m \in Copies(box, n) : ~Unread(box, m)
    BY <1>1, <2>1, <2>2, <2>3, <2>4, BoundedRead
  <2>6. QED
    BY <2>1, <2>2, <2>3, <2>5
<1>6. CASE p.code = "Req"
  <2>1. obj' = [rest EXCEPT !.inbox[c] = Append(@, q)]
    BY <1>2, <1>6
  <2>2. /\ DOMAIN obj' = ServerFields
        /\ obj'.inbox = [obj.inbox EXCEPT ![c] = Append(@, q)]
        /\ obj'.outbox = out
        /\ obj'.who = obj.who /\ obj'.state = obj.state /\ obj'.clients = obj.clients
        /\ obj'.id = obj.id /\ obj'.routes = obj.routes /\ obj'.target = obj.target
        /\ obj'.answers = obj.answers /\ obj'.listening = obj.listening
        /\ obj'.running = obj.running /\ obj'.asleep = obj.asleep /\ obj'.late = obj.late
        /\ obj'.made = obj.made /\ obj'.taking = obj.taking
    BY <1>3, <2>1 DEF ServerFields
  <2>3. /\ q \in Packets /\ q.code = "Rsp" /\ IsOf(p, p.n)
        /\ \A n : IsOf(q, n) => n = p.n
    BY <1>4, <1>6, PacketKinds DEF Packets, IsOf
  <2> HIDE DEF p, q, out
  <2>4. obj'.inbox \in [ConnIds -> Seq(Packets)] /\ obj'.outbox \in [ConnIds -> Seq(Packets)]
    BY <1>3, <1>4, <2>2, <2>3
  <2>5. CountInv'
    <3> SUFFICES ASSUME NEW n \in 1..MaxRequests
                 PROVE  Bounded(Boxes', n, AnswersOf(n)', MostOf(n)')
      BY DEF CountInv
    <3> DEFINE R == {<<"in", c>>}
    <3>1. Boxes' = BoxesOf([obj.inbox EXCEPT ![c] = Append(@, q)], out)
      BY <2>2 DEF Boxes
    <3>2. /\ SentInto(BoxesOf(obj.inbox, out), R, q,
                      BoxesOf([obj.inbox EXCEPT ![c] = Append(@, q)], out))
          /\ R \in SUBSET Sides
      BY <1>3, <1>4, BoxesPut
    <3>3. SentInto(box, R, q, Boxes') /\ R \in SUBSET Sides
      BY <3>1, <3>2
    <3>4. IsFiniteSet(R) /\ Cardinality(R) = 1
      BY FS_Singleton, Zenon
    <3> HIDE DEF R, box
    <3>5. Room(box, R, q, n, AnswersOf(n), MostOf(n))
      BY <1>5, <2>3, <3>4 DEF Room
    <3>6. Bounded(Boxes', n, AnswersOf(n), MostOf(n))
      BY <1>5, <2>3, <3>3, <3>4, <3>5, BoundedSent
    <3>7. QED
      BY <2>2, <3>6, SameCount DEF Quiet
  <2>6. Carries
    BY <1>1, <1>3, <2>2 DEF Carries
  <2>7. /\ obj'.id \in [ConnIds -> {0} \union ClientIds] /\ obj'.id = obj.id
        /\ obj'.routes \subseteq obj.clients
        /\ obj'.target \in Seq({All, Answerer}) /\ obj'.answers \in Seq(Nat)
        /\ Len(obj'.answers) = Len(obj'.target) /\ Len(obj'.target) <= MaxRequests
    BY <1>3, <2>2
  <2>8. QED
    BY <2>4, <2>5, <2>6, <2>7, CarriesKept
<1>7. CASE p.code = "Rsp" /\ obj.who[c] = Asker
  <2>1. obj' = [rest EXCEPT !.answers[p.n] = @ + 1]
    BY <1>2, <1>7
  <2>2. /\ DOMAIN obj' = ServerFields
        /\ obj'.answers = [obj.answers EXCEPT ![p.n] = @ + 1]
        /\ obj'.outbox = out
        /\ obj'.who = obj.who /\ obj'.state = obj.state /\ obj'.clients = obj.clients
        /\ obj'.id = obj.id /\ obj'.routes = obj.routes /\ obj'.inbox = obj.inbox
        /\ obj'.target = obj.target /\ obj'.listening = obj.listening
        /\ obj'.running = obj.running /\ obj'.asleep = obj.asleep /\ obj'.late = obj.late
        /\ obj'.made = obj.made /\ obj'.taking = obj.taking
    BY <1>3, <2>1 DEF ServerFields
  <2>3. p.n \in 1..MaxRequests /\ IsOf(p, p.n) /\ \A n : IsOf(p, n) => n = p.n
    BY <1>4, <1>7, PacketKinds
  <2> HIDE DEF p, out
  <2>4. /\ DOMAIN obj.answers = DOMAIN obj.target /\ DOMAIN obj'.answers = DOMAIN obj.target
        /\ obj'.answers \in Seq(Nat) /\ Len(obj'.answers) = Len(obj.answers)
        /\ \A n \in DOMAIN obj.target :
             obj'.answers[n] = IF n = p.n THEN obj.answers[n] + 1 ELSE obj.answers[n]
    <3> DEFINE a == obj.answers
    <3>1. a \in Seq(Nat) /\ obj'.answers = [a EXCEPT ![p.n] = @ + 1] /\ Len(a) = Len(obj.target)
      BY <1>3, <2>2
    <3>2. DOMAIN obj.target = 1..Len(a) /\ DOMAIN a = 1..Len(a)
      BY <1>3, <3>1
    <3> HIDE DEF a
    <3>3. /\ DOMAIN obj'.answers = 1..Len(a)
          /\ \A n \in 1..Len(a) : obj'.answers[n] = IF n = p.n THEN a[n] + 1 ELSE a[n]
          /\ \A n \in 1..Len(a) : a[n] \in Nat
      BY <3>1, <3>2
    <3>4. a \in [1..Len(a) -> Nat] /\ Len(a) \in Nat
      BY <3>1
    <3>5. ASSUME p.n \in 1..Len(a) PROVE obj'.answers \in [1..Len(a) -> Nat]
      <4>1. PICK v \in Nat : v = a[p.n] + 1
        BY <3>3, <3>5
      <4>2. obj'.answers = [a EXCEPT ![p.n] = v]
        BY <3>1, <4>1
      <4>3. QED
        BY <3>4, <4>2
    <3>6. ASSUME p.n \notin 1..Len(a) PROVE obj'.answers \in [1..Len(a) -> Nat]
      <4>1. obj'.answers = a
        BY <3>1, <3>2, <3>6
      <4>2. QED
        BY <3>4, <4>1
    <3>9. obj'.answers \in [1..Len(a) -> Nat]
      BY <3>5, <3>6
    <3>7. obj'.answers \in Seq(Nat) /\ Len(obj'.answers) = Len(a)
      BY <3>4, <3>9
    <3>8. QED
      BY <3>2, <3>3, <3>7 DEF a
  <2>5. CountInv'
    <3> SUFFICES ASSUME NEW n \in 1..MaxRequests
                 PROVE  Bounded(Boxes', n, AnswersOf(n)', MostOf(n)')
      BY DEF CountInv
    <3>1. Boxes' = box
      BY <2>2 DEF Boxes
    <3>2. MostOf(n)' = MostOf(n)
      BY <2>2 DEF MostOf
    <3> HIDE DEF box
    <3>3. CASE n # p.n
      <4>1. AnswersOf(n)' = AnswersOf(n)
        BY <2>2, <2>4, <3>3 DEF AnswersOf
      <4>2. QED
        BY <1>5, <3>1, <3>2, <4>1
    <3>4. CASE n = p.n
      <4>1. /\ AnswersOf(n) + Cardinality(Copies(box, n)) + 1 <= MostOf(n)
            /\ \A m \in Copies(box, n) : ~Unread(box, m)
            /\ Bounded(box, n, AnswersOf(n), MostOf(n))
            /\ AnswersOf(n) \in Nat
        BY <1>5, <2>3, <3>4
      <4>2. Cardinality(Copies(box, n)) \in Nat
        BY <4>1, FS_CardinalityType DEF Bounded
      <4>3. n \in DOMAIN obj.target
        BY <4>1, <4>2 DEF MostOf
      <4>4. AnswersOf(n)' = AnswersOf(n) + 1
        BY <2>2, <2>4, <3>4, <4>3 DEF AnswersOf
      <4>5. AnswersOf(n) + 1 + Cardinality(Copies(box, n)) <= MostOf(n)
        BY <1>5, <4>1, <4>2
      <4>6. Bounded(box, n, AnswersOf(n) + 1, MostOf(n))
        BY <4>1, <4>5 DEF Bounded
      <4>7. QED
        BY <3>1, <3>2, <4>4, <4>6
    <3>5. QED
      BY <3>3, <3>4
  <2>6. Carries
    BY <1>1, <1>3, <2>2 DEF Carries
  <2>7. /\ obj'.id \in [ConnIds -> {0} \union ClientIds] /\ obj'.id = obj.id
        /\ obj'.routes \subseteq obj.clients
        /\ obj'.target \in Seq({All, Answerer}) /\ obj'.answers \in Seq(Nat)
        /\ Len(obj'.answers) = Len(obj'.target) /\ Len(obj'.target) <= MaxRequests
        /\ obj'.inbox \in [ConnIds -> Seq(Packets)] /\ obj'.outbox \in [ConnIds -> Seq(Packets)]
    BY <1>3, <1>4, <2>2, <2>4
  <2>8. QED
    BY <2>5, <2>6, <2>7, CarriesKept
<1>8. CASE p.code # "Req" /\ ~(p.code = "Rsp" /\ obj.who[c] = Asker)
  <2>1. obj' = rest
    BY <1>2, <1>8
  <2>2. /\ DOMAIN obj' = ServerFields
        /\ obj'.outbox = out
        /\ obj'.who = obj.who /\ obj'.state = obj.state /\ obj'.clients = obj.clients
        /\ obj'.id = obj.id /\ obj'.routes = obj.routes /\ obj'.inbox = obj.inbox
        /\ obj'.target = obj.target /\ obj'.answers = obj.answers
        /\ obj'.listening = obj.listening /\ obj'.running = obj.running
        /\ obj'.asleep = obj.asleep /\ obj'.late = obj.late /\ obj'.made = obj.made
        /\ obj'.taking = obj.taking
    BY <1>3, <2>1 DEF ServerFields
  <2> HIDE DEF p, out
  <2>3. CountInv'
    <3> SUFFICES ASSUME NEW n \in 1..MaxRequests
                 PROVE  Bounded(Boxes', n, AnswersOf(n)', MostOf(n)')
      BY DEF CountInv
    <3>1. Boxes' = box
      BY <2>2 DEF Boxes
    <3>2. Bounded(Boxes', n, AnswersOf(n), MostOf(n))
      BY <1>5, <3>1
    <3>3. QED
      BY <2>2, <3>2, SameCount DEF Quiet
  <2>4. Carries
    BY <1>1, <1>3, <2>2 DEF Carries
  <2>5. /\ obj'.id \in [ConnIds -> {0} \union ClientIds] /\ obj'.id = obj.id
        /\ obj'.routes \subseteq obj.clients
        /\ obj'.target \in Seq({All, Answerer}) /\ obj'.answers \in Seq(Nat)
        /\ Len(obj'.answers) = Len(obj'.target) /\ Len(obj'.target) <= MaxRequests
        /\ obj'.inbox \in [ConnIds -> Seq(Packets)] /\ obj'.outbox \in [ConnIds -> Seq(Packets)]
    BY <1>3, <1>4, <2>2
  <2>6. QED
    BY <2>3, <2>4, <2>5, CarriesKept
<1>9. QED
  BY <1>6, <1>7, <1>8

\* Those of C that a package reaches.
Reached(C) == {d \in ConnIds : d \in C /\ Live(d)}

LEMMA ReachedCount ==
  ASSUME ServerInv, NEW C
  PROVE  /\ IsFiniteSet({"out"} \X Reached(C)) /\ Cardinality({"out"} \X Reached(C)) \in Nat
         /\ \A W : IsFiniteSet(W) /\ (\A d \in Reached(C) : obj.who[d] \in W)
              => Cardinality({"out"} \X Reached(C)) <= Cardinality(W)
<1>1. Reached(C) \in SUBSET ConnIds
  BY DEF Reached
<1>2. obj.who \in [ConnIds -> Nat]
  <2>1. obj.who \in [ConnIds -> {0} \union ClientIds]
    BY ServerParts DEF ServerTypeOK
  <2>2. {0} \union ClientIds \subseteq Nat
    BY DEF ClientIds, Asker, Answerer
  <2>3. QED
    BY <2>1, <2>2
<1>3. \A d, e \in Reached(C) : obj.who[d] = obj.who[e] => d = e
  BY ServerParts DEF Reached, SessionInv
<1>4. ASSUME NEW W, IsFiniteSet(W), \A d \in Reached(C) : obj.who[d] \in W
      PROVE  Cardinality({"out"} \X Reached(C)) <= Cardinality(W)
  BY <1>1, <1>2, <1>3, <1>4, SentCount
<1>5. IsFiniteSet({"out"} \X Reached(C)) /\ Cardinality({"out"} \X Reached(C)) \in Nat
  <2> DEFINE self == [d \in ConnIds |-> d]
  <2>1. self \in [ConnIds -> Nat] /\ \A d \in ConnIds : self[d] = d
    BY ServerAssumption DEF ConnIds
  <2>2. IsFiniteSet(ConnIds)
    BY FS_Interval, ServerAssumption DEF ConnIds
  <2> HIDE DEF self
  <2>3. /\ \A d \in Reached(C) : self[d] \in ConnIds
        /\ \A d, e \in Reached(C) : self[d] = self[e] => d = e
    BY <1>1, <2>1
  <2>4. QED
    BY <1>1, <2>1, <2>2, <2>3, SentCount
<1>6. QED
  BY <1>4, <1>5

LEMMA DataKept ==
  ASSUME ServerInv, NEW c \in ConnIds, onClientData(c)
  PROVE  ServerInv'
<1> DEFINE p == Head(obj.inbox[c])
           done == [code |-> "Done"]
           in == [obj.inbox EXCEPT ![c] = Tail(@)]
           box == BoxesOf(in, obj.outbox)
           rest == [obj EXCEPT !.inbox[c] = Tail(@)]
<1>0. ServerTypeOK /\ SessionInv /\ StopInv
  BY ServerParts
<1>1. class' = class /\ pc' = pc /\ c \in obj.clients /\ obj.inbox[c] # <<>>
  BY DEF onClientData, Stay
<1>2. obj' = CASE p.code = "Register" ->
                    [rest EXCEPT !.id[c] = obj.who[c], !.routes = @ \union {c},
                                 !.outbox = SentTo({c}, done)]
               [] p.code = "HeartBeat" -> [rest EXCEPT !.outbox = SentTo({c}, done)]
               [] OTHER -> [rest EXCEPT !.outbox = SentTo(Receivers(p), p),
                              !.routed = IF p.code = "Req" /\ \A i \in ClientIds : Registered(i)
                                         THEN @ \union {p.n} ELSE @]
  BY DEF onClientData
<1>3. /\ obj.inbox \in [ConnIds -> Seq(Packets)] /\ obj.outbox \in [ConnIds -> Seq(Packets)]
      /\ obj.target \in Seq({All, Answerer}) /\ obj.answers \in Seq(Nat)
      /\ Len(obj.answers) = Len(obj.target) /\ Len(obj.target) <= MaxRequests
      /\ DOMAIN obj = ServerFields
      /\ obj.id \in [ConnIds -> {0} \union ClientIds] /\ obj.routes \subseteq obj.clients
  BY <1>0 DEF ServerTypeOK, SessionInv
<1>4. p \in Packets /\ in \in [ConnIds -> Seq(Packets)] /\ obj.inbox[c] \in Seq(Packets)
  <2>1. obj.inbox[c] \in Seq(Packets)
    BY <1>3
  <2>2. p \in Packets /\ Tail(obj.inbox[c]) \in Seq(Packets)
    BY <1>1, <2>1, HeadPacket
  <2>3. QED
    BY <1>3, <2>1, <2>2
<1>5. ASSUME NEW n \in 1..MaxRequests
      PROVE  /\ box \in [Sides -> Seq(Packets)]
             /\ AnswersOf(n) \in Nat /\ MostOf(n) \in Nat
             /\ Bounded(box, n, AnswersOf(n), MostOf(n))
             /\ IsOf(p, n) => /\ AnswersOf(n) + Cardinality(Copies(box, n)) + 1 <= MostOf(n)
                              /\ \A m \in Copies(box, n) : ~Unread(box, m)
             /\ IsOf(p, n) /\ p.code = "Req" =>
                  /\ AnswersOf(n) = 0 /\ Cardinality(Copies(box, n)) = 0
                  /\ Most(p.target) = MostOf(n)
  <2>1. /\ Bounded(Boxes, n, AnswersOf(n), MostOf(n))
        /\ MostOf(n) \in Nat /\ AnswersOf(n) \in Nat
        /\ Boxes \in [Sides -> Seq(Packets)]
    BY NowBounded
  <2>2. box \in [Sides -> Seq(Packets)] /\ <<"in", c>> \in Sides
    BY <1>3, <1>4, BoxesType
  <2>3. Boxes[<<"in", c>>] = obj.inbox[c]
    BY <1>3, BoxesType DEF Boxes
  <2>4. ReadFrom(Boxes, <<"in", c>>, box)
    BY <1>3, BoxesRead DEF Boxes
  <2> HIDE DEF box, in
  <2>5. /\ Bounded(box, n, AnswersOf(n), MostOf(n))
        /\ IsOf(Head(Boxes[<<"in", c>>]), n) =>
             /\ AnswersOf(n) + Cardinality(Copies(box, n)) + 1 <= MostOf(n)
             /\ \A m \in Copies(box, n) : ~Unread(box, m)
    BY <1>1, <2>1, <2>2, <2>3, <2>4, BoundedRead
  <2>6. ASSUME IsOf(p, n), p.code = "Req"
        PROVE  /\ AnswersOf(n) = 0 /\ Cardinality(Copies(box, n)) = 0
               /\ Most(p.target) = MostOf(n)
    <3>1. 1 \in 1..Len(obj.inbox[c]) /\ p = obj.inbox[c][1]
      BY <1>1, <1>4
    <3> HIDE DEF p
    <3>2. <<<<"in", c>>, 1>> \in Copies(Boxes, n)
      BY <2>1, <2>2, <2>3, <2>6, <3>1, CopyAt
    <3>3. Unread(Boxes, <<<<"in", c>>, 1>>)
      BY <2>3, <2>6, <3>1 DEF Unread
    <3>4. /\ AnswersOf(n) = 0 /\ Cardinality(Copies(Boxes, n)) <= 1
          /\ Most(p.target) = MostOf(n) /\ IsFiniteSet(Copies(Boxes, n))
      BY <2>1, <2>3, <2>6, <3>1, <3>2, <3>3 DEF Bounded
    <3>5. /\ Cardinality(Copies(box, n)) + 1 <= Cardinality(Copies(Boxes, n))
          /\ Cardinality(Copies(box, n)) \in Nat /\ Cardinality(Copies(Boxes, n)) \in Nat
      BY <1>1, <2>1, <2>2, <2>3, <2>4, <2>6, <3>1, <3>4, ReadOne DEF p
    <3>6. QED
      BY <3>4, <3>5
  <2>7. QED
    BY <2>1, <2>2, <2>3, <2>5, <2>6
<1>6. ASSUME NEW C, NEW q \in Packets, obj'.inbox = in, obj'.outbox = SentTo(C, q), Quiet,
             \A n \in 1..MaxRequests :
               Room(box, {"out"} \X Reached(C), q, n, AnswersOf(n), MostOf(n))
      PROVE  CountInv' /\ obj'.outbox \in [ConnIds -> Seq(Packets)]
  <2> DEFINE R == Reached(C)
             out == [d \in ConnIds |-> IF d \in R THEN Append(obj.outbox[d], q)
                                       ELSE obj.outbox[d]]
  <2>1. R \in SUBSET ConnIds /\ obj'.outbox = out
    BY <1>6 DEF SentTo, Reached
  <2>2. obj'.outbox \in [ConnIds -> Seq(Packets)]
    BY <1>3, <2>1
  <2> HIDE DEF R, in
  <2>3. ASSUME NEW n \in 1..MaxRequests
        PROVE  Bounded(Boxes', n, AnswersOf(n)', MostOf(n)')
    <3>1. Boxes' = BoxesOf(in, out)
      BY <1>6, <2>1 DEF Boxes
    <3>a. obj.outbox \in [ConnIds -> Seq(Packets)] /\ R \in SUBSET ConnIds
      BY <1>3, <2>1
    <3>2. SentInto(BoxesOf(in, obj.outbox), {"out"} \X R, q, BoxesOf(in, out))
            /\ {"out"} \X R \in SUBSET Sides
      BY <1>4, <3>a, BoxesSent
    <3>3. SentInto(box, {"out"} \X R, q, Boxes')
      BY <3>1, <3>2
    <3> HIDE DEF box
    <3>4. IsFiniteSet({"out"} \X R)
      BY ReachedCount DEF R
    <3>5. Room(box, {"out"} \X R, q, n, AnswersOf(n), MostOf(n))
      BY <1>6 DEF R
    <3>6. Bounded(Boxes', n, AnswersOf(n), MostOf(n))
      BY <1>5, <1>6, <3>2, <3>3, <3>4, <3>5, BoundedSent
    <3>7. QED
      BY <1>6, <3>6, SameCount
  <2>4. QED
    BY <2>2, <2>3 DEF CountInv
<1>7. c <= obj.made /\ obj.who[c] \in {0} \union ClientIds
  <2>1. obj.who[c] \in {0} \union ClientIds /\ obj.made \in Nat /\ c \in Nat
    BY <1>0, ServerAssumption DEF ServerTypeOK, ConnIds
  <2>2. obj.state[c] # "none"
    BY <1>0, <1>1 DEF SessionInv
  <2>3. ~(c > obj.made)
    BY <1>0, <2>2 DEF SessionInv
  <2>4. QED
    BY <2>1, <2>3
<1>8. done \in Packets /\ \A n : ~IsOf(done, n)
  BY PlainPackets
<1>9. CASE p.code = "Register"
  <2>1. obj' = [rest EXCEPT !.id[c] = obj.who[c], !.routes = @ \union {c},
                            !.outbox = SentTo({c}, done)]
    BY <1>2, <1>9
  <2>2. /\ DOMAIN obj' = ServerFields
        /\ obj'.id = [obj.id EXCEPT ![c] = obj.who[c]]
        /\ obj'.routes = obj.routes \union {c}
        /\ obj'.inbox = in
        /\ obj'.outbox = SentTo({c}, done)
        /\ obj'.who = obj.who /\ obj'.state = obj.state /\ obj'.clients = obj.clients
        /\ obj'.target = obj.target /\ obj'.answers = obj.answers
        /\ obj'.listening = obj.listening /\ obj'.running = obj.running
        /\ obj'.asleep = obj.asleep /\ obj'.late = obj.late /\ obj'.made = obj.made
        /\ obj'.taking = obj.taking
    BY <1>3, <2>1 DEF ServerFields
  <2> HIDE DEF done, in, p
  <2>3. CountInv' /\ obj'.outbox \in [ConnIds -> Seq(Packets)]
    BY <1>6, <1>8, <2>2 DEF Room, Quiet
  <2>4. Carries
    BY <1>1, <1>3, <2>2 DEF Carries
  <2>5. /\ obj'.id \in [ConnIds -> {0} \union ClientIds]
        /\ \A d \in ConnIds : obj'.id[d] \in {obj.id[d], obj.who[d]}
             /\ (obj'.id[d] # obj.id[d] => d <= obj.made)
    BY <1>3, <1>7, <2>2
  <2>6. /\ obj'.routes \subseteq obj.clients
        /\ obj'.target \in Seq({All, Answerer}) /\ obj'.answers \in Seq(Nat)
        /\ Len(obj'.answers) = Len(obj'.target) /\ Len(obj'.target) <= MaxRequests
        /\ obj'.inbox \in [ConnIds -> Seq(Packets)]
    BY <1>1, <1>3, <1>4, <2>2
  <2>7. QED
    BY <2>3, <2>4, <2>5, <2>6, CarriesKept
<1>10. CASE p.code = "HeartBeat"
  <2>1. obj' = [rest EXCEPT !.outbox = SentTo({c}, done)]
    BY <1>2, <1>10
  <2>2. /\ DOMAIN obj' = ServerFields
        /\ obj'.inbox = in
        /\ obj'.outbox = SentTo({c}, done)
        /\ obj'.who = obj.who /\ obj'.state = obj.state /\ obj'.clients = obj.clients
        /\ obj'.id = obj.id /\ obj'.routes = obj.routes /\ obj'.target = obj.target
        /\ obj'.answers = obj.answers /\ obj'.listening = obj.listening
        /\ obj'.running = obj.running /\ obj'.asleep = obj.asleep /\ obj'.late = obj.late
        /\ obj'.made = obj.made /\ obj'.taking = obj.taking
    BY <1>3, <2>1 DEF ServerFields
  <2> HIDE DEF done, in, p
  <2>3. CountInv' /\ obj'.outbox \in [ConnIds -> Seq(Packets)]
    BY <1>6, <1>8, <2>2 DEF Room, Quiet
  <2>4. Carries
    BY <1>1, <1>3, <2>2 DEF Carries
  <2>5. /\ obj'.id \in [ConnIds -> {0} \union ClientIds] /\ obj'.id = obj.id
        /\ obj'.routes \subseteq obj.clients
        /\ obj'.target \in Seq({All, Answerer}) /\ obj'.answers \in Seq(Nat)
        /\ Len(obj'.answers) = Len(obj'.target) /\ Len(obj'.target) <= MaxRequests
        /\ obj'.inbox \in [ConnIds -> Seq(Packets)]
    BY <1>1, <1>3, <1>4, <2>2
  <2>6. QED
    BY <2>3, <2>4, <2>5, CarriesKept
<1>11. CASE p.code \notin {"Register", "HeartBeat"}
  <2> DEFINE C == Receivers(p)
             R == {"out"} \X Reached(C)
  <2>1. obj' = [rest EXCEPT !.outbox = SentTo(C, p),
                  !.routed = IF p.code = "Req" /\ \A i \in ClientIds : Registered(i)
                             THEN @ \union {p.n} ELSE @]
    BY <1>2, <1>11
  <2>2. /\ DOMAIN obj' = ServerFields
        /\ obj'.inbox = in
        /\ obj'.outbox = SentTo(C, p)
        /\ obj'.who = obj.who /\ obj'.state = obj.state /\ obj'.clients = obj.clients
        /\ obj'.id = obj.id /\ obj'.routes = obj.routes /\ obj'.target = obj.target
        /\ obj'.answers = obj.answers /\ obj'.listening = obj.listening
        /\ obj'.running = obj.running /\ obj'.asleep = obj.asleep /\ obj'.late = obj.late
        /\ obj'.made = obj.made /\ obj'.taking = obj.taking
    BY <1>3, <2>1 DEF ServerFields
  <2> HIDE DEF in, C, box
  <2>3. /\ IsFiniteSet(R) /\ Cardinality(R) \in Nat
        /\ \A W : IsFiniteSet(W) /\ (\A d \in Reached(C) : obj.who[d] \in W)
             => Cardinality(R) <= Cardinality(W)
    BY ReachedCount
  <2>4. ASSUME NEW g \in ClientIds, \A d \in C : d \in ConnIds => obj.id[d] = g
        PROVE  Cardinality(R) <= 1
    <3>1. IsFiniteSet({g}) /\ Cardinality({g}) = 1
      BY FS_Singleton, Zenon
    <3>2. \A d \in Reached(C) : obj.who[d] \in {g}
      BY <1>0, <2>4 DEF Reached, SessionInv, ClientIds, Asker, Answerer
    <3>3. QED
      BY <2>3, <3>1, <3>2
  <2>5. ASSUME p.code = "Req"
        PROVE  Cardinality(R) <= Most(p.target)
    <3>1. CASE p.target = All
      <4>1. \A d \in Reached(C) : obj.who[d] \in ClientIds
        BY <1>0 DEF Reached, SessionInv, Live
      <4>2. IsFiniteSet(ClientIds)
        BY FS_Interval, FS_Subset DEF ClientIds, Asker, Answerer
      <4>3. QED
        BY <2>3, <3>1, <4>1, <4>2 DEF Most
    <3>2. CASE p.target # All
      <4>1. p.target \in ClientIds
        BY <1>4, <2>5, <3>2, PacketKinds DEF ClientIds
      <4>2. \A d \in C : obj.id[d] = p.target
        BY <2>5, <3>2 DEF C, Receivers
      <4>3. QED
        BY <2>4, <3>2, <4>1, <4>2 DEF Most
    <3>3. QED
      BY <3>1, <3>2
  <2>6. ASSUME p.code = "Rsp"
        PROVE  Cardinality(R) <= 1
    <3>1. p.target = Asker /\ Asker \in ClientIds
      BY <1>4, <2>6, PacketKinds DEF ClientIds
    <3>2. \A d \in C : obj.id[d] = Asker
      BY <2>6, <3>1 DEF C, Receivers
    <3>3. QED
      BY <2>4, <3>1, <3>2
  <2>7. ASSUME NEW n \in 1..MaxRequests
        PROVE  Room(box, R, p, n, AnswersOf(n), MostOf(n))
    <3> SUFFICES ASSUME IsOf(p, n)
                 PROVE  Room(box, R, p, n, AnswersOf(n), MostOf(n))
      BY DEF Room
    <3>1. p.code \in {"Req", "Rsp"}
      BY DEF IsOf
    <3>2. \A x \in R : x[1] = "out"
      OBVIOUS
    <3>3. /\ \A m \in Copies(box, n) : ~Unread(box, m)
          /\ p.code = "Req" => Most(p.target) = MostOf(n)
      BY <1>5
    <3>4. AnswersOf(n) + Cardinality(Copies(box, n)) + Cardinality(R) <= MostOf(n)
      <4>1. AnswersOf(n) \in Nat /\ Cardinality(Copies(box, n)) \in Nat /\ MostOf(n) \in Nat
        BY <1>5, FS_CardinalityType DEF Bounded
      <4>2. CASE p.code = "Req"
        <5>1. AnswersOf(n) = 0 /\ Cardinality(Copies(box, n)) = 0 /\ Most(p.target) = MostOf(n)
          BY <1>5, <4>2
        <5>2. QED
          BY <2>3, <2>5, <4>1, <4>2, <5>1
      <4>3. CASE p.code = "Rsp"
        <5>1. AnswersOf(n) + Cardinality(Copies(box, n)) + 1 <= MostOf(n)
          BY <1>5
        <5>2. QED
          BY <2>3, <2>6, <4>1, <4>3, <5>1
      <4>4. QED
        BY <3>1, <4>2, <4>3
    <3>5. QED
      BY <3>2, <3>3, <3>4 DEF Room
  <2>8. CountInv' /\ obj'.outbox \in [ConnIds -> Seq(Packets)]
    BY <1>4, <1>6, <2>2, <2>7 DEF Quiet
  <2>9. Carries
    BY <1>1, <1>3, <2>2 DEF Carries
  <2>10. /\ obj'.id \in [ConnIds -> {0} \union ClientIds] /\ obj'.id = obj.id
         /\ obj'.routes \subseteq obj.clients
         /\ obj'.target \in Seq({All, Answerer}) /\ obj'.answers \in Seq(Nat)
         /\ Len(obj'.answers) = Len(obj'.target) /\ Len(obj'.target) <= MaxRequests
         /\ obj'.inbox \in [ConnIds -> Seq(Packets)]
    BY <1>1, <1>3, <1>4, <2>2
  <2>11. QED
    BY <2>8, <2>9, <2>10, CarriesKept
<1>12. QED
  BY <1>9, <1>10, <1>11

LEMMA ServerInvInit == ServerInit => ServerInv
<1> SUFFICES ASSUME ServerInit PROVE ServerInv
  OBVIOUS
<1>1. class = "server" /\ pc = [t \in {"stop", "poll"} |-> "idle"]
  BY DEF ServerInit
<1>2. obj = [who |-> [c \in ConnIds |-> 0], state |-> [c \in ConnIds |-> "none"],
             clients |-> {}, id |-> [c \in ConnIds |-> 0], routes |-> {},
             inbox |-> [c \in ConnIds |-> <<>>], outbox |-> [c \in ConnIds |-> <<>>],
             target |-> <<>>, answers |-> <<>>, listening |-> "up", running |-> TRUE,
             asleep |-> FALSE, late |-> FALSE, made |-> 0, taking |-> 0, routed |-> {}]
  BY DEF ServerInit
<1>3. /\ DOMAIN obj = ServerFields
      /\ obj.who = [c \in ConnIds |-> 0] /\ obj.state = [c \in ConnIds |-> "none"]
      /\ obj.clients = {} /\ obj.id = [c \in ConnIds |-> 0] /\ obj.routes = {}
      /\ obj.inbox = [c \in ConnIds |-> <<>>] /\ obj.outbox = [c \in ConnIds |-> <<>>]
      /\ obj.target = <<>> /\ obj.answers = <<>> /\ obj.listening = "up" /\ obj.running
      /\ ~obj.asleep /\ ~obj.late /\ obj.made = 0 /\ obj.taking = 0
  BY <1>2 DEF ServerFields
<1>4. ServerTypeOK
  <2>1. MaxConns \in Nat /\ MaxRequests \in Nat
    BY ServerAssumption
  <2>2. <<>> \in Seq(Packets) /\ <<>> \in Seq({All, Answerer}) /\ <<>> \in Seq(Nat)
          /\ Len(<<>>) = 0
    OBVIOUS
  <2>3. obj.inbox \in [ConnIds -> Seq(Packets)] /\ obj.outbox \in [ConnIds -> Seq(Packets)]
    BY <1>3, <2>2
  <2>4. QED
    BY <1>1, <1>3, <2>1, <2>2, <2>3 DEF ServerTypeOK
<1>5. SessionInv
  BY <1>1, <1>3 DEF SessionInv, Live
<1>6. StopInv
  BY <1>1, <1>3 DEF StopInv
<1>7. CountInv
  <2> SUFFICES ASSUME NEW n \in 1..MaxRequests
               PROVE  Bounded(Boxes, n, AnswersOf(n), MostOf(n))
    BY DEF CountInv
  <2>1. AnswersOf(n) = 0 /\ MostOf(n) = 0
    BY <1>3 DEF AnswersOf, MostOf
  <2>2. \A x \in Sides : Boxes[x] = <<>>
    BY <1>3 DEF Boxes, BoxesOf, Sides
  <2>3. Copies(Boxes, n) = {}
    BY <2>2 DEF Copies
  <2>4. IsFiniteSet({}) /\ Cardinality({}) = 0
    BY FS_EmptySet
  <2>5. QED
    BY <2>1, <2>3, <2>4 DEF Bounded
<1>8. QED
  BY <1>4, <1>5, <1>6, <1>7 DEF ServerInv

(* Every step of a client, the poll thread or stop() keeps ServerInv.       *)
LEMMA ServerInvNext == ServerInv /\ [ServerNext]_mvars => ServerInv'
<1> SUFFICES ASSUME ServerInv, [ServerNext]_mvars PROVE ServerInv'
  OBVIOUS
<1>1. CASE \E i \in ClientIds : clientConnects(i)
  BY <1>1, ConnectsKept
<1>2. ASSUME NEW c \in ConnIds, clientLeaves(c) \/ clientBeats(c) \/ clientReads(c)
      PROVE  ServerInv'
  BY <1>2, LeavesKept, BeatsKept, ReadsKept
<1>3. ASSUME NEW c \in ConnIds, NEW g \in {All, Answerer}, clientAsks(c, g)
      PROVE  ServerInv'
  BY <1>3, AsksKept
<1>4. ASSUME NEW c \in ConnIds,
             accept(c) \/ addClient(c) \/ onClientData(c) \/ removeClient(c)
      PROVE  ServerInv'
  BY <1>4, AcceptKept, AddClientKept, DataKept, RemoveClientKept
<1>5. CASE onClose
  BY <1>5, CloseKept
<1>6. CASE serverStart \/ serverStop \/ noClients \/ stopWaits \/ stopWoken
  BY <1>6, StoppingKept
<1>7. CASE UNCHANGED mvars
  <2>1. class' = class /\ pc' = pc /\ obj' = obj
    BY <1>7 DEF mvars
  <2>2. Elsewhere /\ StopInv'
    BY <2>1, ServerParts DEF Elsewhere, StopInv, ServerTypeOK
  <2>3. QED
    BY <2>2, ElsewhereKept
<1>8. QED
  BY <1>1, <1>2, <1>3, <1>4, <1>5, <1>6, <1>7 DEF ServerNext

LEMMA ServerInvAlways == ServerSpec => []ServerInv
<1>1. ServerInit => ServerInv
  BY ServerInvInit
<1>2. ServerInv /\ [ServerNext]_mvars => ServerInv'
  BY ServerInvNext
<1>3. QED
  BY <1>1, <1>2, PTL DEF ServerSpec

(* However clients come, go and come back while the server is stopped and   *)
(* started, a route leads to a session the server has, under its own id,    *)
(* and a stopped server has none, but for one taken in too late.            *)
THEOREM SessionsExactAlways == ServerSpec => []SessionsExact
<1>1. ServerInv => SessionsExact
  <2> SUFFICES ASSUME ServerInv PROVE SessionsExact
    OBVIOUS
  <2>1. RoutesLive
    BY ServerParts DEF RoutesLive, SessionInv, ServerTypeOK
  <2>2. StoppedEmpty
    BY ServerParts DEF StoppedEmpty, StopInv, At
  <2>3. QED
    BY <2>1, <2>2 DEF SessionsExact
<1>2. QED
  BY <1>1, ServerInvAlways, PTL

(* A request to one client is never answered twice, and one to all at most  *)
(* once by each, over any number of connections and requests.               *)
THEOREM AnsweredOnceAlways == ServerSpec => []AnsweredOnce
<1>1. ServerInv => AnsweredOnce
  <2> SUFFICES ASSUME ServerInv, NEW n \in DOMAIN obj.target
               PROVE  obj.answers[n] <= IF obj.target[n] = All
                                        THEN Cardinality(ClientIds) ELSE 1
    BY DEF AnsweredOnce
  <2>1. n \in 1..MaxRequests
    BY ServerParts, ServerAssumption DEF ServerTypeOK
  <2>2. /\ Bounded(Boxes, n, AnswersOf(n), MostOf(n))
        /\ MostOf(n) \in Nat /\ AnswersOf(n) \in Nat
    BY <2>1, NowBounded
  <2>3. Cardinality(Copies(Boxes, n)) \in Nat
          /\ AnswersOf(n) + Cardinality(Copies(Boxes, n)) <= MostOf(n)
    BY <2>2, FS_CardinalityType DEF Bounded
  <2>4. AnswersOf(n) <= MostOf(n)
    BY <2>2, <2>3
  <2>5. QED
    BY <2>4 DEF AnswersOf, MostOf, Most
<1>2. QED
  BY <1>1, ServerInvAlways, PTL

-----------------------------------------------------------------------------
(* A cell of a stream; those of a connection have an order.                 *)
Lengths == {HeaderSize + d : d \in DataCells}
Cells == {x \in Streams \X Nat \X Nat \X Nat :
            x[2] \in 1..MaxPackages /\ x[4] \in Lengths /\ x[3] \in 1..x[4]}
Before(x, y) == x[1] = y[1] => x[2] < y[2] \/ (x[2] = y[2] /\ x[3] < y[3])
Ordered(s) == \A i, j \in 1..Len(s) : i < j => Before(s[i], s[j])
AllBefore(s, t) == \A i \in 1..Len(s) : \A j \in 1..Len(t) : Before(s[i], t[j])

FramingFields ==
  {"kind", "wire", "sent", "cur", "buffer", "got", "by", "mixed", "deaf", "lost"}
Kinds == {"session", "busClient", "dsServer", "dsClient"}
Framed == Seq(Cells) \ {<<>>}

FramingTypeOK ==
  /\ class = "framing"
  /\ DOMAIN obj = FramingFields
  /\ pc \in [{"poll"} -> {"idle", "parse"}]
  /\ obj.kind \in Kinds
  /\ obj.wire \in [Streams -> Seq(Cells)]
  /\ obj.sent \in [Streams -> 0..MaxPackages]
  /\ obj.cur \in Streams
  /\ obj.buffer \in Seq(Cells)
  /\ obj.got \in Seq(Streams \X Framed)
  /\ obj.by \in Streams
  /\ obj.kind # "dsServer" => obj.by <= obj.cur

(* The cells of a connection come in the order they were sent in, whatever  *)
(* other connections' are between them, and are not read twice.             *)
HeadsOf(got) == [i \in 1..Len(got) |-> got[i][2][1]]
Sent(s, sent) == \A i \in 1..Len(s) : s[i][2] <= sent[s[i][1]]
On(s, c) == \A i \in 1..Len(s) : s[i][1] = c
SentInv ==
  /\ Sent(HeadsOf(obj.got), obj.sent) /\ Sent(obj.buffer, obj.sent)
  /\ \A c \in Streams : Sent(obj.wire[c], obj.sent) /\ On(obj.wire[c], c)
OrderInv ==
  /\ Ordered(HeadsOf(obj.got)) /\ Ordered(obj.buffer)
  /\ AllBefore(HeadsOf(obj.got), obj.buffer)
  /\ \A c \in Streams :
       /\ Ordered(obj.wire[c])
       /\ AllBefore(HeadsOf(obj.got), obj.wire[c]) /\ AllBefore(obj.buffer, obj.wire[c])
  /\ \A i \in 1..Len(obj.got) : obj.got[i][2][1][3] = 1

(* What the hash covers is right.                                           *)
Hashed(p) ==
  /\ Len(p) >= HeaderSize /\ Len(p) = LengthIn(p[2])
  /\ \A k \in 2..Len(p) : p[k] = <<p[2][1], p[2][2], k, p[2][4]>>
HashInv == ~Bus => \A i \in 1..Len(obj.got) : Hashed(obj.got[i][2])

(* The stream of a connection from the first cell that no package was made  *)
(* of: what follows a cell, and where it begins and ends.                   *)
Follows(x, y) ==
  /\ y[1] = x[1]
  /\ x[3] < x[4] => y[2] = x[2] /\ y[3] = x[3] + 1 /\ y[4] = x[4]
  /\ x[3] = x[4] => y[2] = x[2] + 1 /\ y[3] = 1
Flow(s) == \A i \in 1..Len(s) - 1 : Follows(s[i], s[i + 1])
RestOf(by, buffer, wire, c) == (IF c = by THEN buffer ELSE <<>>) \o wire[c]
Handled(heads, c) == {heads[i][2] : i \in {j \in 1..Len(heads) : heads[j][1] = c}}
Begins(s, numbers) == s # <<>> => Place(s[1]) = 1 /\ numbers = 1..s[1][2] - 1
EndsAt(s, numbers, last) ==
  /\ s # <<>> => s[Len(s)][2] = last /\ s[Len(s)][3] = s[Len(s)][4]
  /\ s = <<>> => numbers = 1..last
Goes(c) == obj.kind = "dsServer" \/ c >= obj.cur
StreamOf(c) == RestOf(obj.by, obj.buffer, obj.wire, c)
NumbersOf(c) == Handled(HeadsOf(obj.got), c)

Whole(g) == Len(g[2]) = g[2][1][4]
              /\ \A k \in 1..Len(g[2]) : g[2][k] = <<g[1], g[2][1][2], k, g[2][1][4]>>
StreamInv(c) ==
  /\ On(StreamOf(c), c) /\ Flow(StreamOf(c)) /\ Begins(StreamOf(c), NumbersOf(c))
  /\ Goes(c) => EndsAt(StreamOf(c), NumbersOf(c), obj.sent[c])
GotInv ==
  /\ \A i \in 1..Len(obj.got) : Whole(obj.got[i])
  /\ \A i \in 1..Len(obj.got) :
       1..obj.got[i][2][1][2] - 1 \subseteq NumbersOf(obj.got[i][2][1][1])
WaitInv ==
  At("poll", "idle") /\ obj.buffer # <<>> =>
    obj.kind = "dsServer" \/ Len(obj.buffer) < LengthIn(obj.buffer[1])
Clean == ~obj.mixed /\ ~obj.lost
FlowInv == Clean => (\A c \in Streams : StreamInv(c)) /\ GotInv /\ WaitInv

FramingInv == FramingTypeOK /\ SentInv /\ OrderInv /\ HashInv /\ FlowInv

-----------------------------------------------------------------------------
\* Every set of naturals with an element has a least one.
LEMMA LeastIndex ==
  ASSUME NEW T \in SUBSET Nat, T # {}
  PROVE  \E m \in T : \A k \in T : m <= k
<1> DEFINE R == OpToRel(<, Nat)
<1>1. IsWellFoundedOn(R, Nat)
  BY NatLessThanWellFounded
<1>2. PICK m \in T : \A k \in T : ~ (<<k, m>> \in R)
  <2> HIDE DEF R
  <2> QED BY <1>1, WFMin
<1>3. R = {ss \in Nat \X Nat : ss[1] < ss[2]}
  BY DEF OpToRel
<1> HIDE DEF R
<1>4. ASSUME NEW k \in T PROVE m <= k
  <2>1. <<k, m>> \in Nat \X Nat /\ <<k, m>>[1] = k /\ <<k, m>>[2] = m
    OBVIOUS
  <2>2. ~ (k < m)
    BY <1>2, <1>3, <2>1, Zenon
  <2>3. QED
    BY <2>2
<1>5. QED
  BY <1>4

\* Some of a sequence, from one place to another.
Part(p, s) == \E m \in 1..Len(s) + 1, n \in 0..Len(s) : p = SubSeq(s, m, n)

\* The elements of a part of a sequence are its own, moved.
LEMMA CutAt ==
  ASSUME NEW S, NEW s \in Seq(S), NEW m \in 1..Len(s) + 1, NEW n \in 0..Len(s)
  PROVE  /\ SubSeq(s, m, n) \in Seq(S)
         /\ Len(SubSeq(s, m, n)) = IF m <= n THEN n - m + 1 ELSE 0
         /\ \A i \in 1..Len(SubSeq(s, m, n)) :
              m + i - 1 \in 1..Len(s) /\ SubSeq(s, m, n)[i] = s[m + i - 1]
<1>1. m \in Int /\ n \in Int /\ \A i \in m..n : s[i] \in S
  OBVIOUS
<1>2. /\ SubSeq(s, m, n) \in Seq(S)
      /\ Len(SubSeq(s, m, n)) = IF m <= n THEN n - m + 1 ELSE 0
      /\ \A i \in 1..n - m + 1 : SubSeq(s, m, n)[i] = s[m + i - 1]
  BY <1>1, SubSeqProperties
<1>3. QED
  BY <1>2

\* A part has elements of the whole only, and in its order.
LEMMA PartOf ==
  ASSUME NEW S, NEW s \in Seq(S), NEW p, Part(p, s)
  PROVE  /\ p \in Seq(S) /\ Len(p) <= Len(s)
         /\ \A i \in 1..Len(p) : \E k \in 1..Len(s) : p[i] = s[k]
         /\ \A i, j \in 1..Len(p) : i < j =>
              \E k, l \in 1..Len(s) : k < l /\ p[i] = s[k] /\ p[j] = s[l]
<1>1. PICK m \in 1..Len(s) + 1, n \in 0..Len(s) : p = SubSeq(s, m, n)
  BY DEF Part
<1>2. /\ p \in Seq(S)
      /\ Len(p) = IF m <= n THEN n - m + 1 ELSE 0
      /\ \A i \in 1..Len(p) : m + i - 1 \in 1..Len(s) /\ p[i] = s[m + i - 1]
  BY <1>1, CutAt
<1>3. Len(p) <= Len(s)
  BY <1>2
<1>4. ASSUME NEW i \in 1..Len(p) PROVE \E k \in 1..Len(s) : p[i] = s[k]
  BY <1>2
<1>5. ASSUME NEW i \in 1..Len(p), NEW j \in 1..Len(p), i < j
      PROVE  \E k, l \in 1..Len(s) : k < l /\ p[i] = s[k] /\ p[j] = s[l]
  <2>1. /\ m + i - 1 \in 1..Len(s) /\ p[i] = s[m + i - 1]
        /\ m + j - 1 \in 1..Len(s) /\ p[j] = s[m + j - 1]
    BY <1>2
  <2>2. m + i - 1 < m + j - 1
    BY <1>2, <1>5
  <2>3. QED
    BY <2>1, <2>2
<1>6. QED
  BY <1>2, <1>3, <1>4, <1>5

\* The whole, nothing, a front and a rest are parts.
LEMMA PartsAre ==
  ASSUME NEW S, NEW s \in Seq(S)
  PROVE  /\ Part(s, s) /\ Part(<<>>, s)
         /\ \A n \in 0..Len(s) : Part(SubSeq(s, n + 1, Len(s)), s) /\ Part(SubSeq(s, 1, n), s)
<1>1. SubSeq(s, 1, Len(s)) = s /\ 1 \in 1..Len(s) + 1 /\ Len(s) \in 0..Len(s)
  BY SubSeqFull
<1>2. SubSeq(s, 1, 0) = <<>> /\ 0 \in 0..Len(s)
  BY SubSeqEmpty
<1>3. Part(s, s) /\ Part(<<>>, s)
  <2>1. \E m \in 1..Len(s) + 1, n \in 0..Len(s) : s = SubSeq(s, m, n)
    BY <1>1
  <2>2. \E m \in 1..Len(s) + 1, n \in 0..Len(s) : <<>> = SubSeq(s, m, n)
    BY <1>1, <1>2
  <2>3. QED
    BY <2>1, <2>2 DEF Part
<1>4. ASSUME NEW n \in 0..Len(s)
      PROVE  Part(SubSeq(s, n + 1, Len(s)), s) /\ Part(SubSeq(s, 1, n), s)
  <2>1. n + 1 \in 1..Len(s) + 1 /\ 1 \in 1..Len(s) + 1 /\ Len(s) \in 0..Len(s)
    OBVIOUS
  <2>2. QED
    BY <2>1 DEF Part
<1>5. QED
  BY <1>3, <1>4

\* What two sequences behind each other hold.
LEMMA Joined ==
  ASSUME NEW S, NEW s \in Seq(S), NEW t \in Seq(S)
  PROVE  /\ s \o t \in Seq(S) /\ Len(s \o t) = Len(s) + Len(t)
         /\ \A i \in 1..Len(s) : (s \o t)[i] = s[i]
         /\ \A j \in 1..Len(t) : (s \o t)[Len(s) + j] = t[j]
         /\ \A k \in 1..Len(s \o t) :
              (k \in 1..Len(s) /\ (s \o t)[k] = s[k])
                \/ (k - Len(s) \in 1..Len(t) /\ (s \o t)[k] = t[k - Len(s)])
<1>1. Len(s) \in Nat /\ Len(t) \in Nat
  OBVIOUS
<1>2. /\ s \o t \in Seq(S) /\ Len(s \o t) = Len(s) + Len(t)
      /\ \A i \in 1..Len(s) + Len(t) :
           (s \o t)[i] = IF i <= Len(s) THEN s[i] ELSE t[i - Len(s)]
  BY ConcatProperties
<1>3. QED
  BY <1>1, <1>2

-----------------------------------------------------------------------------
\* A part of what is in order is in order.
LEMMA OrderedPart ==
  ASSUME NEW S, NEW s \in Seq(S), NEW p, Part(p, s), Ordered(s)
  PROVE  Ordered(p)
BY PartOf DEF Ordered

\* Parts of what is before and behind are before and behind.
LEMMA BeforePart ==
  ASSUME NEW S, NEW s \in Seq(S), NEW t \in Seq(S), NEW p, NEW q,
         Part(p, s), Part(q, t), AllBefore(s, t)
  PROVE  AllBefore(p, q)
<1>1. /\ \A i \in 1..Len(p) : \E k \in 1..Len(s) : p[i] = s[k]
      /\ \A i \in 1..Len(q) : \E k \in 1..Len(t) : q[i] = t[k]
  BY PartOf
<1>2. QED
  BY <1>1 DEF AllBefore

\* The first n elements.
LEMMA CutFront ==
  ASSUME NEW S, NEW s \in Seq(S), NEW n \in 0..Len(s)
  PROVE  /\ SubSeq(s, 1, n) \in Seq(S) /\ Len(SubSeq(s, 1, n)) = n
         /\ \A i \in 1..n : SubSeq(s, 1, n)[i] = s[i]
<1> DEFINE p == SubSeq(s, 1, n)
<1>1. 1 \in 1..Len(s) + 1 /\ Len(s) \in Nat
  OBVIOUS
<1>2. /\ p \in Seq(S) /\ Len(p) = IF 1 <= n THEN n - 1 + 1 ELSE 0
      /\ \A i \in 1..Len(p) : p[i] = s[1 + i - 1]
  BY <1>1, CutAt
<1> HIDE DEF p
<1>3. Len(p) = n
  BY <1>2
<1>4. \A i \in 1..n : 1 + i - 1 = i
  OBVIOUS
<1>5. QED
  BY <1>2, <1>3, <1>4 DEF p

\* Where a sequence in order is cut, the front is before the rest.
LEMMA OrderedCut ==
  ASSUME NEW S, NEW s \in Seq(S), NEW n \in 0..Len(s), Ordered(s)
  PROVE  AllBefore(SubSeq(s, 1, n), SubSeq(s, n + 1, Len(s)))
<1> DEFINE p == SubSeq(s, 1, n)
           q == SubSeq(s, n + 1, Len(s))
<1>1. Len(p) = n /\ \A i \in 1..Len(p) : p[i] = s[i]
  BY CutAt
<1>2. Len(q) = Len(s) - n /\ \A i \in 1..Len(q) : q[i] = s[n + i]
  <2>1. n + 1 \in 1..Len(s) + 1 /\ Len(s) \in 0..Len(s)
    OBVIOUS
  <2>2. /\ Len(q) = IF n + 1 <= Len(s) THEN Len(s) - (n + 1) + 1 ELSE 0
        /\ \A i \in 1..Len(q) : q[i] = s[(n + 1) + i - 1]
    BY <2>1, CutAt
  <2>3. \A i \in 1..Len(q) : (n + 1) + i - 1 = n + i
    OBVIOUS
  <2>4. QED
    BY <2>2, <2>3
<1> HIDE DEF p, q
<1>3. ASSUME NEW i \in 1..Len(p), NEW j \in 1..Len(q) PROVE Before(p[i], q[j])
  <2>1. i \in 1..Len(s) /\ n + j \in 1..Len(s) /\ i < n + j
    BY <1>1, <1>2
  <2>2. Before(s[i], s[n + j])
    BY <2>1 DEF Ordered
  <2>3. QED
    BY <1>1, <1>2, <2>2
<1>4. QED
  BY <1>3 DEF AllBefore, p, q

\* Two sequences in order, one before the other, are one in order.
LEMMA OrderedJoin ==
  ASSUME NEW S, NEW s \in Seq(S), NEW t \in Seq(S), Ordered(s), Ordered(t), AllBefore(s, t)
  PROVE  Ordered(s \o t)
<1> DEFINE u == s \o t
<1>1. /\ Len(u) = Len(s) + Len(t) /\ Len(s) \in Nat /\ Len(t) \in Nat
      /\ \A k \in 1..Len(u) : (k \in 1..Len(s) /\ u[k] = s[k])
                                \/ (k - Len(s) \in 1..Len(t) /\ u[k] = t[k - Len(s)])
  BY Joined
<1> HIDE DEF u
<1>2. ASSUME NEW i \in 1..Len(u), NEW j \in 1..Len(u), i < j
      PROVE  Before(u[i], u[j])
  <2>1. CASE i \in 1..Len(s) /\ u[i] = s[i] /\ j \in 1..Len(s) /\ u[j] = s[j]
    BY <1>2, <2>1 DEF Ordered
  <2>2. CASE i \in 1..Len(s) /\ u[i] = s[i] /\ j - Len(s) \in 1..Len(t) /\ u[j] = t[j - Len(s)]
    BY <2>2 DEF AllBefore
  <2>3. CASE i - Len(s) \in 1..Len(t) /\ u[i] = t[i - Len(s)]
             /\ j - Len(s) \in 1..Len(t) /\ u[j] = t[j - Len(s)]
    <3>1. i - Len(s) < j - Len(s)
      BY <1>1, <1>2
    <3>2. QED
      BY <2>3, <3>1 DEF Ordered
  <2>4. ~ (i - Len(s) \in 1..Len(t) /\ j \in 1..Len(s))
    BY <1>1, <1>2
  <2>5. QED
    BY <1>1, <2>1, <2>2, <2>3, <2>4
<1>3. QED
  BY <1>2 DEF Ordered, u

\* What is before both is before the two joined, and the same behind.
LEMMA BeforeJoin ==
  ASSUME NEW S, NEW s \in Seq(S), NEW t \in Seq(S), NEW u \in Seq(S)
  PROVE  /\ AllBefore(s, u) /\ AllBefore(t, u) => AllBefore(s \o t, u)
         /\ AllBefore(u, s) /\ AllBefore(u, t) => AllBefore(u, s \o t)
<1>1. \A k \in 1..Len(s \o t) :
        (k \in 1..Len(s) /\ (s \o t)[k] = s[k])
          \/ (k - Len(s) \in 1..Len(t) /\ (s \o t)[k] = t[k - Len(s)])
  BY Joined
<1>2. QED
  BY <1>1 DEF AllBefore

-----------------------------------------------------------------------------
\* What a cell is made of.
LEMMA CellIs ==
  ASSUME NEW x \in Cells
  PROVE  /\ x = <<x[1], x[2], x[3], x[4]>>
         /\ x[1] \in Streams /\ x[2] \in 1..MaxPackages
         /\ x[4] \in Lengths /\ x[3] \in 1..x[4]
BY DEF Cells

\* A length in a header is that of a package.
LEMMA LengthsAre == \A l \in Lengths : l \in Nat /\ l >= HeaderSize /\ l - HeaderSize \in DataCells
BY FramingAssumption DEF Lengths, HeaderSize

\* A package as it is sent, cell by cell.
LEMMA PackageIs ==
  ASSUME NEW c \in Streams, NEW n \in 1..MaxPackages, NEW d \in DataCells
  PROVE  /\ Package(c, n, d) \in Seq(Cells) /\ Len(Package(c, n, d)) = HeaderSize + d
         /\ HeaderSize + d \in Lengths
         /\ \A k \in 1..HeaderSize + d : Package(c, n, d)[k] = <<c, n, k, HeaderSize + d>>
<1> DEFINE L == HeaderSize + d
           P == [k \in 1..L |-> <<c, n, k, L>>]
<1>1. L \in Nat /\ L \in Lengths /\ MaxPackages \in Nat
  BY FramingAssumption DEF Lengths, HeaderSize
<1> HIDE DEF L
<1>2. ASSUME NEW k \in 1..L PROVE <<c, n, k, L>> \in Cells
  BY <1>1 DEF Cells
<1>3. P \in [1..L -> Cells]
  BY <1>2
<1>4. P \in Seq(Cells) /\ Len(P) = L
  BY <1>1, <1>3
<1>5. P = Package(c, n, d)
  BY DEF Package, L
<1>6. QED
  BY <1>1, <1>4, <1>5 DEF L

\* A package that begins where the stream does, and is all there, is there as
\* it was sent.
LEMMA WholePackage ==
  ASSUME NEW s \in Seq(Cells), s # <<>>, Flow(s), s[1][3] = 1, s[1][4] <= Len(s)
  PROVE  \A k \in 1..s[1][4] : s[k] = <<s[1][1], s[1][2], k, s[1][4]>>
<1> DEFINE L == s[1][4]
           T == {k \in 1..L : s[k] # <<s[1][1], s[1][2], k, L>>}
<1>1. Len(s) \in Nat /\ Len(s) >= 1 /\ s[1] \in Cells
  OBVIOUS
<1>2. L \in Nat /\ L >= 1 /\ L <= Len(s)
  BY <1>1, CellIs, LengthsAre DEF HeaderSize
<1>3. s[1] = <<s[1][1], s[1][2], 1, L>>
  BY <1>1, CellIs
<1> HIDE DEF L
<1>4. ASSUME T # {} PROVE FALSE
  <2>1. PICK m \in T : \A k \in T : m <= k
    <3>1. T \in SUBSET Nat
      BY <1>2
    <3>2. QED
      BY <1>4, <3>1, LeastIndex
  <2>2. m \in 1..L /\ s[m] # <<s[1][1], s[1][2], m, L>>
    OBVIOUS
  <2>3. m # 1
    BY <1>3, <2>2
  <2>4. m - 1 \in 1..L /\ m - 1 \notin T /\ m - 1 < L /\ m - 1 \in 1..Len(s) - 1
    BY <1>2, <2>1, <2>2, <2>3
  <2>5. s[m - 1] = <<s[1][1], s[1][2], m - 1, L>>
    BY <2>4
  <2>6. Follows(s[m - 1], s[(m - 1) + 1]) /\ (m - 1) + 1 = m
    BY <2>4, <2>2 DEF Flow
  <2>7. s[m][1] = s[1][1] /\ s[m][2] = s[1][2] /\ s[m][3] = m /\ s[m][4] = L
    BY <2>4, <2>5, <2>6 DEF Follows
  <2>8. s[m] \in Cells
    BY <1>2, <2>2
  <2>9. s[m] = <<s[m][1], s[m][2], s[m][3], s[m][4]>>
    BY <2>8, CellIs
  <2>10. QED
    BY <2>2, <2>7, <2>9
<1>5. QED
  BY <1>4 DEF L

-----------------------------------------------------------------------------
\* What is left without the first n elements.
LEMMA CutOff ==
  ASSUME NEW S, NEW s \in Seq(S), NEW n \in 0..Len(s)
  PROVE  /\ SubSeq(s, n + 1, Len(s)) \in Seq(S)
         /\ Len(SubSeq(s, n + 1, Len(s))) = Len(s) - n
         /\ \A i \in 1..Len(s) - n : SubSeq(s, n + 1, Len(s))[i] = s[n + i]
<1>1. n + 1 \in 1..Len(s) + 1 /\ Len(s) \in 0..Len(s) /\ Len(s) \in Nat
  OBVIOUS
<1> DEFINE q == SubSeq(s, n + 1, Len(s))
<1>2. /\ q \in Seq(S) /\ Len(q) = IF n + 1 <= Len(s) THEN Len(s) - (n + 1) + 1 ELSE 0
      /\ \A i \in 1..Len(q) : q[i] = s[(n + 1) + i - 1]
  BY <1>1, CutAt
<1> HIDE DEF q
<1>3. Len(q) = Len(s) - n
  BY <1>1, <1>2
<1>4. ASSUME NEW i \in 1..Len(s) - n PROVE q[i] = s[n + i]
  <2>1. (n + 1) + i - 1 = n + i
    OBVIOUS
  <2>2. QED
    BY <1>2, <1>3, <2>1
<1>5. QED
  BY <1>2, <1>3, <1>4 DEF q

\* What is left of a flow is one.
LEMMA FlowPart ==
  ASSUME NEW S, NEW s \in Seq(S), NEW n \in 0..Len(s), Flow(s)
  PROVE  Flow(SubSeq(s, n + 1, Len(s)))
<1> DEFINE q == SubSeq(s, n + 1, Len(s))
<1>1. Len(q) = Len(s) - n /\ \A i \in 1..Len(s) - n : q[i] = s[n + i]
  BY CutOff
<1>2. Len(s) \in Nat
  OBVIOUS
<1> HIDE DEF q
<1>3. ASSUME NEW i \in 1..Len(q) - 1 PROVE Follows(q[i], q[i + 1])
  <2>1. i \in 1..Len(s) - n /\ i + 1 \in 1..Len(s) - n /\ n + i \in 1..Len(s) - 1
        /\ n + (i + 1) = (n + i) + 1
    BY <1>1, <1>2
  <2>2. q[i] = s[n + i] /\ q[i + 1] = s[(n + i) + 1]
    BY <1>1, <2>1
  <2>3. QED
    BY <2>1, <2>2 DEF Flow
<1>4. QED
  BY <1>3 DEF Flow, q

\* Two flows of which the second goes on from the first are one.
LEMMA FlowJoin ==
  ASSUME NEW S, NEW s \in Seq(S), NEW t \in Seq(S), Flow(s), Flow(t),
         s # <<>> /\ t # <<>> => Follows(s[Len(s)], t[1])
  PROVE  Flow(s \o t)
<1> DEFINE u == s \o t
<1>1. /\ Len(u) = Len(s) + Len(t) /\ Len(s) \in Nat /\ Len(t) \in Nat
      /\ \A i \in 1..Len(s) : u[i] = s[i]
      /\ \A j \in 1..Len(t) : u[Len(s) + j] = t[j]
  BY Joined
<1> HIDE DEF u
<1>2. ASSUME NEW i \in 1..Len(u) - 1 PROVE Follows(u[i], u[i + 1])
  <2>1. CASE i < Len(s)
    <3>1. i \in 1..Len(s) - 1 /\ i \in 1..Len(s) /\ i + 1 \in 1..Len(s)
      BY <1>1, <2>1
    <3>2. QED
      BY <1>1, <3>1 DEF Flow
  <2>2. CASE i = Len(s)
    <3>1. i \in 1..Len(s) /\ 1 \in 1..Len(t) /\ s # <<>> /\ t # <<>>
      BY <1>1, <2>2
    <3>2. u[i] = s[Len(s)] /\ u[i + 1] = t[1]
      BY <1>1, <2>2, <3>1
    <3>3. QED
      BY <3>1, <3>2
  <2>3. CASE i > Len(s)
    <3>1. PICK j \in 1..Len(t) - 1 : i = Len(s) + j
      <4>1. i - Len(s) \in 1..Len(t) - 1 /\ i = Len(s) + (i - Len(s))
        BY <1>1, <2>3
      <4>2. QED
        BY <4>1
    <3>2. j \in 1..Len(t) /\ j + 1 \in 1..Len(t) /\ i + 1 = Len(s) + (j + 1)
      BY <1>1, <3>1
    <3>3. u[i] = t[j] /\ u[i + 1] = t[j + 1]
      BY <1>1, <3>1, <3>2
    <3>4. QED
      BY <3>1, <3>3 DEF Flow
  <2>4. QED
    BY <1>1, <2>1, <2>2, <2>3
<1>3. QED
  BY <1>2 DEF Flow, u

\* A package is a flow.
LEMMA FlowPackage ==
  ASSUME NEW c \in Streams, NEW n \in 1..MaxPackages, NEW d \in DataCells
  PROVE  Flow(Package(c, n, d))
<1> DEFINE L == HeaderSize + d
           P == Package(c, n, d)
<1>1. Len(P) = L /\ L \in Nat /\ \A k \in 1..L : P[k] = <<c, n, k, L>>
  BY PackageIs, LengthsAre
<1> HIDE DEF L, P
<1>2. ASSUME NEW i \in 1..Len(P) - 1 PROVE Follows(P[i], P[i + 1])
  <2>1. i \in 1..L /\ i + 1 \in 1..L /\ i < L
    BY <1>1
  <2>2. P[i] = <<c, n, i, L>> /\ P[i + 1] = <<c, n, i + 1, L>>
    BY <1>1, <2>1
  <2>3. QED
    BY <2>1, <2>2 DEF Follows
<1>3. QED
  BY <1>2 DEF Flow, P

\* A package is in order.
LEMMA OrderedPackage ==
  ASSUME NEW c \in Streams, NEW n \in 1..MaxPackages, NEW d \in DataCells
  PROVE  Ordered(Package(c, n, d))
<1> DEFINE L == HeaderSize + d
           P == Package(c, n, d)
<1>1. Len(P) = L /\ L \in Nat /\ \A k \in 1..L : P[k] = <<c, n, k, L>>
  BY PackageIs, LengthsAre
<1> HIDE DEF L, P
<1>2. QED
  BY <1>1 DEF Ordered, Before, P

\* The heads of what was taken.
LEMMA HeadsAre ==
  ASSUME NEW got \in Seq(Streams \X Framed)
  PROVE  /\ HeadsOf(got) \in Seq(Cells) /\ Len(HeadsOf(got)) = Len(got)
         /\ \A i \in 1..Len(got) : /\ HeadsOf(got)[i] = got[i][2][1]
                                   /\ got[i] \in Streams \X Framed
                                   /\ got[i][2] \in Seq(Cells) /\ got[i][2] # <<>>
<1> DEFINE L == Len(got)
<1>1. L \in Nat /\ \A i \in 1..L : got[i] \in Streams \X Framed
  OBVIOUS
<1>2. ASSUME NEW i \in 1..L
      PROVE  got[i][2] \in Seq(Cells) /\ got[i][2] # <<>> /\ got[i][2][1] \in Cells
  <2>1. got[i][2] \in Framed
    BY <1>1
  <2>2. got[i][2] \in Seq(Cells) /\ got[i][2] # <<>>
    BY <2>1 DEF Framed
  <2>3. QED
    BY <2>2
<1> HIDE DEF L
<1>3. [i \in 1..L |-> got[i][2][1]] \in [1..L -> Cells]
  BY <1>2
<1>4. HeadsOf(got) = [i \in 1..L |-> got[i][2][1]]
  BY DEF HeadsOf, L
<1>5. HeadsOf(got) \in Seq(Cells) /\ Len(HeadsOf(got)) = L
  BY <1>1, <1>3, <1>4
<1>6. QED
  BY <1>1, <1>2, <1>4, <1>5 DEF L

\* One more package, one more head.
LEMMA HeadsAppend ==
  ASSUME NEW got \in Seq(Streams \X Framed), NEW c \in Streams, NEW p \in Framed
  PROVE  /\ Append(got, <<c, p>>) \in Seq(Streams \X Framed)
         /\ HeadsOf(Append(got, <<c, p>>)) = HeadsOf(got) \o <<p[1]>>
         /\ p[1] \in Cells
         /\ Len(Append(got, <<c, p>>)) = Len(got) + 1 /\ Len(got) \in Nat
         /\ \A i \in 1..Len(got) : Append(got, <<c, p>>)[i] = got[i]
         /\ Append(got, <<c, p>>)[Len(got) + 1] = <<c, p>>
<1> DEFINE g2 == Append(got, <<c, p>>)
           h == HeadsOf(got)
           u == h \o <<p[1]>>
<1>1. p[1] \in Cells /\ <<c, p>> \in Streams \X Framed
  BY DEF Framed
<1>2. /\ g2 \in Seq(Streams \X Framed) /\ Len(g2) = Len(got) + 1
      /\ \A i \in 1..Len(got) : g2[i] = got[i]
      /\ g2[Len(got) + 1] = <<c, p>>
  BY <1>1, AppendProperties
<1>3. /\ h \in Seq(Cells) /\ Len(h) = Len(got) /\ Len(got) \in Nat
      /\ \A i \in 1..Len(got) : h[i] = got[i][2][1]
  BY HeadsAre
<1>4. /\ HeadsOf(g2) \in Seq(Cells) /\ Len(HeadsOf(g2)) = Len(g2)
      /\ \A i \in 1..Len(g2) : HeadsOf(g2)[i] = g2[i][2][1]
  BY <1>2, HeadsAre
<1> HIDE DEF h, g2
<1>5. /\ u \in Seq(Cells) /\ Len(u) = Len(h) + 1
      /\ \A i \in 1..Len(h) : u[i] = h[i]
      /\ u[Len(h) + 1] = p[1]
  <2>1. <<p[1]>> \in Seq(Cells) /\ Len(<<p[1]>>) = 1 /\ <<p[1]>>[1] = p[1]
    BY <1>1
  <2>2. QED
    BY <1>3, <2>1, Joined
<1> HIDE DEF u
<1>6. ASSUME NEW i \in 1..Len(HeadsOf(g2)) PROVE HeadsOf(g2)[i] = u[i]
  <2>1. CASE i \in 1..Len(got)
    BY <1>2, <1>3, <1>4, <1>5, <2>1
  <2>2. CASE i = Len(got) + 1
    BY <1>2, <1>3, <1>4, <1>5, <2>2
  <2>3. QED
    BY <1>2, <1>3, <1>4, <2>1, <2>2
<1>7. Len(HeadsOf(g2)) = Len(u)
  BY <1>2, <1>3, <1>4, <1>5
<1>8. HeadsOf(g2) = u
  BY <1>4, <1>5, <1>6, <1>7, SeqEqual
<1>9. QED
  BY <1>1, <1>2, <1>3, <1>8 DEF g2, u, h

\* One more head, one more number handled of its connection.
LEMMA HandledAppend ==
  ASSUME NEW h \in Seq(Cells), NEW x \in Cells, NEW c
  PROVE  /\ x[1] = c => Handled(h \o <<x>>, c) = Handled(h, c) \cup {x[2]}
         /\ x[1] # c => Handled(h \o <<x>>, c) = Handled(h, c)
<1> DEFINE u == h \o <<x>>
<1>1. /\ Len(u) = Len(h) + 1 /\ Len(h) \in Nat
      /\ \A i \in 1..Len(h) : u[i] = h[i]
      /\ u[Len(h) + 1] = x
  <2>1. <<x>> \in Seq(Cells) /\ Len(<<x>>) = 1 /\ <<x>>[1] = x
    OBVIOUS
  <2>2. QED
    BY <2>1, Joined
<1> HIDE DEF u
<1>2. \A y : y \in Handled(h, c) <=> \E i \in 1..Len(h) : h[i][1] = c /\ y = h[i][2]
  BY DEF Handled
<1>3. \A y : y \in Handled(u, c) <=> \E i \in 1..Len(u) : u[i][1] = c /\ y = u[i][2]
  BY DEF Handled
<1>4. \A i \in 1..Len(u) : i \in 1..Len(h) \/ i = Len(h) + 1
  BY <1>1
<1>5. 1..Len(h) \subseteq 1..Len(u) /\ Len(h) + 1 \in 1..Len(u)
  BY <1>1
<1>6. ASSUME NEW y
      PROVE  y \in Handled(u, c) <=> y \in Handled(h, c) \/ (x[1] = c /\ y = x[2])
  <2>1. ASSUME y \in Handled(u, c) PROVE y \in Handled(h, c) \/ (x[1] = c /\ y = x[2])
    BY <1>1, <1>2, <1>3, <1>4, <2>1
  <2>2. ASSUME y \in Handled(h, c) PROVE y \in Handled(u, c)
    BY <1>1, <1>2, <1>3, <1>5, <2>2
  <2>3. ASSUME x[1] = c, y = x[2] PROVE y \in Handled(u, c)
    BY <1>1, <1>3, <1>5, <2>3
  <2>4. QED
    BY <2>1, <2>2, <2>3
<1>7. QED
  BY <1>6 DEF u

-----------------------------------------------------------------------------
\* A part of what was sent was sent.
LEMMA SentPart ==
  ASSUME NEW s \in Seq(Cells), NEW p, Part(p, s), NEW sent, Sent(s, sent)
  PROVE  Sent(p, sent)
<1>1. \A i \in 1..Len(p) : \E k \in 1..Len(s) : p[i] = s[k]
  BY PartOf
<1>2. QED
  BY <1>1 DEF Sent

\* What is made of what was sent was sent.
LEMMA SentJoin ==
  ASSUME NEW s \in Seq(Cells), NEW t \in Seq(Cells), NEW sent, Sent(s, sent), Sent(t, sent)
  PROVE  Sent(s \o t, sent)
<1>1. \A k \in 1..Len(s \o t) :
        (k \in 1..Len(s) /\ (s \o t)[k] = s[k])
          \/ (k - Len(s) \in 1..Len(t) /\ (s \o t)[k] = t[k - Len(s)])
  BY Joined
<1>2. QED
  BY <1>1 DEF Sent

\* What was sent stays so while more is sent.
LEMMA SentMore ==
  ASSUME NEW s \in Seq(Cells), NEW sent \in [Streams -> 0..MaxPackages],
         NEW sent2 \in [Streams -> 0..MaxPackages],
         \A c \in Streams : sent[c] <= sent2[c], Sent(s, sent)
  PROVE  Sent(s, sent2)
<1>1. ASSUME NEW i \in 1..Len(s) PROVE s[i][2] <= sent2[s[i][1]]
  <2>1. s[i] \in Cells
    OBVIOUS
  <2>2. s[i][1] \in Streams /\ s[i][2] \in 1..MaxPackages
    BY <2>1, CellIs
  <2>3. s[i][2] <= sent[s[i][1]]
    BY DEF Sent
  <2>4. /\ sent[s[i][1]] \in 0..MaxPackages /\ sent2[s[i][1]] \in 0..MaxPackages
        /\ sent[s[i][1]] <= sent2[s[i][1]]
    BY <2>2
  <2>5. QED
    BY <2>2, <2>3, <2>4
<1>2. QED
  BY <1>1 DEF Sent

\* A part of one connection's cells is of that connection.
LEMMA OnPart ==
  ASSUME NEW s \in Seq(Cells), NEW p, Part(p, s), NEW c, On(s, c)
  PROVE  On(p, c)
<1>1. \A i \in 1..Len(p) : \E k \in 1..Len(s) : p[i] = s[k]
  BY PartOf
<1>2. QED
  BY <1>1 DEF On

\* Cells of one connection stay so when joined.
LEMMA OnJoin ==
  ASSUME NEW s \in Seq(Cells), NEW t \in Seq(Cells), NEW c, On(s, c), On(t, c)
  PROVE  On(s \o t, c)
<1>1. \A k \in 1..Len(s \o t) :
        (k \in 1..Len(s) /\ (s \o t)[k] = s[k])
          \/ (k - Len(s) \in 1..Len(t) /\ (s \o t)[k] = t[k - Len(s)])
  BY Joined
<1>2. QED
  BY <1>1 DEF On

\* What is taken.
Slice(p, b, from, l) ==
  /\ p \in Framed /\ Len(p) = l /\ p[1] = b[from]
  /\ \A k \in 1..l : p[k] = b[from + k - 1]

\* A part of the buffer of a package's length is one.
LEMMA SliceIs ==
  ASSUME NEW b \in Seq(Cells), NEW from \in 1..Len(b), NEW l \in Nat \ {0},
         from + l - 1 <= Len(b)
  PROVE  Slice(SubSeq(b, from, from + l - 1), b, from, l)
<1> DEFINE m == from + l - 1
           p == SubSeq(b, from, m)
<1>1. /\ from \in 1..Len(b) + 1 /\ m \in 0..Len(b) /\ from <= m /\ m - from + 1 = l
      /\ from \in Nat
  OBVIOUS
<1> HIDE DEF m
<1>2. /\ p \in Seq(Cells) /\ Len(p) = IF from <= m THEN m - from + 1 ELSE 0
      /\ \A i \in 1..Len(p) : p[i] = b[from + i - 1]
  BY <1>1, CutAt
<1> HIDE DEF p
<1>3. Len(p) = l
  BY <1>1, <1>2
<1>4. p # <<>> /\ 1 \in 1..l /\ from + 1 - 1 = from
  BY <1>1, <1>3
<1>5. p \in Framed /\ p[1] = b[from]
  BY <1>2, <1>3, <1>4 DEF Framed
<1>6. QED
  BY <1>2, <1>3, <1>5 DEF Slice, p, m

\* A cell of a sequence is a part of it.
LEMMA OneBefore ==
  ASSUME NEW s \in Seq(Cells), NEW i \in 1..Len(s)
  PROVE  Part(<<s[i]>>, s) /\ Ordered(<<s[i]>>) /\ <<s[i]>> \in Seq(Cells)
<1>1. SubSeq(s, i, i) \in Seq(Cells) /\ Len(SubSeq(s, i, i)) = 1 /\ SubSeq(s, i, i)[1] = s[i]
  <2>1. i \in 1..Len(s) + 1 /\ i \in 0..Len(s) /\ i + 1 - 1 = i /\ i - i + 1 = 1 /\ i <= i
    OBVIOUS
  <2>2. /\ SubSeq(s, i, i) \in Seq(Cells) /\ Len(SubSeq(s, i, i)) = 1
        /\ \A k \in 1..Len(SubSeq(s, i, i)) : SubSeq(s, i, i)[k] = s[i + k - 1]
    BY <2>1, CutAt
  <2>3. QED
    BY <2>1, <2>2
<1>2. <<s[i]>> \in Seq(Cells) /\ Len(<<s[i]>>) = 1 /\ <<s[i]>>[1] = s[i]
  OBVIOUS
<1>3. \A k \in 1..1 : k = 1
  OBVIOUS
<1>4. SubSeq(s, i, i) = <<s[i]>>
  BY <1>1, <1>2, <1>3, SeqEqual
<1>5. Part(<<s[i]>>, s)
  <2>1. i \in 1..Len(s) + 1 /\ i \in 0..Len(s)
    OBVIOUS
  <2>2. QED
    BY <1>4, <2>1 DEF Part
<1>6. QED
  BY <1>2, <1>5 DEF Ordered

\* The parts of the state, from its type.
LEMMA FramingParts ==
  ASSUME FramingTypeOK
  PROVE  /\ obj.buffer \in Seq(Cells) /\ obj.got \in Seq(Streams \X Framed)
         /\ \A c \in Streams : obj.wire[c] \in Seq(Cells) /\ obj.sent[c] \in 0..MaxPackages
         /\ HeadsOf(obj.got) \in Seq(Cells)
         /\ obj.sent \in [Streams -> 0..MaxPackages]
<1>1. /\ obj.buffer \in Seq(Cells) /\ obj.got \in Seq(Streams \X Framed)
      /\ obj.wire \in [Streams -> Seq(Cells)] /\ obj.sent \in [Streams -> 0..MaxPackages]
  BY DEF FramingTypeOK
<1>2. HeadsOf(obj.got) \in Seq(Cells)
  BY <1>1, HeadsAre
<1>3. QED
  BY <1>1, <1>2

\* Where nothing is taken and nothing comes, what is left is in order.
LEMMA OrderShrunk ==
  ASSUME FramingTypeOK, FramingTypeOK', SentInv, OrderInv,
         obj'.got = obj.got, obj'.sent = obj.sent,
         Part(obj'.buffer, obj.buffer), \A c \in Streams : Part(obj'.wire[c], obj.wire[c])
  PROVE  SentInv' /\ OrderInv'
<1> DEFINE h == HeadsOf(obj.got)
<1>1. /\ obj.buffer \in Seq(Cells) /\ h \in Seq(Cells)
      /\ \A c \in Streams : obj.wire[c] \in Seq(Cells)
  BY FramingParts
<1>2. Part(h, h)
  BY <1>1, PartsAre
<1>3. HeadsOf(obj'.got) = h
  OBVIOUS
<1>4. /\ Ordered(h) /\ Ordered(obj.buffer) /\ AllBefore(h, obj.buffer)
      /\ \A c \in Streams : /\ Ordered(obj.wire[c]) /\ AllBefore(h, obj.wire[c])
                            /\ AllBefore(obj.buffer, obj.wire[c])
      /\ \A i \in 1..Len(obj.got) : obj.got[i][2][1][3] = 1
  BY DEF OrderInv
<1>5. /\ Sent(h, obj.sent) /\ Sent(obj.buffer, obj.sent)
      /\ \A c \in Streams : Sent(obj.wire[c], obj.sent) /\ On(obj.wire[c], c)
  BY DEF SentInv
<1> HIDE DEF h
<1>6. Ordered(obj'.buffer) /\ AllBefore(h, obj'.buffer) /\ Sent(obj'.buffer, obj.sent)
  BY <1>1, <1>2, <1>4, <1>5, OrderedPart, BeforePart, SentPart
<1>7. ASSUME NEW c \in Streams
      PROVE  /\ Ordered(obj'.wire[c]) /\ AllBefore(h, obj'.wire[c])
             /\ AllBefore(obj'.buffer, obj'.wire[c]) /\ Sent(obj'.wire[c], obj.sent)
             /\ On(obj'.wire[c], c)
  <2>1. obj.wire[c] \in Seq(Cells) /\ Part(obj'.wire[c], obj.wire[c])
    BY <1>1
  <2>2. Ordered(obj'.wire[c]) /\ AllBefore(h, obj'.wire[c]) /\ Sent(obj'.wire[c], obj.sent)
    BY <1>1, <1>2, <1>4, <1>5, <2>1, OrderedPart, BeforePart, SentPart
  <2>3. AllBefore(obj'.buffer, obj'.wire[c])
    BY <1>1, <1>4, <2>1, BeforePart
  <2>4. On(obj'.wire[c], c)
    BY <1>5, <2>1, OnPart
  <2>5. QED
    BY <2>2, <2>3, <2>4
<1>8. SentInv'
  BY <1>3, <1>5, <1>6, <1>7 DEF SentInv
<1>9. OrderInv'
  BY <1>3, <1>4, <1>6, <1>7 DEF OrderInv
<1>10. QED
  BY <1>8, <1>9

\* What generate() sends is behind all that was sent on the connection.
LEMMA OrderSent ==
  ASSUME FramingTypeOK, FramingTypeOK', SentInv, OrderInv,
         NEW c \in Streams, NEW d \in DataCells, obj.sent[c] < MaxPackages,
         obj'.got = obj.got, obj'.buffer = obj.buffer,
         obj'.sent = [obj.sent EXCEPT ![c] = obj.sent[c] + 1],
         obj'.wire = [obj.wire EXCEPT ![c] = obj.wire[c] \o Package(c, obj.sent[c] + 1, d)]
  PROVE  SentInv' /\ OrderInv'
<1> DEFINE h == HeadsOf(obj.got)
           n == obj.sent[c] + 1
           P == Package(c, n, d)
<1>1. /\ obj.buffer \in Seq(Cells) /\ h \in Seq(Cells)
      /\ \A e \in Streams : obj.wire[e] \in Seq(Cells) /\ obj.sent[e] \in 0..MaxPackages
      /\ obj.sent \in [Streams -> 0..MaxPackages]
  BY FramingParts
<1>2. n \in 1..MaxPackages /\ obj.sent[c] < n
  BY <1>1, FramingAssumption
<1>3. P \in Seq(Cells) /\ \A k \in 1..Len(P) : P[k][1] = c /\ P[k][2] = n
  BY <1>2, PackageIs
<1>4. Ordered(P)
  BY <1>2, OrderedPackage
<1>5. HeadsOf(obj'.got) = h
  OBVIOUS
<1>6. /\ Ordered(h) /\ Ordered(obj.buffer) /\ AllBefore(h, obj.buffer)
      /\ \A e \in Streams : /\ Ordered(obj.wire[e]) /\ AllBefore(h, obj.wire[e])
                            /\ AllBefore(obj.buffer, obj.wire[e])
      /\ \A i \in 1..Len(obj.got) : obj.got[i][2][1][3] = 1
  BY DEF OrderInv
<1>7. /\ Sent(h, obj.sent) /\ Sent(obj.buffer, obj.sent)
      /\ \A e \in Streams : Sent(obj.wire[e], obj.sent) /\ On(obj.wire[e], e)
  BY DEF SentInv
<1>8. /\ obj'.sent \in [Streams -> 0..MaxPackages] /\ obj'.sent[c] = n
      /\ \A e \in Streams : obj.sent[e] <= obj'.sent[e]
  <2>1. obj'.sent = [obj.sent EXCEPT ![c] = n]
    OBVIOUS
  <2>2. n \in 0..MaxPackages
    BY <1>2
  <2> HIDE DEF n
  <2>3. obj'.sent \in [Streams -> 0..MaxPackages] /\ obj'.sent[c] = n
    BY <1>1, <2>1, <2>2
  <2>4. ASSUME NEW e \in Streams PROVE obj.sent[e] <= obj'.sent[e]
    <3>1. CASE e = c
      BY <1>1, <1>2, <2>3, <3>1
    <3>2. CASE e # c
      <4>1. obj'.sent[e] = obj.sent[e]
        BY <1>1, <2>1, <3>2
      <4>2. QED
        BY <1>1, <4>1
    <3>3. QED
      BY <3>1, <3>2
  <2>5. QED
    BY <2>3, <2>4
<1>9. obj'.wire[c] = obj.wire[c] \o P /\ \A e \in Streams : e # c => obj'.wire[e] = obj.wire[e]
  <2>1. obj.wire \in [Streams -> Seq(Cells)]
    BY DEF FramingTypeOK
  <2>2. obj'.wire = [obj.wire EXCEPT ![c] = obj.wire[c] \o P]
    OBVIOUS
  <2> HIDE DEF P
  <2>3. QED
    BY <2>1, <2>2
<1> HIDE DEF h, n, P
<1>10. ASSUME NEW s \in Seq(Cells), Sent(s, obj.sent) PROVE AllBefore(s, P)
  <2>1. ASSUME NEW i \in 1..Len(s), NEW j \in 1..Len(P) PROVE Before(s[i], P[j])
    <3>1. s[i][2] <= obj.sent[s[i][1]] /\ s[i] \in Cells
      BY <1>10 DEF Sent
    <3>2. P[j][1] = c /\ P[j][2] = n
      BY <1>3
    <3>3. ASSUME s[i][1] = c PROVE s[i][2] < n
      <4>1. s[i][2] <= obj.sent[c] /\ s[i][2] \in 1..MaxPackages
        BY <3>1, <3>3, CellIs
      <4>2. QED
        <5>1. s[i][2] \in Int /\ obj.sent[c] \in Int /\ n \in Int
          BY <1>1, <1>2, <4>1, FramingAssumption
        <5>2. QED
          BY <1>2, <4>1, <5>1
    <3>4. QED
      BY <3>2, <3>3 DEF Before
  <2>2. QED
    BY <2>1 DEF AllBefore
<1>11. Sent(P, obj'.sent)
  <2>1. n <= n
    BY <1>2
  <2>2. QED
    BY <1>3, <1>8, <2>1 DEF Sent
<1>12. /\ Sent(h, obj'.sent) /\ Sent(obj.buffer, obj'.sent)
       /\ \A e \in Streams : Sent(obj.wire[e], obj'.sent)
  BY <1>1, <1>7, <1>8, SentMore
<1>13. ASSUME NEW e \in Streams
       PROVE  /\ Ordered(obj'.wire[e]) /\ AllBefore(h, obj'.wire[e])
              /\ AllBefore(obj.buffer, obj'.wire[e]) /\ Sent(obj'.wire[e], obj'.sent)
              /\ On(obj'.wire[e], e)
  <2>1. CASE e # c
    BY <1>6, <1>7, <1>9, <1>12, <2>1
  <2>2. CASE e = c
    <3> DEFINE w == obj.wire[c] \o P
    <3>1. obj.wire[c] \in Seq(Cells) /\ obj'.wire[e] = w
      BY <1>1, <1>9, <2>2
    <3>2. AllBefore(obj.wire[c], P) /\ AllBefore(h, P) /\ AllBefore(obj.buffer, P)
      BY <1>1, <1>7, <1>10
    <3>3. Ordered(w)
      BY <1>3, <1>4, <1>6, <3>1, <3>2, OrderedJoin
    <3>4. AllBefore(h, w) /\ AllBefore(obj.buffer, w)
      BY <1>1, <1>3, <1>6, <3>1, <3>2, BeforeJoin
    <3>5. Sent(w, obj'.sent)
      BY <1>3, <1>11, <1>12, <3>1, SentJoin
    <3>6. On(obj.wire[c], c) /\ On(P, c)
      BY <1>3, <1>7 DEF On
    <3>7. On(w, c)
      BY <1>3, <3>1, <3>6, OnJoin
    <3> HIDE DEF w
    <3>8. QED
      BY <2>2, <3>1, <3>3, <3>4, <3>5, <3>7
  <2>3. QED
    BY <2>1, <2>2
<1>14. SentInv'
  BY <1>5, <1>12, <1>13 DEF SentInv
<1>15. OrderInv'
  BY <1>5, <1>6, <1>13 DEF OrderInv
<1>16. QED
  BY <1>14, <1>15

\* What append() takes from a connection goes behind what is left in the buffer.
LEMMA OrderRead ==
  ASSUME FramingTypeOK, FramingTypeOK', SentInv, OrderInv,
         NEW c \in Streams, NEW n \in 0..Len(obj.wire[c]),
         obj'.got = obj.got, obj'.sent = obj.sent,
         obj'.buffer = obj.buffer \o SubSeq(obj.wire[c], 1, n),
         obj'.wire = [obj.wire EXCEPT ![c] = SubSeq(obj.wire[c], n + 1, Len(obj.wire[c]))]
  PROVE  SentInv' /\ OrderInv'
<1> DEFINE h == HeadsOf(obj.got)
           w == obj.wire[c]
           p == SubSeq(w, 1, n)
           q == SubSeq(w, n + 1, Len(w))
<1>1. /\ obj.buffer \in Seq(Cells) /\ h \in Seq(Cells) /\ w \in Seq(Cells)
      /\ \A e \in Streams : obj.wire[e] \in Seq(Cells)
  BY FramingParts
<1>2. Part(p, w) /\ Part(q, w)
  BY <1>1, PartsAre
<1>3. p \in Seq(Cells) /\ q \in Seq(Cells)
  BY <1>1, <1>2, PartOf
<1>4. AllBefore(p, q)
  <2>1. Ordered(w)
    BY DEF OrderInv
  <2>2. QED
    BY <1>1, <2>1, OrderedCut
<1>5. obj'.buffer = obj.buffer \o p
  OBVIOUS
<1>6. obj'.wire[c] = q /\ \A e \in Streams : e # c => obj'.wire[e] = obj.wire[e]
  <2>1. obj.wire \in [Streams -> Seq(Cells)]
    BY DEF FramingTypeOK
  <2>2. obj'.wire = [obj.wire EXCEPT ![c] = q]
    OBVIOUS
  <2> HIDE DEF q
  <2>3. QED
    BY <2>1, <2>2
<1>7. HeadsOf(obj'.got) = h
  OBVIOUS
<1>8. /\ Ordered(h) /\ Ordered(obj.buffer) /\ AllBefore(h, obj.buffer)
      /\ \A e \in Streams : /\ Ordered(obj.wire[e]) /\ AllBefore(h, obj.wire[e])
                            /\ AllBefore(obj.buffer, obj.wire[e])
      /\ \A i \in 1..Len(obj.got) : obj.got[i][2][1][3] = 1
  BY DEF OrderInv
<1>9. /\ Sent(h, obj.sent) /\ Sent(obj.buffer, obj.sent)
      /\ \A e \in Streams : Sent(obj.wire[e], obj.sent) /\ On(obj.wire[e], e)
  BY DEF SentInv
<1>10. Part(h, h) /\ Part(obj.buffer, obj.buffer)
  BY <1>1, PartsAre
<1>11. /\ Ordered(w) /\ AllBefore(h, w) /\ AllBefore(obj.buffer, w) /\ Sent(w, obj.sent)
       /\ On(w, c)
  BY <1>8, <1>9
<1> HIDE DEF h, w, p, q
<1>12. /\ Ordered(p) /\ Ordered(q) /\ AllBefore(h, p) /\ AllBefore(obj.buffer, p)
       /\ AllBefore(h, q) /\ AllBefore(obj.buffer, q) /\ Sent(p, obj.sent) /\ Sent(q, obj.sent)
  BY <1>1, <1>2, <1>10, <1>11, OrderedPart, BeforePart, SentPart
<1>13. On(p, c) /\ On(q, c)
  BY <1>1, <1>2, <1>11, OnPart
<1>14. Ordered(obj.buffer \o p)
  BY <1>1, <1>3, <1>8, <1>12, OrderedJoin
<1>15. AllBefore(h, obj.buffer \o p)
  BY <1>1, <1>3, <1>8, <1>12, BeforeJoin
<1>16. Sent(obj.buffer \o p, obj.sent)
  BY <1>1, <1>3, <1>9, <1>12, SentJoin
<1>17. Ordered(obj'.buffer) /\ AllBefore(h, obj'.buffer) /\ Sent(obj'.buffer, obj.sent)
  BY <1>5, <1>14, <1>15, <1>16
<1>18. ASSUME NEW e \in Streams
       PROVE  /\ Ordered(obj'.wire[e]) /\ AllBefore(h, obj'.wire[e])
              /\ AllBefore(obj'.buffer, obj'.wire[e]) /\ Sent(obj'.wire[e], obj.sent)
              /\ On(obj'.wire[e], e)
  <2>1. CASE e # c
    <3>1. obj'.wire[e] = obj.wire[e] /\ obj.wire[e] \in Seq(Cells)
      BY <1>1, <1>6, <2>1
    <3>2. On(obj.wire[e], e)
      BY <1>9
    <3>3. AllBefore(p, obj.wire[e])
      BY <1>13, <2>1, <3>2 DEF AllBefore, Before, On
    <3>4. AllBefore(obj.buffer \o p, obj.wire[e])
      BY <1>1, <1>3, <1>8, <3>1, <3>3, BeforeJoin
    <3>5. QED
      BY <1>5, <1>8, <1>9, <3>1, <3>4
  <2>2. CASE e = c
    <3>1. AllBefore(obj.buffer \o p, q)
      BY <1>1, <1>3, <1>4, <1>12, BeforeJoin
    <3>2. QED
      BY <1>5, <1>6, <1>12, <1>13, <2>2, <3>1
  <2>3. QED
    BY <2>1, <2>2
<1>19. SentInv'
  BY <1>7, <1>9, <1>17, <1>18 DEF SentInv
<1>20. OrderInv'
  BY <1>7, <1>8, <1>17, <1>18 DEF OrderInv
<1>21. QED
  BY <1>19, <1>20

\* What is taken is before what is left behind it.
LEMMA OrderTaken ==
  ASSUME FramingTypeOK, FramingTypeOK', SentInv, OrderInv,
         NEW from \in 1..Len(obj.buffer), NEW l \in Lengths, from + l - 1 <= Len(obj.buffer),
         obj.buffer[from][3] = 1,
         obj'.wire = obj.wire, obj'.sent = obj.sent,
         obj'.got = Append(obj.got, <<obj.by, SubSeq(obj.buffer, from, from + l - 1)>>),
         obj'.buffer = SubSeq(obj.buffer, from + l, Len(obj.buffer))
  PROVE  SentInv' /\ OrderInv'
<1> DEFINE h == HeadsOf(obj.got)
           b == obj.buffer
           m == from + l - 1
           p == SubSeq(b, from, m)
           q == SubSeq(b, from + l, Len(b))
           x == <<b[from]>>
<1>1. b \in Seq(Cells) /\ h \in Seq(Cells) /\ \A e \in Streams : obj.wire[e] \in Seq(Cells)
  BY FramingParts
<1>2. /\ l \in Nat /\ l >= 2 /\ from <= m /\ m \in 0..Len(b) /\ from + l = m + 1
      /\ from \in 1..Len(b) + 1 /\ Len(b) \in Nat /\ from \in 1..m
  <2>1. l \in Nat /\ l >= 2
    BY LengthsAre DEF HeaderSize
  <2>2. Len(b) \in Nat /\ from \in 1..Len(b) /\ from + l - 1 <= Len(b)
    BY <1>1
  <2>3. QED
    BY <2>1, <2>2
<1>3. p \in Framed /\ p[1] = b[from]
  <2>1. l \in Nat \ {0} /\ m <= Len(b)
    BY <1>2
  <2>2. b \in Seq(Cells) /\ from \in 1..Len(b) /\ from + l - 1 <= Len(b)
    BY <1>1
  <2> HIDE DEF b
  <2>3. Slice(p, b, from, l)
    BY <2>1, <2>2, SliceIs
  <2> HIDE DEF p
  <2>4. QED
    BY <2>3 DEF Slice
<1>4. obj.by \in Streams /\ obj.got \in Seq(Streams \X Framed)
  BY DEF FramingTypeOK
<1>5. /\ HeadsOf(obj'.got) = h \o x
      /\ Len(obj'.got) = Len(obj.got) + 1 /\ Len(obj.got) \in Nat
      /\ \A i \in 1..Len(obj.got) : obj'.got[i] = obj.got[i]
      /\ obj'.got[Len(obj.got) + 1] = <<obj.by, p>>
  <2> DEFINE got == obj.got
             by == obj.by
             got2 == obj'.got
  <2>1. got2 = Append(got, <<by, p>>)
    OBVIOUS
  <2>2. got \in Seq(Streams \X Framed) /\ by \in Streams
    BY <1>4
  <2> HIDE DEF p, b, got, by, got2
  <2>3. /\ HeadsOf(got2) = HeadsOf(got) \o <<p[1]>>
        /\ Len(got2) = Len(got) + 1 /\ Len(got) \in Nat
        /\ \A i \in 1..Len(got) : got2[i] = got[i]
        /\ got2[Len(got) + 1] = <<by, p>>
    BY <1>3, <2>1, <2>2, HeadsAppend
  <2>4. QED
    BY <1>3, <2>3 DEF got, by, got2
<1>6. Part(q, b) /\ q \in Seq(Cells)
  <2>1. q = SubSeq(b, m + 1, Len(b))
    BY <1>2
  <2> HIDE DEF b, m, q
  <2>2. Part(q, b)
    BY <1>1, <1>2, <2>1, PartsAre
  <2>3. QED
    BY <1>1, <2>2, PartOf
<1>7. Part(x, b) /\ Ordered(x) /\ x \in Seq(Cells) /\ b[from][3] = 1
  BY <1>1, OneBefore
<1>8. /\ Ordered(h) /\ Ordered(b) /\ AllBefore(h, b)
      /\ \A e \in Streams : /\ Ordered(obj.wire[e]) /\ AllBefore(h, obj.wire[e])
                            /\ AllBefore(b, obj.wire[e])
      /\ \A i \in 1..Len(obj.got) : obj.got[i][2][1][3] = 1
  BY DEF OrderInv
<1>9. /\ Sent(h, obj.sent) /\ Sent(b, obj.sent)
      /\ \A e \in Streams : Sent(obj.wire[e], obj.sent) /\ On(obj.wire[e], e)
  BY DEF SentInv
<1>10. AllBefore(x, q)
  <2>1. AllBefore(SubSeq(b, 1, m), SubSeq(b, m + 1, Len(b)))
    BY <1>1, <1>2, <1>8, OrderedCut
  <2>2. q = SubSeq(b, m + 1, Len(b))
    BY <1>2
  <2> DEFINE f == SubSeq(b, 1, m)
  <2> HIDE DEF b, m, q
  <2>3. f \in Seq(Cells) /\ Len(f) = m /\ \A i \in 1..m : f[i] = b[i]
    BY <1>1, <1>2, CutFront
  <2> HIDE DEF f
  <2>4. from \in 1..Len(f)
    BY <1>2, <2>3
  <2>5. f[from] = b[from]
    BY <2>3, <2>4
  <2>6. Part(x, f)
    BY <2>3, <2>4, <2>5, OneBefore
  <2>7. Part(q, q)
    BY <1>6, PartsAre
  <2>8. AllBefore(f, q)
    BY <2>1, <2>2 DEF f
  <2>9. QED
    BY <1>6, <2>3, <2>6, <2>7, <2>8, BeforePart
<1>11. obj'.buffer = q /\ obj'.wire = obj.wire /\ obj'.sent = obj.sent
  OBVIOUS
<1>12. /\ \A i \in 1..Len(obj'.got) : obj'.got[i][2][1][3] = 1
  <2> HIDE DEF p, b
  <2>1. \A i \in 1..Len(obj'.got) : i \in 1..Len(obj.got) \/ i = Len(obj.got) + 1
    BY <1>5
  <2>2. <<obj.by, p>>[2] = p
    OBVIOUS
  <2>3. obj'.got[Len(obj.got) + 1][2][1][3] = 1
    BY <1>3, <1>5, <1>7, <2>2
  <2>4. QED
    BY <1>5, <1>8, <2>1, <2>3
<1> HIDE DEF h, b, m, p, q, x
<1>13. Part(h, h) /\ Part(b, b) /\ \A e \in Streams : Part(obj.wire[e], obj.wire[e])
  BY <1>1, PartsAre
<1>14. /\ Ordered(q) /\ AllBefore(h, q) /\ AllBefore(h, x) /\ Sent(q, obj.sent) /\ Sent(x, obj.sent)
  BY <1>1, <1>6, <1>7, <1>8, <1>9, <1>13, OrderedPart, BeforePart, SentPart
<1>15. Ordered(h \o x) /\ Sent(h \o x, obj.sent) /\ AllBefore(h \o x, q)
  BY <1>1, <1>6, <1>7, <1>8, <1>9, <1>10, <1>14, OrderedJoin, SentJoin, BeforeJoin
<1>16. ASSUME NEW e \in Streams
       PROVE  AllBefore(h \o x, obj.wire[e]) /\ AllBefore(q, obj.wire[e])
  <2>1. AllBefore(x, obj.wire[e]) /\ AllBefore(q, obj.wire[e])
    BY <1>1, <1>6, <1>7, <1>8, <1>13, BeforePart
  <2>2. QED
    BY <1>1, <1>7, <1>8, <2>1, BeforeJoin
<1>17. SentInv'
  BY <1>5, <1>9, <1>11, <1>14, <1>15 DEF SentInv
<1>18. OrderInv'
  BY <1>5, <1>8, <1>11, <1>12, <1>14, <1>15, <1>16 DEF OrderInv
<1>19. QED
  BY <1>17, <1>18

-----------------------------------------------------------------------------
\* Joining does not depend on where it begins.
LEMMA JoinTwice ==
  ASSUME NEW x \in Seq(Cells), NEW y \in Seq(Cells), NEW z \in Seq(Cells)
  PROVE  (x \o y) \o z = x \o (y \o z)
<1> DEFINE u == x \o y
           v == y \o z
<1>1. /\ u \in Seq(Cells) /\ Len(u) = Len(x) + Len(y)
      /\ \A i \in 1..Len(x) : u[i] = x[i]
      /\ \A j \in 1..Len(y) : u[Len(x) + j] = y[j]
  BY Joined
<1>2. /\ v \in Seq(Cells) /\ Len(v) = Len(y) + Len(z)
      /\ \A i \in 1..Len(y) : v[i] = y[i]
      /\ \A j \in 1..Len(z) : v[Len(y) + j] = z[j]
  BY Joined
<1> DEFINE f == u \o z
           g == x \o v
<1> HIDE DEF u, v
<1>3. u \in Seq(Cells) /\ v \in Seq(Cells)
  BY <1>1, <1>2
<1>4. /\ f \in Seq(Cells) /\ Len(f) = Len(u) + Len(z)
      /\ \A i \in 1..Len(u) : f[i] = u[i]
      /\ \A j \in 1..Len(z) : f[Len(u) + j] = z[j]
  BY <1>3, Joined
<1>5. /\ g \in Seq(Cells) /\ Len(g) = Len(x) + Len(v)
      /\ \A i \in 1..Len(x) : g[i] = x[i]
      /\ \A j \in 1..Len(v) : g[Len(x) + j] = v[j]
  BY <1>3, Joined
<1> HIDE DEF f, g
<1>6. Len(x) \in Nat /\ Len(y) \in Nat /\ Len(z) \in Nat
  OBVIOUS
<1>7. Len(f) = Len(g) /\ Len(f) = Len(x) + Len(y) + Len(z)
  BY <1>1, <1>2, <1>4, <1>5, <1>6
<1>8. ASSUME NEW i \in 1..Len(f) PROVE f[i] = g[i]
  <2>1. CASE i <= Len(x)
    <3>1. i \in 1..Len(x) /\ i \in 1..Len(u)
      BY <1>1, <1>6, <1>7, <2>1
    <3>2. QED
      BY <1>1, <1>4, <1>5, <3>1
  <2>2. CASE i > Len(x) /\ i <= Len(x) + Len(y)
    <3>1. PICK j \in 1..Len(y) : i = Len(x) + j
      <4>1. i - Len(x) \in 1..Len(y) /\ i = Len(x) + (i - Len(x))
        BY <1>6, <1>7, <2>2
      <4>2. QED
        BY <4>1
    <3>2. i \in 1..Len(u) /\ j \in 1..Len(v)
      BY <1>1, <1>2, <1>6, <1>7, <2>2, <3>1
    <3>3. QED
      BY <1>1, <1>2, <1>4, <1>5, <3>1, <3>2
  <2>3. CASE i > Len(x) + Len(y)
    <3>1. PICK j \in 1..Len(z) : i = Len(x) + Len(y) + j
      <4>1. i - (Len(x) + Len(y)) \in 1..Len(z) /\ i = Len(x) + Len(y) + (i - (Len(x) + Len(y)))
        BY <1>6, <1>7, <2>3
      <4>2. QED
        BY <4>1
    <3>2. Len(y) + j \in 1..Len(v) /\ i = Len(x) + (Len(y) + j) /\ i = Len(u) + j
      BY <1>1, <1>2, <1>6, <3>1
    <3>3. f[i] = z[j] /\ g[i] = v[Len(y) + j]
      BY <1>4, <1>5, <3>1, <3>2
    <3>4. QED
      BY <1>2, <3>1, <3>3
  <2>4. QED
    BY <1>6, <1>7, <2>1, <2>2, <2>3
<1>9. f = g
  BY <1>4, <1>5, <1>7, <1>8, SeqEqual
<1>10. QED
  BY <1>9 DEF f, g, u, v

\* A read moves bytes from the stream to the buffer.
SameRest(by, b, wire, c, n) ==
  LET b2 == b \o SubSeq(wire[c], 1, n)
      wire2 == [wire EXCEPT ![c] = SubSeq(wire[c], n + 1, Len(wire[c]))]
  IN \A e \in Streams : RestOf(c, b2, wire2, e) = RestOf(by, b, wire, e)

\* A read into an empty buffer, or from the stream the buffer is of, loses no byte.
LEMMA RestRead ==
  ASSUME NEW by \in Streams, NEW b \in Seq(Cells), NEW wire \in [Streams -> Seq(Cells)],
         NEW c \in Streams, NEW n \in 0..Len(wire[c]), b = <<>> \/ by = c
  PROVE  SameRest(by, b, wire, c, n)
<1> DEFINE w == wire[c]
           p == SubSeq(w, 1, n)
           q == SubSeq(w, n + 1, Len(w))
           b2 == b \o p
           wire2 == [wire EXCEPT ![c] = q]
<1>1. w \in Seq(Cells) /\ \A e \in Streams : wire[e] \in Seq(Cells)
  OBVIOUS
<1>2. p \in Seq(Cells) /\ q \in Seq(Cells)
  <2>1. Part(p, w) /\ Part(q, w)
    BY <1>1, PartsAre
  <2>2. QED
    BY <1>1, <2>1, PartOf
<1>3. p \o q = w
  <2>1. 1 \in 1..Len(w) + 1 /\ n \in 1 - 1..Len(w) /\ Len(w) \in n..Len(w)
    BY <1>1
  <2>2. SubSeq(w, 1, n) \o SubSeq(w, n + 1, Len(w)) = SubSeq(w, 1, Len(w))
    BY <1>1, <2>1, ConcatAdjacentSubSeq
  <2>3. QED
    BY <1>1, <2>2, SubSeqFull
<1> HIDE DEF p, q
<1>4. b2 = b \o p
  OBVIOUS
<1>5. wire2[c] = q /\ \A e \in Streams : e # c => wire2[e] = wire[e]
  OBVIOUS
<1> HIDE DEF w, b2, wire2
<1>6. (b \o p) \o q = b \o w
  <2>1. (b \o p) \o q = b \o (p \o q)
    BY <1>2, JoinTwice
  <2>2. QED
    BY <1>3, <2>1
<1>7. ASSUME NEW e \in Streams PROVE RestOf(c, b2, wire2, e) = RestOf(by, b, wire, e)
  <2>1. CASE e = c
    <3>1. RestOf(c, b2, wire2, e) = b \o w
      BY <1>4, <1>5, <1>6, <2>1 DEF RestOf
    <3>2. CASE by = c
      BY <2>1, <3>1, <3>2 DEF RestOf, w
    <3>3. CASE by # c
      <4>1. b = <<>>
        BY <3>3
      <4>2. RestOf(by, b, wire, e) = <<>> \o w
        BY <2>1, <3>3 DEF RestOf, w
      <4>3. QED
        BY <3>1, <4>1, <4>2
    <3>4. QED
      BY <3>2, <3>3
  <2>2. CASE e # c
    <3>1. RestOf(c, b2, wire2, e) = <<>> \o wire[e]
      BY <1>5, <2>2 DEF RestOf
    <3>2. RestOf(by, b, wire, e) = <<>> \o wire[e]
      BY <2>2 DEF RestOf
    <3>3. QED
      BY <3>1, <3>2
  <2>3. QED
    BY <2>1, <2>2
<1>8. QED
  BY <1>7 DEF SameRest, w, p, q, b2, wire2

\* A package sent goes on from what is on the way.
LEMMA StreamSent ==
  ASSUME NEW c \in Streams, NEW s \in Seq(Cells), NEW H, NEW last \in 0..MaxPackages - 1,
         NEW d \in DataCells, On(s, c), Flow(s), Begins(s, H), EndsAt(s, H, last)
  PROVE  LET u == s \o Package(c, last + 1, d)
         IN On(u, c) /\ Flow(u) /\ Begins(u, H) /\ EndsAt(u, H, last + 1)
<1> DEFINE n == last + 1
           P == Package(c, n, d)
           u == s \o P
           L == HeaderSize + d
<1>1. n \in 1..MaxPackages /\ last \in Nat /\ L \in Nat /\ L >= 2
  BY FramingAssumption DEF HeaderSize
<1>2. /\ P \in Seq(Cells) /\ Len(P) = L /\ Flow(P)
      /\ \A k \in 1..L : P[k] = <<c, n, k, L>>
  BY <1>1, PackageIs, FlowPackage
<1> HIDE DEF n, P, L
<1>4. P # <<>> /\ 1 \in 1..L /\ L \in 1..L
  BY <1>1, <1>2
<1>5. P[1] = <<c, n, 1, L>> /\ P[L] = <<c, n, L, L>>
  BY <1>2, <1>4
<1>6. /\ u \in Seq(Cells) /\ Len(u) = Len(s) + L /\ Len(s) \in Nat
      /\ \A i \in 1..Len(s) : u[i] = s[i]
      /\ \A j \in 1..L : u[Len(s) + j] = P[j]
  <2>1. /\ s \o P \in Seq(Cells) /\ Len(s \o P) = Len(s) + Len(P)
        /\ \A i \in 1..Len(s) : (s \o P)[i] = s[i]
        /\ \A j \in 1..Len(P) : (s \o P)[Len(s) + j] = P[j]
    <3>1. P \in Seq(Cells)
      BY <1>2
    <3>2. QED
      BY <3>1, Joined
  <2> HIDE DEF u
  <2>2. Len(s) \in Nat
    OBVIOUS
  <2>3. QED
    BY <1>2, <2>1, <2>2 DEF u
<1>7. On(u, c)
  <2>1. On(P, c)
    BY <1>2 DEF On
  <2>2. QED
    BY <1>2, <2>1, OnJoin
<1>8. s # <<>> => /\ s[Len(s)][1] = c /\ s[Len(s)][2] = last
                  /\ s[Len(s)][3] = s[Len(s)][4] /\ s[Len(s)] \in Cells /\ Len(s) \in 1..Len(s)
  <2>1. s # <<>> => Len(s) \in 1..Len(s) /\ s[Len(s)] \in Cells
    BY <1>6
  <2>2. QED
    BY <2>1 DEF On, EndsAt
<1>9. Flow(u)
  <2>1. s # <<>> => Follows(s[Len(s)], P[1])
    <3>1. SUFFICES ASSUME s # <<>> PROVE Follows(s[Len(s)], P[1])
      OBVIOUS
    <3>2. s[Len(s)][4] \in Nat
      BY <1>8, <3>1, CellIs, LengthsAre
    <3>3. QED
      BY <1>5, <1>8, <3>1, <3>2 DEF Follows, n
  <2>2. QED
    BY <1>2, <2>1, FlowJoin
<1> HIDE DEF u
<1>10. Begins(u, H)
  <2>1. CASE s = <<>>
    <3>1. Len(s) = 0
      BY <2>1
    <3>2. u[1] = P[1]
      BY <1>4, <1>6, <3>1
    <3>3. H = 1..last /\ n - 1 = last
      BY <1>1, <2>1 DEF EndsAt, n
    <3>4. QED
      BY <1>5, <3>2, <3>3 DEF Begins, Place
  <2>2. CASE s # <<>>
    <3>1. 1 \in 1..Len(s) /\ u[1] = s[1]
      BY <1>6, <2>2
    <3>2. QED
      BY <2>2, <3>1 DEF Begins
  <2>3. QED
    BY <2>1, <2>2
<1>11. EndsAt(u, H, n)
  <2>1. u[Len(u)] = P[L] /\ u # <<>>
    BY <1>4, <1>6, <1>1
  <2>2. QED
    BY <1>5, <2>1 DEF EndsAt
<1>12. QED
  BY <1>7, <1>9, <1>10, <1>11 DEF n, P, u

\* With its first package handled, a stream begins with the next.
LEMMA StreamCut ==
  ASSUME NEW c \in Streams, NEW s \in Seq(Cells), s # <<>>, NEW H,
         s[1][4] <= Len(s), On(s, c), Flow(s), Begins(s, H)
  PROVE  LET u == SubSeq(s, s[1][4] + 1, Len(s))
             H2 == H \cup {s[1][2]}
         IN /\ On(u, c) /\ Flow(u) /\ Begins(u, H2)
            /\ \A last \in Nat : EndsAt(s, H, last) => EndsAt(u, H2, last)
<1> DEFINE n == s[1][2]
           L == s[1][4]
           u == SubSeq(s, L + 1, Len(s))
           H2 == H \cup {n}
<1>1. 1 \in 1..Len(s) /\ Len(s) \in Nat /\ s[1] \in Cells
  OBVIOUS
<1>2. L \in 1..Len(s) /\ L \in Nat /\ L \in 0..Len(s) /\ n \in Nat /\ n >= 1
  <2>1. L \in Nat /\ L >= 2
    BY <1>1, CellIs, LengthsAre DEF HeaderSize
  <2>2. n \in Nat /\ n >= 1
    BY <1>1, CellIs, FramingAssumption
  <2>3. QED
    BY <1>1, <2>1, <2>2
<1>3. /\ u \in Seq(Cells) /\ Len(u) = Len(s) - L
      /\ \A i \in 1..Len(s) - L : u[i] = s[L + i]
  BY <1>2, CutOff
<1>4. s[1][3] = 1 /\ H = 1..n - 1
  BY DEF Begins, Place
<1>5. s[L] = <<s[1][1], n, L, L>>
  <2>1. \A k \in 1..s[1][4] : s[k] = <<s[1][1], s[1][2], k, s[1][4]>>
    BY <1>4, WholePackage
  <2>2. L \in 1..s[1][4]
    BY <1>2
  <2>3. QED
    BY <2>1, <2>2
<1> HIDE DEF n, L
<1>6. H2 = 1..n
  BY <1>2, <1>4
<1>7. On(u, c)
  BY <1>2, PartsAre, OnPart
<1>8. Flow(u)
  BY <1>2, FlowPart
<1> HIDE DEF u, H2
<1>9. Begins(u, H2)
  <2>1. SUFFICES ASSUME u # <<>> PROVE Place(u[1]) = 1 /\ H2 = 1..u[1][2] - 1
    BY DEF Begins
  <2>2. 1 \in 1..Len(s) - L /\ L \in 1..Len(s) - 1
    BY <1>1, <1>2, <1>3, <2>1
  <2>3. u[1] = s[L + 1]
    BY <1>3, <2>2
  <2>4. Follows(s[L], u[1])
    BY <2>2, <2>3 DEF Flow
  <2>5. u[1][2] = n + 1 /\ u[1][3] = 1
    BY <1>5, <2>4 DEF Follows
  <2>6. u[1][2] - 1 = n
    BY <1>2, <2>5
  <2>7. QED
    BY <1>6, <2>5, <2>6 DEF Place
<1>10. ASSUME NEW last \in Nat, EndsAt(s, H, last) PROVE EndsAt(u, H2, last)
  <2>1. s[Len(s)][2] = last /\ s[Len(s)][3] = s[Len(s)][4]
    BY <1>10 DEF EndsAt
  <2>2. CASE u = <<>>
    <3>1. L = Len(s)
      BY <1>1, <1>2, <1>3, <2>2
    <3>2. n = last
      BY <1>5, <2>1, <3>1
    <3>3. QED
      BY <1>6, <2>2, <3>2 DEF EndsAt
  <2>3. CASE u # <<>>
    <3>1. Len(u) \in 1..Len(s) - L /\ L + Len(u) = Len(s)
      BY <1>1, <1>2, <1>3, <2>3
    <3>2. u[Len(u)] = s[Len(s)]
      BY <1>3, <3>1
    <3>3. QED
      BY <2>1, <2>3, <3>2 DEF EndsAt
  <2>4. QED
    BY <2>2, <2>3
<1>11. QED
  BY <1>7, <1>8, <1>9, <1>10 DEF n, L, u, H2

\* What is taken from the buffer is taken from buffer and stream.
LEMMA CutJoin ==
  ASSUME NEW b \in Seq(Cells), NEW w \in Seq(Cells), NEW n \in 0..Len(b)
  PROVE  SubSeq(b \o w, n + 1, Len(b \o w)) = SubSeq(b, n + 1, Len(b)) \o w
<1> DEFINE s == b \o w
           q == SubSeq(b, n + 1, Len(b))
           x == SubSeq(s, n + 1, Len(s))
           y == q \o w
<1>1. /\ s \in Seq(Cells) /\ Len(s) = Len(b) + Len(w) /\ Len(b) \in Nat /\ Len(w) \in Nat
      /\ \A i \in 1..Len(b) : s[i] = b[i]
      /\ \A j \in 1..Len(w) : s[Len(b) + j] = w[j]
  BY Joined
<1>2. /\ q \in Seq(Cells) /\ Len(q) = Len(b) - n /\ \A i \in 1..Len(b) - n : q[i] = b[n + i]
  BY CutOff
<1>3. n \in 0..Len(s)
  BY <1>1
<1> HIDE DEF s, q
<1>4. /\ x \in Seq(Cells) /\ Len(x) = Len(s) - n /\ \A i \in 1..Len(s) - n : x[i] = s[n + i]
  BY <1>1, <1>3, CutOff
<1>5. /\ y \in Seq(Cells) /\ Len(y) = Len(q) + Len(w)
      /\ \A i \in 1..Len(q) : y[i] = q[i]
      /\ \A j \in 1..Len(w) : y[Len(q) + j] = w[j]
  <2>1. q \in Seq(Cells)
    BY <1>2
  <2>2. /\ q \o w \in Seq(Cells) /\ Len(q \o w) = Len(q) + Len(w)
        /\ \A i \in 1..Len(q) : (q \o w)[i] = q[i]
        /\ \A j \in 1..Len(w) : (q \o w)[Len(q) + j] = w[j]
    BY <2>1, Joined
  <2>3. QED
    BY <2>2
<1> HIDE DEF x, y
<1>6. Len(x) = Len(y)
  BY <1>1, <1>2, <1>4, <1>5
<1>7. ASSUME NEW i \in 1..Len(x) PROVE x[i] = y[i]
  <2>1. x[i] = s[n + i] /\ i \in Nat
    BY <1>4
  <2>2. CASE i <= Len(b) - n
    <3>1. i \in 1..Len(b) - n /\ i \in 1..Len(q) /\ n + i \in 1..Len(b)
      BY <1>1, <1>2, <2>1, <2>2
    <3>2. QED
      BY <1>1, <1>2, <1>5, <2>1, <3>1
  <2>3. CASE i > Len(b) - n
    <3>1. PICK j \in 1..Len(w) : i = Len(b) - n + j
      <4>1. i - (Len(b) - n) \in 1..Len(w) /\ i = Len(b) - n + (i - (Len(b) - n))
        BY <1>1, <1>4, <2>1, <2>3
      <4>2. QED
        BY <4>1
    <3>2. n + i = Len(b) + j /\ i = Len(q) + j
      BY <1>1, <1>2, <3>1
    <3>3. QED
      BY <1>1, <1>5, <2>1, <3>2
  <2>4. QED
    BY <1>1, <2>1, <2>2, <2>3
<1>8. QED
  BY <1>4, <1>5, <1>6, <1>7, SeqEqual DEF x, y, s, q

-----------------------------------------------------------------------------
(* A call of getPackage(), as both helpers have it: there is no package yet,*)
(* or what does not begin one is thrown away, or one is taken.              *)
BeginsOne == Place(obj.buffer[1]) = 1
Waits ==
  /\ NoPackage(obj.buffer)
  /\ obj.buffer # <<>> /\ BeginsOne => Len(obj.buffer) < LengthIn(obj.buffer[1])
Drops ==
  /\ \E left \in Seq(Cells) : Part(left, obj.buffer) /\ NoPackage(left)
  /\ Len(obj.buffer) \in Nat \ {0}
  /\ BeginsOne =>
       /\ LengthIn(obj.buffer[1]) <= Len(obj.buffer)
       /\ \E k \in 1..LengthIn(obj.buffer[1]) :
            LET x == obj.buffer[1] IN obj.buffer[k] # <<x[1], x[2], k, x[4]>>
Takes ==
  \E from \in 1..Len(obj.buffer) :
    LET l == LengthIn(obj.buffer[from]) IN
    /\ Place(obj.buffer[from]) = 1 /\ from + l - 1 <= Len(obj.buffer)
    /\ BeginsOne => from = 1
    /\ ~Bus => DsHashOk(from, l)
    /\ Take(from, l)

\* The cells of the buffer, from its type.
LEMMA BufferIs ==
  ASSUME FramingTypeOK
  PROVE  /\ obj.buffer \in Seq(Cells) /\ Len(obj.buffer) \in Nat
         /\ \A i \in 1..Len(obj.buffer) :
              /\ obj.buffer[i] \in Cells
              /\ obj.buffer[i][4] \in Lengths /\ obj.buffer[i][4] \in Nat
              /\ obj.buffer[i][4] >= 2
<1>1. obj.buffer \in Seq(Cells)
  BY DEF FramingTypeOK
<1>2. \A i \in 1..Len(obj.buffer) : obj.buffer[i] \in Cells
  BY <1>1
<1>3. \A x \in Cells : x[4] \in Lengths /\ x[4] \in Nat /\ x[4] >= 2
  BY CellIs, LengthsAre DEF HeaderSize
<1>4. Len(obj.buffer) \in Nat
  BY <1>1
<1>5. QED
  BY <1>1, <1>2, <1>3, <1>4

\* MessageBus' getPackage() does one of the three.
LEMMA BusParses ==
  ASSUME FramingTypeOK, getPackage
  PROVE  Waits \/ Drops \/ Takes
<1> DEFINE b == obj.buffer
<1>1. /\ b \in Seq(Cells) /\ Len(b) \in Nat
      /\ \A i \in 1..Len(b) : b[i] \in Cells /\ b[i][4] \in Nat /\ b[i][4] >= 2
  BY BufferIs
<1>2. CASE Len(b) < HeaderSize
  <2>1. NoPackage(b)
    BY <1>2 DEF getPackage
  <2>2. b # <<>> => 1 \in 1..Len(b)
    BY <1>1
  <2>3. b # <<>> => Len(b) < b[1][4]
    BY <1>1, <1>2, <2>2 DEF HeaderSize
  <2>4. QED
    BY <2>1, <2>3 DEF Waits, LengthIn
<1>3. CASE ~(Len(b) < HeaderSize)
  <2>1. Len(b) >= 2 /\ 1 \in 1..Len(b) /\ 2 \in 1..Len(b) /\ b # <<>>
    BY <1>1, <1>3 DEF HeaderSize
  <2>2. PICK l \in IF Place(b[1]) = 1 THEN {LengthIn(b[1])} ELSE Garbage : BusTake(l)
    BY <1>3 DEF getPackage
  <2>3. Place(b[1]) = 1 => l = LengthIn(b[1])
    BY <2>2
  <2>4. l \in Nat
    BY <1>1, <2>1, <2>2 DEF LengthIn, Garbage
  <2>5. CASE Len(b) < l
    <3>1. NoPackage(b)
      BY <2>2, <2>5 DEF BusTake
    <3>2. QED
      BY <2>3, <2>5, <3>1 DEF Waits, BeginsOne
  <2>6. CASE ~(Len(b) < l) /\ BusHeaderOk
    <3>1. Take(1, l)
      BY <2>2, <2>6 DEF BusTake
    <3>2. Place(b[1]) = 1 /\ l = LengthIn(b[1])
      BY <2>3, <2>6 DEF BusHeaderOk
    <3>3. 1 + l - 1 <= Len(b)
      BY <1>1, <2>4, <2>6
    <3>4. Bus
      BY DEF getPackage
    <3>5. QED
      BY <2>1, <3>1, <3>2, <3>3, <3>4 DEF Takes
  <2>7. CASE ~(Len(b) < l) /\ ~BusHeaderOk
    <3>1. NoPackage(<<>>)
      BY <2>2, <2>7 DEF BusTake
    <3>2. Part(<<>>, b) /\ <<>> \in Seq(Cells)
      BY <1>1, PartsAre
    <3>3. ASSUME Place(b[1]) = 1
          PROVE  /\ LengthIn(b[1]) <= Len(b)
                 /\ \E k \in 1..LengthIn(b[1]) : b[k] # <<b[1][1], b[1][2], k, b[1][4]>>
      <4>1. LengthIn(b[1]) <= Len(b)
        BY <1>1, <2>3, <2>4, <2>7, <3>3
      <4>2. b[2] # <<b[1][1], b[1][2], 2, b[1][4]>>
        <5>1. ASSUME b[2] = <<b[1][1], b[1][2], 2, b[1][4]>> PROVE FALSE
          <6>1. b[2][1] = b[1][1] /\ b[2][2] = b[1][2] /\ b[2][3] = 2
            BY <5>1
          <6>2. BusHeaderOk
            BY <3>3, <6>1 DEF BusHeaderOk, SamePackage, Place
          <6>3. QED
            BY <2>7, <6>2
        <5>2. QED
          BY <5>1
      <4>3. 2 \in 1..LengthIn(b[1])
        BY <1>1, <2>1 DEF LengthIn
      <4>4. QED
        BY <4>1, <4>2, <4>3
    <3>4. Len(b) \in Nat \ {0}
      BY <1>1, <2>1
    <3>5. \E left \in Seq(Cells) : Part(left, b) /\ NoPackage(left)
      BY <3>1, <3>2
    <3>6. QED
      BY <3>3, <3>4, <3>5 DEF Drops, BeginsOne
  <2>8. QED
    BY <2>5, <2>6, <2>7
<1>4. QED
  BY <1>2, <1>3

\* FindNextMagic finds the place of a first cell, the first of all if it is one.
LEMMA MagicIs ==
  ASSUME FramingTypeOK
  PROVE  /\ FindNextMagic = 0 \/ (FindNextMagic \in 1..Len(obj.buffer)
                                    /\ Place(obj.buffer[FindNextMagic]) = 1)
         /\ FindNextMagic = 0 => \A i \in 1..Len(obj.buffer) : Place(obj.buffer[i]) # 1
         /\ obj.buffer # <<>> /\ BeginsOne => FindNextMagic = 1
<1> DEFINE b == obj.buffer
           found == {i \in DOMAIN b : Place(b[i]) = 1}
           First(i) == \A j \in found : i <= j
<1>1. b \in Seq(Cells) /\ Len(b) \in Nat /\ DOMAIN b = 1..Len(b)
  BY BufferIs
<1>2. FindNextMagic = IF found = {} THEN 0 ELSE CHOOSE i \in found : First(i)
  BY DEF FindNextMagic
<1>3. found \in SUBSET Nat /\ found \subseteq 1..Len(b)
  BY <1>1
<1>4. ASSUME found # {}
      PROVE  FindNextMagic \in found /\ First(FindNextMagic)
  <2>1. \E i \in found : First(i)
    BY <1>3, <1>4, LeastIndex
  <2> HIDE DEF found, First
  <2>2. FindNextMagic = CHOOSE i \in found : First(i)
    BY <1>2, <1>4
  <2>3. QED
    BY <2>1, <2>2
<1>5. ASSUME found = {} PROVE FindNextMagic = 0
  BY <1>2, <1>5
<1>6. ASSUME b # <<>>, BeginsOne PROVE FindNextMagic = 1
  <2>1. 1 \in found
    BY <1>1, <1>6 DEF BeginsOne
  <2>2. FindNextMagic \in found /\ FindNextMagic <= 1
    BY <1>4, <2>1
  <2>3. FindNextMagic \in 1..Len(b)
    BY <1>3, <2>2
  <2>4. QED
    BY <1>1, <2>2, <2>3
<1>7. CASE found = {}
  <2>1. \A i \in 1..Len(b) : Place(b[i]) # 1
    BY <1>1, <1>7
  <2>2. QED
    BY <1>5, <1>6, <1>7, <2>1
<1>8. CASE found # {}
  <2>1. FindNextMagic \in 1..Len(b) /\ Place(b[FindNextMagic]) = 1
    BY <1>3, <1>4, <1>8
  <2>2. FindNextMagic # 0
    BY <1>1, <2>1
  <2>3. QED
    BY <1>6, <2>1, <2>2
<1>9. QED
  BY <1>7, <1>8

\* DataService's getPackage() does one of the three, too.
LEMMA DsParses ==
  ASSUME FramingTypeOK, getDsPackage
  PROVE  Waits \/ Drops \/ Takes
<1> DEFINE b == obj.buffer
           from == FindNextMagic
           l == LengthIn(b[from])
<1>1. /\ b \in Seq(Cells) /\ Len(b) \in Nat
      /\ \A i \in 1..Len(b) : b[i] \in Cells /\ b[i][4] \in Nat /\ b[i][4] >= 2
  BY BufferIs
<1>2. CASE Len(b) < HeaderSize
  <2>1. NoPackage(b)
    BY <1>2 DEF getDsPackage
  <2>2. b # <<>> => 1 \in 1..Len(b)
    BY <1>1
  <2>3. b # <<>> => Len(b) < b[1][4]
    BY <1>1, <1>2, <2>2 DEF HeaderSize
  <2>4. QED
    BY <2>1, <2>3 DEF Waits, LengthIn
<1>3. CASE ~(Len(b) < HeaderSize) /\ from = 0
  <2>1. NoPackage(<<>>)
    BY <1>3 DEF getDsPackage
  <2>2. Part(<<>>, b) /\ <<>> \in Seq(Cells)
    BY <1>1, PartsAre
  <2>3. Len(b) \in Nat \ {0} /\ 1 \in 1..Len(b)
    BY <1>1, <1>3 DEF HeaderSize
  <2>4. ~BeginsOne
    BY <1>3, <2>3, MagicIs DEF BeginsOne
  <2>5. QED
    BY <2>1, <2>2, <2>3, <2>4 DEF Drops
<1>4. CASE ~(Len(b) < HeaderSize) /\ from # 0
  <2>1. DsTake(from)
    BY <1>4 DEF getDsPackage
  <2>2. from \in 1..Len(b) /\ Place(b[from]) = 1
    BY <1>4, MagicIs
  <2>3. Len(b) \in Nat \ {0} /\ b # <<>>
    BY <1>1, <1>4 DEF HeaderSize
  <2>4. BeginsOne => from = 1
    BY <2>3, MagicIs
  <2> HIDE DEF from
  <2>5. l \in Nat /\ l >= 2
    BY <1>1, <2>2 DEF LengthIn
  <2>6. CASE Len(b) - from + 1 < l
    <3>1. NoPackage(b)
      BY <2>1, <2>6 DEF DsTake
    <3>2. BeginsOne => Len(b) < LengthIn(b[1])
      BY <1>1, <2>4, <2>6
    <3>3. QED
      BY <3>1, <3>2 DEF Waits
  <2>7. CASE ~(Len(b) - from + 1 < l) /\ DsHashOk(from, l)
    <3>1. Take(from, l)
      BY <2>1, <2>7 DEF DsTake
    <3>2. from + l - 1 <= Len(b)
      <4> HIDE DEF l
      <4>1. QED
        BY <1>1, <2>2, <2>5, <2>7
    <3>3. QED
      BY <2>2, <2>4, <2>7, <3>1, <3>2 DEF Takes
  <2>8. CASE ~(Len(b) - from + 1 < l) /\ ~DsHashOk(from, l)
    <3> DEFINE left == SubSeq(b, from + 1, Len(b))
    <3>1. NoPackage(left)
      BY <2>1, <2>8 DEF DsTake
    <3>2. Part(left, b) /\ left \in Seq(Cells)
      <4>1. from \in 0..Len(b)
        BY <2>2
      <4>2. Part(left, b)
        BY <1>1, <4>1, PartsAre
      <4>3. QED
        BY <1>1, <4>2, PartOf
    <3>3. ASSUME BeginsOne
          PROVE  /\ LengthIn(b[1]) <= Len(b)
                 /\ \E k \in 1..LengthIn(b[1]) : b[k] # <<b[1][1], b[1][2], k, b[1][4]>>
      <4>1. from = 1 /\ l = b[1][4]
        BY <2>4, <3>3 DEF LengthIn
      <4>2. b[1][4] <= Len(b) /\ b[1][4] \in Nat /\ b[1][4] >= 2
        <5>1. ~(Len(b) - 1 + 1 < b[1][4])
          BY <2>8, <4>1
        <5>2. b[1][4] \in Nat /\ b[1][4] >= 2
          BY <2>5, <4>1
        <5>3. QED
          BY <1>1, <5>1, <5>2
      <4>3. ~DsHashOk(1, b[1][4])
        BY <2>8, <4>1
      <4>4. ASSUME \A k \in 1..b[1][4] : b[k] = <<b[1][1], b[1][2], k, b[1][4]>> PROVE FALSE
        <5>1. 2 \in 1..b[1][4]
          BY <4>2
        <5>2. /\ b[2][1] = b[1][1] /\ b[2][2] = b[1][2]
              /\ b[2][3] = 2 /\ b[2][4] = b[1][4]
          BY <4>4, <5>1
        <5>3. ASSUME NEW k \in 3..b[1][4]
              PROVE  b[1 + k - 1] = <<b[2][1], b[2][2], k, b[2][4]>>
          <6>1. 1 + k - 1 = k /\ k \in 1..b[1][4]
            BY <4>2
          <6>2. QED
            BY <4>4, <5>2, <6>1
        <5>4. DsHashOk(1, b[1][4])
          <6>1. HeaderSize + 1 = 3 /\ 1 + 1 = 2
            BY DEF HeaderSize
          <6>2. QED
            BY <5>2, <5>3, <6>1 DEF DsHashOk, Place, LengthIn
        <5>5. QED
          BY <4>3, <5>4
      <4>5. QED
        BY <4>2, <4>4 DEF LengthIn
    <3>4. QED
      BY <2>3, <3>1, <3>2, <3>3 DEF Drops
  <2>9. QED
    BY <2>6, <2>7, <2>8
<1>5. QED
  BY <1>2, <1>3, <1>4

-----------------------------------------------------------------------------
\* Where no stream changes and nothing is handled, the flow is kept.
LEMMA FlowKept ==
  ASSUME FlowInv, Clean' => Clean,
         \A c \in Streams : StreamOf(c)' = StreamOf(c),
         obj'.got = obj.got, obj'.sent = obj.sent, obj'.kind = obj.kind, obj'.cur = obj.cur
  PROVE  Clean' => (\A c \in Streams : StreamInv(c)') /\ GotInv'
<1> SUFFICES ASSUME Clean' PROVE (\A c \in Streams : StreamInv(c)') /\ GotInv'
  OBVIOUS
<1>1. (\A c \in Streams : StreamInv(c)) /\ GotInv
  BY DEF FlowInv
<1>2. ASSUME NEW c \in Streams PROVE StreamInv(c)'
  <2>1. StreamOf(c)' = StreamOf(c) /\ StreamInv(c)
    BY <1>1
  <2>2. NumbersOf(c)' = NumbersOf(c)
    BY DEF NumbersOf
  <2>3. Goes(c)' => Goes(c)
    BY DEF Goes
  <2>4. QED
    BY <2>1, <2>2, <2>3 DEF StreamInv
<1>3. GotInv'
  BY <1>1 DEF GotInv, NumbersOf
<1>4. QED
  BY <1>2, <1>3

\* The fields of the state, from its type.
LEMMA FramingFieldsIs ==
  ASSUME FramingTypeOK
  PROVE  DOMAIN obj = FramingFields /\ class = "framing" /\ "poll" \in DOMAIN pc
BY DEF FramingTypeOK

\* What a getPackage() that finds nothing leaves alone.
LEMMA NoPackageIs ==
  ASSUME FramingTypeOK, NEW left \in Seq(Cells), NoPackage(left), class' = class
  PROVE  /\ FramingTypeOK' /\ obj'.buffer = left /\ At("poll", "idle")'
         /\ obj'.kind = obj.kind /\ obj'.wire = obj.wire /\ obj'.sent = obj.sent
         /\ obj'.cur = obj.cur /\ obj'.got = obj.got /\ obj'.by = obj.by
         /\ obj'.mixed = obj.mixed /\ obj'.lost = obj.lost
<1>1. obj' = [obj EXCEPT !.buffer = left] /\ DOMAIN obj = FramingFields
  BY FramingFieldsIs DEF NoPackage
<1>2. /\ obj'.buffer = left /\ DOMAIN obj' = FramingFields
      /\ obj'.kind = obj.kind /\ obj'.wire = obj.wire /\ obj'.sent = obj.sent
      /\ obj'.cur = obj.cur /\ obj'.got = obj.got /\ obj'.by = obj.by
      /\ obj'.mixed = obj.mixed /\ obj'.lost = obj.lost
  BY <1>1 DEF FramingFields
<1>3. pc' = [pc EXCEPT !["poll"] = "idle"] /\ pc \in [{"poll"} -> {"idle", "parse"}]
  BY DEF NoPackage, Go, FramingTypeOK
<1>4. pc' \in [{"poll"} -> {"idle", "parse"}] /\ pc'["poll"] = "idle"
  BY <1>3
<1>5. FramingTypeOK'
  BY <1>2, <1>4 DEF FramingTypeOK
<1>6. At("poll", "idle")'
  BY <1>4 DEF At
<1>7. QED
  BY <1>2, <1>5, <1>6

\* Where nothing is handled, what was handled stays right.
LEMMA HashKept ==
  ASSUME HashInv, obj'.kind = obj.kind, obj'.got = obj.got
  PROVE  HashInv'
BY DEF HashInv, Bus

\* Where nothing was mixed or lost, the buffer begins with a package, and that
\* is whole when it is all there.
LEMMA BufferBegins ==
  ASSUME FramingInv, Clean, obj.buffer # <<>>
  PROVE  /\ StreamOf(obj.by) = obj.buffer \o obj.wire[obj.by]
         /\ StreamOf(obj.by) \in Seq(Cells) /\ StreamOf(obj.by) # <<>>
         /\ obj.by \in Streams /\ obj.wire[obj.by] \in Seq(Cells)
         /\ obj.buffer[1] \in Cells /\ StreamOf(obj.by)[1] = obj.buffer[1]
         /\ obj.buffer[1][1] = obj.by /\ obj.buffer[1][3] = 1
         /\ Len(StreamOf(obj.by)) >= Len(obj.buffer)
         /\ obj.buffer[1][4] <= Len(obj.buffer) =>
              LET x == obj.buffer[1]
              IN \A k \in 1..x[4] : obj.buffer[k] = <<x[1], x[2], k, x[4]>>
<1> DEFINE b == obj.buffer
           s == StreamOf(obj.by)
           w == obj.wire[obj.by]
<1>1. b \in Seq(Cells) /\ obj.by \in Streams /\ w \in Seq(Cells)
  <2>1. FramingTypeOK
    BY DEF FramingInv
  <2>2. obj.by \in Streams
    BY <2>1 DEF FramingTypeOK
  <2>3. QED
    BY <2>1, <2>2, FramingParts
<1>2. s = b \o w
  BY DEF StreamOf, RestOf
<1>3. On(s, obj.by) /\ Flow(s) /\ Begins(s, NumbersOf(obj.by))
  BY <1>1 DEF FramingInv, FlowInv, StreamInv
<1> HIDE DEF b, s, w
<1>4. /\ s \in Seq(Cells) /\ Len(s) = Len(b) + Len(w)
      /\ \A i \in 1..Len(b) : s[i] = b[i]
  <2>1. /\ b \o w \in Seq(Cells) /\ Len(b \o w) = Len(b) + Len(w)
        /\ \A i \in 1..Len(b) : (b \o w)[i] = b[i]
    BY <1>1, Joined
  <2>2. QED
    BY <1>2, <2>1
<1>5. Len(b) \in Nat /\ Len(w) \in Nat /\ 1 \in 1..Len(b)
  BY <1>1 DEF b
<1>6. s # <<>> /\ 1 \in 1..Len(s) /\ Len(s) >= Len(b)
  BY <1>4, <1>5
<1>7. s[1] = b[1] /\ b[1] \in Cells
  BY <1>1, <1>4, <1>5
<1>8. b[1][1] = obj.by /\ b[1][3] = 1
  BY <1>3, <1>6, <1>7 DEF On, Begins, Place
<1>9. ASSUME b[1][4] <= Len(b)
      PROVE  \A k \in 1..b[1][4] : b[k] = <<b[1][1], b[1][2], k, b[1][4]>>
  <2>1. b[1][4] \in Nat
    BY <1>7, CellIs, LengthsAre
  <2>2. s[1][4] <= Len(s)
    BY <1>5, <1>6, <1>7, <1>9, <2>1
  <2>3. \A k \in 1..s[1][4] : s[k] = <<s[1][1], s[1][2], k, s[1][4]>>
    BY <1>3, <1>4, <1>6, <1>7, <1>8, <2>2, WholePackage
  <2>4. \A k \in 1..b[1][4] : k \in 1..Len(b)
    BY <1>5, <1>9, <2>1
  <2>5. QED
    BY <1>4, <1>7, <2>3, <2>4
<1>10. QED
  BY <1>1, <1>2, <1>4, <1>6, <1>7, <1>8, <1>9 DEF b, s, w

\* A package that is not there yet is waited for.
LEMMA WaitsKept ==
  ASSUME FramingInv, Waits, class' = class
  PROVE  FramingInv'
<1>1. FramingTypeOK /\ SentInv /\ OrderInv /\ HashInv /\ FlowInv
  BY DEF FramingInv
<1>2. obj.buffer \in Seq(Cells)
  BY <1>1, BufferIs
<1>3. /\ FramingTypeOK' /\ obj'.buffer = obj.buffer /\ At("poll", "idle")'
      /\ obj'.kind = obj.kind /\ obj'.wire = obj.wire /\ obj'.sent = obj.sent
      /\ obj'.cur = obj.cur /\ obj'.got = obj.got /\ obj'.by = obj.by
      /\ obj'.mixed = obj.mixed /\ obj'.lost = obj.lost
  BY <1>1, <1>2, NoPackageIs DEF Waits
<1>4. Part(obj.buffer, obj.buffer) /\ \A c \in Streams : Part(obj.wire[c], obj.wire[c])
  BY <1>1, FramingParts, PartsAre
<1>5. SentInv' /\ OrderInv'
  BY <1>1, <1>3, <1>4, OrderShrunk
<1>6. HashInv'
  BY <1>1, <1>3, HashKept
<1>7. Clean' => Clean
  BY <1>3 DEF Clean
<1>8. \A c \in Streams : StreamOf(c)' = StreamOf(c)
  BY <1>3 DEF StreamOf
<1>9. Clean' => (\A c \in Streams : StreamInv(c)') /\ GotInv'
  BY <1>1, <1>3, <1>7, <1>8, FlowKept
<1>10. ASSUME Clean' PROVE WaitInv'
  <2>1. SUFFICES ASSUME obj.buffer # <<>> PROVE Len(obj.buffer) < LengthIn(obj.buffer[1])
    BY <1>3 DEF WaitInv
  <2>2. BeginsOne
    BY <1>7, <1>10, <2>1, BufferBegins DEF BeginsOne, Place
  <2>3. QED
    BY <2>1, <2>2 DEF Waits
<1>11. QED
  BY <1>3, <1>5, <1>6, <1>9, <1>10 DEF FramingInv, FlowInv

\* What does not begin a package is thrown away only when bytes were mixed.
LEMMA DropsKept ==
  ASSUME FramingInv, Drops, class' = class
  PROVE  FramingInv'
<1>1. FramingTypeOK /\ SentInv /\ OrderInv /\ HashInv /\ FlowInv
  BY DEF FramingInv
<1>2. PICK left \in Seq(Cells) : Part(left, obj.buffer) /\ NoPackage(left)
  BY DEF Drops
<1>3. /\ FramingTypeOK' /\ obj'.buffer = left
      /\ obj'.kind = obj.kind /\ obj'.wire = obj.wire /\ obj'.sent = obj.sent
      /\ obj'.cur = obj.cur /\ obj'.got = obj.got /\ obj'.by = obj.by
      /\ obj'.mixed = obj.mixed /\ obj'.lost = obj.lost
  BY <1>1, <1>2, NoPackageIs
<1>4. \A c \in Streams : Part(obj.wire[c], obj.wire[c])
  BY <1>1, FramingParts, PartsAre
<1>5. SentInv' /\ OrderInv'
  BY <1>1, <1>2, <1>3, <1>4, OrderShrunk
<1>6. HashInv'
  BY <1>1, <1>3, HashKept
<1>7. ASSUME Clean' PROVE FALSE
  <2>1. Clean
    BY <1>3, <1>7 DEF Clean
  <2>2. obj.buffer # <<>>
    BY DEF Drops
  <2>3. /\ obj.buffer[1][3] = 1
        /\ obj.buffer[1][4] <= Len(obj.buffer) =>
             LET x == obj.buffer[1]
             IN \A k \in 1..x[4] : obj.buffer[k] = <<x[1], x[2], k, x[4]>>
    BY <2>1, <2>2, BufferBegins
  <2>4. BeginsOne
    BY <2>3 DEF BeginsOne, Place
  <2>5. QED
    BY <2>3, <2>4 DEF Drops, LengthIn
<1>8. QED
  BY <1>3, <1>5, <1>6, <1>7 DEF FramingInv, FlowInv

-----------------------------------------------------------------------------
\* What a getPackage() that finds a package changes.
LEMMA TakeIs ==
  ASSUME FramingTypeOK, NEW from \in 1..Len(obj.buffer), NEW l \in Lengths,
         from + l - 1 <= Len(obj.buffer), Take(from, l), class' = class
  PROVE  LET p == SubSeq(obj.buffer, from, from + l - 1) IN
         /\ FramingTypeOK' /\ p \in Framed /\ Len(p) = l
         /\ \A k \in 1..l : p[k] = obj.buffer[from + k - 1]
         /\ obj'.got = Append(obj.got, <<obj.by, p>>)
         /\ obj'.buffer = SubSeq(obj.buffer, from + l, Len(obj.buffer))
         /\ At("poll", "idle")' => obj.kind = "dsServer"
         /\ obj'.kind = obj.kind /\ obj'.wire = obj.wire /\ obj'.sent = obj.sent
         /\ obj'.cur = obj.cur /\ obj'.by = obj.by
         /\ obj'.mixed = obj.mixed /\ obj'.lost = obj.lost
<1> DEFINE b == obj.buffer
           m == from + l - 1
           p == SubSeq(b, from, m)
           q == SubSeq(b, from + l, Len(b))
           got2 == Append(obj.got, <<obj.by, p>>)
<1>1. b \in Seq(Cells) /\ Len(b) \in Nat
  BY BufferIs
<1>2. l \in Nat /\ l >= 2
  BY LengthsAre DEF HeaderSize
<1>3. from \in 1..Len(b) + 1 /\ m \in 0..Len(b) /\ from <= m /\ m - from + 1 = l /\ from + l = m + 1
  BY <1>1, <1>2
<1>4. p \in Framed /\ Len(p) = l /\ \A k \in 1..l : p[k] = b[from + k - 1]
  <2>1. l \in Nat \ {0}
    BY <1>2
  <2>2. b \in Seq(Cells) /\ from \in 1..Len(b) /\ from + l - 1 <= Len(b)
    BY <1>1
  <2> HIDE DEF b
  <2>3. Slice(p, b, from, l)
    BY <2>1, <2>2, SliceIs
  <2> HIDE DEF p
  <2>4. QED
    BY <2>3 DEF Slice
<1>5. q \in Seq(Cells)
  <2>1. q = SubSeq(b, m + 1, Len(b))
    BY <1>3
  <2> HIDE DEF b, m, q
  <2>2. QED
    BY <1>1, <1>3, <2>1, CutOff
<1> HIDE DEF p, q
<1>6. got2 \in Seq(Streams \X Framed)
  <2> DEFINE got == obj.got
             by == obj.by
  <2>1. got \in Seq(Streams \X Framed) /\ by \in Streams
    BY DEF FramingTypeOK
  <2> HIDE DEF got, by
  <2>2. Append(got, <<by, p>>) \in Seq(Streams \X Framed)
    BY <1>4, <2>1, HeadsAppend
  <2>3. QED
    BY <2>2 DEF got, by
<1>7. obj' = [obj EXCEPT !.got = got2, !.buffer = q] /\ DOMAIN obj = FramingFields
  BY FramingFieldsIs DEF Take, p, q
<1> HIDE DEF got2
<1>8. /\ obj'.got = got2 /\ obj'.buffer = q /\ DOMAIN obj' = FramingFields
      /\ obj'.kind = obj.kind /\ obj'.wire = obj.wire /\ obj'.sent = obj.sent
      /\ obj'.cur = obj.cur /\ obj'.by = obj.by
      /\ obj'.mixed = obj.mixed /\ obj'.lost = obj.lost
  BY <1>7 DEF FramingFields
<1>9. /\ pc' = [pc EXCEPT !["poll"] = IF obj.kind = "dsServer" THEN "idle" ELSE "parse"]
       /\ pc \in [{"poll"} -> {"idle", "parse"}]
  BY DEF Take, Go, FramingTypeOK
<1>10. /\ pc' \in [{"poll"} -> {"idle", "parse"}]
       /\ pc'["poll"] = IF obj.kind = "dsServer" THEN "idle" ELSE "parse"
  BY <1>9
<1>11. FramingTypeOK'
  BY <1>5, <1>6, <1>8, <1>10 DEF FramingTypeOK
<1>12. At("poll", "idle")' => obj.kind = "dsServer"
  BY <1>10 DEF At
<1>13. QED
  BY <1>4, <1>8, <1>11, <1>12 DEF p, q, got2

\* A package whose hash is right is the one that was sent, behind its first cell.
LEMMA HashTaken ==
  ASSUME NEW p \in Framed, NEW b \in Seq(Cells), NEW from \in 1..Len(b), NEW l \in Lengths,
         from + l - 1 <= Len(b), Len(p) = l, \A k \in 1..l : p[k] = b[from + k - 1],
         Place(b[from + 1]) = 2, LengthIn(b[from + 1]) = l,
         \A k \in HeaderSize + 1..l :
           LET h == b[from + 1] IN b[from + k - 1] = <<h[1], h[2], k, h[4]>>
  PROVE  Hashed(p)
<1>1. l \in Nat /\ l >= 2 /\ HeaderSize = 2
  BY LengthsAre DEF HeaderSize
<1>2. 2 \in 1..l /\ from + 2 - 1 = from + 1 /\ from + 1 \in 1..Len(b)
  BY <1>1
<1>3. p[2] = b[from + 1] /\ p[2] \in Cells
  BY <1>2
<1>4. p[2] = <<p[2][1], p[2][2], 2, p[2][4]>> /\ p[2][4] = l
  BY <1>3, CellIs DEF Place, LengthIn
<1>5. ASSUME NEW k \in 2..Len(p) PROVE p[k] = <<p[2][1], p[2][2], k, p[2][4]>>
  <2>1. CASE k = 2
    BY <1>4, <2>1
  <2>2. CASE k # 2
    <3>1. k \in HeaderSize + 1..l /\ k \in 1..l
      BY <1>1, <2>2
    <3>2. p[k] = b[from + k - 1]
      BY <3>1
    <3>3. b[from + k - 1] = <<b[from + 1][1], b[from + 1][2], k, b[from + 1][4]>>
      BY <3>1
    <3>4. QED
      BY <1>3, <3>2, <3>3
  <2>3. QED
    BY <2>1, <2>2
<1>6. QED
  BY <1>1, <1>4, <1>5 DEF Hashed, LengthIn

\* Of the packages handled and one more.
LEMMA AllAppended ==
  ASSUME NEW got \in Seq(Streams \X Framed), NEW c \in Streams, NEW p \in Framed
  PROVE  LET got2 == Append(got, <<c, p>>) IN
         /\ \A i \in 1..Len(got2) : (i \in 1..Len(got) /\ got2[i] = got[i])
                                      \/ got2[i] = <<c, p>>
         /\ \A e : Handled(HeadsOf(got2), e) = Handled(HeadsOf(got), e)
                                                \cup (IF p[1][1] = e THEN {p[1][2]} ELSE {})
<1> DEFINE got2 == Append(got, <<c, p>>)
<1>1. /\ HeadsOf(got2) = HeadsOf(got) \o <<p[1]>> /\ p[1] \in Cells
      /\ Len(got2) = Len(got) + 1 /\ Len(got) \in Nat
      /\ \A i \in 1..Len(got) : got2[i] = got[i]
      /\ got2[Len(got) + 1] = <<c, p>>
  BY HeadsAppend
<1>2. HeadsOf(got) \in Seq(Cells)
  BY HeadsAre
<1> HIDE DEF got2
<1>3. ASSUME NEW i \in 1..Len(got2)
      PROVE  (i \in 1..Len(got) /\ got2[i] = got[i]) \/ got2[i] = <<c, p>>
  <2>1. i \in 1..Len(got) \/ i = Len(got) + 1
    BY <1>1
  <2>2. QED
    BY <1>1, <2>1
<1>4. ASSUME NEW e
      PROVE  Handled(HeadsOf(got2), e) = Handled(HeadsOf(got), e)
                                           \cup (IF p[1][1] = e THEN {p[1][2]} ELSE {})
  <2>1. CASE p[1][1] = e
    <3> DEFINE x == p[1]
               h == HeadsOf(got)
    <3>1. x \in Cells /\ h \in Seq(Cells) /\ x[1] = e
      BY <1>1, <1>2, <2>1
    <3> HIDE DEF x, h
    <3>2. Handled(h \o <<x>>, e) = Handled(h, e) \cup {x[2]}
      BY <3>1, HandledAppend
    <3>3. QED
      BY <1>1, <2>1, <3>2 DEF x, h
  <2>2. CASE p[1][1] # e
    <3>1. Handled(HeadsOf(got) \o <<p[1]>>, e) = Handled(HeadsOf(got), e)
      BY <1>1, <1>2, <2>2, HandledAppend
    <3>2. QED
      BY <1>1, <2>2, <3>1
  <2>3. QED
    BY <2>1, <2>2
<1>5. QED
  BY <1>3, <1>4 DEF got2

\* A package is taken.
LEMMA TakesKept ==
  ASSUME FramingInv, Takes, class' = class
  PROVE  FramingInv'
<1> DEFINE b == obj.buffer
<1>1. FramingTypeOK /\ SentInv /\ OrderInv /\ HashInv /\ FlowInv
  BY DEF FramingInv
<1>2. b \in Seq(Cells) /\ Len(b) \in Nat
  BY <1>1, BufferIs
<1>3. PICK from \in 1..Len(b) :
        /\ Place(b[from]) = 1 /\ from + LengthIn(b[from]) - 1 <= Len(b)
        /\ BeginsOne => from = 1
        /\ ~Bus => DsHashOk(from, LengthIn(b[from]))
        /\ Take(from, LengthIn(b[from]))
  BY DEF Takes
<1> DEFINE l == LengthIn(b[from])
           p == SubSeq(b, from, from + l - 1)
<1>4. l \in Lengths /\ l \in Nat /\ l >= 2 /\ from + l - 1 <= Len(b)
  BY <1>1, <1>3, BufferIs DEF LengthIn
<1>5. Take(from, l) /\ b[from][3] = 1
  BY <1>3 DEF Place
<1>6. ~Bus => DsHashOk(from, l)
  BY <1>3
<1>7. l = b[from][4]
  BY DEF LengthIn
<1> HIDE DEF l
<1>8. /\ FramingTypeOK' /\ p \in Framed /\ Len(p) = l
      /\ \A k \in 1..l : p[k] = b[from + k - 1]
      /\ obj'.got = Append(obj.got, <<obj.by, p>>)
      /\ obj'.buffer = SubSeq(b, from + l, Len(b))
      /\ At("poll", "idle")' => obj.kind = "dsServer"
      /\ obj'.kind = obj.kind /\ obj'.wire = obj.wire /\ obj'.sent = obj.sent
      /\ obj'.cur = obj.cur /\ obj'.by = obj.by
      /\ obj'.mixed = obj.mixed /\ obj'.lost = obj.lost
  BY <1>1, <1>4, <1>5, TakeIs
<1>9. SentInv' /\ OrderInv'
  BY <1>1, <1>4, <1>5, <1>8, OrderTaken
<1> HIDE DEF p
<1>10. obj.got \in Seq(Streams \X Framed) /\ obj.by \in Streams
  BY <1>1 DEF FramingTypeOK
<1>11. /\ \A i \in 1..Len(obj'.got) : (i \in 1..Len(obj.got) /\ obj'.got[i] = obj.got[i])
                                        \/ obj'.got[i] = <<obj.by, p>>
       /\ \A e : Handled(HeadsOf(obj'.got), e) = Handled(HeadsOf(obj.got), e)
                                                   \cup (IF p[1][1] = e THEN {p[1][2]} ELSE {})
  <2> DEFINE got == obj.got
             by == obj.by
             got2 == obj'.got
  <2>1. got \in Seq(Streams \X Framed) /\ by \in Streams
    BY <1>10
  <2>2. got2 = Append(got, <<by, p>>)
    BY <1>8
  <2> HIDE DEF got, by, got2
  <2>3. /\ \A i \in 1..Len(got2) : (i \in 1..Len(got) /\ got2[i] = got[i])
                                     \/ got2[i] = <<by, p>>
        /\ \A e : Handled(HeadsOf(got2), e) = Handled(HeadsOf(got), e)
                                                \cup (IF p[1][1] = e THEN {p[1][2]} ELSE {})
    <3>1. p \in Framed
      BY <1>8
    <3>2. LET g == Append(got, <<by, p>>) IN
            /\ \A i \in 1..Len(g) : (i \in 1..Len(got) /\ g[i] = got[i]) \/ g[i] = <<by, p>>
            /\ \A e : Handled(HeadsOf(g), e) = Handled(HeadsOf(got), e)
                                                 \cup (IF p[1][1] = e THEN {p[1][2]} ELSE {})
      BY <2>1, <3>1, AllAppended
    <3>3. QED
      BY <2>2, <3>2
  <2>4. QED
    BY <2>3 DEF got, by, got2
<1>12. HashInv'
  <2>1. SUFFICES ASSUME ~Bus, NEW i \in 1..Len(obj'.got) PROVE Hashed(obj'.got[i][2])
    BY <1>8 DEF HashInv, Bus
  <2>2. Hashed(p)
    <3>1. /\ Place(b[from + 1]) = 2 /\ LengthIn(b[from + 1]) = l
          /\ \A k \in HeaderSize + 1..l :
               LET h == b[from + 1] IN b[from + k - 1] = <<h[1], h[2], k, h[4]>>
      BY <1>6, <2>1 DEF DsHashOk
    <3>2. QED
      BY <1>2, <1>4, <1>8, <3>1, HashTaken
  <2>3. <<obj.by, p>>[2] = p
    OBVIOUS
  <2>4. CASE obj'.got[i] = <<obj.by, p>>
    BY <2>2, <2>3, <2>4
  <2>5. CASE i \in 1..Len(obj.got) /\ obj'.got[i] = obj.got[i]
    BY <1>1, <2>1, <2>5 DEF HashInv
  <2>6. QED
    BY <1>11, <2>4, <2>5
<1>13. ASSUME Clean' PROVE (\A c \in Streams : StreamInv(c)') /\ GotInv' /\ WaitInv'
  <2>1. Clean
    BY <1>8, <1>13 DEF Clean
  <2>2. b # <<>>
    BY <1>2
  <2> DEFINE s == StreamOf(obj.by)
             n == b[1][2]
             H == NumbersOf(obj.by)
  <2>3. /\ s = b \o obj.wire[obj.by] /\ s \in Seq(Cells) /\ s # <<>>
        /\ obj.wire[obj.by] \in Seq(Cells)
        /\ b[1] \in Cells /\ s[1] = b[1] /\ b[1][1] = obj.by /\ b[1][3] = 1
        /\ Len(s) >= Len(b)
        /\ b[1][4] <= Len(b) =>
             \A k \in 1..b[1][4] : b[k] = <<b[1][1], b[1][2], k, b[1][4]>>
    BY <2>1, <2>2, BufferBegins
  <2>4. from = 1 /\ l = b[1][4]
    BY <1>3, <1>7, <2>3 DEF BeginsOne, Place
  <2>5. l <= Len(b) /\ l \in 0..Len(b)
    BY <1>2, <1>4, <2>4
  <2>6. \A k \in 1..l : b[k] = <<obj.by, n, k, l>>
    BY <2>3, <2>4, <2>5
  <2>7. \A k \in 1..l : p[k] = <<obj.by, n, k, l>>
    <3>1. ASSUME NEW k \in 1..l PROVE p[k] = <<obj.by, n, k, l>>
      <4>1. from + k - 1 = k
        BY <1>4, <2>4
      <4>2. p[k] = b[k]
        BY <1>8, <4>1
      <4>3. QED
        BY <2>6, <4>2
    <3>2. QED
      BY <3>1
  <2>8. p[1] = <<obj.by, n, 1, l>> /\ p[1][1] = obj.by /\ p[1][2] = n /\ p[1][4] = l
    <3>1. 1 \in 1..l
      BY <1>4
    <3>2. p[1] = <<obj.by, n, 1, l>>
      BY <2>7, <3>1
    <3>3. QED
      BY <3>2
  <2> HIDE DEF n, s
  <2>9. (\A c \in Streams : StreamInv(c)) /\ GotInv
    BY <1>1, <2>1 DEF FlowInv
  <2>10. NumbersOf(obj.by)' = H \cup {n}
    BY <1>8, <1>11, <2>8 DEF NumbersOf
  <2>11. \A c : c # obj.by => NumbersOf(c)' = NumbersOf(c)
    BY <1>11, <2>8 DEF NumbersOf
  <2>12. StreamOf(obj.by)' = SubSeq(s, l + 1, Len(s))
    <3> DEFINE w == obj.wire[obj.by]
    <3>1. SubSeq(b \o w, l + 1, Len(b \o w)) = SubSeq(b, l + 1, Len(b)) \o w
      BY <1>2, <2>3, <2>5, CutJoin
    <3>2. obj'.buffer = SubSeq(b, l + 1, Len(b))
      <4>1. from + l = l + 1
        BY <1>4, <2>4
      <4>2. QED
        BY <1>8, <4>1
    <3>3. StreamOf(obj.by)' = obj'.buffer \o w
      BY <1>8 DEF StreamOf, RestOf
    <3>4. QED
      BY <2>3, <3>1, <3>2, <3>3
  <2>13. \A c \in Streams : c # obj.by => StreamOf(c)' = StreamOf(c)
    BY <1>8 DEF StreamOf, RestOf
  <2>14. \A c \in Streams : Goes(c)' => Goes(c)
    BY <1>8 DEF Goes
  <2>15. obj.sent[obj.by] \in Nat
    <3>1. obj.sent[obj.by] \in 0..MaxPackages
      BY <1>1, <1>10, FramingParts
    <3>2. QED
      BY <3>1, FramingAssumption
  <2>16. StreamInv(obj.by)'
    <3> DEFINE u == SubSeq(s, l + 1, Len(s))
    <3>1. On(s, obj.by) /\ Flow(s) /\ Begins(s, H)
      BY <1>10, <2>9 DEF StreamInv, s
    <3>2. s[1][4] = l /\ s[1][2] = n /\ s[1][4] <= Len(s)
      <4>1. s[1][4] = l /\ s[1][2] = n
        BY <2>3, <2>4 DEF n
      <4>2. Len(s) \in Nat
        <5>1. s \in Seq(Cells)
          BY <2>3
        <5>2. QED
          BY <5>1
      <4>3. Len(s) >= Len(b)
        BY <2>3
      <4>4. l <= Len(s)
        BY <1>2, <1>4, <2>5, <4>2, <4>3
      <4>5. QED
        BY <4>1, <4>4
    <3> HIDE DEF H
    <3>3. /\ On(u, obj.by) /\ Flow(u) /\ Begins(u, H \cup {n})
          /\ \A last \in Nat : EndsAt(s, H, last) => EndsAt(u, H \cup {n}, last)
      <4> DEFINE by == obj.by
      <4>1. by \in Streams /\ On(s, by) /\ s \in Seq(Cells) /\ s # <<>>
        BY <1>10, <2>3, <3>1
      <4> HIDE DEF by
      <4>2. LET v == SubSeq(s, s[1][4] + 1, Len(s))
                H2 == H \cup {s[1][2]}
            IN /\ On(v, by) /\ Flow(v) /\ Begins(v, H2)
               /\ \A last \in Nat : EndsAt(s, H, last) => EndsAt(v, H2, last)
        BY <3>1, <3>2, <4>1, StreamCut
      <4>3. QED
        BY <3>2, <4>2 DEF by
    <3>4. Goes(obj.by) => EndsAt(s, H, obj.sent[obj.by])
      BY <1>10, <2>9 DEF StreamInv, s, H
    <3> HIDE DEF u
    <3>5. /\ StreamOf(obj.by)' = u /\ NumbersOf(obj.by)' = H \cup {n}
          /\ obj'.sent[obj.by] = obj.sent[obj.by] /\ obj'.by = obj.by
      BY <1>8, <2>10, <2>12 DEF u
    <3>6. Goes(obj.by)' => EndsAt(u, H \cup {n}, obj.sent[obj.by])
      BY <1>8, <1>10, <2>14, <2>15, <3>3, <3>4 DEF Goes
    <3>7. QED
      BY <1>8, <3>3, <3>5, <3>6 DEF StreamInv
  <2>17. ASSUME NEW c \in Streams PROVE StreamInv(c)'
    <3>1. CASE c = obj.by
      <4>1. obj.by' = obj.by
        BY <1>8
      <4>2. QED
        BY <2>16, <3>1, <4>1
    <3>2. CASE c # obj.by
      <4>1. /\ StreamOf(c)' = StreamOf(c) /\ NumbersOf(c)' = NumbersOf(c)
            /\ Goes(c)' => Goes(c)
            /\ StreamInv(c)
        BY <2>9, <2>11, <2>13, <2>14, <3>2
      <4>2. QED
        BY <1>8, <4>1 DEF StreamInv
    <3>3. QED
      BY <3>1, <3>2
  <2>18. GotInv'
    <3> DEFINE g2 == obj'.got
               N(e) == Handled(HeadsOf(g2), e)
    <3>1. \A e : NumbersOf(e) \subseteq N(e)
      BY <1>11 DEF NumbersOf
    <3>2. ASSUME NEW i \in 1..Len(g2)
          PROVE  Whole(g2[i]) /\ 1..g2[i][2][1][2] - 1 \subseteq N(g2[i][2][1][1])
      <4>1. CASE i \in 1..Len(obj.got) /\ g2[i] = obj.got[i]
        <5>1. /\ Whole(obj.got[i])
              /\ 1..obj.got[i][2][1][2] - 1 \subseteq NumbersOf(obj.got[i][2][1][1])
          BY <2>9, <4>1 DEF GotInv
        <5>2. NumbersOf(obj.got[i][2][1][1]) \subseteq N(obj.got[i][2][1][1])
          BY <3>1
        <5> HIDE DEF N, g2
        <5>3. QED
          BY <4>1, <5>1, <5>2
      <4>2. CASE g2[i] = <<obj.by, p>>
        <5>1. /\ g2[i][1] = obj.by /\ g2[i][2] = p
          BY <4>2
        <5>2. Whole(g2[i])
          BY <1>8, <2>7, <2>8, <5>1 DEF Whole
        <5>3. H = 1..n - 1
          <6>1. Begins(s, H)
            BY <1>10, <2>9 DEF StreamInv, s
          <6>2. QED
            BY <2>3, <6>1 DEF Begins, n
        <5>4. 1..n - 1 \subseteq N(obj.by)
          BY <1>11, <5>3 DEF NumbersOf
        <5> HIDE DEF N, g2
        <5>5. QED
          BY <2>8, <5>1, <5>2, <5>4
      <4>3. QED
        BY <1>11, <4>1, <4>2
    <3>3. QED
      <4>1. GotInv' <=> /\ \A i \in 1..Len(g2) : Whole(g2[i])
                        /\ \A i \in 1..Len(g2) :
                             1..g2[i][2][1][2] - 1 \subseteq N(g2[i][2][1][1])
        BY DEF GotInv, NumbersOf
      <4> HIDE DEF N, g2
      <4>2. QED
        BY <3>2, <4>1
  <2>19. WaitInv'
    BY <1>8 DEF WaitInv
  <2>20. QED
    BY <2>17, <2>18, <2>19
<1>14. QED
  BY <1>8, <1>9, <1>12, <1>13 DEF FramingInv, FlowInv

-----------------------------------------------------------------------------
\* A package is sent.
LEMMA GenerateKept ==
  ASSUME FramingInv, NEW c \in Streams, NEW d \in DataCells, generate(c, d)
  PROVE  FramingInv'
<1> DEFINE n == obj.sent[c] + 1
           P == Package(c, n, d)
           sent2 == [obj.sent EXCEPT ![c] = n]
           wire2 == [obj.wire EXCEPT ![c] = obj.wire[c] \o P]
<1>1. FramingTypeOK /\ SentInv /\ OrderInv /\ HashInv /\ FlowInv
  BY DEF FramingInv
<1>2. /\ Open(c) /\ obj.sent[c] < MaxPackages /\ class' = class /\ pc' = pc
      /\ obj' = [obj EXCEPT !.sent = sent2, !.wire = wire2]
  BY DEF generate, Stay
<1>3. /\ obj.sent \in [Streams -> 0..MaxPackages] /\ obj.wire \in [Streams -> Seq(Cells)]
      /\ DOMAIN obj = FramingFields
  BY <1>1 DEF FramingTypeOK
<1>4. obj.sent[c] \in 0..MaxPackages - 1 /\ n \in 1..MaxPackages /\ MaxPackages \in Nat
  <2>1. obj.sent[c] \in 0..MaxPackages
    BY <1>3
  <2>2. QED
    BY <1>2, <2>1, FramingAssumption
<1>5. P \in Seq(Cells)
  BY <1>4, PackageIs
<1> HIDE DEF P
<1>6. obj.wire[c] \o P \in Seq(Cells)
  <2>1. obj.wire[c] \in Seq(Cells)
    BY <1>3
  <2>2. QED
    BY <1>5, <2>1, Joined
<1> HIDE DEF n
<1>7. sent2 \in [Streams -> 0..MaxPackages] /\ sent2[c] = n
      /\ \A e \in Streams : e # c => sent2[e] = obj.sent[e]
  BY <1>3, <1>4
<1>8. /\ wire2 \in [Streams -> Seq(Cells)] /\ wire2[c] = obj.wire[c] \o P
      /\ \A e \in Streams : e # c => wire2[e] = obj.wire[e]
  <2> DEFINE w == obj.wire[c] \o P
  <2>1. w \in Seq(Cells)
    BY <1>6
  <2> HIDE DEF w
  <2>2. /\ [obj.wire EXCEPT ![c] = w] \in [Streams -> Seq(Cells)]
        /\ [obj.wire EXCEPT ![c] = w][c] = w
        /\ \A e \in Streams : e # c => [obj.wire EXCEPT ![c] = w][e] = obj.wire[e]
    BY <1>3, <2>1
  <2>3. QED
    BY <2>2 DEF w
<1>9. obj'.sent = sent2 /\ obj'.wire = wire2
  <2> HIDE DEF sent2, wire2
  <2>1. QED
    BY <1>2, <1>3 DEF FramingFields
<1>10. /\ DOMAIN obj' = FramingFields
       /\ obj'.kind = obj.kind /\ obj'.cur = obj.cur /\ obj'.buffer = obj.buffer
       /\ obj'.got = obj.got /\ obj'.by = obj.by
       /\ obj'.mixed = obj.mixed /\ obj'.lost = obj.lost
  <2> HIDE DEF sent2, wire2
  <2>1. QED
    BY <1>2, <1>3 DEF FramingFields
<1>11. FramingTypeOK'
  <2> HIDE DEF sent2, wire2
  <2>1. QED
    BY <1>1, <1>2, <1>7, <1>8, <1>9, <1>10 DEF FramingTypeOK
<1>12. SentInv' /\ OrderInv'
  BY <1>1, <1>2, <1>9, <1>10, <1>11, OrderSent DEF n, P
<1>13. HashInv'
  BY <1>1, <1>10, HashKept
<1> HIDE DEF sent2, wire2
<1>14. ASSUME Clean' PROVE (\A e \in Streams : StreamInv(e)') /\ GotInv' /\ WaitInv'
  <2>1. Clean
    BY <1>10, <1>14 DEF Clean
  <2>2. (\A e \in Streams : StreamInv(e)) /\ GotInv /\ WaitInv
    BY <1>1, <2>1 DEF FlowInv
  <2>3. \A e : NumbersOf(e)' = NumbersOf(e)
    BY <1>10 DEF NumbersOf
  <2>4. \A e : Goes(e)' => Goes(e)
    BY <1>10 DEF Goes
  <2>5. GotInv'
    BY <1>10, <2>2, <2>3 DEF GotInv, NumbersOf
  <2>6. WaitInv'
    BY <1>2, <1>10, <2>2 DEF WaitInv, At
  <2>7. ASSUME NEW e \in Streams, e # c PROVE StreamInv(e)'
    <3>1. StreamOf(e)' = StreamOf(e)
      BY <1>8, <1>9, <1>10, <2>7 DEF StreamOf, RestOf
    <3>2. obj'.sent[e] = obj.sent[e] /\ StreamInv(e)
      BY <1>7, <1>9, <2>2, <2>7
    <3>3. QED
      BY <2>3, <2>4, <3>1, <3>2 DEF StreamInv
  <2>8. StreamInv(c)'
    <3> DEFINE s == StreamOf(c)
               H == NumbersOf(c)
               u == s \o P
               b == IF c = obj.by THEN obj.buffer ELSE <<>>
    <3>1. b \in Seq(Cells) /\ obj.wire[c] \in Seq(Cells)
      BY <1>1, <1>3 DEF FramingTypeOK
    <3>2. s = b \o obj.wire[c]
      BY DEF StreamOf, RestOf
    <3>3. StreamOf(c)' = b \o (obj.wire[c] \o P)
      BY <1>8, <1>9, <1>10 DEF StreamOf, RestOf
    <3>4. (b \o obj.wire[c]) \o P = b \o (obj.wire[c] \o P)
      <4> DEFINE w == obj.wire[c]
      <4>1. b \in Seq(Cells) /\ w \in Seq(Cells)
        BY <3>1
      <4> HIDE DEF b, w
      <4>2. (b \o w) \o P = b \o (w \o P)
        BY <1>5, <4>1, JoinTwice
      <4>3. QED
        BY <4>2 DEF w
    <3>5. StreamOf(c)' = u
      <4> HIDE DEF b
      <4>1. QED
        BY <3>2, <3>3, <3>4
    <3>6. s \in Seq(Cells)
      <4> DEFINE w == obj.wire[c]
      <4>1. b \in Seq(Cells) /\ w \in Seq(Cells)
        BY <3>1
      <4> HIDE DEF b, w
      <4>2. b \o w \in Seq(Cells)
        BY <4>1, Joined
      <4>3. QED
        BY <3>2, <4>2 DEF w
    <3>7. On(s, c) /\ Flow(s) /\ Begins(s, H) /\ Goes(c)
      <4>1. c = obj.cur => c >= obj.cur
        <5>1. c \in Int
          BY DEF Streams
        <5>2. QED
          BY <5>1
      <4>2. QED
        BY <1>2, <2>2, <4>1 DEF StreamInv, Open, Goes
    <3>8. EndsAt(s, H, obj.sent[c])
      BY <2>2, <3>7 DEF StreamInv
    <3> HIDE DEF s, H, b
    <3>9. On(u, c) /\ Flow(u) /\ Begins(u, H) /\ EndsAt(u, H, n)
      <4> DEFINE last == obj.sent[c]
      <4>1. last \in 0..MaxPackages - 1 /\ EndsAt(s, H, last)
        BY <1>4, <3>8
      <4> HIDE DEF last
      <4>2. LET v == s \o Package(c, last + 1, d)
            IN On(v, c) /\ Flow(v) /\ Begins(v, H) /\ EndsAt(v, H, last + 1)
        BY <3>6, <3>7, <4>1, StreamSent
      <4>3. QED
        BY <4>2 DEF last, P, n
    <3> HIDE DEF u
    <3>10. NumbersOf(c)' = H /\ obj'.sent[c] = n
      BY <1>7, <1>9, <2>3 DEF H
    <3>11. QED
      BY <3>5, <3>9, <3>10 DEF StreamInv
  <2>9. QED
    BY <2>5, <2>6, <2>7, <2>8
<1>15. QED
  BY <1>11, <1>12, <1>13, <1>14 DEF FramingInv, FlowInv

\* The callback of a DataServiceClient is set.
LEMMA ListenKept ==
  ASSUME FramingInv, listenTo
  PROVE  FramingInv'
<1>1. FramingTypeOK /\ SentInv /\ OrderInv /\ HashInv /\ FlowInv
  BY DEF FramingInv
<1>2. obj' = [obj EXCEPT !.deaf = FALSE] /\ class' = class /\ pc' = pc
  BY DEF listenTo, Stay
<1>3. DOMAIN obj = FramingFields
  BY <1>1, FramingFieldsIs
<1>4. /\ DOMAIN obj' = FramingFields
      /\ obj'.kind = obj.kind /\ obj'.wire = obj.wire /\ obj'.sent = obj.sent
      /\ obj'.cur = obj.cur /\ obj'.buffer = obj.buffer /\ obj'.got = obj.got
      /\ obj'.by = obj.by /\ obj'.mixed = obj.mixed /\ obj'.lost = obj.lost
  BY <1>2, <1>3 DEF FramingFields
<1>5. FramingTypeOK'
  BY <1>1, <1>2, <1>4 DEF FramingTypeOK
<1>6. Part(obj.buffer, obj.buffer) /\ \A c \in Streams : Part(obj.wire[c], obj.wire[c])
  BY <1>1, FramingParts, PartsAre
<1>7. SentInv' /\ OrderInv'
  BY <1>1, <1>4, <1>5, <1>6, OrderShrunk
<1>8. HashInv'
  BY <1>1, <1>4, HashKept
<1>9. Clean' => Clean
  BY <1>4 DEF Clean
<1>10. \A c \in Streams : StreamOf(c)' = StreamOf(c)
  BY <1>4 DEF StreamOf
<1>11. Clean' => (\A c \in Streams : StreamInv(c)') /\ GotInv'
  BY <1>1, <1>4, <1>9, <1>10, FlowKept
<1>12. Clean' => WaitInv'
  BY <1>1, <1>2, <1>4, <1>9 DEF FlowInv, WaitInv, At
<1>13. QED
  BY <1>5, <1>7, <1>8, <1>11, <1>12 DEF FramingInv, FlowInv

\* A connection breaks and another takes its place.
LEMMA ReconnectKept ==
  ASSUME FramingInv, reconnect
  PROVE  FramingInv'
<1> DEFINE wire2 == [obj.wire EXCEPT ![1] = <<>>]
           b2 == IF obj.kind = "session" THEN <<>> ELSE obj.buffer
<1>1. FramingTypeOK /\ SentInv /\ OrderInv /\ HashInv /\ FlowInv
  BY DEF FramingInv
<1>2. /\ obj' = [obj EXCEPT !.cur = 2, !.wire = wire2, !.buffer = b2]
      /\ class' = class /\ pc' = pc
      /\ obj.kind # "dsServer" /\ obj.cur = 1
  BY DEF reconnect, Stay
<1>3. /\ obj.wire \in [Streams -> Seq(Cells)] /\ DOMAIN obj = FramingFields
      /\ obj.buffer \in Seq(Cells) /\ obj.by \in Streams
      /\ obj.kind # "dsServer" => obj.by <= obj.cur
  BY <1>1 DEF FramingTypeOK
<1>4. b2 \in Seq(Cells) /\ Part(b2, obj.buffer)
  <2>1. <<>> \in Seq(Cells) /\ Part(<<>>, obj.buffer) /\ Part(obj.buffer, obj.buffer)
    BY <1>3, PartsAre
  <2>2. QED
    BY <1>3, <2>1
<1>5. wire2 \in [Streams -> Seq(Cells)] /\ wire2[1] = <<>> /\ wire2[2] = obj.wire[2]
  BY <1>3 DEF Streams
<1> HIDE DEF wire2
<1>6. \A c \in Streams : Part(wire2[c], obj.wire[c])
  <2>1. \A c \in Streams : Part(<<>>, obj.wire[c]) /\ Part(obj.wire[c], obj.wire[c])
    BY <1>1, FramingParts, PartsAre
  <2>2. QED
    BY <1>5, <2>1 DEF Streams
<1>7. obj.by = 1
  BY <1>2, <1>3 DEF Streams
<1> HIDE DEF b2
<1>8. /\ DOMAIN obj' = FramingFields /\ obj'.cur = 2 /\ obj'.wire = wire2 /\ obj'.buffer = b2
      /\ obj'.kind = obj.kind /\ obj'.sent = obj.sent /\ obj'.got = obj.got
      /\ obj'.by = obj.by /\ obj'.mixed = obj.mixed /\ obj'.lost = obj.lost
  BY <1>2, <1>3 DEF FramingFields
<1>9. FramingTypeOK'
  <2>1. obj'.cur \in Streams /\ obj'.by <= obj'.cur
    BY <1>7, <1>8 DEF Streams
  <2>2. QED
    BY <1>1, <1>2, <1>4, <1>5, <1>8, <2>1 DEF FramingTypeOK
<1>10. SentInv' /\ OrderInv'
  BY <1>1, <1>4, <1>6, <1>8, <1>9, OrderShrunk
<1>11. HashInv'
  BY <1>1, <1>8, HashKept
<1>12. b2 = <<>> \/ b2 = obj.buffer
  BY DEF b2
<1>13. ASSUME Clean' PROVE (\A c \in Streams : StreamInv(c)') /\ GotInv' /\ WaitInv'
  <2>1. Clean
    BY <1>8, <1>13 DEF Clean
  <2>2. (\A c \in Streams : StreamInv(c)) /\ GotInv /\ WaitInv
    BY <1>1, <2>1 DEF FlowInv
  <2>3. \A c : NumbersOf(c)' = NumbersOf(c)
    BY <1>8 DEF NumbersOf
  <2>4. GotInv'
    BY <1>8, <2>2, <2>3 DEF GotInv, NumbersOf
  <2>5. WaitInv'
    BY <1>2, <1>8, <1>12, <2>2 DEF WaitInv, At
  <2>6. 1 \in Streams /\ 2 \in Streams /\ \A c \in Streams : c = 1 \/ c = 2
    BY DEF Streams
  <2>7. StreamInv(2)'
    <3>1. StreamOf(2)' = StreamOf(2)
      BY <1>5, <1>7, <1>8 DEF StreamOf, RestOf
    <3>2. Goes(2)
      BY <1>2 DEF Goes
    <3>3. StreamInv(2) /\ NumbersOf(2)' = NumbersOf(2)
      BY <2>2, <2>3, <2>6
    <3>4. QED
      BY <1>8, <3>1, <3>2, <3>3 DEF StreamInv
  <2>8. StreamInv(1)'
    <3> DEFINE s == StreamOf(1)
               w == obj.wire[1]
    <3>1. On(s, 1) /\ Flow(s) /\ Begins(s, NumbersOf(1))
      BY <2>2, <2>6 DEF StreamInv
    <3>2. s = obj.buffer \o w /\ w \in Seq(Cells)
      BY <1>3, <1>7, <2>6 DEF StreamOf, RestOf
    <3>3. StreamOf(1)' = b2 \o <<>>
      BY <1>5, <1>7, <1>8 DEF StreamOf, RestOf
    <3>4. ~Goes(1)'
      BY <1>2, <1>8 DEF Goes
    <3> HIDE DEF s, w
    <3>5. b2 \o <<>> = b2
      BY <1>4, ConcatEmptySeq
    <3>6. On(b2, 1) /\ Flow(b2) /\ Begins(b2, NumbersOf(1))
      <4>1. CASE b2 = <<>>
        BY <4>1 DEF On, Flow, Begins
      <4>2. CASE b2 = obj.buffer
        <5>1. /\ s \in Seq(Cells) /\ Len(s) = Len(b2) + Len(w)
              /\ \A i \in 1..Len(b2) : s[i] = b2[i]
          <6>1. /\ b2 \o w \in Seq(Cells) /\ Len(b2 \o w) = Len(b2) + Len(w)
                /\ \A i \in 1..Len(b2) : (b2 \o w)[i] = b2[i]
            BY <1>4, <3>2, Joined
          <6>2. s = b2 \o w
            BY <3>2, <4>2
          <6>3. QED
            BY <6>1, <6>2
        <5>2. Len(b2) \in Nat /\ Len(w) \in Nat
          BY <1>4, <3>2
        <5>3. \A i \in 1..Len(b2) : i \in 1..Len(s)
          BY <5>1, <5>2
        <5>4. On(b2, 1)
          BY <3>1, <5>1, <5>3 DEF On
        <5>5. Flow(b2)
          <6>1. ASSUME NEW i \in 1..Len(b2) - 1 PROVE Follows(b2[i], b2[i + 1])
            <7>1. i \in 1..Len(s) - 1 /\ i \in 1..Len(b2) /\ i + 1 \in 1..Len(b2)
              BY <5>1, <5>2
            <7>2. Follows(s[i], s[i + 1])
              BY <3>1, <7>1 DEF Flow
            <7>3. QED
              BY <5>1, <7>1, <7>2
          <6>2. QED
            BY <6>1 DEF Flow
        <5>6. Begins(b2, NumbersOf(1))
          <6>1. SUFFICES ASSUME b2 # <<>> PROVE Place(b2[1]) = 1 /\ NumbersOf(1) = 1..b2[1][2] - 1
            BY DEF Begins
          <6>2. 1 \in 1..Len(b2)
            BY <1>4, <6>1
          <6>3. s[1] = b2[1] /\ s # <<>>
            <7>1. 1 \in 1..Len(s)
              BY <5>3, <6>2
            <7>2. s # <<>>
              BY <7>1
            <7>3. QED
              BY <5>1, <6>2, <7>2
          <6>4. QED
            BY <3>1, <6>3 DEF Begins
        <5>7. QED
          BY <5>4, <5>5, <5>6
      <4>3. QED
        BY <1>12, <4>1, <4>2
    <3>7. StreamOf(1)' = b2 /\ NumbersOf(1)' = NumbersOf(1)
      BY <2>3, <3>3, <3>5
    <3>8. QED
      BY <3>4, <3>6, <3>7 DEF StreamInv
  <2>9. QED
    BY <2>4, <2>5, <2>6, <2>7, <2>8
<1>14. QED
  BY <1>9, <1>10, <1>11, <1>13 DEF FramingInv, FlowInv

\* A read comes in.
LEMMA AppendKept ==
  ASSUME FramingInv, NEW c \in Streams, NEW n \in 1..Len(obj.wire[c]), append(c, n)
  PROVE  FramingInv'
<1> DEFINE w == obj.wire[c]
           p == SubSeq(w, 1, n)
           q == SubSeq(w, n + 1, Len(w))
           b == obj.buffer
           wire2 == [obj.wire EXCEPT ![c] = q]
           Other == b # <<>> /\ Last(b)[1] # c
<1>1. FramingTypeOK /\ SentInv /\ OrderInv /\ HashInv /\ FlowInv
  BY DEF FramingInv
<1>2. /\ obj.wire \in [Streams -> Seq(Cells)] /\ DOMAIN obj = FramingFields
      /\ b \in Seq(Cells) /\ obj.by \in Streams /\ obj.cur \in Streams
      /\ pc \in [{"poll"} -> {"idle", "parse"}]
  BY <1>1 DEF FramingTypeOK
<1>3. w \in Seq(Cells) /\ n \in 0..Len(w)
  BY <1>2
<1>4. Part(p, w) /\ Part(q, w) /\ p \in Seq(Cells) /\ q \in Seq(Cells)
  <2>1. Part(p, w) /\ Part(q, w)
    BY <1>3, PartsAre
  <2>2. QED
    BY <1>3, <2>1, PartOf
<1>5. Open(c) /\ class' = class /\ At("poll", "idle")
  BY DEF append
<1>6. /\ obj.deaf => obj' = [obj EXCEPT !.wire = wire2, !.lost = TRUE] /\ pc' = pc
      /\ ~obj.deaf => /\ obj' = [obj EXCEPT !.wire = wire2, !.buffer = b \o p, !.by = c,
                                            !.mixed = @ \/ Other]
                      /\ pc' = [pc EXCEPT !["poll"] = "parse"]
  BY <1>2 DEF append, Go, FramingFields
<1> HIDE DEF p, q
<1>7. /\ wire2 \in [Streams -> Seq(Cells)] /\ wire2[c] = q
      /\ \A e \in Streams : e # c => wire2[e] = obj.wire[e]
  BY <1>2, <1>4
<1> HIDE DEF wire2, Other
<1>8. ASSUME obj.deaf PROVE FramingInv'
  <2>1. obj' = [obj EXCEPT !.wire = wire2, !.lost = TRUE] /\ pc' = pc
    BY <1>6, <1>8
  <2>2. /\ DOMAIN obj' = FramingFields /\ obj'.wire = wire2 /\ obj'.lost
        /\ obj'.kind = obj.kind /\ obj'.sent = obj.sent /\ obj'.cur = obj.cur
        /\ obj'.buffer = obj.buffer /\ obj'.got = obj.got /\ obj'.by = obj.by
    BY <1>2, <2>1 DEF FramingFields
  <2>3. FramingTypeOK'
    BY <1>1, <1>5, <1>7, <2>1, <2>2 DEF FramingTypeOK
  <2>4. ASSUME NEW e \in Streams PROVE Part(obj'.wire[e], obj.wire[e])
    <3>1. Part(obj.wire[e], obj.wire[e])
      BY <1>1, FramingParts, PartsAre
    <3>2. CASE e = c
      BY <1>4, <1>7, <2>2, <3>2
    <3>3. CASE e # c
      BY <1>7, <2>2, <3>1, <3>3
    <3>4. QED
      BY <3>2, <3>3
  <2>5. Part(obj'.buffer, obj.buffer)
    BY <1>2, <2>2, PartsAre
  <2>6. SentInv' /\ OrderInv'
    BY <1>1, <2>2, <2>3, <2>4, <2>5, OrderShrunk
  <2>7. HashInv'
    BY <1>1, <2>2, HashKept
  <2>8. ~Clean'
    BY <2>2 DEF Clean
  <2>9. QED
    BY <2>3, <2>6, <2>7, <2>8 DEF FramingInv, FlowInv
<1>9. ASSUME ~obj.deaf PROVE FramingInv'
  <2>1. /\ obj' = [obj EXCEPT !.wire = wire2, !.buffer = b \o p, !.by = c, !.mixed = @ \/ Other]
        /\ pc' = [pc EXCEPT !["poll"] = "parse"]
    BY <1>6, <1>9
  <2>2. /\ DOMAIN obj' = FramingFields /\ obj'.wire = wire2 /\ obj'.buffer = b \o p
        /\ obj'.by = c /\ obj'.lost = obj.lost
        /\ obj'.kind = obj.kind /\ obj'.sent = obj.sent /\ obj'.cur = obj.cur
        /\ obj'.got = obj.got
    BY <1>2, <2>1 DEF FramingFields
  <2>3. obj'.mixed = (obj.mixed \/ Other)
    BY <1>2, <2>1 DEF FramingFields
  <2>4. ~obj'.mixed => ~obj.mixed /\ ~Other
    BY <2>3
  <2>5. b \o p \in Seq(Cells)
    <3> HIDE DEF b
    <3>1. QED
      BY <1>2, <1>4, Joined
  <2>6. pc' \in [{"poll"} -> {"idle", "parse"}] /\ pc'["poll"] = "parse"
    BY <1>2, <2>1
  <2>7. obj.kind # "dsServer" => c <= obj.cur
    <3>1. c \in Int
      BY DEF Streams
    <3>2. QED
      BY <1>5, <3>1 DEF Open
  <2>8. FramingTypeOK'
    BY <1>1, <1>5, <1>7, <2>2, <2>5, <2>6, <2>7 DEF FramingTypeOK
  <2>9. SentInv' /\ OrderInv'
    BY <1>1, <1>3, <2>2, <2>8, OrderRead DEF p, q, wire2
  <2>10. HashInv'
    BY <1>1, <2>2, HashKept
  <2>11. Clean' => Clean
    BY <2>2, <2>4 DEF Clean
  <2>12. ASSUME Clean' PROVE b = <<>> \/ obj.by = c
    <3>1. SUFFICES ASSUME b # <<>> PROVE obj.by = c
      OBVIOUS
    <3>2. Last(b)[1] = c
      BY <2>4, <2>12, <3>1 DEF Clean, Other
    <3>3. Last(b) = b[Len(b)]
      BY DEF Last
    <3> DEFINE s == StreamOf(obj.by)
               v == obj.wire[obj.by]
    <3>4. /\ s = b \o v /\ v \in Seq(Cells)
      BY <1>2, <2>11, <2>12, <3>1, BufferBegins
    <3>5. On(s, obj.by)
      BY <1>1, <1>2, <2>11, <2>12 DEF FlowInv, StreamInv
    <3> HIDE DEF s, v, b
    <3>6. /\ Len(s) = Len(b) + Len(v) /\ \A i \in 1..Len(b) : s[i] = b[i]
      <4>1. /\ Len(b \o v) = Len(b) + Len(v) /\ \A i \in 1..Len(b) : (b \o v)[i] = b[i]
        BY <1>2, <3>4, Joined
      <4>2. QED
        BY <3>4, <4>1
    <3>7. Len(b) \in Nat /\ Len(v) \in Nat
      BY <1>2, <3>4
    <3>8. Len(b) \in 1..Len(b) /\ Len(b) \in 1..Len(s)
      BY <1>2, <3>1, <3>6, <3>7
    <3>9. s[Len(b)][1] = obj.by /\ s[Len(b)] = b[Len(b)]
      BY <3>5, <3>6, <3>8 DEF On
    <3>10. QED
      BY <3>2, <3>3, <3>9
  <2>13. ASSUME Clean' PROVE \A e \in Streams : StreamOf(e)' = StreamOf(e)
    <3> DEFINE by == obj.by
               wire == obj.wire
    <3>1. /\ by \in Streams /\ wire \in [Streams -> Seq(Cells)] /\ b \in Seq(Cells)
          /\ (b = <<>> \/ by = c) /\ n \in 0..Len(wire[c])
      BY <1>2, <1>3, <2>12, <2>13
    <3> HIDE DEF by, wire, b
    <3>2. SameRest(by, b, wire, c, n)
      BY <3>1, RestRead
    <3>3. QED
      BY <2>2, <3>2 DEF SameRest, StreamOf, by, wire, b, p, q, w, wire2
  <2>14. Clean' => (\A e \in Streams : StreamInv(e)') /\ GotInv'
    <3>1. CASE Clean'
      BY <1>1, <2>2, <2>11, <2>13, <3>1, FlowKept
    <3>2. QED
      BY <3>1
  <2>15. WaitInv'
    BY <2>6 DEF WaitInv, At
  <2>16. QED
    BY <2>8, <2>9, <2>10, <2>14, <2>15 DEF FramingInv, FlowInv
<1>10. QED
  BY <1>8, <1>9

-----------------------------------------------------------------------------
\* Before anything is sent.
LEMMA FramingInvInit == FramingInit => FramingInv
<1> SUFFICES ASSUME FramingInit PROVE FramingInv
  OBVIOUS
<1> DEFINE wire == [c \in Streams |-> <<>>]
           sent == [c \in Streams |-> 0]
<1>1. PICK kind \in Kinds :
        obj = [kind |-> kind, wire |-> wire, sent |-> sent,
               cur |-> 1, buffer |-> <<>>, got |-> <<>>, by |-> 1, mixed |-> FALSE,
               deaf |-> kind = "dsClient", lost |-> FALSE]
  BY DEF FramingInit, Kinds
<1>2. wire \in [Streams -> Seq(Cells)] /\ \A c \in Streams : wire[c] = <<>>
  OBVIOUS
<1>3. sent \in [Streams -> 0..MaxPackages] /\ \A c \in Streams : sent[c] = 0
  BY FramingAssumption
<1> HIDE DEF wire, sent
<1>4. /\ DOMAIN obj = FramingFields /\ obj.kind = kind /\ obj.wire = wire /\ obj.sent = sent
      /\ obj.cur = 1 /\ obj.buffer = <<>> /\ obj.got = <<>> /\ obj.by = 1
  BY <1>1 DEF FramingFields
<1>5. pc \in [{"poll"} -> {"idle", "parse"}] /\ class = "framing"
  BY DEF FramingInit
<1>6. FramingTypeOK
  BY <1>2, <1>3, <1>4, <1>5 DEF FramingTypeOK, Streams
<1>7. Len(obj.got) = 0 /\ HeadsOf(obj.got) = <<>>
  <2>1. Len(obj.got) = 0
    BY <1>4
  <2> DEFINE got == obj.got
  <2>2. HeadsOf(got) \in Seq(Cells) /\ Len(HeadsOf(got)) = Len(got)
    <3>1. got \in Seq(Streams \X Framed)
      BY <1>4
    <3> HIDE DEF got
    <3>2. QED
      BY <3>1, HeadsAre
  <2>3. QED
    BY <2>1, <2>2
<1>8. \A i \in 1..0 : FALSE
  OBVIOUS
<1>9. \A s : Sent(<<>>, s) /\ On(<<>>, s) /\ AllBefore(<<>>, s) /\ AllBefore(s, <<>>)
  BY DEF Sent, On, AllBefore
<1>10. Ordered(<<>>) /\ Flow(<<>>)
  BY DEF Ordered, Flow
<1>11. SentInv
  BY <1>2, <1>4, <1>7, <1>9 DEF SentInv
<1>12. OrderInv
  BY <1>2, <1>4, <1>7, <1>8, <1>9, <1>10 DEF OrderInv
<1>13. HashInv
  BY <1>7, <1>8 DEF HashInv
<1>14. ASSUME NEW c \in Streams PROVE StreamInv(c)
  <2>1. StreamOf(c) = <<>>
    <3>1. StreamOf(c) = <<>> \o <<>>
      BY <1>2, <1>4 DEF StreamOf, RestOf
    <3>2. <<>> \o <<>> = <<>>
      OBVIOUS
    <3>3. QED
      BY <3>1, <3>2
  <2>2. NumbersOf(c) = {}
    BY <1>7 DEF NumbersOf, Handled
  <2>3. obj.sent[c] = 0 /\ 1..0 = {}
    BY <1>3, <1>4
  <2>4. QED
    BY <1>9, <1>10, <2>1, <2>2, <2>3 DEF StreamInv, Begins, EndsAt
<1>15. GotInv /\ WaitInv
  BY <1>4, <1>7, <1>8 DEF GotInv, WaitInv
<1>16. QED
  BY <1>6, <1>11, <1>12, <1>13, <1>14, <1>15 DEF FramingInv, FlowInv

\* Every step keeps it.
LEMMA FramingInvNext == FramingInv /\ [FramingNext]_mvars => FramingInv'
<1> SUFFICES ASSUME FramingInv, [FramingNext]_mvars PROVE FramingInv'
  OBVIOUS
<1>1. ASSUME NEW c \in Streams, NEW d \in DataCells, generate(c, d) PROVE FramingInv'
  BY <1>1, GenerateKept
<1>2. ASSUME NEW c \in Streams, NEW n \in 1..Len(obj.wire[c]), append(c, n) PROVE FramingInv'
  BY <1>2, AppendKept
<1>3. CASE reconnect
  BY <1>3, ReconnectKept
<1>4. CASE listenTo
  BY <1>4, ListenKept
<1>5. ASSUME getPackage \/ getDsPackage PROVE FramingInv'
  <2>1. class' = class /\ FramingTypeOK
    BY <1>5 DEF getPackage, getDsPackage, FramingInv
  <2>2. Waits \/ Drops \/ Takes
    BY <1>5, <2>1, BusParses, DsParses
  <2>3. QED
    BY <2>1, <2>2, WaitsKept, DropsKept, TakesKept
<1>6. CASE UNCHANGED mvars
  BY <1>6 DEF mvars, FramingInv, FramingTypeOK, SentInv, OrderInv, HashInv, Bus, FlowInv, Clean,
       StreamInv, StreamOf, NumbersOf, Goes, GotInv, WaitInv, At
<1>7. QED
  BY <1>1, <1>2, <1>3, <1>4, <1>5, <1>6 DEF FramingNext

\* So it always holds.
LEMMA FramingInvAlways == FramingSpec => []FramingInv
<1>1. QED
  BY FramingInvInit, FramingInvNext, PTL DEF FramingSpec

-----------------------------------------------------------------------------
\* The packages are handled in the order they were sent.
LEMMA HeadsInOrder ==
  ASSUME FramingInv
  PROVE  InOrder
<1>1. FramingTypeOK /\ OrderInv
  BY DEF FramingInv
<1>2. obj.got \in Seq(Streams \X Framed) /\ HeadsOf(obj.got) \in Seq(Cells)
  BY <1>1, FramingParts
<1>3. DOMAIN obj.got = 1..Len(obj.got)
  BY <1>2
<1>4. /\ Len(HeadsOf(obj.got)) = Len(obj.got)
      /\ \A i \in 1..Len(obj.got) : HeadsOf(obj.got)[i] = obj.got[i][2][1]
  BY <1>2, HeadsAre
<1>5. ASSUME NEW i \in 1..Len(obj.got), NEW j \in 1..Len(obj.got), i < j, ConnOf(i) = ConnOf(j)
      PROVE  NumberOf(i) < NumberOf(j)
  <2>1. Before(obj.got[i][2][1], obj.got[j][2][1])
    BY <1>1, <1>4, <1>5 DEF OrderInv, Ordered
  <2>2. obj.got[i][2][1][3] = 1 /\ obj.got[j][2][1][3] = 1
    BY <1>1 DEF OrderInv
  <2>3. QED
    BY <1>5, <2>1, <2>2 DEF Before, ConnOf, NumberOf
<1>6. QED
  BY <1>3, <1>5 DEF InOrder

\* They are handled whole, and none is left out, until bytes mix.
LEMMA PackagesAreExact ==
  ASSUME FramingInv
  PROVE  PackagesExact
<1> SUFFICES ASSUME Clean
             PROVE  /\ \A i \in DOMAIN obj.got :
                         LET g == obj.got[i] IN
                         g[2] = Package(g[1], g[2][1][2], LengthIn(g[2][1]) - HeaderSize)
                    /\ NoneLeftOut
                    /\ At("poll", "idle") /\ obj.buffer # <<>> =>
                         /\ Place(obj.buffer[1]) = 1
                         /\ obj.kind = "dsServer" \/ Len(obj.buffer) < LengthIn(obj.buffer[1])
  BY HeadsInOrder DEF PackagesExact, Clean
<1>1. FramingTypeOK /\ GotInv /\ WaitInv
  BY DEF FramingInv, FlowInv
<1>2. obj.got \in Seq(Streams \X Framed)
  BY <1>1, FramingParts
<1>3. DOMAIN obj.got = 1..Len(obj.got)
  BY <1>2
<1>4. ASSUME NEW i \in 1..Len(obj.got)
      PROVE  LET g == obj.got[i] IN
             g[2] = Package(g[1], g[2][1][2], LengthIn(g[2][1]) - HeaderSize)
  <2> DEFINE g == obj.got[i]
             p == g[2]
             n == p[1][2]
             l == p[1][4]
  <2>1. g \in Streams \X Framed /\ p \in Seq(Cells) /\ p # <<>>
    BY <1>2, HeadsAre
  <2>2. Len(p) = l /\ \A k \in 1..Len(p) : p[k] = <<g[1], n, k, l>>
    BY <1>1 DEF GotInv, Whole
  <2>3. g[1] \in Streams /\ p[1] \in Cells
    BY <2>1
  <2>4. n \in 1..MaxPackages /\ l \in Lengths
    BY <2>3, CellIs
  <2>5. l - HeaderSize \in DataCells /\ HeaderSize + (l - HeaderSize) = l
    BY <2>4, LengthsAre DEF HeaderSize
  <2> DEFINE c == g[1]
             d == l - HeaderSize
  <2>6. c \in Streams /\ d \in DataCells /\ HeaderSize + d = l
    BY <2>3, <2>5
  <2> HIDE DEF n, l, p, d, c
  <2>7. /\ Package(c, n, d) \in Seq(Cells) /\ Len(Package(c, n, d)) = l
        /\ \A k \in 1..l : Package(c, n, d)[k] = <<c, n, k, l>>
    BY <2>4, <2>6, PackageIs
  <2>8. p = Package(c, n, d)
    <3> DEFINE P == Package(c, n, d)
    <3>1. p \in Seq(Cells) /\ P \in Seq(Cells) /\ Len(p) = Len(P)
      BY <2>1, <2>2, <2>7
    <3>2. \A k \in 1..Len(p) : p[k] = P[k]
      BY <2>2, <2>7 DEF c
    <3> HIDE DEF P
    <3>3. p = P
      BY <3>1, <3>2, SeqEqual
    <3>4. QED
      BY <3>3 DEF P
  <2>9. QED
    BY <2>8 DEF p, n, l, c, d, LengthIn
<1>5. NoneLeftOut
  <2>1. SUFFICES ASSUME NEW j \in 1..Len(obj.got), NEW n \in 1..NumberOf(j) - 1
                 PROVE  \E i \in 1..Len(obj.got) : ConnOf(i) = ConnOf(j) /\ NumberOf(i) = n
    BY <1>3 DEF NoneLeftOut
  <2>2. n \in NumbersOf(ConnOf(j))
    BY <1>1 DEF GotInv, ConnOf, NumberOf
  <2>3. /\ Len(HeadsOf(obj.got)) = Len(obj.got)
        /\ \A i \in 1..Len(obj.got) : HeadsOf(obj.got)[i] = obj.got[i][2][1]
    BY <1>2, HeadsAre
  <2>4. \E i \in 1..Len(HeadsOf(obj.got)) :
          HeadsOf(obj.got)[i][1] = ConnOf(j) /\ HeadsOf(obj.got)[i][2] = n
    BY <2>2 DEF NumbersOf, Handled
  <2>5. QED
    BY <2>3, <2>4 DEF ConnOf, NumberOf
<1>6. obj.buffer # <<>> => Place(obj.buffer[1]) = 1
  BY BufferBegins DEF Place
<1>7. QED
  BY <1>1, <1>3, <1>4, <1>5, <1>6 DEF WaitInv

\* DataService finds whole packages again.
LEMMA AreFoundAgain ==
  ASSUME FramingInv
  PROVE  FoundAgain
<1> SUFFICES ASSUME ~Bus
             PROVE  \A i \in DOMAIN obj.got :
                      LET p == obj.got[i][2]
                      IN Tail(p) = Tail(Package(p[2][1], p[2][2], LengthIn(p[2]) - HeaderSize))
  BY HeadsInOrder DEF FoundAgain
<1>1. FramingTypeOK /\ HashInv
  BY DEF FramingInv
<1>2. obj.got \in Seq(Streams \X Framed)
  BY <1>1, FramingParts
<1>3. DOMAIN obj.got = 1..Len(obj.got)
  BY <1>2
<1>4. ASSUME NEW i \in 1..Len(obj.got)
      PROVE  LET p == obj.got[i][2]
             IN Tail(p) = Tail(Package(p[2][1], p[2][2], LengthIn(p[2]) - HeaderSize))
  <2> DEFINE p == obj.got[i][2]
             c == p[2][1]
             n == p[2][2]
             l == p[2][4]
             d == l - HeaderSize
  <2>1. p \in Seq(Cells) /\ p # <<>>
    BY <1>2, HeadsAre
  <2>2. Len(p) >= 2 /\ Len(p) = l /\ \A k \in 2..Len(p) : p[k] = <<c, n, k, l>>
    BY <1>1 DEF HashInv, Hashed, LengthIn, HeaderSize
  <2>3. p[2] \in Cells
    <3>1. 2 \in 1..Len(p)
      <4>1. Len(p) \in Nat
        BY <2>1
      <4>2. QED
        BY <2>2, <4>1
    <3>2. QED
      BY <2>1, <3>1
  <2>4. c \in Streams /\ n \in 1..MaxPackages /\ l \in Lengths
    BY <2>3, CellIs
  <2>5. d \in DataCells /\ HeaderSize + d = l /\ l \in Nat /\ l >= 2
    BY <2>4, LengthsAre DEF HeaderSize
  <2> HIDE DEF p, c, n, l, d
  <2> DEFINE P == Package(c, n, d)
  <2>6. P \in Seq(Cells) /\ Len(P) = l /\ \A k \in 1..l : P[k] = <<c, n, k, l>>
    BY <2>4, <2>5, PackageIs
  <2> HIDE DEF P
  <2>7. P # <<>>
    BY <2>5, <2>6
  <2>8. /\ Tail(p) \in Seq(Cells) /\ Len(Tail(p)) = l - 1
        /\ \A k \in 1..Len(Tail(p)) : Tail(p)[k] = p[k + 1]
    <3>1. Len(p) = l
      BY <2>2
    <3>2. QED
      BY <2>1, <3>1, HeadTailProperties
  <2>9. /\ Tail(P) \in Seq(Cells) /\ Len(Tail(P)) = l - 1
        /\ \A k \in 1..Len(Tail(P)) : Tail(P)[k] = P[k + 1]
    <3>1. Len(P) = l /\ P \in Seq(Cells)
      BY <2>6
    <3>2. QED
      BY <2>7, <3>1, HeadTailProperties
  <2>10. ASSUME NEW k \in 1..l - 1 PROVE Tail(p)[k] = Tail(P)[k]
    <3>1. k + 1 \in 2..l /\ k + 1 \in 1..l
      BY <2>5
    <3>2. p[k + 1] = <<c, n, k + 1, l>>
      BY <2>2, <3>1
    <3>3. P[k + 1] = <<c, n, k + 1, l>>
      BY <2>6, <3>1
    <3>4. QED
      BY <2>8, <2>9, <3>2, <3>3
  <2>11. Tail(p) = Tail(P)
    BY <2>8, <2>9, <2>10, SeqEqual
  <2>12. QED
    BY <2>11 DEF P, p, c, n, l, d, LengthIn
<1>5. QED
  BY <1>3, <1>4

(* However a stream of packages is cut into reads, each helper gives the    *)
(* ones that were sent, whole, in order and none left out, and leaves none  *)
(* that is complete, until the bytes of two connections are mixed; and a    *)
(* DataService finds its way back to whole packages after that.             *)
THEOREM FramingExactAlways == FramingSpec => []FramingExact
<1>1. FramingInv => FramingExact
  BY PackagesAreExact, AreFoundAgain DEF FramingExact
<1>2. QED
  BY <1>1, FramingInvAlways, PTL
=============================================================================
