------------------------------ MODULE BusPromise ------------------------------
(***************************************************************************)
(* Requests and answers of a MessageBusClient (MessageBus.cpp): req() puts *)
(* a PkgPromise into m_pkgId2Promise and sends the package, get() waits    *)
(* for a while, ~PkgPromise takes the entry out, and handleRsp, in the     *)
(* poll thread, finds the promise of an answer and sets it.  A request     *)
(* with target 0 goes to every client registered for it, so an id may be   *)
(* answered more than once; an answer may also be late, or never come.     *)
(*                                                                         *)
(* A promise is named by the id of its package.  Two mutexes are modelled, *)
(* m_mutexPkgId2Promise and each promise's own: ~PkgPromise takes the own  *)
(* one first and handleRsp the other first.                                *)
(***************************************************************************)
EXTENDS Integers, FiniteSets

CONSTANTS
  Requesters,   \* the threads that call req()
  MaxIds,       \* bound: packages made
  Answers       \* bound: answers that come for one id

ASSUME PromiseAssumption ==
  /\ MaxIds \in Nat /\ Answers \in Nat
  /\ IsFiniteSet(Requesters)

Poll == "poll"   \* the poll thread, as an owner of a mutex
None == "none"
Ids == 1 .. MaxIds

ASSUME PollAssumption == Poll \notin Requesters /\ None \notin Requesters

VARIABLES
  rpc,               \* a requester: "idle", "get", "destroy" or "remove"
  held,             \* the id of its promise, while it has one
  g_id,             \* the last id
  m_pkgId2Promise,  \* the ids with an entry
  alive,            \* the ids whose promise object exists
  value,            \* the ids whose promise was set
  answered,         \* the number of answers that came for an id
  mapOwner,         \* who holds m_mutexPkgId2Promise,
  owner,            \* and a promise's own mutex
  hpc, hid          \* the poll thread in handleRsp, and the id it found

vars == <<rpc, held, g_id, m_pkgId2Promise, alive, value, answered, mapOwner, owner, hpc, hid>>

Init ==
  /\ rpc = [r \in Requesters |-> "idle"] /\ held = [r \in Requesters |-> 0]
  /\ g_id = 0 /\ m_pkgId2Promise = {} /\ alive = {} /\ value = {}
  /\ answered = [i \in Ids |-> 0]
  /\ mapOwner = None /\ owner = [i \in Ids |-> None]
  /\ hpc = "wait" /\ hid = 0

-----------------------------------------------------------------------------
\* The requesters.

\* req(): the package gets its id; promise, entry and sending are one critical
\* section of the map's mutex.
req(r) ==
  /\ rpc[r] = "idle" /\ g_id < MaxIds
  /\ mapOwner = None
  /\ g_id' = g_id + 1
  /\ held' = [held EXCEPT ![r] = g_id']
  /\ alive' = alive \cup {g_id'}
  /\ m_pkgId2Promise' = m_pkgId2Promise \cup {g_id'}
  /\ rpc' = [rpc EXCEPT ![r] = "get"]
  /\ UNCHANGED <<value, answered, mapOwner, owner, hpc, hid>>

\* get() comes back with the answer, or with nullptr after its time; either way
\* the caller lets go of the promise.
get(r) ==
  /\ rpc[r] = "get"
  /\ rpc' = [rpc EXCEPT ![r] = "destroy"]
  /\ UNCHANGED <<held, g_id, m_pkgId2Promise, alive, value, answered, mapOwner, owner, hpc, hid>>

\* ~PkgPromise: its own mutex is taken,
Destroy(r) ==
  /\ rpc[r] = "destroy"
  /\ owner[held[r]] = None
  /\ owner' = [owner EXCEPT ![held[r]] = r]
  /\ rpc' = [rpc EXCEPT ![r] = "remove"]
  /\ UNCHANGED <<held, g_id, m_pkgId2Promise, alive, value, answered, mapOwner, hpc, hid>>

\* and under it removePromise() takes the map's.
removePromise(r) ==
  /\ rpc[r] = "remove"
  /\ mapOwner = None
  /\ m_pkgId2Promise' = m_pkgId2Promise \ {held[r]}
  /\ owner' = [owner EXCEPT ![held[r]] = None]
  /\ alive' = alive \ {held[r]}
  /\ held' = [held EXCEPT ![r] = 0]
  /\ rpc' = [rpc EXCEPT ![r] = "idle"]
  /\ UNCHANGED <<g_id, value, answered, mapOwner, hpc, hid>>

-----------------------------------------------------------------------------
\* The poll thread.

\* Defect: the map's mutex is given back with the promise in hand, which would
\* mend the order of the two mutexes.
handleRspUnlocked(i) ==
  /\ hpc = "wait"
  /\ i <= g_id /\ answered[i] < Answers
  /\ mapOwner = None
  /\ answered' = [answered EXCEPT ![i] = @ + 1]
  /\ IF i \in m_pkgId2Promise THEN hpc' = "set" /\ hid' = i ELSE UNCHANGED <<hpc, hid>>
  /\ UNCHANGED <<rpc, held, g_id, m_pkgId2Promise, alive, value, mapOwner, owner>>

\* handleRsp() for an answer to i: with no entry it is dropped, else the map's
\* mutex stays with the poll thread.
handleRsp(i) ==
  /\ hpc = "wait"
  /\ i <= g_id /\ answered[i] < Answers
  /\ mapOwner = None
  /\ answered' = [answered EXCEPT ![i] = @ + 1]
  /\ IF i \in m_pkgId2Promise
       THEN hpc' = "set" /\ hid' = i /\ mapOwner' = Poll
       ELSE UNCHANGED <<hpc, hid, mapOwner>>
  /\ UNCHANGED <<rpc, held, g_id, m_pkgId2Promise, alive, value, owner>>

\* PkgPromise::set, under the promise's own mutex; the one in get() wakes up.
set ==
  /\ hpc = "set"
  /\ owner[hid] = None
  /\ value' = value \cup {hid}
  /\ hpc' = "erase"
  /\ UNCHANGED <<rpc, held, g_id, m_pkgId2Promise, alive, answered, mapOwner, owner, hid>>

\* Defect: the entry is left to ~PkgPromise.
EraseNothing ==
  /\ hpc = "erase"
  /\ mapOwner' = None
  /\ hpc' = "wait" /\ hid' = 0
  /\ UNCHANGED <<rpc, held, g_id, m_pkgId2Promise, alive, value, answered, owner>>

\* The entry is erased and the map's mutex given back.
Erase ==
  /\ hpc = "erase"
  /\ m_pkgId2Promise' = m_pkgId2Promise \ {hid}
  /\ mapOwner' = None
  /\ hpc' = "wait" /\ hid' = 0
  /\ UNCHANGED <<rpc, held, g_id, alive, value, answered, owner>>

Requester(r) == req(r) \/ get(r) \/ Destroy(r) \/ removePromise(r)

Next == \/ \E r \in Requesters : Requester(r)
        \/ \E i \in Ids : handleRsp(i)
        \/ set \/ Erase

Spec == Init /\ [][Next]_vars

\* Every thread goes on when it can; answers need not come.
FairSpec ==
  /\ Spec
  /\ \A r \in Requesters : SF_vars(get(r) \/ Destroy(r) \/ removePromise(r))
  /\ WF_vars(set \/ Erase)
-----------------------------------------------------------------------------
TypeOK ==
  /\ rpc \in [Requesters -> {"idle", "get", "destroy", "remove"}]
  /\ held \in [Requesters -> alive \cup {0}]
  /\ g_id \in 0 .. MaxIds
  /\ m_pkgId2Promise \subseteq Ids /\ alive \subseteq Ids /\ value \subseteq Ids
  /\ answered \in [Ids -> 0 .. Answers]
  /\ mapOwner \in {Poll, None} /\ owner \in [Ids -> Requesters \cup {None}]
  /\ hpc \in {"wait", "set", "erase"} /\ hid \in 0 .. MaxIds

\* The map holds plain pointers: none of them, nor the one in the poll thread's
\* hand, outlives its promise, whenever that is let go of.
NoDangling ==
  /\ m_pkgId2Promise \subseteq alive
  /\ hpc = "set" => hid \in alive

\* A promise is set once, for however many answers: std::promise throws at a
\* second set_value(), in the poll thread.
SetOnce == hpc = "set" => hid \notin value

\* A promise that was let go of leaves no entry behind, and an entry is not
\* lost while its promise waits: only the answer or the owner takes it out.
EntriesExact ==
  hpc = "wait" => m_pkgId2Promise = alive \ value

\* A request comes to its end, by the answer or by the time.
RequestEnds == \A r \in Requesters : rpc[r] # "idle" ~> rpc[r] = "idle"
=============================================================================
