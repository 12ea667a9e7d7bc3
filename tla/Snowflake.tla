------------------------------- MODULE Snowflake -------------------------------
(***************************************************************************)
(* ff::Snowflake (ff/src/random/Snowflake.cpp): one generator of ids per   *)
(* machine id, each on a host with a clock of its own that may be set      *)
(* back.  gen() holds the generator's mutex to its end, so it is one       *)
(* action, but for the millisecond whose sequence is used up: there it     *)
(* spins on the clock with the mutex held.  Every other call waits.        *)
(***************************************************************************)
EXTENDS Integers, Sequences

CONSTANTS
  Machines,      \* the machine ids in use (datacenter and worker id together)
  MachineRange,  \* 2^10, the machine ids an id has room for
  SeqRange,      \* 2^12 = MaxSequenceID + 1
  Word,          \* 2^64
  MaxClock,      \* bound: the last millisecond, counted from StartTimeStamp
  MaxBack        \* bound: how often a clock is set back

\* The constructors refuse larger machine ids; the ids of all milliseconds up
\* to MaxClock fit into 64 bits (in the code until the year 2161).
ASSUME IdAssumption ==
  /\ MachineRange \in Nat \ {0} /\ SeqRange \in Nat \ {0} /\ Word \in Nat \ {0}
  /\ MaxClock \in Nat /\ MaxBack \in Nat
  /\ Machines \subseteq 0 .. (MachineRange - 1)
  /\ (MaxClock + 1) * (MachineRange * SeqRange) <= Word

VARIABLES
  clock,            \* Timestamp::Now() on the machine's host
  m_lastTimestamp, m_sequence,
  spinning,         \* gen() is in ToNextMs and holds m_mutex
  backs,            \* how often the clock was set back
  issued            \* the ids gen() returned, in the order it made them

vars == <<clock, m_lastTimestamp, m_sequence, spinning, backs, issued>>

Times == 0 .. MaxClock
SequenceIds == 0 .. (SeqRange - 1)

\* Defect: the sequence runs into the bits of the machine.
PackOverlapping(m, stamp, s) ==
  (stamp * (MachineRange * SeqRange) + m * (SeqRange - 1) + s) % Word

\* The three fields side by side, in 64 bits.
Pack(m, stamp, s) ==
  (stamp * (MachineRange * SeqRange) + m * SeqRange + s) % Word

Init ==
  /\ clock \in [Machines -> Times]
  /\ m_lastTimestamp = clock
  /\ m_sequence = [m \in Machines |-> 0]
  /\ spinning = [m \in Machines |-> FALSE]
  /\ backs = [m \in Machines |-> 0]
  /\ issued = [m \in Machines |-> <<>>]

\* The end of gen(): the time stamp is kept, the id returned.
Issue(m, stamp, s) ==
  /\ m_lastTimestamp' = [m_lastTimestamp EXCEPT ![m] = stamp]
  /\ m_sequence' = [m_sequence EXCEPT ![m] = s]
  /\ issued' = [issued EXCEPT ![m] = Append(@, Pack(m, stamp, s))]

\* Defect: a clock set back is not noticed.
GenNewMsUnchecked(m) ==
  /\ ~spinning[m]
  /\ clock[m] # m_lastTimestamp[m]
  /\ Issue(m, clock[m], 0)
  /\ UNCHANGED <<clock, spinning, backs>>

\* The first id of a millisecond.  Before m_lastTimestamp gen() throws and
\* changes nothing.
GenNewMs(m) ==
  /\ ~spinning[m]
  /\ clock[m] > m_lastTimestamp[m]
  /\ Issue(m, clock[m], 0)
  /\ UNCHANGED <<clock, spinning, backs>>

\* Another id of the same millisecond.
GenSameMs(m) ==
  /\ ~spinning[m]
  /\ clock[m] = m_lastTimestamp[m]
  /\ m_sequence[m] + 1 < SeqRange
  /\ Issue(m, clock[m], m_sequence[m] + 1)
  /\ UNCHANGED <<clock, spinning, backs>>

\* The sequence wraps: ToNextMs begins (a bound: not in the last millisecond).
GenWrap(m) ==
  /\ ~spinning[m]
  /\ clock[m] = m_lastTimestamp[m]
  /\ m_sequence[m] + 1 >= SeqRange
  /\ clock[m] < MaxClock
  /\ m_sequence' = [m_sequence EXCEPT ![m] = 0]
  /\ spinning' = [spinning EXCEPT ![m] = TRUE]
  /\ UNCHANGED <<clock, m_lastTimestamp, backs, issued>>

\* Defect: the loop waits for one millisecond, which the clock may skip.
ToNextMsExactly(m) ==
  /\ spinning[m]
  /\ clock[m] = m_lastTimestamp[m] + 1
  /\ Issue(m, clock[m], 0)
  /\ spinning' = [spinning EXCEPT ![m] = FALSE]
  /\ UNCHANGED <<clock, backs>>

\* The loop reads a later clock: gen() returns the first id of that millisecond.
\* It was entered with currTemp = m_lastTimestamp.
ToNextMs(m) ==
  /\ spinning[m]
  /\ clock[m] > m_lastTimestamp[m]
  /\ Issue(m, clock[m], 0)
  /\ spinning' = [spinning EXCEPT ![m] = FALSE]
  /\ UNCHANGED <<clock, backs>>

\* The object is destroyed and a new one made with the machine's id.  The new
\* one knows nothing of the ids in use: its user must come in a later
\* millisecond (Restart's third conjunct) or hand over m_lastTimestamp and
\* m_sequence, read after the last gen(), with the other constructor, which
\* leaves the state as it is.
Restart(m) ==
  /\ ~spinning[m]
  /\ clock[m] > m_lastTimestamp[m]
  /\ m_lastTimestamp' = [m_lastTimestamp EXCEPT ![m] = clock[m]]
  /\ m_sequence' = [m_sequence EXCEPT ![m] = 0]
  /\ UNCHANGED <<clock, spinning, backs, issued>>

\* Time goes by, a millisecond or more between two looks at it.
Tick(m) == /\ \E t \in Times : t > clock[m] /\ clock' = [clock EXCEPT ![m] = t]
           /\ UNCHANGED <<m_lastTimestamp, m_sequence, spinning, backs, issued>>

SetBack(m) ==
  /\ backs[m] < MaxBack
  /\ \E t \in Times : t < clock[m] /\ clock' = [clock EXCEPT ![m] = t]
  /\ backs' = [backs EXCEPT ![m] = @ + 1]
  /\ UNCHANGED <<m_lastTimestamp, m_sequence, spinning, issued>>

Next == \E m \in Machines :
          \/ GenNewMs(m) \/ GenSameMs(m) \/ GenWrap(m) \/ ToNextMs(m)
          \/ Restart(m) \/ Tick(m) \/ SetBack(m)

Spec == Init /\ [][Next]_vars

\* The clock goes on, and a spinning thread runs.
FairSpec == Spec /\ \A m \in Machines : WF_vars(Tick(m)) /\ WF_vars(ToNextMs(m))
-----------------------------------------------------------------------------
TypeOK ==
  /\ clock \in [Machines -> Times]
  /\ m_lastTimestamp \in [Machines -> Times]
  /\ m_sequence \in [Machines -> SequenceIds]
  /\ spinning \in [Machines -> BOOLEAN]
  /\ backs \in [Machines -> 0 .. MaxBack]
  /\ issued \in [Machines -> Seq(0 .. (Word - 1))]

\* Each id of a generator is greater than all it made before: through used-up
\* milliseconds, clocks set back and restarts (Snowflake_test.cpp asks it of
\* one run without any of them).
IdsIncrease ==
  \A m \in Machines : \A i, j \in DOMAIN issued[m] :
    i < j => issued[m][i] < issued[m][j]

\* Two machines never make the same id, whatever their clocks say.
IdsDistinct ==
  \A m, n \in Machines : m # n =>
    \A i \in DOMAIN issued[m], j \in DOMAIN issued[n] : issued[m][i] # issued[n][j]

\* A thread in ToNextMs, and all that wait for its mutex, go on some time,
\* although the clock may skip milliseconds and be set back meanwhile.
GenReturns == \A m \in Machines : spinning[m] ~> ~spinning[m]
=============================================================================
