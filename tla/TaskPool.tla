------------------------------- MODULE TaskPool -------------------------------
(***************************************************************************)
(* What ThreadPool promises to its users, without threads or locks: a task *)
(* handed to exec() is refused or accepted, an accepted task is run        *)
(* exactly once, at most MaxSize tasks are in hand at any time, and the    *)
(* pool closes (its destructor gets past its polling loop) only when       *)
(* nothing is in hand.  ThreadPool!Abstract is the refinement.             *)
(***************************************************************************)
EXTENDS Naturals, FiniteSets

CONSTANTS Tasks,    \* the runnables users may submit
          MaxSize   \* ThreadPool::m_maxSize

VARIABLES phase,    \* phase[t]: how far task t has come
          closed    \* the destructor has passed its polling loop

vars == <<phase, closed>>

InHand == {t \in Tasks : phase[t] \in {"accepted", "running"}}

Init == /\ phase = [t \in Tasks |-> "new"]
        /\ closed = FALSE

Become(t, from, to) == /\ phase[t] = from
                       /\ phase' = [phase EXCEPT ![t] = to]
                       /\ UNCHANGED closed

Submit(t) == ~closed /\ Become(t, "new", "waiting")
Accept(t) == Cardinality(InHand) < MaxSize /\ Become(t, "waiting", "accepted")
Refuse(t) == Become(t, "waiting", "refused")
Start(t)  == Become(t, "accepted", "running")
Finish(t) == Become(t, "running", "done")

Close == /\ ~closed
         /\ \A t \in Tasks : phase[t] \in {"new", "done", "refused"}
         /\ closed' = TRUE
         /\ UNCHANGED phase

Next == \/ \E t \in Tasks : \/ Submit(t) \/ Accept(t) \/ Refuse(t)
                            \/ Start(t)  \/ Finish(t)
        \/ Close

Spec == Init /\ [][Next]_vars

\* An accepted task is started, and a started one ends.
FairSpec == Spec /\ \A t \in Tasks : WF_vars(Start(t)) /\ WF_vars(Finish(t))
=============================================================================
