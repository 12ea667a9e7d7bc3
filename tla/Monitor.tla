------------------------------- MODULE Monitor -------------------------------
(***************************************************************************)
(* What the modules about the library's small concurrent classes share.    *)
(* The classes do not call each other, so a behaviour is about one of them:*)
(* `class` names it, `obj` holds its members and what its callers remember,*)
(* `pc` says where in the code each of its threads is.  An action is what  *)
(* happens between two points where another thread may run: under one hold *)
(* of a mutex, or one access of an atomic.                                 *)
(***************************************************************************)
EXTENDS Integers, Sequences, FiniteSets

VARIABLES class, pc, obj

mvars == <<class, pc, obj>>

At(t, l) == t \in DOMAIN pc /\ pc[t] = l
Go(t, l) == pc' = [pc EXCEPT ![t] = l]
Stay == UNCHANGED <<class, pc>>

Min2(a, b) == IF a < b THEN a ELSE b

(* A call that is not under way: the caller has not begun it or is back.    *)
Rest == {"idle", "done"}
Callers == {"u1", "u2", "u3"}
InCall(t) == t \in DOMAIN pc /\ pc[t] \notin Rest
=============================================================================
