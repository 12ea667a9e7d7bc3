------------------------------ MODULE MCBusClient ------------------------------
(* A client with two handlers, started twice at most. *)
EXTENDS BusClient

CONSTANTS m1, m2

MCMsgIds == {m1, m2}
=============================================================================
