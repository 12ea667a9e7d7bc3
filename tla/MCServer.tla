------------------------------- MODULE MCServer -------------------------------
(* The framing of packages, the bus server and the promises of both clients:*)
(* a behaviour is about one of them.                                        *)
EXTENDS BusPromise, Framing, BusServer, DsPromise

CONSTANTS r1, r2

MCRequesters == {r1, r2}

PromiseInit == class = "busPromise" /\ pc = <<>> /\ obj = <<>>

MCServerInit == Init /\ (PromiseInit \/ FramingInit \/ ServerInit \/ DsInit)
MCServerNext ==
  \/ class = "busPromise" /\ Next /\ UNCHANGED mvars
  \/ FramingNext /\ UNCHANGED vars
  \/ ServerNext /\ UNCHANGED vars
  \/ DsNext /\ UNCHANGED vars
MCServerSpec == MCServerInit /\ [][MCServerNext]_<<vars, mvars>> /\ ServerFairness

(* A stop() of the server comes back, and a client's request is answered,   *)
(* but for what the code loses.                                             *)
RequestsAnswered == \A n \in 1..MaxRequests : Answered(n)
CallsEnd == ServerStops /\ RequestsAnswered
=============================================================================
