----------------------------- MODULE Connections -----------------------------
(* The connections of clients to a server on Linux, each made at most once.   *)

CONSTANT Conns

\* What a slot, a descriptor or a thread has when it has no connection.
None == "none"
ASSUME ConnsAssumption == None \notin Conns
==============================================================================
