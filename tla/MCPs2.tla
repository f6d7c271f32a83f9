------------------------------- MODULE MCPs2 -------------------------------
(* Instances of Ps2 for TLC: the two servers of the repository, sifrpc as it *)
(* is and with .new, and a server with every callback.                       *)
EXTENDS Ps2

sifrpc_with_new == [sifrpc_server EXCEPT !.has = @ \cup {"new"}]
full == [name |-> "full", has |-> Callbacks]

MCKinds == {nbd_server, sifrpc_server, sifrpc_with_new, full}
MCSifrpc == {sifrpc_server, sifrpc_with_new}
MCOptions == {{"ATAD", "NET", "PCMSTREAM", "MCMAN", "MEMORY"}, {"NET", "TTY"}, {"BDM"}}
=============================================================================
