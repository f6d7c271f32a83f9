---------------------------- MODULE MCNbdSession ----------------------------
(* Small instances of NbdSession.                                           *)
EXTENDS NbdSession

CONSTANT command

\* The export of the commands; with a query it is like that of a file.
MCExported == <<[name |-> "api", p |-> command]>>
=============================================================================
