------------------------- MODULE MCNbdTransmission -------------------------
(* Small instances of NbdTransmission.                                      *)
EXTENDS NbdTransmission

\* An export of four blocks of two bytes and an odd byte, a buffer of two blocks.
\* A READ and a WRITE of more than one buffer that end with the export, ones that
\* pass its end, empty ones, ones that are not block aligned, one whose end wraps
\* around, and the commands without data.
MCRequests ==
    [type : {"READ"}, offset : {2}, count : {0, 6, 7}]
    \cup [type : {"READ"}, offset : {1}, count : {3}]
    \cup [type : {"WRITE"}, offset : {0}, count : {0, 6}]
    \cup [type : {"WRITE"}, offset : {2}, count : {3, 8}]
    \cup [type : {"READ", "WRITE"}, offset : {30}, count : {4}]
    \cup [type : {"DISC", "FLUSH", "OTHER"}, offset : {0}, count : {0}]

\* The requests without data besides one READ and one WRITE.
FewRequests ==
    [type : {"READ", "WRITE"}, offset : {0}, count : {6}]
    \cup [type : {"DISC", "FLUSH"}, offset : {0}, count : {0}]
=============================================================================
