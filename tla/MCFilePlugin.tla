----------------------------- MODULE MCFilePlugin -----------------------------
(* Instances of FilePlugin for TLC. *)
EXTENDS FilePlugin
===============================================================================
