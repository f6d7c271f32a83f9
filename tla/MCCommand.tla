------------------------------- MODULE MCCommand -------------------------------
(* Instances of Command for TLC: a command that prints, one that prints nothing, *)
(* a POST command, and a second one of a name already taken.                     *)
EXTENDS Command, TLC

Four == {[name |-> "lc", type |-> "GET", size |-> 2],
         [name |-> "nop", type |-> "GET", size |-> 0],
         [name |-> "wc", type |-> "POST", size |-> 0],
         [name |-> "lc", type |-> "POST", size |-> 0]}

\* Clients are interchangeable.
Perms == Permutations(Clients)
================================================================================
