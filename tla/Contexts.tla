------------------------------ MODULE Contexts ------------------------------
(***************************************************************************)
(* The pool of contexts (src/contexts.c): a static array, filled from the  *)
(* front and never given back.  The other parts of the library share it:   *)
(* plugins put their exports in it, the NBD server takes one per client,   *)
(* and every lookup of an export searches it.                              *)
(***************************************************************************)
EXTENDS Integers

CONSTANTS
    MaxContexts,  \* MAX_CONTEXTS
    Names,        \* names of exports
    Drivers,      \* the plugins there are
    NoDriver      \* a NULL plugin pointer

ASSUME MaxContextsAssumption == MaxContexts \in Nat
ASSUME NoDriverAssumption == NoDriver \notin Drivers

VARIABLES
    contexts,         \* index -> [name, p]
    contexts_status   \* index -> "FREE" or "CREATED"

Index == 0 .. MaxContexts - 1
NULL == -1
Blank == [name |-> "", p |-> NoDriver]

ContextsInit ==
    /\ contexts = [i \in Index |-> Blank]
    /\ contexts_status = [i \in Index |-> "FREE"]

\* The first free slot of a table of n slots, or n.
FirstFree(status, n) ==
    CHOOSE i \in 0 .. n :
        /\ i < n => status[i] = "FREE"
        /\ \A j \in 0 .. n - 1 : j < i => status[j] # "FREE"

lwnbd_contexts_count == FirstFree(contexts_status, MaxContexts)

\* No slot to have: lwnbd_new_context returns NULL.
PoolFull == lwnbd_contexts_count = MaxContexts

\* lwnbd_new_context, when there is a slot to have.
Take(i, c) ==
    /\ contexts' = [contexts EXCEPT ![i] = c]
    /\ contexts_status' = [contexts_status EXCEPT ![i] = "CREATED"]

\* The first context of that name.
Matches(name) == {i \in Index : i < lwnbd_contexts_count /\ contexts[i].name = name}
lwnbd_get_context_string_LastMatch(name) ==  \* mutant: no return inside the loop
    IF Matches(name) = {} THEN NULL
    ELSE CHOOSE i \in Matches(name) : \A j \in Matches(name) : j <= i
lwnbd_get_context_string(name) ==
    IF Matches(name) = {} THEN NULL
    ELSE CHOOSE i \in Matches(name) : \A j \in Matches(name) : i <= j

\* A table without holes: the slots in use come first.
Packed(status, n) ==
    \A i, j \in 0 .. n - 1 : i < j /\ status[j] # "FREE" => status[i] # "FREE"

\* "since we don't have hole" (contexts.c 118): the count, which stops at the first
\* free slot, counts every context.
NoHole == Packed(contexts_status, MaxContexts)
=============================================================================
