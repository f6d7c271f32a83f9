------------------------------- MODULE Servers -------------------------------
(***************************************************************************)
(* The table of servers (src/servers.c): lwnbd_server_init, _config, _new, *)
(* _run and _stop, called by an application in any order with the handles  *)
(* it got, and what they call in a server: the pool of handles and the     *)
(* settings of the NBD server (servers/nbd/nbd.c).                         *)
(***************************************************************************)
EXTENDS Integers, FiniteSets

CONSTANTS
    MAX_NUM_SERVERS,
    NBD_SERVER_MAX_DEVICES,
    Kinds,                 \* servers to register: [name, new, config, ctor, run, stop]
    MaxRuns                \* bound on the runs of one server at a time

Callbacks == {"new", "config", "ctor", "run", "stop"}

\* The servers of the repository; the one that answers remote calls lacks .new.
nbd_server == [name |-> "nbd", has |-> {"new", "config", "ctor", "run"}]
sifrpc_server == [name |-> "sifrpc", has |-> {"ctor", "stop"}]

ASSUME LimitsAssumption ==
    /\ MAX_NUM_SERVERS \in Nat \ {0} /\ NBD_SERVER_MAX_DEVICES \in Nat /\ MaxRuns \in Nat
ASSUME KindsAssumption == \A k \in Kinds : k.has \subseteq Callbacks

\* One server calls itself "nbd", and it has a handle for every slot: there are two
\* slots (lwnbd-common.h 125) and three handles (nbd.c 16).
ASSUME NbdAssumption ==
    /\ MAX_NUM_SERVERS <= NBD_SERVER_MAX_DEVICES
    /\ \A k \in Kinds : k.name = "nbd" => k = nbd_server

VARIABLES
    servers_status,        \* slot -> state
    servers,               \* slot -> [s, handle]
    handle_in_use,         \* handles of the NBD server that are taken
    settings,              \* handle of the NBD server -> options that are set
    running,               \* slot -> calls of run under way
    crash,
    \* History
    held,                  \* slots the application was given and has not stopped
    failed                 \* it was also given the value of a failure

vars == <<servers_status, servers, handle_in_use, settings, running, crash, held, failed>>

Slots == 0 .. MAX_NUM_SERVERS - 1
Null == [name |-> "null", has |-> {}]
Own == -1                 \* the one static handle of a server without a pool
NbdHandles == 0 .. NBD_SERVER_MAX_DEVICES   \* the last one is behind the array

ServersInit ==
    /\ servers_status = [i \in Slots |-> "FREE"]
    /\ servers = [i \in Slots |-> [s |-> Null, handle |-> Own]]
    /\ handle_in_use = {}
    /\ settings = [h \in NbdHandles |-> {}]
    /\ running = [i \in Slots |-> 0]
    /\ crash = "none"
    /\ held = {} /\ failed = FALSE

FreeSlots == {i \in Slots : servers_status[i] = "FREE"}
FirstOf(S) == CHOOSE i \in S : \A j \in S : i <= j

FreeHandles == {h \in NbdHandles \ {NBD_SERVER_MAX_DEVICES} : h \notin handle_in_use}
nbd_new_Reuse ==  \* mutant: the handle is not marked
    0
nbd_new == IF FreeHandles = {} THEN NBD_SERVER_MAX_DEVICES ELSE FirstOf(FreeHandles)

-----------------------------------------------------------------------------
(* lwnbd_server_init.                                                        *)

Refused(k) == FreeSlots = {} \/ "new" \notin k.has

\* The registration function may fail too.
InitFails(k) ==
    /\ failed' = TRUE
    /\ UNCHANGED <<servers_status, servers, handle_in_use, settings, running, crash, held>>

InitSlot_Zero == 0  \* mutant: the loop variable is not used
InitSlot == FirstOf(FreeSlots)

InitSucceeds(k) ==
    /\ ~Refused(k)
    /\ LET i == InitSlot
           h == IF k.name = "nbd" THEN nbd_new ELSE Own
       IN /\ servers' = [servers EXCEPT ![i] = [s |-> k, handle |-> h]]
          /\ servers_status' = [servers_status EXCEPT ![i] = "STOPPED"]
          /\ handle_in_use' = IF k.name = "nbd" THEN handle_in_use \cup {h} ELSE handle_in_use
          /\ held' = held \cup {i}
    /\ UNCHANGED <<settings, running, crash, failed>>

lwnbd_server_init(k) == crash = "none" /\ (InitFails(k) \/ InitSucceeds(k))

-----------------------------------------------------------------------------
(* The calls with a handle, which none of them checks.                       *)

Unchanged == UNCHANGED <<servers_status, servers, handle_in_use, settings, running, held, failed>>

\* The -1 of a failed lwnbd_server_init is not below 0 as an lwnbd_server_t, so the
\* test of the PlayStation 2 module lets it pass; servers[0xffffffff] is read next.
BadHandle == failed /\ crash' = "bad handle" /\ Unchanged

\* A callback that is called without a test.
Calls(i, callback) == callback \in servers[i].s.has
Missing(i, callback) ==
    /\ ~Calls(i, callback)
    /\ crash' = "no callback"
    /\ Unchanged

\* The options that have a field.
nbdsettings == {"readonly", "preinit"}

\* nbd_config; an unknown key is refused.
SetOption(i, key) ==
    settings' = [settings EXCEPT ![servers[i].handle] = @ \cup {key}]

lwnbd_server_config(i, key) ==
    /\ IF Calls(i, "config") /\ servers[i].s.name = "nbd" /\ key \in nbdsettings
       THEN SetOption(i, key) ELSE UNCHANGED settings
    /\ UNCHANGED <<servers_status, servers, handle_in_use, running, crash, held, failed>>

\* nbd_ctor leaves the defaults where they are: it changes nothing.
lwnbd_server_new(i) ==
    \/ Missing(i, "ctor")
    \/ Calls(i, "ctor") /\ UNCHANGED vars

\* The state is set in a copy: the slot stays STOPPED, and may be run again.
lwnbd_server_run(i) ==
    \/ servers_status[i] # "STOPPED" /\ UNCHANGED vars
    \/ servers_status[i] = "STOPPED" /\ Missing(i, "run")
    \/ /\ servers_status[i] = "STOPPED"
       /\ Calls(i, "run")
       /\ running[i] < MaxRuns
       /\ running' = [running EXCEPT ![i] = @ + 1]
       /\ UNCHANGED <<servers_status, servers, handle_in_use, settings, crash, held, failed>>

RunReturns(i) ==
    /\ running[i] > 0
    /\ running' = [running EXCEPT ![i] = @ - 1]
    /\ UNCHANGED <<servers_status, servers, handle_in_use, settings, crash, held, failed>>

\* The slot is free again; the handle of the server is not.
lwnbd_server_stop(i) ==
    \/ Missing(i, "stop")
    \/ /\ Calls(i, "stop")
       /\ servers_status' = [servers_status EXCEPT ![i] = "FREE"]
       /\ held' = held \ {i}
       /\ UNCHANGED <<servers, handle_in_use, settings, running, crash, failed>>

Keys == nbdsettings \cup {"default-export"}

\* An application calls with a handle it holds, or with the value of a failure.
Call(i) ==
    \/ \E key \in Keys : lwnbd_server_config(i, key)
    \/ lwnbd_server_new(i) \/ lwnbd_server_run(i) \/ lwnbd_server_stop(i)

AnyCall ==
    /\ crash = "none"
    /\ \/ \E k \in Kinds : lwnbd_server_init(k)
       \/ \E i \in held : Call(i)
       \/ BadHandle
       \/ \E i \in Slots : RunReturns(i)

-----------------------------------------------------------------------------
(* Properties.                                                               *)

\* Two NBD servers that are in use at the same time never share a handle, and none
\* has the one behind the array, whatever other servers are set up and stopped
\* (nbd.c 216-228, servers.c 112-151, 256-265).
HandlesApart ==
    \A i \in held : servers[i].s.name = "nbd" =>
        /\ servers[i].handle # NBD_SERVER_MAX_DEVICES
        /\ \A j \in held \ {i} : servers[j].s.name = "nbd" => servers[i].handle # servers[j].handle

\* A slot the application holds stays its own: it is neither freed nor given to
\* another server until the application stops it (servers.c 112-116, 263).
HeldStays ==
    [][\A i \in held : i \in held' =>
          servers'[i] = servers[i] /\ servers_status'[i] = "STOPPED"]_vars
==============================================================================
