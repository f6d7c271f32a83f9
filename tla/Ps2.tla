-------------------------------- MODULE Ps2 --------------------------------
(***************************************************************************)
(* The PlayStation 2: the main processor loads the modules of the I/O      *)
(* processor one after the other (ports/playstation2/ee/ee-helper.c,       *)
(* connman.c) and then the lwNBD module, which links against what is       *)
(* resident (iop/imports.c) and starts (iop/lwnbd_irx.c): its server for   *)
(* remote calls (servers/sifrpc/sifrpc.c) is told to START and STOP the    *)
(* listener of the NBD server (src/tcp.c).                                 *)
(*                                                                         *)
(* In the repository sifrpc has no .new and the call that starts it is     *)
(* commented out ("FIXME", lwnbd_irx.c 208), so that the module stops at a *)
(* bad handle.  Sifrpc says whether it has .new; where it has, the thread  *)
(* that sifrpc_start makes is taken to be started.                         *)
(*                                                                         *)
(* The other program is an application that calls the table of servers in  *)
(* any way.                                                                *)
(***************************************************************************)
EXTENDS Servers, Sequences

CONSTANTS
    Options,          \* build options to be tried: a set of sets
    Sifrpc,           \* kinds of the sifrpc server to be tried
    Nbd,              \* kind of the NBD server
    MaxCommands       \* bound on the remote calls

ASSUME Ps2Assumption == Sifrpc \cup {Nbd} \subseteq Kinds /\ MaxCommands \in Nat
ASSUME NamesAssumption == Nbd = nbd_server /\ \A k \in Sifrpc : k.name = "sifrpc"

VARIABLES
    program, options, sifrpc,
    platform,         \* init_platform: "loading", "up" or "failed"
    step,             \* the module to be loaded next
    resident,         \* the modules loaded
    lib,              \* lwnbd.irx: "absent", "unlinked", "resident" or "gone"
    pc,               \* where the thread for remote calls is
    conf,             \* readonly in the call that it handles
    configured, httpsrv, nbdThreadID,
    sockets,          \* listening sockets made by nbd_server_create
    threads,          \* threads that exist
    \* History
    sent,             \* remote calls so far
    started,          \* the last call was a START
    alternate         \* every START was followed by a STOP before the next

boot == <<options, sifrpc, platform, step, resident>>
module == <<lib, pc, conf, configured, httpsrv, nbdThreadID, sockets, threads>>
calls == <<sent, started, alternate>>
allVars == <<vars, program, boot, module, calls>>

RpcThread == 1
None == -1

Init ==
    /\ ServersInit
    /\ program \in {"any", "irx"}
    /\ options \in IF program = "irx" THEN Options ELSE {{}}
    /\ sifrpc \in Sifrpc
    /\ platform = "loading" /\ step = 1 /\ resident = {}
    /\ lib = "absent" /\ pc = "off" /\ conf = FALSE
    /\ configured = FALSE /\ httpsrv = 0 /\ nbdThreadID = 0
    /\ sockets = 0 /\ threads = {}
    /\ sent = 0 /\ started = FALSE /\ alternate = TRUE

-----------------------------------------------------------------------------
(* init_platform.                                                            *)

modules_Late ==  \* mutant: sio2man is loaded after mcman
    <<"libsd", "audsrv", "ps2ip", "udptty", "poweroff", "mcman", "sio2man", "ps2dev9",
      "ps2atad", "usbd", "netman", "smap", "ps2ip_nm">>
modules ==
    <<"sio2man", "libsd", "audsrv", "ps2ip", "udptty", "poweroff", "mcman", "ps2dev9",
      "ps2atad", "usbd", "netman", "smap", "ps2ip_nm">>

\* "required by mcman", "required by audsrv" (ee-helper.c 41, 48).
Required(m) == CASE m = "mcman" -> {"sio2man"} [] m = "audsrv" -> {"libsd"} [] OTHER -> {}

Booting == program = "irx" /\ platform = "loading"

SifExecModuleBuffer ==
    /\ Booting /\ step <= Len(modules)
    /\ \/ resident' = resident \cup {modules[step]} /\ step' = step + 1 /\ UNCHANGED platform
       \/ platform' = "failed" /\ UNCHANGED <<resident, step>>
    /\ UNCHANGED <<vars, program, options, sifrpc, module, calls>>

\* The interface may be missing, or refuse its configuration.
set_ipconfig ==
    /\ Booting /\ step > Len(modules)
    /\ platform' \in {"up", "failed"}
    /\ UNCHANGED <<vars, program, options, sifrpc, step, resident, module, calls>>

-----------------------------------------------------------------------------
(* lwnbd.irx.                                                                *)

\* The libraries the module imports that are not part of the system, by option.
imports(opts) ==
    UNION {CASE o = "ATAD" -> {"ps2atad"} [] o = "NET" -> {"ps2ip"}
             [] o = "PCMSTREAM" -> {"audsrv"} [] o = "MCMAN" -> {"mcman"}
             [] o = "BDM" -> {"bdm"} [] o = "TTY" -> {"iomanX"}
             [] OTHER -> {} : o \in opts}

LinkFails ==
    /\ program = "irx" /\ platform = "up" /\ lib = "absent"
    /\ ~(imports(options) \subseteq resident)
    /\ lib' = "unlinked"
    /\ UNCHANGED <<vars, program, boot, pc, conf, configured, httpsrv, nbdThreadID, sockets,
                   threads, calls>>

\* _start.  The value of a failure is not below 0, and is followed.
StartFollowsFailure ==
    /\ program = "irx" /\ platform = "up" /\ lib = "absent" /\ crash = "none"
    /\ imports(options) \subseteq resident
    /\ Refused(sifrpc)
    /\ crash' = "bad handle"
    /\ Unchanged
    /\ UNCHANGED <<program, boot, module, calls>>

\* The thread waits for remote calls.
sifrpc_thread == pc' = "idle" /\ threads' = {RpcThread}
sifrpc_stop == pc' = "off" /\ threads' = threads \ {RpcThread}

\* sifrpc_ctor and sifrpc_start; the library may already be registered, and the
\* thread may not be made.
_start ==
    /\ program = "irx" /\ platform = "up" /\ lib = "absent"
    /\ imports(options) \subseteq resident
    /\ InitSucceeds(sifrpc)
    /\ \/ lib' = "gone" /\ UNCHANGED <<pc, threads>>
       \/ lib' = "resident" /\ sifrpc_thread
       \/ lib' = "resident" /\ UNCHANGED <<pc, threads>>
    /\ UNCHANGED <<program, boot, conf, configured, httpsrv, nbdThreadID, sockets, calls>>

_shutdown ==
    /\ lib = "resident" /\ pc \in {"idle", "off"}
    /\ lwnbd_server_stop(0)
    /\ lib' = "gone" /\ sifrpc_stop
    /\ UNCHANGED <<program, boot, conf, configured, httpsrv, nbdThreadID, sockets, calls>>

-----------------------------------------------------------------------------
(* lwnbd_rpc_handler.                                                        *)

Goto(label) == pc' = label

\* lwnbd_server_cmd_start, with the flag the caller wants.
Start(readonly) ==
    /\ pc = "idle" /\ sent < MaxCommands
    /\ conf' = readonly
    /\ Goto(IF configured THEN "thread" ELSE "init")
    /\ sent' = sent + 1
    /\ started' = TRUE /\ alternate' = (alternate /\ ~started)
    /\ UNCHANGED <<vars, program, boot, lib, configured, httpsrv, nbdThreadID, sockets, threads>>

\* config(): the table of servers, a socket nobody keeps, the settings, and then the
\* plugins, which are in Programs.
ConfigInit ==
    /\ pc = "init"
    /\ IF Refused(Nbd) THEN InitFails(Nbd) /\ httpsrv' = None
       ELSE InitSucceeds(Nbd) /\ httpsrv' = InitSlot
    /\ Goto("create")
    /\ UNCHANGED <<program, boot, lib, conf, configured, nbdThreadID, sockets, threads, calls>>

nbd_server_create ==
    /\ pc = "create"
    /\ sockets' \in {sockets, sockets + 1}
    /\ Goto("settings")
    /\ UNCHANGED <<vars, program, boot, lib, conf, configured, httpsrv, nbdThreadID, threads, calls>>

\* The default export is a key nbd_config does not know.
ConfigSettings ==
    /\ pc = "settings"
    /\ IF httpsrv = None THEN crash' = "bad handle" /\ Unchanged
       ELSE lwnbd_server_config(httpsrv, IF conf THEN "readonly" ELSE "default-export")
    /\ configured' = TRUE
    /\ Goto("thread")
    /\ UNCHANGED <<program, boot, lib, conf, httpsrv, nbdThreadID, sockets, threads, calls>>

\* CreateThread gives the lowest number that is free, or fails.
Fresh == CHOOSE t \in 1 .. MaxCommands + 1 : t \notin threads /\ \A u \in 1 .. t - 1 : u \in threads
Remember_Local(t) ==  \* mutant: the number is kept in a variable of the handler's own
    UNCHANGED nbdThreadID
Remember(t) == nbdThreadID' = t
CreateListener ==
    /\ pc = "thread" /\ crash = "none"
    /\ \/ Remember(Fresh) /\ threads' = threads \cup {Fresh}
       \/ Remember(None) /\ UNCHANGED threads
    /\ Goto("idle")
    /\ UNCHANGED <<vars, program, boot, lib, conf, configured, httpsrv, sockets, calls>>

\* The threads in listener(): each accepts a client and closes it, and so on.
listeners == threads \ {RpcThread}

\* TerminateThread and DeleteThread of the last thread made.
Stop ==
    /\ pc = "idle" /\ sent < MaxCommands
    /\ threads' = threads \ {nbdThreadID}
    /\ sent' = sent + 1
    /\ started' = FALSE
    /\ alternate' = (alternate /\ (started \/ sent = 0))
    /\ UNCHANGED <<vars, program, boot, lib, pc, conf, configured, httpsrv, nbdThreadID, sockets>>

-----------------------------------------------------------------------------

Anything == program = "any" /\ AnyCall /\ UNCHANGED <<program, boot, module, calls>>

Next ==
    \/ SifExecModuleBuffer \/ set_ipconfig \/ LinkFails
    \/ StartFollowsFailure \/ _start \/ _shutdown
    \/ \E readonly \in BOOLEAN : Start(readonly)
    \/ ConfigInit \/ nbd_server_create \/ ConfigSettings \/ CreateListener \/ Stop
    \/ Anything

Spec == Init /\ [][Next]_allVars

-----------------------------------------------------------------------------
(* Properties.                                                               *)

\* Whichever module cannot be loaded, none is tried without the one it requires, and
\* lwnbd.irx finds all its imports unless it is built with BDM or TTY, for which
\* init_platform loads nothing (ee-helper.c 41-134, imports.c).
LoadOrder ==
    /\ Booting /\ step <= Len(modules) => Required(modules[step]) \subseteq resident
    /\ lib = "unlinked" => options \cap {"BDM", "TTY"} # {}

\* A STOP ends the listener of the START before it: as long as the two alternate, no
\* more than one listener is ever there, none after a STOP, and the thread for remote
\* calls is never the one that is ended (lwnbd_irx.c 149-156, 175-176).
StopsItsListener ==
    /\ alternate => Cardinality(listeners) <= IF started THEN 1 ELSE 0
    /\ pc # "off" => RpcThread \in threads
=============================================================================
