------------------------------ MODULE Plugins ------------------------------
(***************************************************************************)
(* The plugin table and the calls of an application that sets exports up   *)
(* and looks them up (src/plugins.c, src/contexts_uri.c).  A handle is a   *)
(* uint32_t, so the -1 of a failed lwnbd_plugin_init, or a variable that   *)
(* was never set, is a handle like any other to a caller.  The programs    *)
(* that make the calls are in module Programs.                             *)
(***************************************************************************)
EXTENDS Contexts, PluginStructs

CONSTANTS
    MaxPlugins,   \* MAX_NUM_PLUGINS
    Struct        \* driver -> what its lwnbd_plugin_t holds

ASSUME MaxPluginsAssumption == MaxPlugins \in Nat
ASSUME StructAssumption == Struct \in [Drivers -> Fields]

VARIABLES
    plugins,         \* slot -> driver
    plugins_status,  \* slot -> "FREE" or "CREATED"
    configured,      \* driver -> did its config callback take a value
    handles,         \* the handles given out
    ret,             \* result of the last call
    alive,           \* no bad pointer was followed, nothing written out of bounds
    failed,          \* contexts whose constructor failed
    devices          \* driver -> contexts its constructor was called for

tables == <<contexts, contexts_status, plugins, plugins_status, failed, devices>>
vars == <<tables, configured, handles, ret, alive>>

Slot == 0 .. MaxPlugins - 1
ERR == -1

PluginsInit ==
    /\ ContextsInit
    /\ plugins = [i \in Slot |-> NoDriver]
    /\ plugins_status = [i \in Slot |-> "FREE"]
    /\ configured = [d \in Drivers |-> FALSE]
    /\ ret = 0
    /\ alive = TRUE
    /\ failed = {}
    /\ devices = [d \in Drivers |-> 0]

Crash == alive' = FALSE /\ ret' = ERR

\* Following plugins[h] for a handle that is out of range, or not set up.
Valid(h) == h \in Slot /\ plugins[h] # NoDriver

-----------------------------------------------------------------------------

FreeSlot == FirstFree(plugins_status, MaxPlugins)

\* lwnbd_plugin_init: the table is full, or the driver cannot read.
Refused_NoPreadCheck(d) == FreeSlot = MaxPlugins  \* mutant
Refused(d) == FreeSlot = MaxPlugins \/ ~Struct[d].pread

InitRefused(d) ==
    /\ alive
    /\ Refused(d)
    /\ ret' = ERR
    /\ handles' = handles \cup {ERR}
    /\ UNCHANGED <<tables, configured, alive>>

Register(d) ==
    /\ plugins_status' = [plugins_status EXCEPT ![FreeSlot] = "CREATED"]
    /\ plugins' = [plugins EXCEPT ![FreeSlot] = d]

\* load() touches the driver's own data only.
InitRegisters(d) ==
    /\ alive
    /\ ~Refused(d)
    /\ Register(d)
    /\ ret' = FreeSlot
    /\ handles' = handles \cup {FreeSlot}
    /\ \/ ~Struct[d].single /\ UNCHANGED <<contexts, contexts_status>>
       \/ /\ Struct[d].single
          /\ ~PoolFull
          /\ Take(lwnbd_contexts_count, [name |-> "api", p |-> d])
    /\ UNCHANGED <<configured, alive, failed, devices>>

\* A driver that exports without handle gets its one context when it is registered;
\* the NULL of a full pool is logged and then written through.
InitCrashes(d) ==
    /\ alive
    /\ ~Refused(d)
    /\ Struct[d].single
    /\ PoolFull
    /\ Register(d)
    /\ Crash
    /\ UNCHANGED <<contexts, contexts_status, handles, failed, devices, configured>>

lwnbd_plugin_init(d) == InitRefused(d) \/ InitRegisters(d) \/ InitCrashes(d)

\* lwnbd_plugin_new with a driver that has a context per call.  When the constructor
\* fails the slot stays taken, without a plugin and with the name it had got so far.
\* A constructor whose table is full fills the place behind it: that may go well.
NameAtFailure(how, name) == IF how = "named" THEN name ELSE ""
TakeDevice(d) == devices' = [devices EXCEPT ![d] = @ + 1]
Full(d) == Struct[d].table # 0 /\ devices[d] >= Struct[d].table
NewContext(d, name) ==
    LET c == lwnbd_contexts_count
    IN \/ /\ ~PoolFull
          /\ Take(c, [name |-> name, p |-> d])
          /\ TakeDevice(d)
          /\ ret' = 0
          /\ UNCHANGED <<plugins, plugins_status, alive, failed>>
       \/ /\ ~PoolFull
          /\ TakeDevice(d)
          /\ Full(d)
          /\ Crash
          /\ UNCHANGED <<contexts, contexts_status, plugins, plugins_status, failed>>
       \/ /\ ~PoolFull
          /\ TakeDevice(d)
          /\ \E how \in Struct[d].fails :
                Take(c, [name |-> NameAtFailure(how, name), p |-> NoDriver])
          /\ ret' = ERR
          /\ failed' = failed \cup {c}
          /\ UNCHANGED <<plugins, plugins_status, alive>>
       \/ PoolFull /\ Crash /\ UNCHANGED tables  \* the NULL is written through

lwnbd_plugin_new(h, name) ==
    /\ alive
    /\ h \in handles
    /\ \/ ~Valid(h) /\ Crash /\ UNCHANGED tables
       \/ /\ Valid(h)
          /\ ~Struct[plugins[h]].ctor
          /\ ret' = ERR
          /\ UNCHANGED <<tables, alive>>
       \/ /\ Valid(h)
          /\ Struct[plugins[h]].ctor /\ Struct[plugins[h]].single
          /\ ret' \in {0} \cup {ERR : how \in Struct[plugins[h]].fails}
          /\ UNCHANGED <<tables, alive>>
       \/ /\ Valid(h)
          /\ Struct[plugins[h]].ctor /\ ~Struct[plugins[h]].single
          /\ NewContext(plugins[h], name)
    /\ UNCHANGED <<configured, handles>>

\* lwnbd_plugin_config, with a key or relying on the driver's magic key.
TakesConfig(d, withKey) == Struct[d].config /\ (withKey \/ Struct[d].magic)

lwnbd_plugin_config(h, withKey) ==
    /\ alive
    /\ h \in handles
    /\ \/ ~Valid(h) /\ Crash /\ UNCHANGED configured
       \/ /\ Valid(h)
          /\ ~TakesConfig(plugins[h], withKey)
          /\ ret' = ERR
          /\ UNCHANGED <<configured, alive>>
       \/ /\ Valid(h)
          /\ TakesConfig(plugins[h], withKey)
          /\ ret' \in {0, ERR}
          /\ configured' = [configured EXCEPT ![plugins[h]] = (@ \/ ret' = 0)]
          /\ UNCHANGED alive
    /\ UNCHANGED <<tables, handles>>

\* lwnbd_get_context of a path that parses: the context found is followed to its
\* plugin, whose query callback may turn it down, or, when nothing is asked, compare a
\* key that was never set; its size is then refreshed.
Found_NoCheck(c) == TRUE  \* mutant: no `if (!c) return NULL`
Found(c) == c # NULL
lwnbd_get_context(name, asked) ==
    LET c == lwnbd_get_context_string(name)
    IN /\ alive
       /\ \/ ~Found(c) /\ ret' = NULL /\ UNCHANGED alive
          \/ Found(c) /\ (c = NULL \/ contexts[c].p = NoDriver) /\ Crash
          \/ /\ Found(c) /\ c # NULL /\ contexts[c].p # NoDriver
             /\ ret' \in {c} \cup (IF Struct[contexts[c].p].refuses THEN {NULL} ELSE {})
             /\ UNCHANGED alive
          \/ /\ Found(c) /\ c # NULL /\ contexts[c].p # NoDriver
             /\ Struct[contexts[c].p].refuses /\ ~asked
             /\ Crash
       /\ UNCHANGED <<tables, configured, handles>>

\* A call that sets something up, with any handle there is.
AnyCall ==
    \/ \E d \in Drivers : lwnbd_plugin_init(d)
    \/ \E h \in Slot \cup {ERR}, name \in Names : lwnbd_plugin_new(h, name)
    \/ \E h \in Slot \cup {ERR}, withKey \in BOOLEAN : lwnbd_plugin_config(h, withKey)

-----------------------------------------------------------------------------
(* Properties.                                                               *)

Registered == {plugins[i] : i \in {j \in Slot : plugins_status[j] = "CREATED"}}

\* A context in use belongs to a registered plugin that can read, or its
\* constructor has failed (plugins.c 36-40, 122, 141); and neither table ever has a
\* hole, so that the scans for a free slot and the count that lookups go by see all
\* of it (contexts.c 118, plugins.c 95-99).
ContextsServed ==
    /\ NoHole /\ Packed(plugins_status, MaxPlugins)
    /\ \A i \in Index : contexts_status[i] = "CREATED" =>
          IF i \in failed THEN contexts[i].p = NoDriver
          ELSE contexts[i].p \in Registered /\ Struct[contexts[i].p].pread
=============================================================================
