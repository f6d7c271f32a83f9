--------------------------- MODULE PluginStructs ---------------------------
(***************************************************************************)
(* The lwnbd_plugin_t of the plugins under plugins/: which of the callbacks*)
(* the plugin table looks at are there, and how the constructor may fail.  *)
(* A failure is "unnamed" when it comes before the constructor has named   *)
(* its context and "named" when it comes after that.  A plugin refuses when*)
(* it has a query callback that may fail; such a callback takes it for     *)
(* granted that there is a query.  The table is the number of devices that *)
(* the constructor has room for, 0 when it keeps none: it takes the first  *)
(* free one, and the one behind the table when there is none.  What the    *)
(* callbacks do to other data of the plugins' own is in the plugins'       *)
(* modules.                                                                *)
(***************************************************************************)
EXTENDS Naturals

CONSTANTS
    MEM_DRIVER_MAX_DEVICES,
    FILE_DRIVER_MAX_DEVICES,
    PCM_DRIVER_MAX_DEVICES

ASSUME DevicesAssumption ==
    {MEM_DRIVER_MAX_DEVICES, FILE_DRIVER_MAX_DEVICES, PCM_DRIVER_MAX_DEVICES} \subseteq Nat \ {0}

Fields == [pread : BOOLEAN, ctor : BOOLEAN, config : BOOLEAN, magic : BOOLEAN,
           single : BOOLEAN, refuses : BOOLEAN, fails : SUBSET {"unnamed", "named"}, table : Nat]

\* How the constructors fail: memory and file never do; mcman and atad ask for their
\* device first, tty for an event flag and a driver; pcmstream starts the audio
\* service last.
memory_ctor_fails == {}
file_ctor_fails == {}
mcman_ctor_fails == {"unnamed"}
atad_ctor_fails == {"unnamed"}
nbdtty_ctor_fails == {"unnamed"}
pcmstream_ctor_fails == {"named"}

\* command exports without handle: its constructor gets no context to name, and fails
\* when the table of commands is full.
command_ctor_fails == {"unnamed"}

\* Whether a query may fail: memory passes over filters that it does not know; command
\* turns down a query with an unknown command, or with one that fails.  It also means
\* to turn down a query without any, but the number of parameters is then -1, not the 0
\* it looks for, and the key it goes on to compare was never set.
memory_query_fails == FALSE
command_query_fails == TRUE

\* A plugin that can read and has a constructor, and none of the rest.
Exporting(fails) ==
    [pread |-> TRUE, ctor |-> TRUE, config |-> FALSE, magic |-> FALSE,
     single |-> FALSE, refuses |-> FALSE, fails |-> fails, table |-> 0]

memory_plugin ==
    [Exporting(memory_ctor_fails) EXCEPT !.refuses = memory_query_fails,
                                         !.table = MEM_DRIVER_MAX_DEVICES]
file_plugin == [Exporting(file_ctor_fails) EXCEPT !.table = FILE_DRIVER_MAX_DEVICES]
mcman_plugin == Exporting(mcman_ctor_fails)
atad_plugin == Exporting(atad_ctor_fails)
tty_plugin == Exporting(nbdtty_ctor_fails)
pcmstream_plugin ==
    [Exporting(pcmstream_ctor_fails) EXCEPT !.table = PCM_DRIVER_MAX_DEVICES]
command_plugin ==
    [Exporting(command_ctor_fails) EXCEPT !.single = TRUE, !.refuses = command_query_fails]
=============================================================================
