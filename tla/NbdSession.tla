----------------------------- MODULE NbdSession -----------------------------
(***************************************************************************)
(* The client threads of one NBD server: the dispatcher (servers/nbd/nbd.c,*)
(* nbd_synchronous_client_thread_cb) and the option haggling (servers/nbd/ *)
(* protocol-handshake.c).  The threads share the server's handle `ctx` and *)
(* the pool of contexts; each has a struct nbd_client of its own.          *)
(*                                                                         *)
(* The greeting, the client's flags and its options go over c->sock.  The  *)
(* replies to options and all of the transmission phase go over ctx->sock, *)
(* which nothing assigns: a client that hangs up is noticed in the former, *)
(* never in the latter.                                                    *)
(***************************************************************************)
EXTENDS Contexts, NbdProtocol, Sequences

CONSTANTS
    Clients,   \* connections that may be open at the same time
    Exported,  \* the contexts the plugins made before the server was started
    NeedsQuery,   \* plugins whose query callback reads the first parameter of a URI,
                  \* also when there is no query to have one in (command)
    NoData,    \* an option without data
    OtherOptions  \* the options clients send that the server does not know

ASSUME ExportedAssumption ==
    /\ Exported \in Seq([name : Names, p : Drivers])
    /\ Len(Exported) <= MaxContexts
ASSUME NeedsQueryAssumption == NeedsQuery \subseteq Drivers
ASSUME NoDataAssumption == NoData \notin Names \cup {""}
ASSUME OtherOptionsAssumption == OtherOptions \subseteq NBD_OPT_UNSUPPORTED

VARIABLES
    pc,       \* client -> where its thread is
    local,    \* client -> the locals of its thread
    gone,     \* clients that have closed their end, with nothing left to receive
    server,   \* ctx: its state, preinit setting and global flags
    alive     \* nothing undefined has been done: no NULL pointer followed, nothing
              \* uninitialised used, nothing written behind a buffer

pool == <<contexts, contexts_status>>
vars == <<pc, local, gone, server, alive, pool>>

\* An option in hand: the path and whether there is a query in the data that came
\* with it, and whether the data fill nbd_buffer, which more than that may not.
Options ==
    [option : {NBD_OPT_EXPORT_NAME}, name : Names \cup {""}, query : BOOLEAN, full : BOOLEAN]
    \cup [option : {NBD_OPT_EXPORT_NAME}, name : {NoData}, query : {FALSE}, full : {FALSE}]
    \cup [option : {NBD_OPT_ABORT, NBD_OPT_LIST} \cup OtherOptions, name : {NoData},
          query : {FALSE}, full : BOOLEAN]
NoOption == [option |-> 0, name |-> NoData, query |-> FALSE, full |-> FALSE]

\* state and ctx of struct nbd_client, i of lwnbd_new_context; cflags, new_opt and
\* the i of the NBD_OPT_LIST loop of protocol_handshake; and as history the contexts
\* listed, and how many there were when the list was asked for.
Fresh == [state |-> "HANDSHAKE", ctx |-> NULL, slot |-> 0, cflags |-> 0, opt |-> NoOption,
          i |-> 0, listed |-> <<>>, upto |-> 0]

InitialContexts == [i \in Index |-> IF i < Len(Exported) THEN Exported[i + 1] ELSE Blank]

Init ==
    /\ contexts = InitialContexts
    /\ contexts_status = [i \in Index |-> IF i < Len(Exported) THEN "CREATED" ELSE "FREE"]
    /\ pc = [c \in Clients |-> "idle"]
    /\ local = [c \in Clients |-> Fresh]
    /\ gone = {}
    /\ server \in [state : {"HANDSHAKE"}, preinit : BOOLEAN, default : {NULL, 0},
                   gflags : {0}]  \* nbd_ctor leaves the handle as it is, all zeroes
    /\ server.default = 0 => Len(Exported) > 0
    /\ alive = TRUE

At(c, label) == alive /\ pc[c] = label
Goto(c, label) == pc' = [pc EXCEPT ![c] = label]
Continue(c, label) == Goto(c, label) /\ UNCHANGED local

\* The thread ends, and with it its locals.
Return(c) ==
    /\ Goto(c, "idle")
    /\ local' = [local EXCEPT ![c] = Fresh]

\* The end of protocol_handshake and of its locals.
Leave(c) ==
    /\ Goto(c, "dispatch")
    /\ local' = [local EXCEPT ![c] = [Fresh EXCEPT !.state = local[c].state,
                                                  !.ctx = local[c].ctx]]

\* What a send or receive of n bytes may return, and `size < n`, which compares
\* unsigned numbers: an error, -1, is not short.
Sizes(n) == {-1, 0, n}
Short(size, n) == size \in 0 .. n - 1
Transfer(c, n, go) ==
    \E size \in Sizes(n) : (Short(size, n) /\ Return(c)) \/ (~Short(size, n) /\ go)

-----------------------------------------------------------------------------
(* The dispatcher.                                                           *)

\* A connection is accepted.
Connect(c) ==
    /\ At(c, "idle")
    /\ gone' = gone \ {c}
    /\ \/ ~server.preinit /\ Continue(c, "scan")
       \/ /\ server.preinit
          /\ server.default # NULL
          /\ local' = [local EXCEPT ![c].ctx = server.default, ![c].state = "TRANSMISSION"]
          /\ Goto(c, "dispatch")
       \/ server.preinit /\ server.default = NULL /\ Return(c)
    /\ UNCHANGED <<server, alive, pool>>

\* lwnbd_new_context: find a free slot ...
Scan(c) ==
    /\ At(c, "scan")
    /\ \/ PoolFull /\ Return(c)
       \/ /\ ~PoolFull
          /\ local' = [local EXCEPT ![c].slot = lwnbd_contexts_count]
          /\ Goto(c, "claim")
    /\ UNCHANGED <<gone, server, alive, pool>>

\* ... and mark it as used.
Claim_Next(c) == local[c].slot + 1  \* mutant: the slot after the one found
Claimed(c) == local[c].slot
Claim(c) ==
    /\ At(c, "claim")
    /\ contexts_status' = [contexts_status EXCEPT ![Claimed(c)] = "CREATED"]
    /\ local' = [local EXCEPT ![c].ctx = Claimed(c), ![c].state = "HANDSHAKE", ![c].slot = 0]
    /\ Goto(c, "dispatch")
    /\ UNCHANGED <<gone, server, alive, contexts>>

\* The loop's switch looks at c->state.
Dispatch(c) ==
    /\ At(c, "dispatch")
    /\ \/ local[c].state = "HANDSHAKE" /\ Continue(c, "greet")
       \/ local[c].state = "TRANSMISSION" /\ Continue(c, "transmission")
    /\ UNCHANGED <<gone, server, alive, pool>>

\* transmission_phase, as a whole: it returns 0 after NBD_CMD_DISC and -1 otherwise.
Transmission(c) ==
    /\ At(c, "transmission")
    /\ \/ /\ c \notin gone
          /\ server' = [server EXCEPT !.state = "ABORT"]
          /\ Continue(c, "dispatch")
       \/ Return(c) /\ UNCHANGED server
    /\ UNCHANGED <<gone, alive, pool>>

-----------------------------------------------------------------------------
(* The handshake.                                                            *)

Greet(c) ==
    /\ At(c, "greet")
    /\ Transfer(c, nbd_new_handshake, Continue(c, "flags"))
    /\ UNCHANGED <<gone, server, alive, pool>>

\* The client's flags must be the server's.
CFlags == 0 .. NBD_FLAG_FIXED_NEWSTYLE + NBD_FLAG_NO_ZEROES
Flags(c) ==
    /\ At(c, "flags")
    /\ \E cflags \in CFlags :
          Transfer(c, 4,
              \/ cflags # server.gflags /\ Return(c)
              \/ /\ cflags = server.gflags
                 /\ local' = [local EXCEPT ![c].cflags = cflags]
                 /\ Goto(c, "option"))
    /\ UNCHANGED <<gone, server, alive, pool>>

\* The case of the switch an option is for.
Case(option) ==
    CASE option = NBD_OPT_EXPORT_NAME -> "EXPORT_NAME"
      [] option = NBD_OPT_ABORT -> "ABORT"
      [] option = NBD_OPT_LIST -> "LIST"
      [] OTHER -> "OTHER"

\* An option and its data are received.  On a failing receive (-1) after the
\* version was in, the option is what the structure holds, old or new.  The '\0'
\* after data that fill nbd_buffer is written behind it; when that does no harm
\* nothing is left of it.
RecvOption(c, o) ==
    /\ At(c, "option")
    /\ c \notin gone
    /\ \E size \in Sizes(nbd_new_option) : ~Short(size, nbd_new_option)
    /\ \/ /\ Goto(c, Case(o.option))
          /\ local' = [local EXCEPT ![c].opt = [o EXCEPT !.full = FALSE], ![c].i = 0,
                                    ![c].listed = <<>>, ![c].upto = lwnbd_contexts_count]
          /\ UNCHANGED alive
       \/ /\ o.full
          /\ local' = [local EXCEPT ![c].opt = o]
          /\ alive' = FALSE
          /\ UNCHANGED pc
    /\ UNCHANGED <<gone, server, pool>>

\* End of file, an unknown version, too much data.
RecvOptionFail_Again(c) ==  \* mutant: back to the head of the loop
    /\ At(c, "option")
    /\ Continue(c, "option")
    /\ UNCHANGED <<gone, server, alive, pool>>
RecvOptionFail(c) ==
    /\ At(c, "option")
    /\ Return(c)
    /\ UNCHANGED <<gone, server, alive, pool>>

\* NBD_OPT_EXPORT_NAME: look the export up, if there is a name.  lwnbd_get_context
\* follows the context to its plugin, whose query may fail.
LookupResult(c, r) ==
    \/ r = NULL /\ Return(c)
    \/ r # NULL /\ local' = [local EXCEPT ![c].ctx = r, ![c].opt = NoOption] /\ Goto(c, "grant")

Wanted_OrLast(c) ==  \* mutant: the context the search ended at, of whatever name
    IF lwnbd_get_context_string(local[c].opt.name) # NULL
    THEN lwnbd_get_context_string(local[c].opt.name) ELSE lwnbd_contexts_count - 1
Wanted(c) == lwnbd_get_context_string(local[c].opt.name)

\* A context that has no plugin, or one that looks at parameters there are none of.
Unfit(c, found) ==
    \/ contexts[found].p = NoDriver
    \/ contexts[found].p \in NeedsQuery /\ ~local[c].opt.query

Lookup(c) ==
    LET found == Wanted(c)
    IN /\ At(c, "EXPORT_NAME")
       /\ \/ /\ local[c].opt.name = NoData
             /\ LookupResult(c, local[c].ctx)
             /\ UNCHANGED alive
          \/ /\ local[c].opt.name # NoData
             /\ found # NULL /\ Unfit(c, found)
             /\ alive' = FALSE
             /\ UNCHANGED <<pc, local>>
          \/ /\ local[c].opt.name # NoData
             /\ found # NULL => contexts[found].p # NoDriver
             /\ LookupResult(c, found) \/ LookupResult(c, NULL)
             /\ UNCHANGED alive
       /\ UNCHANGED <<gone, server, pool>>

\* The export's size and flags are sent; the state that is set is the server's.
Grant(c) ==
    /\ At(c, "grant")
    /\ Transfer(c, nbd_export_name_option_reply(local[c].cflags), Leave(c))
    /\ server' = [server EXCEPT !.state = IF pc'[c] = "dispatch" THEN "TRANSMISSION" ELSE @]
    /\ UNCHANGED <<gone, alive, pool>>

Abort(c) ==
    /\ At(c, "ABORT")
    /\ Transfer(c, nbd_fixed_new_option_reply, Leave(c))
    /\ server' = [server EXCEPT !.state = IF pc'[c] = "dispatch" THEN "ABORT" ELSE @]
    /\ UNCHANGED <<gone, alive, pool>>

NextEntry_Skip(c) == local[c].i + 2  \* mutant: i is advanced twice
NextEntry(c) == local[c].i + 1

\* The four sends of an entry of the list.  The count is taken anew for each.
ListEntry(c) ==
    /\ At(c, "LIST")
    /\ local[c].i < lwnbd_contexts_count
    /\ Transfer(c, nbd_fixed_new_option_reply,
          /\ local' = [local EXCEPT ![c].listed = Append(@, local[c].i),
                                    ![c].i = NextEntry(c)]
          /\ UNCHANGED pc)
    /\ UNCHANGED <<gone, server, alive, pool>>

ListEnd(c) ==
    /\ At(c, "LIST")
    /\ local[c].i >= lwnbd_contexts_count
    /\ Continue(c, "list_ack")
    /\ UNCHANGED <<gone, server, alive, pool>>

\* NBD_REP_ACK after a list, NBD_REP_ERR_UNSUP for what is not supported.  What is
\* left of the option is not looked at again.
Answer(c) ==
    /\ At(c, "list_ack") \/ At(c, "OTHER")
    /\ Transfer(c, nbd_fixed_new_option_reply,
          /\ local' = [local EXCEPT ![c].opt = NoOption, ![c].i = 0, ![c].listed = <<>>,
                                    ![c].upto = 0]
          /\ Goto(c, "option"))
    /\ UNCHANGED <<gone, server, alive, pool>>

-----------------------------------------------------------------------------

\* The client closes its end.
HangUp(c) ==
    /\ alive
    /\ pc[c] # "idle"
    /\ c \notin gone
    /\ gone' = gone \cup {c}
    /\ UNCHANGED <<pc, local, server, alive, pool>>

\* What the thread does by itself, failing to receive from the client included.
Step(c) ==
    \/ Scan(c) \/ Claim(c) \/ Dispatch(c) \/ Transmission(c)
    \/ Greet(c) \/ Flags(c) \/ RecvOptionFail(c) \/ Lookup(c) \/ Grant(c) \/ Abort(c)
    \/ ListEntry(c) \/ ListEnd(c) \/ Answer(c)

Next ==
    \/ \E c \in Clients :
          \/ Connect(c) \/ HangUp(c) \/ Step(c)
          \/ \E o \in Options : RecvOption(c, o)
    \/ ~alive /\ UNCHANGED vars

Spec == Init /\ [][Next]_vars

\* A thread whose client is gone is not kept waiting by the handshake.  It may be by
\* the transmission phase, which waits for requests from another socket.
FairSpec ==
    /\ Spec
    /\ \A c \in Clients : WF_vars(Step(c) /\ c \in gone /\ pc[c] # "transmission")

-----------------------------------------------------------------------------
(* Properties.                                                               *)

\* A list names every context there was when it was asked for, each once and in
\* order, and none that does not exist, while other threads take contexts
\* (protocol-handshake.c 134-161).
ListComplete ==
    \A c \in Clients : pc[c] = "list_ack" =>
        /\ local[c].upto <= Len(local[c].listed)
        /\ Len(local[c].listed) <= lwnbd_contexts_count
        /\ \A i \in 1 .. Len(local[c].listed) : local[c].listed[i] = i - 1

\* Whatever the clients send, in whatever order, the server does nothing undefined
\* before one of three things: data that fill the buffer to its last byte
\* (protocol-handshake.c 68, 77); an empty path, once a client thread has taken a
\* context, which has no name and no plugin (nbd.c 127, contexts_uri.c 63); or the path
\* of an export of a plugin that wants a query, without one (contexts_uri.c 47, 70).
UndefinedHasCause ==
    ~alive =>
        \E c \in Clients :
            LET opt == local[c].opt
            IN \/ pc[c] = "option" /\ opt.full
               \/ pc[c] = "EXPORT_NAME" /\ opt.name = "" /\ Len(Exported) < lwnbd_contexts_count
               \/ /\ pc[c] = "EXPORT_NAME" /\ ~opt.query
                  /\ \E i \in DOMAIN Exported :
                        Exported[i].name = opt.name /\ Exported[i].p \in NeedsQuery

\* Threads that race for a context never leave a hole, and never take the slot of
\* an export (contexts.c 61-73, 118).
PoolSound ==
    /\ NoHole
    /\ \A c \in Clients : pc[c] = "claim" => local[c].slot \in Len(Exported) .. lwnbd_contexts_count
    /\ \A c \in Clients : pc[c] \notin {"idle", "scan", "claim"} => local[c].ctx < lwnbd_contexts_count

\* The thread of a client that has hung up ends, whatever it was doing in the
\* handshake and whatever the other threads do meanwhile (nbd.c 143,
\* protocol-handshake.c 50).
HangUpEnds ==
    \A c \in Clients : c \in gone ~> (pc[c] \in {"idle", "transmission"} \/ ~alive)

\* lwnbd-nbd-server.md 12: "usable with certain clients": a client that has been
\* granted an export is in the transmission phase.
GrantedIsServed ==
    [][\A c \in Clients : pc[c] = "grant" /\ pc'[c] = "dispatch" =>
          local'[c].state = "TRANSMISSION"]_vars
=============================================================================
