------------------------------- MODULE Command -------------------------------
(***************************************************************************)
(* The command plugin (plugins/command/command.c): commands are entered in *)
(* a table (command_load, command_ctor), a client that opens the export    *)
(* with a query has its command looked up, a GET command runs at once and  *)
(* leaves what the client then reads, a POST command runs when the client  *)
(* writes.  The result, its size and the POST command are kept once for    *)
(* all clients.  The export is opened by lwnbd_get_context                 *)
(* (src/contexts_uri.c), whose array of parameters is on its stack.        *)
(***************************************************************************)
EXTENDS Naturals, Sequences

CONSTANTS
    Clients,
    Kinds,            \* commands an application may register: [name, type, size]
    CMD_DRIVER_MAX, CMD_BUFFER_SZ,
    MaxOpens          \* bound on the number of lookups

\* size is 0 for a command that leaves *size alone.
ASSUME KindsAssumption ==
    \A k \in Kinds : k.type \in {"GET", "POST"} /\ k.size \in 0 .. CMD_BUFFER_SZ
ASSUME LimitsAssumption ==
    CMD_DRIVER_MAX \in Nat /\ CMD_BUFFER_SZ \in Nat \ {0} /\ MaxOpens \in Nat

VARIABLES
    commands,         \* the table, as far as commands_cnt
    serving,          \* the application has set up its commands
    result, exportsize, pp,
    context,          \* exportsize of the context
    pc,
    \* History
    opens,            \* number of lookups so far
    asked,            \* keys of the queries so far
    session,          \* client -> its lookup: id, command found, size it was told, whether
                      \* no other client has had a lookup since
    last,             \* client -> its last read or write
    crash             \* what went wrong, if anything

shared == <<result, exportsize, pp>>
vars == <<commands, serving, shared, context, pc, opens, asked, session, last, crash>>

Names == {k.name : k \in Kinds}
None == [name |-> "none", type |-> "none", size |-> 0]
Keys == Names \cup {"unknown"}   \* the key of a query; its value goes to the command
Places == 0 .. CMD_BUFFER_SZ - 1

Zero == <<0, 0>>
Out(id, k) == <<id, k>>   \* byte k of what the command of lookup id prints

NoSession == [id |-> 0, command |-> None, told |-> 0, alone |-> TRUE]
NoAccess == [kind |-> "none"]

Init ==
    /\ commands = <<>> /\ serving = FALSE
    /\ result = [k \in Places |-> Zero]
    /\ exportsize = 0
    /\ pp = None
    /\ context = 0
    /\ pc = [c \in Clients |-> "idle"]
    /\ opens = 0 /\ asked = {}
    /\ session = [c \in Clients |-> NoSession]
    /\ last = [c \in Clients |-> NoAccess]
    /\ crash = "none"

-----------------------------------------------------------------------------
(* Registration, before the server runs.                                     *)

command_add_command(k) ==
    /\ ~serving
    /\ Len(commands) < CMD_DRIVER_MAX
    /\ commands' = Append(commands, k)
    /\ UNCHANGED <<serving, shared, context, pc, opens, asked, session, last, crash>>

\* The table is full, or the application has no more: it goes on either way.
Serve ==
    /\ ~serving
    /\ serving' = TRUE
    /\ UNCHANGED <<commands, shared, context, pc, opens, asked, session, last, crash>>

-----------------------------------------------------------------------------
(* lwnbd_get_context and command_query.                                      *)

At(c, label) == serving /\ crash = "none" /\ pc[c] = label
Goto(c, label) == pc' = [pc EXCEPT ![c] = label]

\* The first command of that name.
Lookup(name) ==
    LET found == {i \in DOMAIN commands : commands[i].name = name}
    IN IF found = {} THEN None ELSE commands[CHOOSE i \in found : \A j \in found : i <= j]

Open(c, k) ==
    session' = [d \in Clients |->
       IF d = c
       THEN [id |-> opens + 1, command |-> k, told |-> 0,
             alone |-> \A e \in Clients \ {c} : pc[e] \notin {"run", "update", "answer"}]
       ELSE [session[d] EXCEPT !.alone = FALSE]]

\* Of command_query_get: the size of an export must not be 0.
ClearResult_KeepSize(c) ==  \* mutant: the size of the command before stays
    result' = [k \in Places |-> Zero] /\ UNCHANGED exportsize
ClearResult(c) ==
    /\ exportsize' = 1
    /\ result' = [k \in Places |-> Zero]

\* Of command_query_post.
KeepPost_First(k) ==  \* mutant: only the first POST command is kept
    pp' = IF pp = None THEN k ELSE pp
KeepPost(k) == pp' = k
command_query_post(k) ==
    /\ exportsize' = CMD_BUFFER_SZ
    /\ KeepPost(k)
    /\ UNCHANGED result

\* command_query with the command the key names, if any.
Dispatch(c, key) ==
    LET k == Lookup(key)
    IN /\ opens' = opens + 1
       /\ Open(c, k)
       /\ \/ /\ k = None
             /\ UNCHANGED <<shared, pc>>
          \/ /\ k.type = "GET"
             /\ ClearResult(c)
             /\ Goto(c, "run")
             /\ UNCHANGED pp
          \/ /\ k.type = "POST"
             /\ command_query_post(k)
             /\ Goto(c, "update")

command_query(c, key) ==
    /\ At(c, "idle")
    /\ opens < MaxOpens
    /\ Dispatch(c, key)
    /\ asked' = asked \cup {key}
    /\ UNCHANGED <<commands, serving, context, last, crash>>

\* yuarel_parse_query returns -1 for an export name without a query, which is not
\* the 0 command_query looks for: the key it reads is what the stack holds, the one
\* of an earlier call, something else, or not an address.
NoParams(c) ==
    /\ At(c, "idle")
    /\ opens < MaxOpens
    /\ \/ \E key \in asked \cup {"unknown"} : Dispatch(c, key) /\ UNCHANGED crash
       \/ /\ crash' = "no query"
          /\ UNCHANGED <<shared, pc, opens, session>>
    /\ UNCHANGED <<commands, serving, context, asked, last>>

\* The command itself, which may fail.
RunCommand(c) ==
    LET id == session[c].id
        size == session[c].command.size
    IN /\ At(c, "run")
       /\ result' = [k \in Places |-> IF k < size THEN Out(id, k) ELSE result[k]]
       /\ exportsize' = IF size = 0 THEN exportsize ELSE size
       /\ \/ Goto(c, "update")
          \/ Goto(c, "idle")
       /\ UNCHANGED <<commands, serving, pp, context, opens, asked, session, last, crash>>

command_get_size == exportsize

lwnbd_update_size(c) ==
    /\ At(c, "update")
    /\ context' = command_get_size
    /\ Goto(c, "answer")
    /\ UNCHANGED <<commands, serving, shared, opens, asked, session, last, crash>>

\* The handshake tells the client the size.
Answer(c) ==
    /\ At(c, "answer")
    /\ session' = [session EXCEPT ![c].told = context]
    /\ Goto(c, "open")
    /\ UNCHANGED <<commands, serving, shared, context, opens, asked, last, crash>>

-----------------------------------------------------------------------------
(* Transmission.                                                             *)

\* The offset is not used.
Copied(count) == [k \in 0 .. count - 1 |-> result[k]]

command_pread(c, offset, count) ==
    /\ At(c, "open")
    /\ offset + count <= session[c].told
    /\ last' = [last EXCEPT ![c] =
          [kind |-> "read", offset |-> offset, count |-> count, data |-> Copied(count)]]
    /\ UNCHANGED <<commands, serving, shared, context, pc, opens, asked, session, crash>>

\* What the command is passed is the array of parameters of a call of
\* lwnbd_get_context that has returned: it may hold anything.
command_pwrite(c) ==
    /\ At(c, "open")
    /\ \/ /\ pp = None
          /\ crash' = "no POST command"
          /\ UNCHANGED last
       \/ /\ pp # None
          /\ last' = [last EXCEPT ![c] = [kind |-> "write", command |-> pp]]
          /\ UNCHANGED crash
    /\ UNCHANGED <<commands, serving, shared, context, pc, opens, asked, session>>

Disconnect(c) ==
    /\ At(c, "open")
    /\ Goto(c, "idle")
    /\ last' = [last EXCEPT ![c] = NoAccess]
    /\ session' = [session EXCEPT ![c] = NoSession]
    /\ UNCHANGED <<commands, serving, shared, context, opens, asked, crash>>

Quiet ==
    /\ crash # "none" \/ (opens = MaxOpens /\ \A c \in Clients : pc[c] = "idle")
    /\ UNCHANGED vars

Next ==
    \/ \E k \in Kinds : command_add_command(k)
    \/ Serve
    \/ \E c \in Clients :
          \/ \E key \in Keys : command_query(c, key)
          \/ NoParams(c)
          \/ RunCommand(c) \/ lwnbd_update_size(c) \/ Answer(c)
          \/ \E offset, count \in 0 .. CMD_BUFFER_SZ : command_pread(c, offset, count)
          \/ command_pwrite(c)
          \/ Disconnect(c)
    \/ Quiet

Spec == Init /\ [][Next]_vars

-----------------------------------------------------------------------------
(* Properties.                                                               *)

Alone(c, type) == pc[c] = "open" /\ session[c].command.type = type /\ session[c].alone
OwnSize(c) == IF session[c].command.size = 0 THEN 1 ELSE session[c].command.size
OwnOutput(c, k) == IF k < session[c].command.size THEN Out(session[c].id, k) ELSE Zero

\* A client that has opened the export with a GET command is told the size of what
\* this command printed, or 1 if it printed nothing, and reads from the beginning what
\* this command printed, with nothing left of the commands before, whatever was opened,
\* failed, read, written or closed before, unless the lookup of another client falls
\* into its session (command.c 30-36, 53-64, 126-129, contexts_uri.c 77-83).
ReadsOwnResult ==
    \A c \in Clients : Alone(c, "GET") =>
        /\ session[c].told = OwnSize(c)
        /\ last[c].kind = "read" /\ last[c].offset = 0 =>
              \A k \in DOMAIN last[c].data : last[c].data[k] = OwnOutput(c, k)

\* A client that has opened the export with a POST command runs that one with each
\* write, not one that was asked for earlier (command.c 38-44, 66-80).
WritesRunOwn ==
    \A c \in Clients :
        Alone(c, "POST") /\ last[c].kind = "write" => last[c].command = session[c].command
==============================================================================
