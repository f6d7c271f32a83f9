------------------------------ MODULE Programs ------------------------------
(***************************************************************************)
(* The programs that use the library, one at a time: the set-up of the     *)
(* libuv server (examples/lwnbd-server.c) and of the PlayStation 2 module  *)
(* (ports/playstation2/iop/lwnbd_irx.c), the three local programs          *)
(* (examples/local-reader.c, local-command-wc.c, local-shell.c), and an    *)
(* application that makes any calls.  A program is the list of the calls   *)
(* it makes, none of whose results it looks at, and then its loop.         *)
(***************************************************************************)
EXTENDS Shell

CONSTANTS
    Paths,        \* files named on a command line
    Uris,         \* URIs to look up
    AnyUris,      \* URIs that the application which makes any calls looks up
    FileSizes,    \* bytes that can be read of a file
    MaxFiles      \* bound on the -f options of the server

\* The plugins that the programs below are linked with.
ASSUME LinkedAssumption ==
    {"file", "memory", "command", "atad", "mcman", "pcmstream"} \subseteq Drivers
ASSUME SizesAssumption == FileSizes \subseteq Nat
ASSUME StringsAssumption == \A s \in Uris \cup AnyUris \cup Paths : IsString(s)

\* A path names a file: its components are separated by slashes, the last is a name,
\* and there is no '?' or '#' in it.
ASSUME PathsAssumption ==
    \A path \in Paths :
        /\ path # <<>> /\ path[Len(path)] # "/"
        /\ \A i \in DOMAIN path : path[i] \notin {"?", "#"}
        /\ \A i \in 1 .. Len(path) - 1 : path[i] = "/" \/ path[i + 1] = "/"
ASSUME StructsAssumption ==
    /\ Struct["file"] = file_plugin /\ Struct["memory"] = memory_plugin
    /\ Struct["command"] = command_plugin

VARIABLES
    program,
    arg, size,    \* the file a local program is given, and what can be read of the file
                  \* of its name in the working directory, 0 when there is none
    todo,         \* the calls still to be made
    h,            \* driver -> the variable of the program that keeps its handle
    uri,          \* the last URI looked up
    file, sink,   \* contexts that the local programs read and write
    offset, count,
    done,
    made,         \* history: the exports made, [name, d, at]
    spoilt        \* history: bytes written to the file

fixed == <<program, arg, size>>
own == <<fixed, todo, h, uri, file, sink, offset, count, done, made, spoilt>>
allVars == <<vars, shellVars, own>>

Programs == {"server", "irx", "reader", "wc", "shell", "any", "uri"}

\* Calls.  The name of an export of a file is the last component of its path.
Load(d) == [op |-> "init", d |-> d]
LoadIfNull(d) == [op |-> "init if NULL", d |-> d]
New(d, name) == [op |-> "new", d |-> d, name |-> name]
Get(u, v) == [op |-> "get", uri |-> u, var |-> v]
basename(path) == path[Len(path)]

-----------------------------------------------------------------------------
(* What each main() calls.                                                   *)

\* lwnbd-server.c: the -f options; then a message of the day and "shutdown".
ServerOptions(files) ==
    [k \in 1 .. 2 * Len(files) |->
        IF k % 2 = 1 THEN LoadIfNull("file") ELSE New("file", basename(files[k \div 2]))]
ServerContent == <<Load("memory"), New("memory", "motd"), Load("command"), New("command", "")>>

\* config() of lwnbd_irx.c; each block is there when the plugin is built in.
irx_config(builtIn) ==
    LET block(d, calls) == IF d \in builtIn THEN <<Load(d)>> \o calls ELSE <<>>
    IN block("atad", <<New("atad", "hdd0"), New("atad", "hdd1")>>)
       \o block("mcman", <<New("mcman", "mc0"), New("mcman", "mc1")>>)
       \o block("memory", <<New("memory", "ram"), New("memory", "bios")>>)
       \o block("pcmstream", <<New("pcmstream", "speakers")>>)
Builds == SUBSET {"atad", "mcman", "memory", "pcmstream"}

ReaderCalls(path) == <<Load("file"), New("file", basename(path)), Get(path, "file")>>
WcCalls(path) ==
    ReaderCalls(path) \o <<Load("command"), New("command", ""), Get(<<"api", "?", "wc">>, "sink")>>

ShellCalls ==
    <<Load("memory"), New("memory", "test"),
      Get(<<"test", "?", "memcpy", "=", "Example">>, "none"),
      Load("command"), New("command", "")>>

Calls(p, path) ==
    CASE p = "server" ->
            {ServerOptions(files) \o ServerContent :
                files \in UNION {[1 .. n -> Paths] : n \in 0 .. MaxFiles}}
      [] p = "irx" -> {irx_config(b) : b \in Builds}
      [] p = "reader" -> {ReaderCalls(path)}
      [] p = "wc" -> {WcCalls(path)}
      [] p = "shell" -> {ShellCalls}
      [] p = "any" -> {ServerContent}
      [] p = "uri" -> {<<Get(u, "none")>> : u \in Uris}

\* The server's variable for the file plugin is tested before it is set: it holds
\* NULL, which is handle 0, or something that is no handle.
Init ==
    /\ PluginsInit /\ ShellInit
    /\ program \in Programs
    /\ arg \in IF program \in {"reader", "wc"} THEN Paths ELSE {<<>>}
    /\ size \in IF program \in {"reader", "wc"} THEN FileSizes ELSE {0}
    /\ todo \in Calls(program, arg)
    /\ h \in {[d \in Drivers |-> v] : v \in IF program = "server" THEN {0, ERR} ELSE {0}}
    /\ handles = IF program = "server" /\ h["file"] = ERR THEN {ERR} ELSE {}
    /\ uri = <<>> /\ file = NULL /\ sink = NULL
    /\ offset = 0 /\ count = 0 /\ done = FALSE
    /\ made = {} /\ spoilt = 0

-----------------------------------------------------------------------------

Call == Head(todo)
At(op) == alive /\ todo # <<>> /\ Call.op = op

\* lwnbd_plugin_init and the assignment of its result.
Loads ==
    /\ At("init") \/ (At("init if NULL") /\ h[Call.d] = 0)
    /\ lwnbd_plugin_init(Call.d)
    /\ h' = [h EXCEPT ![Call.d] = ret']
    /\ todo' = Tail(todo)
    /\ UNCHANGED <<shellVars, fixed, uri, file, sink, offset, count, done, made, spoilt>>

Loaded ==
    /\ At("init if NULL") /\ h[Call.d] # 0
    /\ todo' = Tail(todo)
    /\ UNCHANGED <<vars, shellVars, fixed, h, uri, file, sink, offset, count, done, made, spoilt>>

Makes ==
    /\ At("new")
    /\ lwnbd_plugin_new(h[Call.d], Call.name)
    /\ made' = IF ret' = 0 /\ alive' /\ contexts' # contexts
               THEN made \cup {[name |-> Call.name, d |-> Call.d, at |-> lwnbd_contexts_count]}
               ELSE made
    /\ todo' = Tail(todo)
    /\ UNCHANGED <<shellVars, fixed, h, uri, file, sink, offset, count, done, spoilt>>

\* "wc" is the command of its program, and only keeps what a write is to run.
Gets ==
    LET r == Request(Call.uri)
    IN /\ At("get")
       /\ IF program = "wc"
          THEN lwnbd_get_context(r.name, r.params # <<>>) /\ (r.p = "command" => ret' # NULL)
               /\ UNCHANGED <<memory, stored>>
          ELSE Query(r)
       /\ uri' = Call.uri
       /\ file' = IF Call.var = "file" THEN ret' ELSE file
       /\ sink' = IF Call.var = "sink" THEN ret' ELSE sink
       /\ todo' = Tail(todo)
       /\ UNCHANGED <<exportname, answer, result, fixed, h, offset, count, done, made, spoilt>>

-----------------------------------------------------------------------------
(* The loops.                                                                *)

Looping(p) == alive /\ todo = <<>> /\ program = p /\ ~done

\* lwnbd_pread of the next byte, through a context that may be NULL.
FollowsNull(c) ==
    /\ c = NULL
    /\ Crash
    /\ UNCHANGED <<tables, configured, handles, shellVars, own>>

\* The reader prints what its buffer holds after the read that fails, too.
ReaderTurn ==
    /\ Looping("reader")
    /\ \/ FollowsNull(file)
       \/ /\ file # NULL
          /\ offset' = offset + 1
          /\ count' = count + 1
          /\ done' = (offset >= size)
          /\ UNCHANGED <<vars, shellVars, fixed, todo, h, uri, file, sink, made, spoilt>>

\* A read that fails ends the loop before the write; the context of "api?wc" is the
\* command's unless another export has that name.
CountsAfter_Always == TRUE  \* mutant: the write comes before the test of the read
CountsAfter == offset < size
WcTurn ==
    /\ Looping("wc")
    /\ \/ FollowsNull(file)
       \/ /\ file # NULL /\ sink # NULL
          /\ offset' = offset + 1
          /\ count' = IF CountsAfter /\ contexts[sink].p = "command" THEN count + 1 ELSE count
          /\ spoilt' = IF CountsAfter /\ contexts[sink].p = "file" THEN spoilt + 1 ELSE spoilt
          /\ done' = (offset >= size)
          /\ UNCHANGED <<vars, shellVars, fixed, todo, h, uri, file, sink, made>>

ShellLoop ==
    /\ Looping("shell")
    /\ \E line \in Lines : ShellTurn(line)
    /\ UNCHANGED own

\* "exit", or the end of the input.
ShellExits ==
    /\ Looping("shell")
    /\ done' = TRUE
    /\ UNCHANGED <<vars, shellVars, fixed, todo, h, uri, file, sink, offset, count, made, spoilt>>

\* Its later calls are not among the exports made, and what its queries do to the
\* plugins is left out.
Anything ==
    /\ Looping("any")
    /\ \/ AnyCall /\ UNCHANGED own
       \/ \E u \in AnyUris :
             /\ lwnbd_get_context(Request(u).name, Request(u).params # <<>>)
             /\ uri' = u
             /\ UNCHANGED <<fixed, todo, h, file, sink, offset, count, done, made, spoilt>>
    /\ UNCHANGED shellVars

Finished ==
    /\ ~alive \/ done \/ (todo = <<>> /\ program \in {"server", "irx", "uri"})
    /\ UNCHANGED allVars

Next ==
    \/ Loads \/ Loaded \/ Makes \/ Gets
    \/ ReaderTurn \/ WcTurn \/ ShellLoop \/ ShellExits \/ Anything
    \/ Finished

Spec == Init /\ [][Next]_allVars

-----------------------------------------------------------------------------
(* Properties.                                                               *)

\* Every export a program makes stays in its context, served by the plugin it was made
\* with, and whatever is registered later, a lookup of its name finds it, or one of the
\* same name made before every other of that name (plugins.c 30-46, contexts.c 112-128).
ExportsFound ==
    \A m \in made :
        /\ contexts[m.at] = [name |-> m.name, p |-> m.d]
        /\ \A n \in made : n.name = m.name => lwnbd_get_context_string(m.name) \in 0 .. n.at

\* A constructor was called for more devices than it has room for.
TooMany == \E d \in Drivers : Struct[d].table # 0 /\ devices[d] > Struct[d].table

\* A request for a text that the region or the result of the commands has no room for.
TooLong(params) ==
    \/ Overruns(params)
    \/ \E i \in DOMAIN params :
          params[i].val # NullString /\ Len(params[i].val) + 2 > CMD_BUFFER_SZ

\* What may go wrong with a line: there is a '$' to echo, in it or in the name that is
\* put before it, the commands are asked nothing, a text is too long, or there are more
\* contexts to list than there is room for.
BadLine(line) ==
    LET r == Request(exportname \o <<"?">> \o line)
    IN \/ strchr(line, "$") # 0 \/ strchr(exportname, "$") # 0
       \/ Unasked(r) \/ TooLong(r.params) \/ lwnbd_contexts_count >= CMD_BUFFER_SZ

\* A program follows a bad pointer, or writes out of bounds, only after a constructor
\* failed or was called for more devices than it has room for, the pool ran full,
\* it went on with a handle that was never one, it was given a file whose path has
\* more than one slash, which is not the path it looks up (file.c 119, yuarel.c 69-74),
\* it looked the commands up without a query (contexts_uri.c 47, command.c 90-97), or
\* the shell was given a line as above (builtin.c 24-44, memory.c 81, command.c 8).
CrashHasCause ==
    ~alive => \/ failed # {} \/ PoolFull \/ ERR \in handles \/ TooMany
              \/ file = NULL /\ Cardinality({i \in DOMAIN arg : arg[i] = "/"}) > 1
              \/ Unasked(Request(uri))
              \/ answer.line # <<>> /\ BadLine(answer.line)

\* When the byte counter ends it has counted the bytes of the file, each once, and has
\* written nothing to it, unless the file has the name of the export of the commands
\* (local-command-wc.c 56-61); the reader has printed one more (local-reader.c 27-29).
CountExact ==
    done => /\ program = "reader" => count = size + 1
            /\ program = "wc" => /\ spoilt > 0 => contexts[file].name = "api"
                                 /\ spoilt = 0 => count = size

\* Every URI is taken apart into what its author wrote (yuarel.c 42-176).
UriParsed == ParsesExactly(uri, "&", MAX_QUERY)
=============================================================================
