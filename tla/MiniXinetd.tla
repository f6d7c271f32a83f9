----------------------------- MODULE MiniXinetd -----------------------------
(***************************************************************************)
(* The small xinetd (examples/mini-xinetd.c): the configuration is parsed, *)
(* every service gets a listening socket, and every connection a thread    *)
(* that looks its server up by name (src/servers.c) and runs it with the   *)
(* stdout of the process, which all threads share, set to the connection.  *)
(* Nothing is printed to stderr, so of its stream only the descriptor is   *)
(* modelled; threads can always be made, and a server that is run returns. *)
(***************************************************************************)
EXTENDS Connections, Naturals, Sequences, FiniteSets

CONSTANTS
    ConfigLines,      \* lines of a configuration, see Line
    Built,            \* names of the servers that are built in, in order
    MAX_SERVICES, MAX_NUM_SERVERS,
    OpenMax,          \* descriptors the process may have for connections
    MaxLines          \* bound on the lines of a configuration

\* A service and its name, a closing brace, a port, a server, a service declaration
\* that is malformed, and a line without effect.
Line == [kind : {"service", "port", "server"}, value : STRING]
        \cup [kind : {"brace", "bad", "none"}, value : {""}]
ASSUME LinesAssumption == ConfigLines \subseteq Line
ASSUME LimitsAssumption ==
    MAX_SERVICES \in Nat /\ MAX_NUM_SERVERS \in Nat /\ OpenMax \in Nat /\ MaxLines \in Nat

VARIABLES
    phase,            \* "parse", "listen", "serve", "exited" or "crashed"
    current, in,      \* of parse_config
    services,         \* as far as service_count
    listening,        \* services that have a socket
    stdout,
    fds,              \* descriptor -> connection, or None
    pc, service, fd, old_stdout,   \* of the threads, by connection
    dups,             \* descriptors of thread_stdout and thread_stderr, likewise
    \* History
    lines,            \* the configuration so far
    stream,           \* connection -> who has printed there
    leaked,           \* connections with a descriptor that no thread will close
    overlap           \* something was printed, or stdout read, during the run of another

config == <<current, in, services, lines>>
threads == <<pc, service, fd, old_stdout, dups>>
prints == <<stream, overlap>>
xinetdVars == <<phase, config, listening, stdout, fds, threads, prints, leaked>>

Console == "console"
ASSUME ConsoleAssumption == Console \notin Conns
Fds == 1 .. OpenMax
Unset == [name |-> None, port |-> None, server |-> None]

XinetdInit ==
    /\ phase = "parse"
    /\ current = Unset /\ in = FALSE /\ services = <<>> /\ lines = <<>>
    /\ listening = {}
    /\ stdout = Console
    /\ fds = [n \in Fds |-> None]
    /\ pc = [c \in Conns |-> "none"]
    /\ service = [c \in Conns |-> None]
    /\ fd = [c \in Conns |-> 0]
    /\ old_stdout = [c \in Conns |-> None]
    /\ dups = [c \in Conns |-> <<>>]
    /\ leaked = {}
    /\ stream = [c \in Conns \cup {Console} |-> {}]
    /\ overlap = FALSE

-----------------------------------------------------------------------------
(* parse_config, a line at a time.                                           *)

\* memset and strcpy.
Declare_NoMemset(name) ==  \* mutant: the fields of the service before stay
    [current EXCEPT !.name = name]
Declare(name) == [name |-> name, port |-> "0", server |-> ""]

ParseLine(l) ==
    /\ phase = "parse" /\ Len(lines) < MaxLines
    /\ lines' = Append(lines, l)
    /\ \/ /\ l.kind = "service"
          /\ current' = Declare(l.value)
          /\ in' = TRUE
          /\ UNCHANGED <<phase, services>>
       \/ l.kind = "bad" /\ phase' = "exited" /\ UNCHANGED <<current, in, services>>
       \/ /\ l.kind = "brace"
          /\ IF Len(services) = MAX_SERVICES
             THEN phase' = "crashed" /\ UNCHANGED services
             ELSE services' = Append(services, current) /\ UNCHANGED phase
          /\ in' = FALSE
          /\ UNCHANGED current
       \/ /\ l.kind \in {"port", "server"}
          /\ current' = IF ~in THEN current
                        ELSE IF l.kind = "port" THEN [current EXCEPT !.port = l.value]
                        ELSE [current EXCEPT !.server = l.value]
          /\ UNCHANGED <<phase, in, services>>
       \/ l.kind = "none" /\ UNCHANGED <<phase, current, in, services>>
    /\ UNCHANGED <<listening, stdout, fds, threads, prints, leaked>>

EndOfConfig ==
    /\ phase = "parse"
    /\ phase' = "listen"
    /\ current' = Unset /\ in' = FALSE /\ lines' = <<>>
    /\ UNCHANGED <<services, listening, stdout, fds, threads, prints, leaked>>

-----------------------------------------------------------------------------
(* main.                                                                     *)

\* start_listener of the next service: a port can be had once, except 0, which stands for any,
\* and any call may fail.
start_listener ==
    LET i == Cardinality(listening) + 1
    IN /\ phase = "listen" /\ i <= Len(services)
       /\ \/ /\ services[i].port = "0"
                \/ \A j \in listening : services[j].port # services[i].port
             /\ listening' = listening \cup {i}
             /\ UNCHANGED phase
          \/ phase' = "exited" /\ UNCHANGED listening
       /\ UNCHANGED <<config, stdout, fds, threads, prints, leaked>>

Listening ==
    /\ phase = "listen" /\ Cardinality(listening) = Len(services)
    /\ phase' = "serve"
    /\ UNCHANGED <<config, listening, stdout, fds, threads, prints, leaked>>

\* A thread has stdout from when it sets it until it sets it back.
Holders == {c \in Conns : pc[c] \in {"run", "restore"}}

\* printf: a stream that is closed cannot be written; otherwise the text goes where
\* the stream's descriptor leads.
Target == IF stdout = Console THEN Console ELSE fds[dups[stdout][1]]
Prints(who) ==
    IF stdout # Console /\ pc[stdout] = "end"
    THEN phase' = "crashed" /\ UNCHANGED stream
    ELSE /\ stream' = [k \in DOMAIN stream |->
                          IF k = Target THEN stream[k] \cup {who} ELSE stream[k]]
         /\ UNCHANGED phase
Touches(c) == overlap' = (overlap \/ Holders \ {c} # {})

FreeFds == {n \in Fds : fds[n] = None}
Lowest(S) == CHOOSE n \in S : \A k \in S : n <= k

\* select and accept; the thread starts with the name and the descriptor.
AcceptConnection(i, c) ==
    /\ phase = "serve" /\ i \in listening /\ pc[c] = "none" /\ FreeFds # {}
    /\ fds' = [fds EXCEPT ![Lowest(FreeFds)] = c]
    /\ fd' = [fd EXCEPT ![c] = Lowest(FreeFds)]
    /\ Prints("main") /\ Touches(None)
    /\ service' = [service EXCEPT ![c] = services[i].name]
    /\ pc' = [pc EXCEPT ![c] = "start"]
    /\ UNCHANGED <<config, listening, stdout, old_stdout, dups, leaked>>

-----------------------------------------------------------------------------
(* service_thread.                                                           *)

Step(c, from, to) ==
    /\ phase = "serve" /\ pc[c] = from /\ pc' = [pc EXCEPT ![c] = to]
    /\ UNCHANGED <<config, listening, service, fd>>

\* lwnbd_servers_init registers what is built in, as long as there is room.
servers_bis == {Built[k] : k \in 1 .. (IF Len(Built) < MAX_NUM_SERVERS THEN Len(Built)
                                       ELSE MAX_NUM_SERVERS)}
get_server_by_name(name) == name \in servers_bis

\* A connection nobody can serve is left open.
Lookup(c) ==
    /\ Step(c, "start", IF get_server_by_name(service[c]) THEN "fdopen" ELSE "left")
    /\ Prints(c) /\ Touches(c)
    /\ UNCHANGED <<stdout, fds, old_stdout, dups, leaked>>

\* dup(fd) and fdopen, twice.  When a stream cannot be had, for want of a descriptor or
\* of memory, fd is closed here and again at the end, and what was had is forgotten.
Dup(j) == Lowest(IF j = 1 THEN FreeFds ELSE FreeFds \ {Lowest(FreeFds)})
HaveStreams(c) ==
    /\ Step(c, "fdopen", "save")
    /\ Cardinality(FreeFds) >= 2 /\ fds[fd[c]] # None
    /\ dups' = [dups EXCEPT ![c] = <<Dup(1), Dup(2)>>]
    /\ fds' = [fds EXCEPT ![Dup(1)] = fds[fd[c]], ![Dup(2)] = fds[fd[c]]]
    /\ UNCHANGED leaked
LackStream(c) ==
    /\ Step(c, "fdopen", "close twice")
    /\ \E k \in 0 .. 2 :
          LET had == {Dup(j) : j \in 1 .. k}
          IN /\ k > 0 => Cardinality(FreeFds) >= k /\ fds[fd[c]] # None
             /\ fds' = [n \in Fds |-> IF n = fd[c] THEN None
                                      ELSE IF n \in had THEN fds[fd[c]] ELSE fds[n]]
             /\ leaked' = IF k > 0 THEN leaked \cup {fds[fd[c]]} ELSE leaked
    /\ UNCHANGED dups
OpenStreams(c) ==
    /\ HaveStreams(c) \/ LackStream(c)
    /\ UNCHANGED <<phase, stdout, old_stdout, prints>>

SaveStdout(c) ==
    /\ Step(c, "save", "set")
    /\ old_stdout' = [old_stdout EXCEPT ![c] = stdout]
    /\ Touches(c)
    /\ UNCHANGED <<phase, stdout, fds, dups, stream, leaked>>

SetStdout(c) ==
    /\ Step(c, "set", "run")
    /\ stdout' = c
    /\ Touches(c)
    /\ UNCHANGED <<phase, fds, old_stdout, dups, stream, leaked>>

Run(c) ==
    /\ Step(c, "run", "restore")
    /\ Prints(c)
    /\ UNCHANGED <<stdout, fds, old_stdout, dups, overlap, leaked>>

Restored_Not(c) == stdout  \* mutant
Restored(c) == old_stdout[c]
RestoreStdout(c) ==
    /\ Step(c, "restore", "close")
    /\ stdout' = Restored(c)
    /\ UNCHANGED <<phase, fds, old_stdout, dups, prints, leaked>>

\* fclose of the streams, and close(fd).
Mine(c) == {fd[c]} \cup {dups[c][k] : k \in DOMAIN dups[c]}
CloseLast_Not(c) ==  \* mutant: only the streams are closed
    fds' = [n \in Fds |-> IF n \in Mine(c) \ {fd[c]} THEN None ELSE fds[n]]
CloseLast(c) == fds' = [n \in Fds |-> IF n \in Mine(c) THEN None ELSE fds[n]]
CloseConnection(c) ==
    /\ Step(c, "close", "end") \/ Step(c, "close twice", "closed twice")
    /\ CloseLast(c)
    /\ UNCHANGED <<phase, stdout, old_stdout, dups, prints, leaked>>

Thread(c) ==
    \/ Lookup(c) \/ OpenStreams(c) \/ SaveStdout(c) \/ SetStdout(c) \/ Run(c)
    \/ RestoreStdout(c) \/ CloseConnection(c)

\* A connection that nothing more happens to: served, left, or never accepted for want
\* of a descriptor.
AtRest(c) == pc[c] \in {"left", "end", "closed twice"} \/ (pc[c] = "none" /\ FreeFds = {})

XinetdQuiet ==
    /\ \/ phase \in {"exited", "crashed"}
       \/ phase = "serve" /\ listening = {}
       \/ phase = "serve" /\ \A c \in Conns : AtRest(c)
    /\ UNCHANGED xinetdVars

XinetdNext ==
    \/ \E l \in ConfigLines : ParseLine(l)
    \/ EndOfConfig \/ start_listener \/ Listening
    \/ \E c \in Conns : (\E i \in listening : AcceptConnection(i, c)) \/ Thread(c)
    \/ XinetdQuiet

XinetdSpec == XinetdInit /\ [][XinetdNext]_xinetdVars

\* The threads run.
XinetdFairSpec == XinetdSpec /\ \A c \in Conns : WF_xinetdVars(Thread(c))

-----------------------------------------------------------------------------
(* Properties.                                                               *)

Kind(k) == lines[k].kind
Braces == {k \in DOMAIN lines : Kind(k) = "brace"}
DeclarationOf(k) ==
    {d \in 1 .. k : /\ Kind(d) = "service"
                    /\ \A j \in d + 1 .. k - 1 : Kind(j) \notin {"service", "brace"}}
WellFormed == \A k \in Braces : DeclarationOf(k) # {}
LastValue(d, k, kind, default) ==
    LET set == {j \in d .. k : Kind(j) = kind}
    IN IF set = {} THEN default ELSE lines[CHOOSE j \in set : \A m \in set : m <= j].value

\* The services of a configuration whose braces match are those written in it, each
\* with its own name, port and server, whatever the service before it had
\* (mini-xinetd.c 80-112).
ServicesAsWritten ==
    WellFormed /\ phase = "parse" =>
        /\ Len(services) = Cardinality(Braces)
        /\ \A n \in DOMAIN services :
              \E k \in Braces : \E d \in DeclarationOf(k) :
                 /\ Cardinality({j \in Braces : j <= k}) = n
                 /\ services[n] = [name |-> lines[d].value,
                                   port |-> LastValue(d, k, "port", "0"),
                                   server |-> LastValue(d, k, "server", "")]

\* As long as every thread gets its streams: none closes a descriptor of another; and
\* while no connection comes, and no thread starts, while another has stdout, each
\* connection is sent what its own server prints and nothing else, and stdout is
\* back at the console after every run (mini-xinetd.c 147-161, 182, 230).
ConnectionsApart ==
    (\A c \in Conns : pc[c] \notin {"close twice", "closed twice"}) =>
        /\ \A c \in Conns : pc[c] \notin {"none", "end"} => \A n \in Mine(c) : fds[n] = c
        /\ ~overlap => /\ \A c \in Conns : stream[c] \subseteq {c}
                       /\ Holders = {} /\ phase # "crashed" => stdout = Console

\* The connection of a service that has a server is closed in the end, unless one of
\* its streams could be had and the other not: the descriptor of the one is then
\* never closed (mini-xinetd.c 142-162, 182).
ConnectionsClosed ==
    \A c \in Conns :
        (pc[c] = "start" /\ get_server_by_name(service[c])) ~>
            (phase # "serve" \/ c \in leaked \/ \A n \in Fds : fds[n] # c)
=============================================================================
