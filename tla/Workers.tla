------------------------------- MODULE Workers -------------------------------
(***************************************************************************)
(* The libuv server (examples/lwnbd-server.c): on_new_connection takes a   *)
(* slot and queues on_work, which a thread of the pool runs: it accepts    *)
(* the connection, runs the session until the client is gone and closes    *)
(* it; then the loop calls on_after_work, which frees the slot.  SIGINT    *)
(* ends the loop and with it the process.                                  *)
(*                                                                         *)
(* Of libuv (external; it is not thread-safe, and on_work calls it from    *)
(* the threads of the pool): uv__server_io takes a connection into         *)
(* accepted_fd, calls back, and looks whether it is still there; if so it  *)
(* stops the watcher, else it takes the next one.  uv_accept empties       *)
(* accepted_fd and then starts the watcher, which the loop learns of when  *)
(* it next polls; nothing but the end of a request or a signal wakes it.   *)
(* A connection that is taken while another is in accepted_fd meets an     *)
(* assertion.  The pool has a thread for every slot.                       *)
(***************************************************************************)
EXTENDS Connections, Naturals, Sequences

CONSTANT MAX_CLIENTS

ASSUME MaxClientsAssumption == MAX_CLIENTS \in Nat \ {0}

VARIABLES
    backlog,          \* connections the kernel holds
    accepted_fd,      \* connection the loop has taken for uv_accept
    loop,             \* "poll": waits; "check": called back, about to look at accepted_fd;
                      \* "stop": about to stop the watcher; "next": about to poll
    watching,         \* the loop polls the socket
    started,          \* the watcher was started and the loop has yet to learn of it
    client_states,    \* slot -> "FREE" or "INUSE"
    work,             \* slot -> state of its request
    sock,             \* slot -> connection it serves
    stopped,          \* the process has ended
    \* History
    came, gone,       \* connections made, and given up by the client
    served,           \* connections some session was run for
    turnedAway,       \* connections that found no slot
    lost              \* the watcher was started by a thread, and then stopped by the loop

slots == <<client_states, work, sock>>
watcher == <<loop, watching, started>>
clients == <<came, gone, served, turnedAway>>
vars == <<backlog, accepted_fd, watcher, slots, stopped, clients, lost>>

Slots == 0 .. MAX_CLIENTS - 1

Init ==
    /\ backlog = <<>> /\ accepted_fd = None
    /\ loop = "poll" /\ watching = TRUE /\ started = FALSE /\ lost = FALSE
    /\ client_states = [i \in Slots |-> "FREE"]
    /\ work = [i \in Slots |-> "none"]
    /\ sock = [i \in Slots |-> None]
    /\ stopped = FALSE
    /\ came = {} /\ gone = {} /\ served = {} /\ turnedAway = {}

Connect(c) ==
    /\ ~stopped
    /\ c \notin came
    /\ came' = came \cup {c}
    /\ backlog' = Append(backlog, c)
    /\ UNCHANGED <<accepted_fd, watcher, slots, stopped, gone, served, turnedAway, lost>>

Leave(c) ==
    /\ ~stopped
    /\ c \in came \ gone
    /\ gone' = gone \cup {c}
    /\ UNCHANGED <<backlog, accepted_fd, watcher, slots, stopped, came, served, turnedAway, lost>>

FreeSlots == {i \in Slots : client_states[i] = "FREE"}
TakenSlots == {i \in FreeSlots : \A j \in FreeSlots : i <= j}

Claim_NoMark ==  \* mutant: the slot is not marked
    UNCHANGED client_states
Claim == client_states' = [i \in Slots |-> IF i \in TakenSlots THEN "INUSE" ELSE client_states[i]]

\* The loop takes the next connection, and calls back.
on_new_connection ==
    /\ accepted_fd' = Head(backlog)
    /\ backlog' = Tail(backlog)
    /\ loop' = "check"
    /\ \/ /\ FreeSlots # {}
          /\ Claim
          /\ work' = [i \in Slots |-> IF i \in TakenSlots THEN "queued" ELSE work[i]]
          /\ UNCHANGED turnedAway
       \/ /\ FreeSlots = {}
          /\ turnedAway' = turnedAway \cup {Head(backlog)}
          /\ UNCHANGED <<client_states, work>>
    /\ UNCHANGED <<sock, stopped, watching, started, came, gone, served, lost>>

\* The socket is readable; assert(accepted_fd == -1).
Readable ==
    /\ ~stopped /\ loop = "poll" /\ watching /\ backlog # <<>>
    /\ \/ accepted_fd = None /\ on_new_connection
       \/ /\ accepted_fd # None /\ stopped' = TRUE
          /\ UNCHANGED <<backlog, accepted_fd, watcher, slots, clients, lost>>

\* Back from on_new_connection.
Check ==
    /\ ~stopped /\ loop = "check"
    /\ \/ accepted_fd = None /\ backlog # <<>> /\ on_new_connection
       \/ /\ accepted_fd = None => backlog = <<>>
          /\ loop' = IF accepted_fd = None THEN "next" ELSE "stop"
          /\ UNCHANGED <<backlog, accepted_fd, watching, started, slots, stopped, clients, lost>>

Accepting == {i \in Slots : work[i] = "accepted"}
Stop ==
    /\ ~stopped /\ loop = "stop"
    /\ loop' = "next" /\ watching' = FALSE /\ started' = FALSE
    /\ lost' = (lost \/ (accepted_fd = None /\ Accepting = {}))
    /\ UNCHANGED <<backlog, accepted_fd, slots, stopped, clients>>

Poll ==
    /\ ~stopped /\ loop = "next"
    /\ loop' = "poll" /\ watching' = (watching \/ started) /\ started' = FALSE
    /\ UNCHANGED <<backlog, accepted_fd, slots, stopped, clients, lost>>

\* on_work as far as into uv_accept.
Accept(i) ==
    /\ ~stopped
    /\ work[i] = "queued"
    /\ \/ /\ accepted_fd # None
          /\ sock' = [sock EXCEPT ![i] = accepted_fd]
          /\ served' = served \cup {accepted_fd}
          /\ accepted_fd' = None
          /\ work' = [work EXCEPT ![i] = "accepted"]
       \/ /\ accepted_fd = None
          /\ work' = [work EXCEPT ![i] = "finished"]
          /\ UNCHANGED <<sock, served, accepted_fd>>
    /\ UNCHANGED <<backlog, watcher, client_states, stopped, came, gone, turnedAway, lost>>

\* The end of uv_accept; then lwnbd_server_run.
uv_accept_Deaf == UNCHANGED started  \* mutant: the socket is not watched again
uv_accept == started' = (started \/ ~watching)
StartRun(i) ==
    /\ ~stopped
    /\ work[i] = "accepted"
    /\ uv_accept
    /\ work' = [work EXCEPT ![i] = "running"]
    /\ UNCHANGED <<backlog, accepted_fd, loop, watching, client_states, sock, stopped, clients, lost>>

\* lwnbd_server_run returns, when the client is gone or for an error.
EndRun(i) ==
    /\ ~stopped
    /\ work[i] = "running"
    /\ work' = [work EXCEPT ![i] = "finished"]
    /\ UNCHANGED <<backlog, accepted_fd, watcher, client_states, sock, stopped, clients, lost>>

Release_Keep(i) ==  \* mutant: the slot is not given back
    UNCHANGED client_states
Release(i) == client_states' = [client_states EXCEPT ![i] = "FREE"]

\* The end of a request wakes the loop.
on_after_work(i) ==
    /\ ~stopped /\ loop = "poll"
    /\ work[i] = "finished"
    /\ Release(i)
    /\ work' = [work EXCEPT ![i] = "none"]
    /\ sock' = [sock EXCEPT ![i] = None]
    /\ loop' = "next"
    /\ UNCHANGED <<backlog, accepted_fd, watching, started, stopped, clients, lost>>

\* uv_cancel is given addresses that are not requests, and cancels nothing.
signal_handler ==
    /\ ~stopped /\ loop = "poll"
    /\ stopped' = TRUE
    /\ UNCHANGED <<backlog, accepted_fd, watcher, slots, clients, lost>>

\* Every client has come and gone, or the process has ended.
Quiet == (stopped \/ gone = Conns) /\ UNCHANGED vars

Next ==
    \/ \E c \in Conns : Connect(c) \/ Leave(c)
    \/ Readable \/ Check \/ Stop \/ Poll
    \/ \E i \in Slots : Accept(i) \/ StartRun(i) \/ EndRun(i) \/ on_after_work(i)
    \/ signal_handler
    \/ Quiet

Spec == Init /\ [][Next]_vars

\* The loop and the threads of the pool run; a session ends when its client is gone.
FairSpec ==
    /\ Spec
    /\ WF_vars(Readable) /\ WF_vars(Check \/ Stop \/ Poll)
    /\ \A i \in Slots :
          /\ WF_vars(Accept(i) \/ StartRun(i))
          /\ WF_vars(EndRun(i) /\ sock[i] \in gone)
          /\ WF_vars(on_after_work(i))

-----------------------------------------------------------------------------
(* Properties.                                                               *)

\* The thread of a slot finds the connection the slot was taken for: uv_accept does
\* not fail, and no other thread takes it (lwnbd-server.c 112-117).  No slot is given
\* to a connection while its thread is at work for another, and no connection is
\* served in two slots (lwnbd-server.c 85-90, 137-147).
AcceptSucceeds ==
    /\ \A i \in Slots :
          work[i] = "queued" =>
              /\ accepted_fd \in came \ turnedAway
              /\ \A j \in Slots \ {i} : work[j] # "queued"
    /\ \A i \in Slots : client_states[i] = "FREE" => work[i] = "none"
    /\ \A i, j \in Slots : sock[i] = sock[j] /\ sock[i] # None => i = j

\* When every client leaves in the end, every connection is served, unless one was
\* turned away, the loop has stopped the watcher after a thread had started it, or
\* the process has ended.  No more can be said: a connection may wait for the loop
\* as long as the session before it lasts (lwnbd-server.c 102-125, 128-151).
ServedIfClientsLeave ==
    (\A c \in Conns : c \in came ~> c \in gone) =>
        \A c \in Conns : c \in came ~> (c \in served \/ turnedAway # {} \/ lost \/ stopped)

\* A slot comes back when its client is gone (lwnbd-server.c 85-90).
SlotsComeBack ==
    \A i \in Slots :
        (client_states[i] = "INUSE" /\ sock[i] \in gone) ~> (client_states[i] = "FREE" \/ stopped)
==============================================================================
