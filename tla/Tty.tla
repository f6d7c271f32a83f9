--------------------------------- MODULE Tty ---------------------------------
(***************************************************************************)
(* The console plugin (plugins/tty/tty.c): nbdtty_ctor puts tty_write in   *)
(* place of the console, the threads of the IOP that print go through it   *)
(* into a ring buffer, and nbdtty_pread takes the bytes out for a client.  *)
(* There is one action per call of the kernel, per memcpy and per update   *)
(* of a position, the points where a thread can be preempted.              *)
(***************************************************************************)
EXTENDS Integers, Sequences, SequencesExt

CONSTANTS
    Writers, Readers,  \* threads that print, threads of clients
    TTY_SIZE,
    Counts,            \* lengths a client may ask for
    MaxWritten         \* bound on the number of bytes printed

ASSUME TtySizeAssumption == TTY_SIZE \in Nat \ {0}
ASSUME CountsAssumption == Counts \subseteq Nat \ {0}
ASSUME MaxWrittenAssumption == MaxWritten \in Nat
ASSUME ThreadsAssumption == Writers \cap Readers = {}

VARIABLES
    ctor,              \* "no", "failed" or "done"
    ev,                \* bits of the event flag
    ringbuffer, rwhence, wwhence,
    pc, local,         \* thread -> where it is, and its locals
    \* History
    log,               \* the bytes printed, in the order wwhence counts them
    begun,             \* the position up to which bytes may have been copied
    received,          \* the bytes all reads have returned
    lapped             \* a write has gone over bytes that were not read

history == <<log, begun, received, lapped>>
vars == <<ctor, ev, ringbuffer, rwhence, wwhence, pc, local, history>>

Threads == Writers \cup Readers
BUSY == "busy"
DATA == "data"
Unset == <<"unset", 0>>
Beyond == <<"beyond", 0>>     \* memory behind the ring
Byte(w, k) == <<w, k>>        \* the k-th byte the thread prints

\* data: the bytes of a write, or those a read has got so far.
Nothing == [pos |-> 0, size |-> 0, start |-> 0, done |-> 0, data |-> <<>>]

Init ==
    /\ ctor = "no"
    /\ ev = {}
    /\ ringbuffer = [k \in 0 .. TTY_SIZE - 1 |-> Unset]
    /\ rwhence = 0 /\ wwhence = 0
    /\ pc = [t \in Threads |-> "idle"]
    /\ local = [t \in Threads |-> Nothing]
    /\ log = <<>> /\ begun = 0 /\ received = <<>> /\ lapped = FALSE

\* The event flag is not to be had, or the driver is refused, or printing goes to
\* tty_write from now on (line 180 prints at once: any writer may be that thread).
nbdtty_ctor ==
    /\ ctor = "no"
    /\ ctor' \in {"failed", "done"}
    /\ UNCHANGED <<ev, ringbuffer, rwhence, wwhence, pc, local, history>>

At(t, label) == pc[t] = label
Goto(t, label) == pc' = [pc EXCEPT ![t] = label]

\* SetEventFlag only sets bits: IDLE has none, and nothing clears BUSY or DATA.
SetEventFlag(bits) == ev' = ev \cup bits

Pos(whence) == whence % TTY_SIZE

\* The length of the first memcpy, up to the end of the ring.
FirstPart_Short(t) ==  \* mutant: the last byte of the ring is not used
    IF local[t].pos + local[t].size >= TTY_SIZE
    THEN TTY_SIZE - 1 - local[t].pos ELSE local[t].size
FirstPart(t) ==
    IF local[t].pos + local[t].size > TTY_SIZE
    THEN TTY_SIZE - local[t].pos ELSE local[t].size

\* The next memcpy takes the bytes from .. to - 1 of the transfer; where they are in the ring.
CopyTo(t) == IF local[t].done < FirstPart(t) THEN FirstPart(t) ELSE local[t].size
Place(t, k) == IF k < FirstPart(t) THEN local[t].pos + k ELSE k - FirstPart(t)

-----------------------------------------------------------------------------
(* tty_write.  Waiting for no bits does not wait.                            *)

StartWrite(w, size) ==
    /\ ctor = "done"
    /\ At(w, "idle")
    /\ begun + size <= MaxWritten
    /\ local' = [local EXCEPT ![w] =
          [Nothing EXCEPT !.pos = Pos(wwhence), !.size = size, !.start = wwhence,
                          !.data = [k \in 1 .. size |-> Byte(w, wwhence + k - 1)]]]
    /\ begun' = begun + size
    /\ lapped' = (lapped \/ begun' > rwhence + TTY_SIZE)
    /\ SetEventFlag({BUSY})
    /\ Goto(w, "copy")
    /\ UNCHANGED <<ctor, ringbuffer, rwhence, wwhence, log, received>>

CopyIn(w) ==
    /\ At(w, "copy")
    /\ LET written == local[w].done .. CopyTo(w) - 1
       IN ringbuffer' = [p \in DOMAIN ringbuffer |->
             IF \E k \in written : Place(w, k) = p
             THEN local[w].data[1 + CHOOSE k \in written : Place(w, k) = p]
             ELSE ringbuffer[p]]
    /\ local' = [local EXCEPT ![w].done = CopyTo(w)]
    /\ IF CopyTo(w) = local[w].size THEN Goto(w, "advance") ELSE UNCHANGED pc
    /\ UNCHANGED <<ctor, ev, rwhence, wwhence, history>>

AdvanceWrite(w) ==
    /\ At(w, "advance")
    /\ wwhence' = wwhence + local[w].size
    /\ log' = log \o local[w].data
    /\ Goto(w, "signal")
    /\ UNCHANGED <<ctor, ev, ringbuffer, rwhence, local, begun, received, lapped>>

SignalData_Busy(w) ==  \* mutant: the other bit
    SetEventFlag({BUSY})
SignalData(w) == SetEventFlag({DATA})

EndWrite(w) ==
    /\ At(w, "signal")
    /\ SignalData(w)
    /\ Goto(w, "idle")
    /\ UNCHANGED <<ctor, ringbuffer, rwhence, wwhence, local, history>>

-----------------------------------------------------------------------------
(* nbdtty_pread.  The offset the client asks for is not used.                *)

StartRead(r, count) ==
    /\ ctor = "done"
    /\ At(r, "idle")
    /\ local' = [local EXCEPT ![r] =
          [Nothing EXCEPT !.pos = Pos(rwhence), !.size = count, !.start = rwhence]]
    /\ Goto(r, "wait")
    /\ UNCHANGED <<ctor, ev, ringbuffer, rwhence, wwhence, history>>

WaitEventFlag(r) ==
    /\ At(r, "wait")
    /\ DATA \in ev
    /\ SetEventFlag({BUSY})
    /\ Goto(r, "check")
    /\ UNCHANGED <<ctor, ringbuffer, rwhence, wwhence, local, history>>

Enough(r) == rwhence + local[r].size <= wwhence

Check(r) ==
    /\ At(r, "check")
    /\ Goto(r, IF Enough(r) THEN "copy" ELSE "wait")
    /\ UNCHANGED <<ctor, ev, ringbuffer, rwhence, wwhence, local, history>>

CopyOut(r) ==
    /\ At(r, "copy")
    /\ LET taken == [i \in 1 .. CopyTo(r) - local[r].done |->
             LET p == Place(r, local[r].done + i - 1)
             IN IF p \in DOMAIN ringbuffer THEN ringbuffer[p] ELSE Beyond]
       IN local' = [local EXCEPT ![r].done = CopyTo(r), ![r].data = @ \o taken]
    /\ IF CopyTo(r) = local[r].size THEN Goto(r, "advance") ELSE UNCHANGED pc
    /\ UNCHANGED <<ctor, ev, ringbuffer, rwhence, wwhence, history>>

AdvanceRead_Pos(r) ==  \* mutant: from the place in the ring, not in the stream
    rwhence' = local[r].pos + local[r].size
AdvanceRead(r) == rwhence' = rwhence + local[r].size

EndCopy(r) ==
    /\ At(r, "advance")
    /\ AdvanceRead(r)
    /\ received' = received \o local[r].data
    /\ Goto(r, "signal")
    /\ UNCHANGED <<ctor, ev, ringbuffer, wwhence, local, log, begun, lapped>>

EndRead(r) ==
    /\ At(r, "signal")
    /\ SetEventFlag(IF rwhence < wwhence THEN {DATA} ELSE {})
    /\ Goto(r, "idle")
    /\ UNCHANGED <<ctor, ringbuffer, rwhence, wwhence, local, history>>

-----------------------------------------------------------------------------
StepWrite(w) == CopyIn(w) \/ AdvanceWrite(w) \/ EndWrite(w)
StepRead(r) == WaitEventFlag(r) \/ Check(r) \/ CopyOut(r) \/ EndCopy(r) \/ EndRead(r)

\* The plugin is not there, or every reader waits for bytes beyond the bound.
Quiet ==
    /\ \/ ctor = "failed"
       \/ begun = MaxWritten /\ \A w \in Writers : At(w, "idle")
    /\ UNCHANGED vars

Next ==
    \/ nbdtty_ctor
    \/ \E w \in Writers : StepWrite(w) \/ \E size \in 1 .. TTY_SIZE : StartWrite(w, size)
    \/ \E r \in Readers : StepRead(r) \/ \E count \in Counts : StartRead(r, count)
    \/ Quiet

Spec == Init /\ [][Next]_vars

\* A client's thread runs again and again, and a thread that prints finishes the call.
FairSpec ==
    /\ Spec
    /\ \A r \in Readers : WF_vars(StepRead(r))
    /\ \A w \in Writers : WF_vars(StepWrite(w))

-----------------------------------------------------------------------------
(* Properties.                                                               *)

\* What a read returns is what was printed at these positions, whatever was
\* printed meanwhile, unless printing has gone round the ring since (tty.c 44-55,
\* 132-142: "very stupid rb").
ReadStream ==
    \A r \in Readers :
        /\ At(r, "signal")
        /\ begun <= local[r].start + TTY_SIZE
        => local[r].data = SubSeq(log, local[r].start + 1, local[r].start + local[r].size)

\* One read after the other gives the console's text from its beginning, no byte
\* twice and none left out, as long as printing never goes over what was not read
\* (tty.c 102, 132-142 against 40-55).
StreamInOrder ==
    \/ lapped
    \/ IsPrefix(received, log) /\ (pc \in [Threads -> {"idle"}] => Len(received) = rwhence)

\* A read for which there is enough returns (tty.c 120-130): the flag that wakes
\* it is set by then, and the loop sees the new position.
ReadReturns ==
    \A r \in Readers :
        (~At(r, "idle") /\ local[r].start + local[r].size <= wwhence) ~> At(r, "idle")
==============================================================================
