----------------------------- MODULE FilePlugin -----------------------------
(***************************************************************************)
(* The file plugin (plugins/file/file.c): file_ctor takes a handle for     *)
(* each file, file_get_size, called for every lookup of the export, opens  *)
(* the file, file_pread and file_pwrite transfer in as many system calls   *)
(* as it takes.  Nothing calls file_close.  There is one action per system *)
(* call, any of which may fail or do a part of the work.                   *)
(***************************************************************************)
EXTENDS Integers, FiniteSets

CONSTANTS
    Clients,
    Files,
    FILE_DRIVER_MAX_DEVICES,
    Size,             \* bytes of a file
    MaxFd,            \* descriptors the process may have
    MaxExports, MaxOps   \* bounds on the exports and on the transfers

ASSUME LimitsAssumption ==
    /\ FILE_DRIVER_MAX_DEVICES \in Nat \ {0} /\ MaxFd \in Nat \ {0}
    /\ Size \in Nat /\ MaxExports \in Nat /\ MaxOps \in Nat

VARIABLES
    handles,          \* place -> [filename, fd]; the last place is behind the array
    exports,          \* number of constructors that have run
    fds,              \* descriptor -> file, or None
    disk,             \* file -> offset -> byte
    pc, local,        \* client -> where it is, and the transfer under way
    \* History
    ops,              \* number of transfers so far
    prior,            \* client -> the file before its transfer
    mixed             \* client -> its transfer meets another one of its file

vars == <<handles, exports, fds, disk, pc, local, ops, prior, mixed>>

None == "none"
ASSUME FilesAssumption == None \notin Files
Bytes == 0 .. Size - 1
Fds == 1 .. MaxFd
Places == 0 .. FILE_DRIVER_MAX_DEVICES
Old(f, k) == <<"old", f, k>>
New(id, k) == <<"new", id, k>>   \* byte k of the data of transfer id

Idle == [export |-> -1, dir |-> None, id |-> 0, offset |-> 0, count |-> 0,
         done |-> 0, data |-> <<>>, result |-> 0]

Init ==
    /\ handles = [i \in Places |-> [filename |-> None, fd |-> 0]]
    /\ exports = 0
    /\ fds = [fd \in Fds |-> None]
    /\ disk = [f \in Files |-> [k \in Bytes |-> Old(f, k)]]
    /\ pc = [c \in Clients |-> "idle"]
    /\ local = [c \in Clients |-> Idle]
    /\ ops = 0
    /\ prior = [c \in Clients |-> <<>>]
    /\ mixed = [c \in Clients |-> FALSE]

\* The exports are made in order and keep their places; one more than there are
\* places gets the place behind them.
FreePlace_First == 0  \* mutant: handle_in_use is not set
FreePlace == IF exports < FILE_DRIVER_MAX_DEVICES THEN exports ELSE FILE_DRIVER_MAX_DEVICES

file_ctor(f) ==
    /\ exports < MaxExports
    /\ pc \in [Clients -> {"idle"}] /\ ops = 0
    /\ handles' = [handles EXCEPT ![FreePlace].filename = f]
    /\ exports' = exports + 1
    /\ UNCHANGED <<fds, disk, pc, local, ops, prior, mixed>>

At(c, label) == pc[c] = label
Goto(c, label) == pc' = [pc EXCEPT ![c] = label]
Handle(c) == handles[local[c].export]

-----------------------------------------------------------------------------
(* file_get_size: the file is opened each time, and the descriptor kept in   *)
(* the handle of the export in place of the one before.                      *)

FreeFds == {fd \in Fds : fds[fd] = None}
Lowest == CHOOSE fd \in FreeFds : \A other \in FreeFds : fd <= other

file_open(i) ==
    \/ /\ FreeFds # {}
       /\ fds' = [fds EXCEPT ![Lowest] = handles[i].filename]
       /\ handles' = [handles EXCEPT ![i].fd = Lowest]
    \/ /\ handles' = [handles EXCEPT ![i].fd = -1]
       /\ UNCHANGED fds

\* The size is -1 if the file cannot be opened; lwnbd_get_context returns the
\* context all the same.
file_get_size(c, i) ==
    /\ At(c, "idle")
    /\ handles[i].filename # None
    /\ ops < MaxOps
    /\ file_open(i)
    /\ local' = [local EXCEPT ![c] = [Idle EXCEPT !.export = i]]
    /\ Goto(c, "open")
    /\ UNCHANGED <<exports, disk, ops, prior, mixed>>

-----------------------------------------------------------------------------
(* file_pread and file_pwrite.                                               *)

Start(c, dir, offset, count) ==
    /\ At(c, "open")
    /\ ops < MaxOps
    /\ offset + count <= Size
    /\ ops' = ops + 1
    /\ local' = [local EXCEPT ![c].dir = dir, ![c].id = ops + 1, ![c].offset = offset,
                              ![c].count = count, ![c].done = 0, ![c].data = <<>>,
                              ![c].result = 0]
    /\ prior' = [prior EXCEPT ![c] = disk[Handle(c).filename]]
    /\ LET others == {d \in Clients \ {c} : /\ pc[d] \in {"transfer", "done"}
                                           /\ Handle(d).filename = Handle(c).filename}
       IN mixed' = [d \in Clients |-> IF d = c THEN others # {} ELSE mixed[d] \/ d \in others]
    /\ Goto(c, "transfer")
    /\ UNCHANGED <<handles, exports, fds, disk>>

Left(c) == local[c].count - local[c].done

Finish(c, result) ==
    /\ Goto(c, "done")
    /\ local' = [local EXCEPT ![c].result = result]

\* The loop is left when all is done.
LoopEnds(c) ==
    /\ At(c, "transfer")
    /\ Left(c) = 0
    /\ Finish(c, 0)
    /\ UNCHANGED <<handles, exports, fds, disk, ops, prior, mixed>>

\* The system call fails, also with a descriptor that is none.
CallFails(c) ==
    /\ At(c, "transfer")
    /\ Left(c) > 0
    /\ Finish(c, -1)
    /\ UNCHANGED <<handles, exports, fds, disk, ops, prior, mixed>>

\* Where the next call starts.
Position(c) == local[c].offset + local[c].done

Usable(c) == Handle(c).fd \in Fds

\* The part of the transfer that is done.
Advance_Not(c, r) ==  \* mutant: count is not taken down
    local[c].done
Advance(c, r) == local[c].done + r

pread(c, r) ==
    /\ At(c, "transfer")
    /\ local[c].dir = "read"
    /\ Usable(c)
    /\ r \in 1 .. Left(c)
    /\ LET f == fds[Handle(c).fd]
       IN local' = [local EXCEPT
             ![c].done = Advance(c, r),
             ![c].data = [k \in 0 .. local[c].done + r - 1 |->
                IF k < local[c].done THEN local[c].data[k]
                ELSE disk[f][Position(c) + k - local[c].done]]]
    /\ UNCHANGED <<handles, exports, fds, disk, pc, ops, prior, mixed>>

\* The bytes the next call writes are those behind the ones written.
Source_Stuck(c) ==  \* mutant: buf is not advanced
    0
Source(c) == local[c].done

pwrite(c, r) ==
    /\ At(c, "transfer")
    /\ local[c].dir = "write"
    /\ Usable(c)
    /\ r \in 1 .. Left(c)
    /\ disk' = [disk EXCEPT ![fds[Handle(c).fd]] =
          [k \in Bytes |-> IF k \in Position(c) .. Position(c) + r - 1
                           THEN New(local[c].id, Source(c) + k - Position(c)) ELSE @[k]]]
    /\ local' = [local EXCEPT ![c].done = Advance(c, r)]
    /\ UNCHANGED <<handles, exports, fds, pc, ops, prior, mixed>>

Return(c) ==
    /\ At(c, "done")
    /\ Goto(c, "open")
    /\ local' = [local EXCEPT ![c] = [Idle EXCEPT !.export = local[c].export]]
    /\ prior' = [prior EXCEPT ![c] = <<>>]
    /\ mixed' = [mixed EXCEPT ![c] = FALSE]
    /\ UNCHANGED <<handles, exports, fds, disk, ops>>

\* The session ends.  The descriptor stays open.
Disconnect(c) ==
    /\ At(c, "open")
    /\ Goto(c, "idle")
    /\ local' = [local EXCEPT ![c] = Idle]
    /\ UNCHANGED <<handles, exports, fds, disk, ops, prior, mixed>>

Quiet == (exports = 0 \/ ops = MaxOps) /\ pc \in [Clients -> {"idle"}] /\ UNCHANGED vars

Step(c) == LoopEnds(c) \/ CallFails(c) \/ \E r \in 1 .. Size : pread(c, r) \/ pwrite(c, r)

Next ==
    \/ \E f \in Files : file_ctor(f)
    \/ \E c \in Clients :
          \/ \E i \in Places : file_get_size(c, i)
          \/ \E dir \in {"read", "write"}, offset \in 0 .. Size, count \in 0 .. Size :
                Start(c, dir, offset, count)
          \/ Step(c) \/ Return(c) \/ Disconnect(c)
    \/ Quiet

Spec == Init /\ [][Next]_vars
FairSpec == Spec /\ \A c \in Clients : WF_vars(Step(c))

-----------------------------------------------------------------------------
(* Properties.                                                               *)

\* A read that returns 0 has given every byte of its range as the file of the export
\* has it, in however many parts, with other exports and lookups of this one going
\* on meanwhile (file.c 29-53).  A write that returns 0 has put every byte in its place,
\* and no write, failed or not, has changed anything outside of its range (file.c 55-71).
TransferExact ==
    \A c \in Clients : At(c, "done") /\ ~mixed[c] =>
        LET range == local[c].offset .. local[c].offset + local[c].count - 1
            Of(k) == k - local[c].offset
        IN \A k \in Bytes :
              IF local[c].dir = "read"
              THEN local[c].result = 0 /\ k \in range => local[c].data[Of(k)] = prior[c][k]
              ELSE disk[Handle(c).filename][k] \in
                     IF k \notin range THEN {prior[c][k]}
                     ELSE IF local[c].result = 0 THEN {New(local[c].id, Of(k))}
                     ELSE {prior[c][k], New(local[c].id, Of(k))}

\* The descriptor in a handle, if there is one, is open and is of its file
\* (file.c 88-102): however exports and lookups follow each other, no export
\* reaches the file of another one.
HandleHasItsFile ==
    \A i \in 0 .. FILE_DRIVER_MAX_DEVICES - 1 :
        handles[i].fd \in Fds => fds[handles[i].fd] = handles[i].filename

\* A transfer ends (file.c 36-51, 60-69): every call takes some of it or ends it.
TransferEnds == \A c \in Clients : At(c, "transfer") ~> ~At(c, "transfer")
=============================================================================
