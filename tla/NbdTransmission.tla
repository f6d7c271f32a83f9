-------------------------- MODULE NbdTransmission --------------------------
(***************************************************************************)
(* The transmission phase of the NBD server for one session               *)
(* (servers/nbd/protocol.c, transmission_phase).                           *)
(*                                                                         *)
(* There is one action per call that leaves the function: receiving a      *)
(* request, sending a reply header, reading or writing a chunk through the *)
(* plugin, sending or receiving a chunk of data.  The code between two     *)
(* such calls belongs to the action that follows or precedes it.           *)
(*                                                                         *)
(* The socket may fail at every call.  A send is short or an error; a      *)
(* receive returns 0 at end of file or -1 on an error, possibly after some *)
(* of the bytes were taken (src/tcp.c, tcp_recv_block).                    *)
(***************************************************************************)
EXTENDS Integers, Sequences

CONSTANTS
    BlockSize,   \* ctx->minimum_block_size, in bytes
    BufLen,      \* CONFIG_NBD_BUFFER_LEN, in bytes
    MaxRetries,  \* CONFIG_MAX_RETRIES
    ExportSize,  \* ctx->exportsize, in bytes
    Modulus,     \* uint64_t arithmetic is modulo this number
    Requests     \* the requests a client may send

Types == {"READ", "WRITE", "DISC", "FLUSH", "OTHER"}

ASSUME BlockSizeAssumption  == BlockSize \in Nat \ {0}
ASSUME BufLenAssumption     == BufLen \in Nat
ASSUME MaxRetriesAssumption == MaxRetries \in Nat
ASSUME ExportSizeAssumption == ExportSize \in Nat
ASSUME ModulusAssumption    == Modulus \in Nat \ {0} /\ ExportSize < Modulus
ASSUME RequestsAssumption   ==
    Requests \subseteq [type : Types, offset : Nat, count : Nat]

VARIABLES
    pc,          \* where the function is
    export,      \* what nbdify_context and nbd_config found out
    request,     \* the request in hand, in host byte order
    error,       \* the reply's error
    sendflag,    \* flags of the next send and, when not 0, "go on looping"
    blkremains,  \* blocks still to transfer
    offset,      \* next block of the device
    bufblksz,    \* blocks of a chunk
    byteread,    \* bytes of a chunk
    retry,       \* retries left for a failing pread
    buffer,      \* nbd_buffer: which payload block each of its blocks holds
    disk,        \* the device: block -> content
    ret,         \* the return value
    \* History of the request in hand and of the session
    headers,     \* reply headers sent for this request
    payload,     \* device blocks sent after the header, in order
    took,        \* blocks of the client's WRITE payload taken from the socket
    prior,       \* the device when the request arrived
    failures,    \* consecutive failing calls of pread
    intact,      \* no send has failed
    exact,       \* no accepted range has wrapped around
    aligned      \* the next byte of the socket is the first of a request

session == <<intact, exact, aligned>>
loop == <<sendflag, blkremains, offset, bufblksz, byteread, retry>>
history == <<headers, payload, took, prior, failures>>
vars == <<pc, export, request, error, loop, buffer, disk, ret, history, session>>

-----------------------------------------------------------------------------

MSG_MORE == 32768
NBD_ERRORS == {"SUCCESS", "EPERM", "EIO", "EINVAL", "ENOSPC", "EOVERFLOW"}
Blocks == 0 .. (ExportSize \div BlockSize) - 1
Busy == {"read_reply", "read", "read_send", "write", "write_apply", "flush", "reply"}

NoRequest == [type |-> "OTHER", offset |-> 0, count |-> 0]
First == request.offset \div BlockSize
NBlocks == request.count \div BlockSize

\* The export's flags, computed once from the plugin's callbacks.  The server's
\* "readonly" setting is a third, independent input.
Exports == [pwrite : BOOLEAN, flush : BOOLEAN, readonly : BOOLEAN]
ReadOnlyFlag == ~export.pwrite

Init ==
    /\ pc = "recv"
    /\ export \in Exports
    /\ request = NoRequest
    /\ error = "SUCCESS"
    /\ sendflag = 0 /\ blkremains = 0 /\ offset = 0 /\ bufblksz = 0 /\ byteread = 0
    /\ retry = MaxRetries
    /\ buffer = <<>>
    /\ disk = [b \in Blocks |-> 0]
    /\ ret = 0
    /\ headers = 1 /\ payload = <<>> /\ took = 0 /\ prior = disk /\ failures = 0
    /\ intact = TRUE /\ exact = TRUE /\ aligned = TRUE

-----------------------------------------------------------------------------
(* Receiving a request.                                                      *)

Return(r) ==
    /\ pc' = "returned"
    /\ ret' = r

\* `r < sizeof(struct nbd_request)` compares unsigned numbers.
RequestSize == 28
ShortRequest(r) == r % Modulus < RequestSize

\* There is a request in the structure: r = RequestSize says that it was read in
\* full, r = -1 that recv failed once the magic was in, so that it is made of the
\* fields that came and of those of an earlier request.
Receive(req) ==
    /\ pc = "recv"
    /\ \E r \in {RequestSize, -1} :
          /\ ~ShortRequest(r)
          /\ r = RequestSize => aligned
          /\ aligned' = (r = RequestSize)
    /\ request' = req
    /\ headers' = 0 /\ payload' = <<>> /\ took' = 0 /\ prior' = disk
    /\ exact' = (exact /\ req.offset + req.count < Modulus)
    /\ UNCHANGED <<export, buffer, disk, retry, failures, intact>>

OutOfRange_NoCount(req) == req.offset > ExportSize  \* mutant: the length is forgotten
OutOfRange(req) == (req.offset + req.count) % Modulus > ExportSize

\* What an accepted READ or WRITE sets up for its loop.
SetUp_OffByOne(req) ==  \* mutant: one block too many
    /\ sendflag' = MSG_MORE
    /\ bufblksz' = BufLen \div BlockSize
    /\ blkremains' = (req.count \div BlockSize) + 1
    /\ offset' = req.offset \div BlockSize
    /\ byteread' = bufblksz' * BlockSize
SetUp(req) ==
    /\ sendflag' = MSG_MORE
    /\ bufblksz' = BufLen \div BlockSize
    /\ blkremains' = req.count \div BlockSize
    /\ offset' = req.offset \div BlockSize
    /\ byteread' = bufblksz' * BlockSize

\* A refused request leaves the loop's variables, sendflag among them, as they are.
Refuse(req) == UNCHANGED <<sendflag, bufblksz, blkremains, offset, byteread>>

Start(req, err) ==
    /\ error' = err
    /\ IF err = "SUCCESS" THEN SetUp(req) ELSE Refuse(req)

RecvRead(req) ==
    /\ req.type = "READ"
    /\ Receive(req)
    /\ Start(req, IF OutOfRange(req) THEN "EIO" ELSE "SUCCESS")
    /\ pc' = "read_reply"
    /\ UNCHANGED ret

MayWrite(req) ==
    IF ReadOnlyFlag THEN "EPERM" ELSE IF OutOfRange(req) THEN "ENOSPC" ELSE "SUCCESS"

RecvWrite(req) ==
    /\ req.type = "WRITE"
    /\ Receive(req)
    /\ Start(req, MayWrite(req))
    /\ pc' = IF sendflag' # 0 THEN "write" ELSE "reply"
    /\ UNCHANGED ret

RecvDisc(req) ==
    /\ req.type = "DISC"
    /\ Receive(req)
    /\ Return(0)
    /\ UNCHANGED <<error, sendflag, bufblksz, blkremains, offset, byteread>>

RecvFlush(req) ==
    /\ req.type = "FLUSH"
    /\ Receive(req)
    /\ pc' = "flush"
    /\ UNCHANGED <<ret, error, sendflag, bufblksz, blkremains, offset, byteread>>

RecvOther(req) ==
    /\ req.type = "OTHER"
    /\ Receive(req)
    /\ Start(req, "EINVAL")
    /\ pc' = "reply"
    /\ UNCHANGED ret

\* End of file, or bytes that do not start with the request magic.
RecvFail ==
    /\ pc = "recv"
    /\ Return(-1)
    /\ UNCHANGED <<export, request, error, loop, buffer, disk, history, session>>

-----------------------------------------------------------------------------
(* NBD_CMD_READ.                                                             *)

\* Send the simple reply header; a failing send is only logged.
ReadReply ==
    /\ pc = "read_reply"
    /\ headers' = headers + 1
    /\ intact' \in {intact, FALSE}
    /\ pc' = IF sendflag # 0 THEN "read" ELSE "recv"
    /\ UNCHANGED <<export, request, error, loop, buffer, disk, ret, payload, took,
                   prior, failures, exact, aligned>>

\* The head of both loops: the last chunk may be shorter, and ends the loop.
NextChunk_StaleByteread ==  \* mutant: the length in bytes is not recomputed
    /\ bufblksz' = IF blkremains < bufblksz THEN blkremains ELSE bufblksz
    /\ byteread' = byteread
NextChunk ==
    /\ bufblksz' = IF blkremains < bufblksz THEN blkremains ELSE bufblksz
    /\ byteread' = IF blkremains < bufblksz THEN blkremains * BlockSize ELSE byteread

FlagOfChunk_Less == IF blkremains < bufblksz' THEN 0 ELSE sendflag  \* mutant: < for <=
FlagOfChunk == IF blkremains <= bufblksz THEN 0 ELSE sendflag

\* pread filled the buffer.
ReadChunk ==
    /\ pc = "read"
    /\ NextChunk
    /\ sendflag' = FlagOfChunk
    /\ pc' = "read_send"
    /\ failures' = 0
    /\ UNCHANGED <<export, request, error, blkremains, offset, retry, buffer, disk,
                   ret, headers, payload, took, prior, session>>

MayRetry_Always == TRUE  \* mutant: `retry` is not tested
MayRetry == retry > 0
RetriesLeft == retry - 1
FlagOfRetry_Kept == FlagOfChunk  \* mutant: no `sendflag = 1`
FlagOfRetry == 1

\* pread failed: try again, or give the session up.
ReadChunkFail ==
    /\ pc = "read"
    /\ NextChunk
    /\ failures' = failures + 1
    /\ IF MayRetry
       THEN /\ retry' = RetriesLeft
            /\ sendflag' = FlagOfRetry
            /\ pc' = IF sendflag' # 0 THEN "read" ELSE "recv"
            /\ UNCHANGED ret
       ELSE /\ sendflag' = FlagOfChunk
            /\ Return(-1)
            /\ UNCHANGED retry
    /\ UNCHANGED <<export, request, error, blkremains, offset, buffer, disk, headers,
                   payload, took, prior, session>>

\* A chunk went through.
Advance_NoReset ==  \* mutant: the retries are not given back
    /\ offset' = offset + bufblksz
    /\ blkremains' = blkremains - bufblksz
    /\ UNCHANGED retry
Advance ==
    /\ offset' = offset + bufblksz
    /\ blkremains' = blkremains - bufblksz
    /\ retry' = MaxRetries

AfterRead_FallThrough == "reply"  \* mutant: no `break` at the end of the case
AfterRead == "recv"

SendChunk ==
    /\ pc = "read_send"
    /\ payload' = payload \o [i \in 1 .. bufblksz |-> offset + i - 1]
    /\ Advance
    /\ pc' = IF sendflag # 0 THEN "read" ELSE AfterRead
    /\ UNCHANGED <<export, request, error, sendflag, bufblksz, byteread, buffer, disk,
                   ret, headers, took, prior, failures, intact, exact, aligned>>

\* A short send leaves the loop by `break`, with sendflag as it is.
SendChunkFail ==
    /\ pc = "read_send"
    /\ intact' = FALSE
    /\ pc' = "recv"
    /\ UNCHANGED <<export, request, error, loop, buffer, disk, ret, history,
                   exact, aligned>>

-----------------------------------------------------------------------------
(* NBD_CMD_WRITE.                                                            *)

\* The buffer now holds the next blocks of the client's payload.
RecvChunk ==
    /\ pc = "write"
    /\ NextChunk
    /\ sendflag' = FlagOfChunk
    /\ buffer' = [i \in 1 .. bufblksz' |-> took + i]
    /\ took' = took + bufblksz'
    /\ pc' = "write_apply"
    /\ UNCHANGED <<export, request, error, blkremains, offset, retry, disk, ret,
                   headers, payload, prior, failures, session>>

RecvChunkFail ==
    /\ pc = "write"
    /\ NextChunk
    /\ sendflag' = 0
    /\ error' = "EOVERFLOW"
    /\ aligned' = (aligned /\ byteread' = 0)
    /\ pc' = "reply"
    /\ UNCHANGED <<export, request, blkremains, offset, retry, buffer, disk, ret,
                   history, intact, exact>>

Chunk == offset .. offset + bufblksz - 1

\* The device after these blocks took their content from the buffer.
Written(blocks) ==
    [b \in Blocks |-> IF b \in blocks THEN buffer[b - offset + 1] ELSE disk[b]]

ErrorOfWrite_Lost == error  \* mutant: a failing pwrite is not reported
ErrorOfWrite == "EIO"

\* pwrite returned: all blocks are written, or an error after some of them.
WriteChunk ==
    /\ pc = "write_apply"
    /\ export.pwrite
    /\ \/ /\ disk' = Written(Chunk)
          /\ UNCHANGED <<error, sendflag>>
       \/ /\ \E some \in SUBSET (Chunk \cap Blocks) : disk' = Written(some)
          /\ error' = ErrorOfWrite
          /\ sendflag' = 0
    /\ Advance
    /\ pc' = IF sendflag' # 0 THEN "write" ELSE "reply"
    /\ UNCHANGED <<export, request, bufblksz, byteread, buffer, ret, history, session>>

\* lwnbd_pwrite and lwnbd_flush call the plugin's function unconditionally.
CallMissing ==
    /\ \/ pc = "write_apply" /\ ~export.pwrite
       \/ pc = "flush" /\ ~export.flush
    /\ pc' = "crashed"
    /\ UNCHANGED <<export, request, error, loop, buffer, disk, ret, history, session>>

-----------------------------------------------------------------------------
(* NBD_CMD_FLUSH and the reply of every command but NBD_CMD_READ.            *)

Flush ==
    /\ pc = "flush"
    /\ export.flush
    /\ error' \in {"SUCCESS", "EIO"}
    /\ pc' = "reply"
    /\ UNCHANGED <<export, request, loop, buffer, disk, ret, history, session>>

\* The result of the send is dropped.  What is left of a WRITE's payload stays in
\* the socket, where the next request is read.
Reply ==
    /\ pc = "reply"
    /\ headers' = headers + 1
    /\ intact' \in {intact, FALSE}
    /\ aligned' = (aligned /\ (request.type = "WRITE" => request.count = took * BlockSize))
    /\ pc' = "recv"
    /\ UNCHANGED <<export, request, error, loop, buffer, disk, ret, payload, took,
                   prior, failures, exact>>

-----------------------------------------------------------------------------

\* The steps the server takes by itself once a request is in hand.
ServerStep ==
    \/ ReadReply \/ ReadChunk \/ ReadChunkFail \/ SendChunk \/ SendChunkFail
    \/ RecvChunk \/ RecvChunkFail \/ WriteChunk \/ CallMissing
    \/ Flush \/ Reply

RecvRequest ==
    \E req \in Requests :
        RecvRead(req) \/ RecvWrite(req) \/ RecvDisc(req) \/ RecvFlush(req) \/ RecvOther(req)

\* The function has returned, or the process died: nothing more happens.
Ended == pc \in {"returned", "crashed"} /\ UNCHANGED vars

Next == RecvRequest \/ RecvFail \/ ServerStep \/ Ended

Spec == Init /\ [][Next]_vars

\* A synchronous thread goes on as long as its calls return.
FairSpec == Spec /\ WF_vars(ServerStep)
-----------------------------------------------------------------------------
(* Properties.                                                               *)

\* Every variable of transmission_phase keeps to the values its C type and the
\* function's assignments allow.
TypeOK ==
    /\ pc \in Busy \cup {"recv", "returned", "crashed"}
    /\ export \in Exports
    /\ request \in [type : Types, offset : Nat, count : Nat]
    /\ error \in NBD_ERRORS
    /\ sendflag \in {0, 1, MSG_MORE}
    /\ blkremains \in Nat /\ offset \in Nat /\ bufblksz \in Nat /\ byteread \in Nat
    /\ retry \in 0 .. MaxRetries
    /\ buffer \in Seq(Nat)
    /\ disk \in [Blocks -> Nat] /\ prior \in [Blocks -> Nat]
    /\ ret \in {0, -1}
    /\ headers \in Nat /\ payload \in Seq(Nat) /\ took \in Nat /\ failures \in Nat
    /\ intact \in BOOLEAN /\ exact \in BOOLEAN /\ aligned \in BOOLEAN

\* A chunk always fits nbd_buffer, also when a broken send left the loop's
\* variables of one request to the next one (protocol.c 98, 102, 147).
ChunkFitsBuffer ==
    pc \in {"read", "read_send", "write", "write_apply"} =>
        /\ byteread = bufblksz * BlockSize
        /\ byteread <= BufLen

\* The plugin is never asked for a block outside the export, whatever failed
\* before, as long as no offset + count wrapped around (protocol.c 69, 126).
ChunkInExport ==
    pc \in {"read_send", "write_apply"} /\ exact => Chunk \subseteq Blocks

BlockAligned == request.offset % BlockSize = 0 /\ request.count % BlockSize = 0

\* A READ answered with NBD_SUCCESS is followed by exactly the bytes asked for,
\* in order, whatever number of preads failed and were retried (protocol.c 66-120).
ReadDelivers ==
    pc = "recv" /\ request.type = "READ" /\ error = "SUCCESS" /\ intact /\ BlockAligned =>
        /\ Len(payload) * BlockSize = request.count
        /\ \A i \in 1 .. Len(payload) :
               payload[i] * BlockSize = request.offset + (i - 1) * BlockSize

\* A WRITE answered with NBD_SUCCESS has taken its whole payload from the socket
\* and put each block of it in its place, and touched no other (protocol.c 122-168).
WriteDelivers ==
    pc = "reply" /\ request.type = "WRITE" /\ error = "SUCCESS" /\ BlockAligned =>
        /\ took * BlockSize = request.count
        /\ \A b \in Blocks :
               disk[b] = IF b \in First .. First + NBlocks - 1 THEN b - First + 1
                         ELSE prior[b]

\* The session is broken once a send has failed, for a stale sendflag may be left
\* behind, or once a range that wraps around has been accepted.
Device == INSTANCE BlockDevice WITH
    Results <- NBD_ERRORS,
    mode <- IF ~intact \/ ~exact THEN "broken"
            ELSE IF pc \in {"returned", "crashed"} THEN "closed"
            ELSE IF pc = "recv" THEN "idle" ELSE "busy",
    req <- [type |-> request.type, first |-> First, n |-> NBlocks],
    device <- disk, before <- prior, data <- payload, result <- error

\* The transmission phase implements the block device: a client is never told of a
\* success that was not one, and no request, failing or not, touches a block outside
\* its range (protocol.c 44-195).
ImplementsDevice == Device!Spec

\* Every request gets one reply header before the next is read, and no data is
\* sent before it; NBD_CMD_DISC gets none (protocol.c 81, 166, 171, 178, 189).
OneHeader ==
    /\ pc = "recv" => headers = 1
    /\ pc = "returned" /\ request.type = "DISC" /\ ret = 0 => headers = 0
    /\ headers = 0 => payload = <<>>
    /\ headers <= 1

\* The session is given up on a failing plugin only after 1 + CONFIG_MAX_RETRIES
\* failures in a row of the same pread (protocol.c 110-118).
RetryBudget ==
    intact /\ pc = "returned" /\ failures > 0 => ret = -1 /\ failures = MaxRetries + 1

\* Every request is eventually done with, whichever calls fail: the loops terminate when
\* the buffer holds at least one block (protocol.c 74, 87, 137).
RequestTerminates == BlockSize <= BufLen => (pc \in Busy ~> pc \notin Busy)

\* lwnbd-common.h 40: with the readonly setting, all exports would be read only.
ReadonlyRespected == [][export.readonly => UNCHANGED disk]_vars
=============================================================================
