----------------------- MODULE NbdTransmissionProofs -----------------------
(***************************************************************************)
(* Proofs about the transmission phase, for every block size, buffer,      *)
(* export, number of retries and set of requests.                          *)
(***************************************************************************)
EXTENDS NbdTransmission, SequenceTheorems, TLAPS

LEMMA NatSum == ASSUME NEW a \in Nat, NEW b \in Nat PROVE a + b \in Nat
  OBVIOUS

LEMMA DivNat ==
    ASSUME NEW a \in Nat, NEW d \in Nat \ {0}
    PROVE  a \div d \in Nat /\ (a \div d) * d <= a /\ a < ((a \div d) + 1) * d
  OBVIOUS

LEMMA ModSmall ==
    ASSUME NEW a \in Nat, NEW d \in Nat \ {0}, a < d
    PROVE  a % d = a
  OBVIOUS

LEMMA DivSum ==
    ASSUME NEW a \in Nat, NEW b \in Nat, NEW c \in Nat, NEW d \in Nat \ {0}, a + b <= c
    PROVE  (a \div d) + (b \div d) <= c \div d
<1> DEFINE x == a \div d
           y == b \div d
           z == c \div d
<1>1. x \in Nat /\ y \in Nat /\ z \in Nat /\ x * d <= a /\ y * d <= b /\ c < (z + 1) * d
  BY DivNat
<1>2. (x + y) * d = x * d + y * d
  BY <1>1
<1>3. (x + y) * d < (z + 1) * d
  BY <1>1, <1>2
<1>4. x + y < z + 1
  BY <1>1, <1>3
<1> QED BY <1>1, <1>4

LEMMA DivExact ==
    ASSUME NEW a \in Nat, NEW d \in Nat \ {0}, a % d = 0
    PROVE  (a \div d) * d = a
  OBVIOUS

-----------------------------------------------------------------------------
(* The loop's variables.  They must be bounded in every state, not only in the *)
(* loops: after a broken send a refused request runs on what the last one left. *)

LoopInv ==
    /\ byteread = bufblksz * BlockSize
    /\ byteread <= BufLen
    /\ pc \in {"read_send", "write_apply"} => bufblksz <= blkremains
    /\ pc = "write_apply" => Len(buffer) = bufblksz
    /\ exact => offset + blkremains <= ExportSize \div BlockSize

Typed == TypeOK /\ LoopInv

LEMMA InitTyped == Init => Typed
<1> SUFFICES ASSUME Init PROVE Typed
  OBVIOUS
<1> USE BlockSizeAssumption, BufLenAssumption, MaxRetriesAssumption, ExportSizeAssumption
<1>1. ExportSize \div BlockSize \in Nat
  BY DivNat
<1>2. TypeOK
  <2>1. request \in [type : Types, offset : Nat, count : Nat]
    BY DEF Init, NoRequest, Types
  <2>2. disk \in [Blocks -> Nat] /\ prior \in [Blocks -> Nat]
    BY DEF Init
  <2>3. buffer \in Seq(Nat) /\ payload \in Seq(Nat)
    BY DEF Init
  <2>4. retry \in 0 .. MaxRetries
    BY DEF Init
  <2> QED BY <2>1, <2>2, <2>3, <2>4 DEF Init, TypeOK, Busy, NBD_ERRORS
<1>3. LoopInv
  BY <1>1 DEF Init, LoopInv
<1> QED BY <1>2, <1>3 DEF Typed

\* Setting up a transfer.
LEMMA SetUpTyped ==
    ASSUME NEW req \in Requests, SetUp(req), ~OutOfRange(req)
    PROVE  /\ blkremains' \in Nat /\ offset' \in Nat /\ bufblksz' \in Nat /\ byteread' \in Nat
           /\ sendflag' = MSG_MORE
           /\ byteread' = bufblksz' * BlockSize /\ byteread' <= BufLen
           /\ req.offset + req.count < Modulus =>
                 offset' + blkremains' <= ExportSize \div BlockSize
<1> USE BlockSizeAssumption, BufLenAssumption, ExportSizeAssumption, ModulusAssumption
<1>1. req.offset \in Nat /\ req.count \in Nat
  BY RequestsAssumption
<1>2. /\ BufLen \div BlockSize \in Nat /\ (BufLen \div BlockSize) * BlockSize <= BufLen
      /\ req.offset \div BlockSize \in Nat /\ req.count \div BlockSize \in Nat
  BY <1>1, DivNat
<1>3. /\ blkremains' \in Nat /\ offset' \in Nat /\ bufblksz' \in Nat /\ byteread' \in Nat
      /\ sendflag' = MSG_MORE
      /\ byteread' = bufblksz' * BlockSize /\ byteread' <= BufLen
  BY <1>2 DEF SetUp
<1>4. ASSUME req.offset + req.count < Modulus
      PROVE  offset' + blkremains' <= ExportSize \div BlockSize
  <2>1. (req.offset + req.count) % Modulus = req.offset + req.count
    BY <1>1, <1>4, ModSmall
  <2>2. req.offset + req.count <= ExportSize
    BY <2>1, <1>1 DEF OutOfRange
  <2>3. (req.offset \div BlockSize) + (req.count \div BlockSize) <= ExportSize \div BlockSize
    BY <2>2, <1>1, DivSum
  <2> QED BY <2>3 DEF SetUp
<1> QED BY <1>3, <1>4

\* The head of the loops.
LEMMA NextChunkTyped ==
    ASSUME Typed, NextChunk
    PROVE  /\ bufblksz' \in Nat /\ byteread' \in Nat
           /\ byteread' = bufblksz' * BlockSize /\ byteread' <= BufLen
           /\ bufblksz' <= blkremains
<1> USE BlockSizeAssumption, BufLenAssumption
<1>1. CASE blkremains < bufblksz
  <2>1. bufblksz' = blkremains /\ byteread' = blkremains * BlockSize
    BY <1>1 DEF NextChunk
  <2>2. blkremains * BlockSize <= bufblksz * BlockSize /\ blkremains * BlockSize \in Nat
    BY <1>1 DEF Typed, TypeOK
  <2>3. bufblksz * BlockSize <= BufLen /\ blkremains \in Nat /\ bufblksz * BlockSize \in Nat
    BY DEF Typed, TypeOK, LoopInv
  <2>4. blkremains * BlockSize <= BufLen
    BY <2>2, <2>3
  <2> QED BY <2>1, <2>2, <2>3, <2>4
<1>2. CASE ~(blkremains < bufblksz)
  BY <1>2 DEF NextChunk, Typed, TypeOK, LoopInv
<1> QED BY <1>1, <1>2

\* Receiving a request of any type.
LEMMA ReceiveTyped ==
    ASSUME Typed, NEW req \in Requests,
           RecvRead(req) \/ RecvWrite(req) \/ RecvDisc(req) \/ RecvFlush(req) \/ RecvOther(req)
    PROVE  Typed'
<1> USE BlockSizeAssumption, BufLenAssumption, ExportSizeAssumption
<1>1. Receive(req)
  BY DEF RecvRead, RecvWrite, RecvDisc, RecvFlush, RecvOther
<1>2. req \in [type : Types, offset : Nat, count : Nat]
  BY RequestsAssumption
<1>3. \/ SetUp(req) /\ ~OutOfRange(req)
      \/ UNCHANGED <<sendflag, bufblksz, blkremains, offset, byteread>>
  BY DEF RecvRead, RecvWrite, RecvDisc, RecvFlush, RecvOther, Start, MayWrite, Refuse
<1>4. /\ blkremains' \in Nat /\ offset' \in Nat /\ bufblksz' \in Nat /\ byteread' \in Nat
      /\ sendflag' \in {0, 1, MSG_MORE}
      /\ byteread' = bufblksz' * BlockSize /\ byteread' <= BufLen
      /\ exact' => offset' + blkremains' <= ExportSize \div BlockSize
  <2>1. CASE SetUp(req) /\ ~OutOfRange(req)
    BY <2>1, <1>1, SetUpTyped DEF Receive
  <2>2. CASE UNCHANGED <<sendflag, bufblksz, blkremains, offset, byteread>>
    BY <2>2, <1>1 DEF Receive, Typed, TypeOK, LoopInv
  <2> QED BY <1>3, <2>1, <2>2
<1>5. /\ pc' \in {"read_reply", "write", "reply", "returned", "flush"}
      /\ ret' \in {0, -1}
      /\ error' \in NBD_ERRORS
  BY DEF RecvRead, RecvWrite, RecvDisc, RecvFlush, RecvOther, Start, MayWrite, Return,
         Typed, TypeOK, NBD_ERRORS
<1>6. /\ request' = req /\ headers' = 0 /\ payload' = <<>> /\ took' = 0 /\ prior' = disk
      /\ exact' \in BOOLEAN /\ aligned' \in BOOLEAN
      /\ UNCHANGED <<export, buffer, disk, retry, failures, intact>>
  BY <1>1 DEF Receive
<1>7. TypeOK'
  <2>1. pc' \in Busy \cup {"recv", "returned", "crashed"}
    BY <1>5 DEF Busy
  <2>2. payload' \in Seq(Nat)
    BY <1>6
  <2> QED BY <2>1, <2>2, <1>2, <1>4, <1>5, <1>6 DEF Typed, TypeOK, Blocks
<1> QED BY <1>4, <1>5, <1>7 DEF Typed, LoopInv

\* What the pread and pwrite of a chunk, done or failed, do to the loop.
LEMMA ChunkTyped ==
    ASSUME Typed, ReadChunk \/ ReadChunkFail \/ RecvChunk \/ RecvChunkFail
    PROVE  Typed'
<1> USE BlockSizeAssumption, BufLenAssumption, MaxRetriesAssumption
<1>1. NextChunk
  BY DEF ReadChunk, ReadChunkFail, RecvChunk, RecvChunkFail
<1>2. /\ bufblksz' \in Nat /\ byteread' \in Nat
      /\ byteread' = bufblksz' * BlockSize /\ byteread' <= BufLen
      /\ bufblksz' <= blkremains
  BY <1>1, NextChunkTyped
<1>3. /\ UNCHANGED <<blkremains, offset, exact, export, request, disk, prior, headers,
                     payload, intact>>
      /\ sendflag' \in {0, 1, MSG_MORE}
      /\ error' \in NBD_ERRORS
      /\ pc' \in {"read", "read_send", "write_apply", "reply", "returned"}
      /\ ret' \in {0, -1}
  <2>1. CASE ReadChunk
    BY <2>1 DEF ReadChunk, FlagOfChunk, session, Typed, TypeOK
  <2>2. CASE ReadChunkFail
    BY <2>2 DEF ReadChunkFail, FlagOfChunk, FlagOfRetry, Return, session, Typed, TypeOK
  <2>3. CASE RecvChunk
    BY <2>3 DEF RecvChunk, FlagOfChunk, session, Typed, TypeOK
  <2>4. CASE RecvChunkFail
    BY <2>4 DEF RecvChunkFail, NBD_ERRORS, history, Typed, TypeOK
  <2> QED BY <2>1, <2>2, <2>3, <2>4
<1>4. /\ failures' \in Nat /\ retry' \in 0 .. MaxRetries /\ took' \in Nat
      /\ aligned' \in BOOLEAN
  <2>1. CASE ReadChunk
    BY <2>1 DEF ReadChunk, session, Typed, TypeOK
  <2>2. CASE ReadChunkFail
    <3>1. failures' \in Nat /\ took' \in Nat /\ aligned' \in BOOLEAN
      BY <2>2 DEF ReadChunkFail, session, Typed, TypeOK
    <3>2. retry' \in 0 .. MaxRetries
      BY <2>2 DEF ReadChunkFail, MayRetry, RetriesLeft, Typed, TypeOK
    <3> QED BY <3>1, <3>2
  <2>3. CASE RecvChunk
    <3>1. UNCHANGED <<failures, retry, aligned>>
      BY <2>3 DEF RecvChunk, session
    <3>2. took' = took + bufblksz'
      BY <2>3 DEF RecvChunk
    <3>3. took' \in Nat
      BY <3>2, <1>2, NatSum DEF Typed, TypeOK
    <3> QED BY <3>1, <3>3 DEF Typed, TypeOK
  <2>4. CASE RecvChunkFail
    BY <2>4 DEF RecvChunkFail, history, Typed, TypeOK
  <2> QED BY <2>1, <2>2, <2>3, <2>4
<1>5. buffer' \in Seq(Nat) /\ (pc' = "write_apply" => Len(buffer') = bufblksz')
  <2>1. CASE RecvChunk
    BY <2>1, <1>2 DEF RecvChunk, Typed, TypeOK
  <2>2. CASE ReadChunk \/ ReadChunkFail \/ RecvChunkFail
    BY <2>2 DEF ReadChunk, ReadChunkFail, RecvChunkFail, Return, Typed, TypeOK
  <2> QED BY <2>1, <2>2
<1>6. pc' \in Busy \cup {"recv", "returned", "crashed"}
  BY <1>3 DEF Busy
<1>7. TypeOK'
  BY <1>2, <1>3, <1>4, <1>5, <1>6 DEF Typed, TypeOK, Blocks
<1>8. LoopInv'
  BY <1>2, <1>3, <1>5 DEF Typed, LoopInv
<1> QED BY <1>7, <1>8 DEF Typed

\* A chunk is sent or written.
LEMMA AdvanceTyped ==
    ASSUME Typed, SendChunk \/ WriteChunk
    PROVE  Typed'
<1> USE MaxRetriesAssumption
<1>1. /\ Advance
      /\ bufblksz <= blkremains
      /\ UNCHANGED <<export, request, bufblksz, byteread, buffer, ret, headers, took, prior,
                     failures, intact, exact, aligned>>
  BY DEF SendChunk, WriteChunk, Typed, LoopInv, history, session
<1>2. /\ offset' \in Nat /\ blkremains' \in Nat /\ retry' \in 0 .. MaxRetries
      /\ offset' + blkremains' = offset + blkremains
  BY <1>1 DEF Advance, Typed, TypeOK
<1>3. /\ pc' \in {"read", "recv", "write", "reply"}
      /\ sendflag' \in {0, 1, MSG_MORE}
      /\ error' \in NBD_ERRORS
  BY DEF SendChunk, WriteChunk, AfterRead, ErrorOfWrite, NBD_ERRORS, Typed, TypeOK, session
<1>4. payload' \in Seq(Nat)
  <2>1. CASE SendChunk
    <3>1. [i \in 1 .. bufblksz |-> offset + i - 1] \in Seq(Nat)
      BY DEF Typed, TypeOK
    <3> QED BY <2>1, <3>1 DEF SendChunk, Typed, TypeOK
  <2>2. CASE WriteChunk
    BY <2>2 DEF WriteChunk, Typed, TypeOK, history
  <2> QED BY <2>1, <2>2
<1>5. disk' \in [Blocks -> Nat]
  <2>1. CASE SendChunk
    BY <2>1 DEF SendChunk, Typed, TypeOK
  <2>2. CASE WriteChunk
    <3>1. PICK blocks \in SUBSET Chunk : disk' = Written(blocks)
      BY <2>2 DEF WriteChunk
    <3>2. ASSUME NEW b \in Chunk PROVE buffer[b - offset + 1] \in Nat
      BY <2>2, <3>2 DEF WriteChunk, Chunk, Typed, TypeOK, LoopInv
    <3> QED BY <3>1, <3>2 DEF Written, Typed, TypeOK
  <2> QED BY <2>1, <2>2
<1>6. pc' \in Busy \cup {"recv", "returned", "crashed"}
  BY <1>3 DEF Busy
<1>7. TypeOK'
  BY <1>1, <1>2, <1>3, <1>4, <1>5, <1>6 DEF Typed, TypeOK, Blocks
<1>8. LoopInv'
  BY <1>1, <1>2, <1>3 DEF Typed, LoopInv
<1> QED BY <1>7, <1>8 DEF Typed

\* The steps that leave the loop's variables and the device alone.
LEMMA OtherTyped ==
    ASSUME Typed,
           RecvFail \/ ReadReply \/ SendChunkFail \/ CallMissing \/ Flush \/ Reply
    PROVE  Typed'
<1>1. /\ UNCHANGED <<export, request, loop, buffer, disk, payload, took, prior, failures,
                     exact>>
      /\ pc' \in {"read", "recv", "reply", "returned", "crashed"}
      /\ ret' \in {0, -1}
      /\ error' \in NBD_ERRORS
      /\ headers' \in Nat
  <2>1. CASE RecvFail \/ CallMissing
    BY <2>1 DEF RecvFail, CallMissing, Return, history, session, Typed, TypeOK
  <2>2. CASE ReadReply \/ Reply
    <3>1. /\ UNCHANGED <<export, request, error, loop, buffer, disk, ret, payload, took, prior,
                         failures, exact>>
          /\ headers' = headers + 1
      BY <2>2, Zenon DEF ReadReply, Reply
    <3>2. pc' \in {"read", "recv"}
      BY <2>2, Zenon DEF ReadReply, Reply
    <3> QED BY <3>1, <3>2 DEF Typed, TypeOK
  <2>3. CASE Flush
    BY <2>3 DEF Flush, NBD_ERRORS, history, session, Typed, TypeOK
  <2>4. CASE SendChunkFail
    BY <2>4 DEF SendChunkFail, history, Typed, TypeOK
  <2> QED BY <2>1, <2>2, <2>3, <2>4
<1>2. intact' \in BOOLEAN /\ aligned' \in BOOLEAN
  BY Zenon DEF RecvFail, ReadReply, SendChunkFail, CallMissing, Flush, Reply, session, Typed,
         TypeOK
<1>3. pc' \in Busy \cup {"recv", "returned", "crashed"}
  BY <1>1 DEF Busy
<1>4. TypeOK'
  BY <1>1, <1>2, <1>3 DEF loop, Typed, TypeOK, Blocks
<1>5. LoopInv'
  BY <1>1 DEF loop, Typed, LoopInv
<1> QED BY <1>4, <1>5 DEF Typed

LEMMA StepTyped == Typed /\ [Next]_vars => Typed'
<1> SUFFICES ASSUME Typed, [Next]_vars PROVE Typed'
  OBVIOUS
<1>1. CASE RecvRequest
  BY <1>1, ReceiveTyped DEF RecvRequest
<1>2. CASE ServerStep \/ RecvFail
  BY <1>2, ChunkTyped, AdvanceTyped, OtherTyped DEF ServerStep
<1>3. CASE UNCHANGED vars
  BY <1>3 DEF vars, loop, history, session, Typed, TypeOK, LoopInv, Blocks
<1> QED BY <1>1, <1>2, <1>3 DEF Next, Ended

\* The variables of transmission_phase always have the values their types allow.
THEOREM TypeCorrect == Spec => []TypeOK
<1>1. Spec => []Typed
  BY InitTyped, StepTyped, PTL DEF Spec
<1>2. Typed => TypeOK
  BY DEF Typed
<1> QED BY <1>1, <1>2, PTL

\* No chunk is longer than nbd_buffer, in whatever state a broken send, a failed
\* pread or a refused request has left the loop's variables.
THEOREM BufferNeverOverrun == Spec => []ChunkFitsBuffer
<1>1. Spec => []Typed
  BY InitTyped, StepTyped, PTL DEF Spec
<1>2. Typed => ChunkFitsBuffer
  BY DEF Typed, LoopInv, ChunkFitsBuffer
<1> QED BY <1>1, <1>2, PTL

\* As long as no offset + count has wrapped around, the plugin is only asked for
\* blocks of the export.
THEOREM PluginStaysInExport == Spec => []ChunkInExport
<1>1. Spec => []Typed
  BY InitTyped, StepTyped, PTL DEF Spec
<1>2. Typed => ChunkInExport
  <2> SUFFICES ASSUME Typed, pc \in {"read_send", "write_apply"}, exact, NEW b \in Chunk
               PROVE  b \in Blocks
    BY DEF ChunkInExport
  <2>1. ExportSize \div BlockSize \in Nat
    BY DivNat, BlockSizeAssumption, ExportSizeAssumption
  <2> QED BY <2>1 DEF Chunk, Blocks, Typed, TypeOK, LoopInv
<1> QED BY <1>1, <1>2, PTL

-----------------------------------------------------------------------------
(* What a request in hand looks like at each place of the function.           *)

\* Which command is being served, and what sendflag stands for: in the loops it
\* says whether another chunk follows, and unless a send has failed it is back at
\* 0 when the loop has ended.
ControlInv ==
    /\ pc \in {"read_reply", "read", "read_send"} => request.type = "READ"
    /\ pc \in {"write", "write_apply"} => request.type = "WRITE"
    /\ pc = "flush" => request.type = "FLUSH"
    /\ pc = "reply" => request.type \notin {"READ", "DISC"}
    /\ pc \in {"read", "write"} => sendflag # 0
    /\ pc \in {"read_send", "write_apply"} => (sendflag = 0 <=> bufblksz = blkremains)
    /\ intact /\ pc = "read_reply" => (sendflag # 0 <=> error = "SUCCESS")
    /\ intact /\ pc \in {"recv", "flush", "reply"} => sendflag = 0
    /\ intact /\ pc \in {"read", "read_send", "write", "write_apply"} => error = "SUCCESS"

\* OneHeader, with the number of headers at each place.
HeaderInv ==
    /\ pc \in {"read_reply", "write", "write_apply", "flush", "reply"} => headers = 0
    /\ pc \in {"recv", "read", "read_send"} => headers = 1
    /\ pc = "returned" /\ request.type = "DISC" /\ ret = 0 => headers = 0
    /\ headers = 0 => payload = <<>>
    /\ headers <= 1

\* RetryBudget, with the sum that the failing preads keep.
RetryInv ==
    intact =>
        /\ pc \notin {"read", "read_send", "returned"} => failures = 0 /\ retry = MaxRetries
        /\ pc = "read" => failures + retry = MaxRetries
        /\ pc = "read_send" => failures = 0
        /\ pc = "returned" /\ failures > 0 => ret = -1 /\ failures = MaxRetries + 1

\* The first n blocks of the range have been sent, and nothing else.
Sent(n) == Len(payload) = n /\ \A i \in 1 .. n : payload[i] = First + i - 1

ReadInv ==
    request.type = "READ" /\ error = "SUCCESS" =>
        /\ pc = "read_reply" => blkremains = NBlocks /\ offset = First /\ sendflag # 0
        /\ pc \in {"read", "read_send"} =>
              /\ blkremains <= NBlocks
              /\ offset = First + NBlocks - blkremains
              /\ Sent(NBlocks - blkremains)
        /\ pc = "recv" /\ intact => Sent(NBlocks)

\* The first n blocks of the payload are in their places, and nothing else changed.
Applied(n) ==
    \A b \in Blocks : disk[b] = IF b \in First .. First + n - 1 THEN b - First + 1 ELSE prior[b]

WriteInv ==
    request.type = "WRITE" /\ error = "SUCCESS" =>
        /\ pc \in {"write", "write_apply"} =>
              /\ blkremains <= NBlocks
              /\ offset = First + NBlocks - blkremains
              /\ Applied(NBlocks - blkremains)
        /\ pc = "write" => took = NBlocks - blkremains
        /\ pc = "write_apply" =>
              /\ took = NBlocks - blkremains + bufblksz
              /\ \A i \in 1 .. bufblksz : buffer[i] = NBlocks - blkremains + i
        /\ pc = "reply" => took = NBlocks /\ Applied(NBlocks)

\* What receiving a request does, whatever its type and whether it is refused.
LEMMA ReceiveDoes ==
    ASSUME NEW req \in Requests,
           RecvRead(req) \/ RecvWrite(req) \/ RecvDisc(req) \/ RecvFlush(req) \/ RecvOther(req)
    PROVE  /\ pc = "recv" /\ request' = req
           /\ headers' = 0 /\ payload' = <<>> /\ took' = 0 /\ prior' = disk
           /\ UNCHANGED <<export, buffer, disk, retry, failures, intact>>
           /\ exact' => exact
           /\ \/ /\ SetUp(req) /\ error' = "SUCCESS" /\ UNCHANGED ret
                 /\ \/ req.type = "READ" /\ pc' = "read_reply"
                    \/ req.type = "WRITE" /\ pc' = "write"
              \/ /\ UNCHANGED <<sendflag, bufblksz, blkremains, offset, byteread>>
                 /\ \/ req.type = "READ" /\ pc' = "read_reply" /\ error' # "SUCCESS"
                    \/ req.type = "WRITE" /\ error' # "SUCCESS"
                       /\ pc' = IF sendflag # 0 THEN "write" ELSE "reply"
                    \/ req.type = "DISC" /\ pc' = "returned"
                    \/ req.type = "FLUSH" /\ pc' = "flush"
                    \/ req.type = "OTHER" /\ pc' = "reply"
<1>1. Receive(req)
  BY DEF RecvRead, RecvWrite, RecvDisc, RecvFlush, RecvOther
<1>2. /\ pc = "recv" /\ request' = req
      /\ headers' = 0 /\ payload' = <<>> /\ took' = 0 /\ prior' = disk
      /\ UNCHANGED <<export, buffer, disk, retry, failures, intact>>
      /\ exact' => exact
  BY <1>1, Zenon DEF Receive
<1>3. CASE RecvRead(req)
  BY <1>2, <1>3 DEF RecvRead, Start, Refuse
<1>4. CASE RecvWrite(req)
  <2>1. CASE MayWrite(req) = "SUCCESS"
    BY <1>2, <1>4, <2>1 DEF RecvWrite, Start, SetUp, MSG_MORE
  <2>2. CASE MayWrite(req) # "SUCCESS"
    BY <1>2, <1>4, <2>2 DEF RecvWrite, Start, Refuse
  <2> QED BY <2>1, <2>2
<1>5. CASE RecvDisc(req)
  BY <1>2, <1>5 DEF RecvDisc, Return
<1>6. CASE RecvFlush(req)
  BY <1>2, <1>6 DEF RecvFlush
<1>7. CASE RecvOther(req)
  BY <1>2, <1>7 DEF RecvOther, Start, Refuse
<1> QED BY <1>3, <1>4, <1>5, <1>6, <1>7

\* A session that a failed send or a wrapped range has broken stays so.
LEMMA BrokenStays == Typed /\ [Next]_vars => (intact' => intact) /\ (exact' => exact)
<1> SUFFICES ASSUME Typed, [Next]_vars PROVE (intact' => intact) /\ (exact' => exact)
  OBVIOUS
<1>1. CASE RecvRequest
  BY <1>1, ReceiveDoes, Zenon DEF RecvRequest
<1>2. CASE ServerStep \/ RecvFail \/ Ended \/ UNCHANGED vars
  <2> SUFFICES (intact' = intact \/ intact' = FALSE) /\ exact' = exact
    OBVIOUS
  <2>1. CASE ReadReply \/ Reply
    BY <2>1, Zenon DEF ReadReply, Reply
  <2>2. CASE ReadChunk \/ ReadChunkFail \/ RecvChunk \/ WriteChunk \/ CallMissing \/ Flush
             \/ RecvFail \/ Ended \/ UNCHANGED vars
    BY <2>2 DEF ReadChunk, ReadChunkFail, RecvChunk, WriteChunk, CallMissing, Flush,
                RecvFail, Ended, vars, session
  <2>3. CASE SendChunk \/ SendChunkFail \/ RecvChunkFail
    BY <2>3 DEF SendChunk, SendChunkFail, RecvChunkFail
  <2> QED BY <1>2, <2>1, <2>2, <2>3 DEF ServerStep
<1> QED BY <1>1, <1>2 DEF Next

LEMMA ControlStep == Typed /\ ControlInv /\ [Next]_vars => ControlInv'
<1> SUFFICES ASSUME Typed, ControlInv, [Next]_vars PROVE ControlInv'
  OBVIOUS
<1>1. CASE RecvRequest
  <2>1. PICK req \in Requests : RecvRead(req) \/ RecvWrite(req) \/ RecvDisc(req)
                                \/ RecvFlush(req) \/ RecvOther(req)
    BY <1>1 DEF RecvRequest
  <2> QED BY <2>1, ReceiveDoes DEF SetUp, MSG_MORE, ControlInv
<1>2. CASE ReadReply \/ Reply
  <2>1. /\ UNCHANGED <<request, error, loop>> /\ (intact' => intact)
        /\ pc' = IF pc = "read_reply" /\ sendflag # 0 THEN "read" ELSE "recv"
        /\ pc \in {"read_reply", "reply"}
    BY <1>2, BrokenStays DEF ReadReply, Reply
  <2> QED BY <2>1 DEF ControlInv, loop
<1>3. CASE ReadChunk \/ ReadChunkFail \/ RecvChunk \/ RecvChunkFail
  <2>1. UNCHANGED <<request, blkremains>> /\ (intact' => intact)
    BY <1>3, BrokenStays DEF ReadChunk, ReadChunkFail, RecvChunk, RecvChunkFail
  <2>2. CASE ReadChunk \/ RecvChunk
    <3>1. sendflag' = 0 <=> bufblksz' = blkremains
      BY <2>2 DEF ReadChunk, RecvChunk, NextChunk, FlagOfChunk, ControlInv, Typed, TypeOK
    <3> QED BY <2>1, <2>2, <3>1 DEF ReadChunk, RecvChunk, ControlInv
  <2>3. CASE ReadChunkFail
    BY <2>1, <2>3 DEF ReadChunkFail, FlagOfRetry, Return, ControlInv
  <2>4. CASE RecvChunkFail
    BY <2>1, <2>4 DEF RecvChunkFail, ControlInv
  <2> QED BY <1>3, <2>2, <2>3, <2>4
<1>4. CASE SendChunk \/ WriteChunk
  <2>1. UNCHANGED request /\ (intact' => intact)
    BY <1>4, BrokenStays DEF SendChunk, WriteChunk
  <2>2. CASE SendChunk
    BY <2>1, <2>2 DEF SendChunk, AfterRead, ControlInv
  <2>3. CASE WriteChunk
    <3>1. /\ pc = "write_apply" /\ pc' = IF sendflag' # 0 THEN "write" ELSE "reply"
          /\ sendflag' # 0 => error' = error
      BY <2>3 DEF WriteChunk
    <3> QED BY <2>1, <3>1 DEF ControlInv
  <2> QED BY <1>4, <2>2, <2>3
<1>5. CASE SendChunkFail
  BY <1>5 DEF SendChunkFail, ControlInv
<1>6. CASE CallMissing \/ Flush \/ RecvFail
  <2>1. UNCHANGED <<request, loop>> /\ (intact' => intact)
    BY <1>6, BrokenStays DEF CallMissing, Flush, RecvFail
  <2> QED BY <1>6, <2>1 DEF CallMissing, Flush, RecvFail, Return, ControlInv, loop
<1>7. CASE Ended \/ UNCHANGED vars
  BY <1>7 DEF Ended, vars, loop, session, ControlInv
<1> QED BY <1>1, <1>2, <1>3, <1>4, <1>5, <1>6, <1>7 DEF Next, ServerStep

LEMMA HeaderStep == Typed /\ HeaderInv /\ [Next]_vars => HeaderInv'
<1> SUFFICES ASSUME Typed, HeaderInv, [Next]_vars PROVE HeaderInv'
  OBVIOUS
<1>1. CASE RecvRequest
  <2>1. PICK req \in Requests : RecvRead(req) \/ RecvWrite(req) \/ RecvDisc(req)
                                \/ RecvFlush(req) \/ RecvOther(req)
    BY <1>1 DEF RecvRequest
  <2> QED BY <2>1, ReceiveDoes DEF HeaderInv
<1>2. CASE ReadReply \/ Reply
  <2>1. /\ pc \in {"read_reply", "reply"} /\ pc' \in {"recv", "read"}
        /\ headers' = headers + 1
    BY <1>2 DEF ReadReply, Reply
  <2> QED BY <2>1 DEF HeaderInv
<1>3. CASE ReadChunk \/ ReadChunkFail \/ RecvChunk \/ RecvChunkFail
  BY <1>3 DEF ReadChunk, ReadChunkFail, RecvChunk, RecvChunkFail, FlagOfRetry, Return, history,
              HeaderInv
<1>4. CASE SendChunk \/ SendChunkFail \/ WriteChunk
  BY <1>4 DEF SendChunk, SendChunkFail, WriteChunk, AfterRead, history, HeaderInv
<1>5. CASE CallMissing \/ Flush \/ RecvFail
  BY <1>5 DEF CallMissing, Flush, RecvFail, Return, history, HeaderInv
<1>6. CASE Ended \/ UNCHANGED vars
  BY <1>6 DEF Ended, vars, history, HeaderInv
<1> QED BY <1>1, <1>2, <1>3, <1>4, <1>5, <1>6 DEF Next, ServerStep

LEMMA RetryStep == Typed /\ RetryInv /\ [Next]_vars => RetryInv'
<1> SUFFICES ASSUME Typed, RetryInv, [Next]_vars, intact' PROVE RetryInv'
  BY DEF RetryInv
<1> USE MaxRetriesAssumption
<1>0. intact
  BY BrokenStays
<1>1. CASE RecvRequest
  <2>1. PICK req \in Requests : RecvRead(req) \/ RecvWrite(req) \/ RecvDisc(req)
                                \/ RecvFlush(req) \/ RecvOther(req)
    BY <1>1 DEF RecvRequest
  <2> QED BY <1>0, <2>1, ReceiveDoes DEF RetryInv
<1>2. CASE ReadReply \/ Reply
  <2>1. pc \in {"read_reply", "reply"} /\ UNCHANGED <<retry, failures>>
        /\ pc' \in {"read", "recv"}
    BY <1>2 DEF ReadReply, Reply, loop
  <2> QED BY <1>0, <2>1 DEF RetryInv, Typed, TypeOK
<1>3. CASE ReadChunkFail
  <2>1. /\ failures + retry = MaxRetries /\ failures' = failures + 1
        /\ failures \in Nat /\ retry \in Nat
    BY <1>0, <1>3 DEF ReadChunkFail, RetryInv, Typed, TypeOK
  <2>2. \/ retry > 0 /\ retry' = retry - 1 /\ pc' = "read"
        \/ ~(retry > 0) /\ pc' = "returned" /\ ret' = -1
    BY <1>3 DEF ReadChunkFail, MayRetry, RetriesLeft, FlagOfRetry, Return
  <2> QED BY <2>1, <2>2 DEF RetryInv
<1>4. CASE ReadChunk \/ RecvChunk \/ RecvChunkFail
  BY <1>0, <1>4 DEF ReadChunk, RecvChunk, RecvChunkFail, history, RetryInv
<1>5. CASE SendChunk \/ WriteChunk
  BY <1>0, <1>5 DEF SendChunk, WriteChunk, Advance, AfterRead, history, RetryInv, Typed, TypeOK
<1>6. CASE SendChunkFail
  BY <1>6 DEF SendChunkFail
<1>7. CASE CallMissing \/ Flush \/ RecvFail
  BY <1>0, <1>7 DEF CallMissing, Flush, RecvFail, Return, history, loop, RetryInv
<1>8. CASE Ended \/ UNCHANGED vars
  BY <1>0, <1>8 DEF Ended, vars, history, loop, RetryInv
<1> QED BY <1>1, <1>2, <1>3, <1>4, <1>5, <1>6, <1>7, <1>8 DEF Next, ServerStep

LEMMA RangeNat == Typed => First \in Nat /\ NBlocks \in Nat
  BY BlockSizeAssumption, DivNat DEF Typed, TypeOK, First, NBlocks

LEMMA ReadStep == Typed /\ ControlInv /\ HeaderInv /\ ReadInv /\ [Next]_vars => ReadInv'
<1> SUFFICES ASSUME Typed, ControlInv, HeaderInv, ReadInv, [Next]_vars,
                    request'.type = "READ", error' = "SUCCESS"
             PROVE  ReadInv'
  BY DEF ReadInv
<1>1. CASE RecvRequest
  <2>1. PICK req \in Requests : RecvRead(req) \/ RecvWrite(req) \/ RecvDisc(req)
                                \/ RecvFlush(req) \/ RecvOther(req)
    BY <1>1 DEF RecvRequest
  <2>2. SetUp(req) /\ pc' = "read_reply" /\ request' = req
    BY <2>1, ReceiveDoes
  <2> QED BY <2>2 DEF SetUp, MSG_MORE, ReadInv, First, NBlocks
<1>2. CASE ReadReply
  <2>1. /\ pc = "read_reply" /\ pc' = IF sendflag # 0 THEN "read" ELSE "recv"
        /\ UNCHANGED <<request, error, blkremains, offset, payload>>
    BY <1>2 DEF ReadReply, loop
  <2>2. payload = <<>>
    BY <2>1 DEF HeaderInv
  <2>3. blkremains = NBlocks /\ offset = First /\ sendflag # 0
    BY <2>1 DEF ReadInv
  <2> QED BY <2>1, <2>2, <2>3, RangeNat DEF ReadInv, Sent, First, NBlocks
<1>3. CASE ReadChunk \/ ReadChunkFail
  <2>1. /\ pc = "read" /\ pc' \in {"read", "read_send", "returned"}
        /\ UNCHANGED <<request, error, blkremains, offset, payload>>
    BY <1>3 DEF ReadChunk, ReadChunkFail, FlagOfRetry, Return
  <2> QED BY <2>1 DEF ReadInv, Sent, First, NBlocks
<1>4. CASE SendChunk
  <2> DEFINE n == NBlocks - blkremains
  <2>1. /\ pc = "read_send" /\ pc' = IF sendflag # 0 THEN "read" ELSE "recv"
        /\ UNCHANGED <<request, error>> /\ intact' = intact
        /\ offset' = offset + bufblksz /\ blkremains' = blkremains - bufblksz
        /\ payload' = payload \o [i \in 1 .. bufblksz |-> offset + i - 1]
    BY <1>4 DEF SendChunk, AfterRead, Advance
  <2>2. blkremains <= NBlocks /\ offset = First + n /\ Sent(n)
    BY <2>1 DEF ReadInv
  <2>3. /\ bufblksz \in Nat /\ blkremains \in Nat /\ offset \in Nat /\ payload \in Seq(Nat)
        /\ First \in Nat /\ NBlocks \in Nat
    BY RangeNat DEF Typed, TypeOK
  <2>4. bufblksz <= blkremains
    BY <2>1 DEF Typed, LoopInv
  <2>5. n \in Nat /\ Len(payload) = n
    BY <2>2, <2>3 DEF Sent
  <2>6. NBlocks' = NBlocks /\ First' = First /\ NBlocks - blkremains' = n + bufblksz
    BY <2>1, <2>3 DEF NBlocks, First
  <2> HIDE DEF n
  <2> DEFINE chunk == [i \in 1 .. bufblksz |-> offset + i - 1]
  <2>7. chunk \in Seq(Nat) /\ Len(chunk) = bufblksz /\ payload' = payload \o chunk
    BY <2>1, <2>3
  <2>8. \A i \in 1 .. bufblksz : chunk[i] = offset + i - 1
    OBVIOUS
  <2> HIDE DEF chunk
  <2>9. Len(payload') = n + bufblksz
    BY <2>3, <2>5, <2>7, ConcatProperties
  <2>10. ASSUME NEW i \in 1 .. n + bufblksz PROVE payload'[i] = First + i - 1
    <3>1. CASE i <= n
      <4>1. payload'[i] = payload[i] /\ i \in 1 .. n
        BY <2>3, <2>5, <2>7, <3>1
      <4> QED BY <2>2, <4>1 DEF Sent
    <3>2. CASE i > n
      <4>1. i - n \in 1 .. bufblksz /\ payload'[i] = chunk[i - n]
        BY <2>3, <2>5, <2>7, <3>2
      <4>2. chunk[i - n] = offset + (i - n) - 1
        BY <4>1, <2>8
      <4> QED BY <2>2, <2>3, <2>5, <4>1, <4>2
    <3> QED BY <2>3, <2>5, <3>1, <3>2
  <2>11. Sent(NBlocks - blkremains)'
    BY <2>6, <2>9, <2>10 DEF Sent
  <2>12. blkremains' <= NBlocks' /\ offset' = First' + NBlocks' - blkremains'
    BY <2>1, <2>2, <2>3, <2>4, <2>5, <2>6 DEF n
  <2>13. pc' = "recv" => blkremains' = 0
    BY <2>1, <2>3 DEF ControlInv
  <2>14. pc' = "recv" => Sent(NBlocks)'
    BY <2>3, <2>6, <2>11, <2>13 DEF Sent
  <2> QED BY <2>1, <2>11, <2>12, <2>14 DEF ReadInv
<1>5. CASE SendChunkFail
  BY <1>5 DEF SendChunkFail, ReadInv
<1>6. CASE RecvChunk \/ RecvChunkFail \/ WriteChunk \/ Flush \/ Reply
  <2>1. UNCHANGED request /\ request.type # "READ"
    BY <1>6 DEF RecvChunk, RecvChunkFail, WriteChunk, Flush, Reply, ControlInv
  <2> QED BY <2>1
<1>7. CASE CallMissing \/ RecvFail
  BY <1>7 DEF CallMissing, RecvFail, Return, ReadInv
<1>8. CASE Ended \/ UNCHANGED vars
  BY <1>8 DEF Ended, vars, loop, session, history, ReadInv, Sent, First, NBlocks
<1> QED BY <1>1, <1>2, <1>3, <1>4, <1>5, <1>6, <1>7, <1>8 DEF Next, ServerStep

LEMMA WriteStep == Typed /\ ControlInv /\ WriteInv /\ [Next]_vars => WriteInv'
<1> SUFFICES ASSUME Typed, ControlInv, WriteInv, [Next]_vars,
                    request'.type = "WRITE", error' = "SUCCESS"
             PROVE  WriteInv'
  BY DEF WriteInv
<1>1. CASE RecvRequest
  <2>1. PICK req \in Requests : RecvRead(req) \/ RecvWrite(req) \/ RecvDisc(req)
                                \/ RecvFlush(req) \/ RecvOther(req)
    BY <1>1 DEF RecvRequest
  <2>2. /\ SetUp(req) /\ pc' = "write" /\ request' = req /\ took' = 0
        /\ prior' = disk /\ disk' = disk
    BY <2>1, ReceiveDoes
  <2>3. blkremains' = NBlocks' /\ offset' = First'
    BY <2>2 DEF SetUp, NBlocks, First
  <2>4. blkremains' \in Nat /\ offset' \in Nat
    BY StepTyped DEF Typed, TypeOK
  <2>5. Applied(NBlocks - blkremains)'
    <3>1. NBlocks' - blkremains' = 0
      BY <2>3, <2>4 DEF NBlocks
    <3>2. ASSUME NEW b \in Blocks PROVE b \notin First' .. First' + 0 - 1
      BY <2>3, <2>4
    <3> QED BY <2>2, <3>1, <3>2 DEF Applied
  <2>6. /\ blkremains' <= NBlocks' /\ offset' = First' + NBlocks' - blkremains'
        /\ took' = NBlocks' - blkremains'
    BY <2>2, <2>3, <2>4 DEF NBlocks, First
  <2> QED BY <2>2, <2>5, <2>6 DEF WriteInv
<1>2. CASE RecvChunk
  <2>1. /\ pc = "write" /\ pc' = "write_apply" /\ NextChunk
        /\ UNCHANGED <<request, error, blkremains, offset, disk, prior>>
        /\ buffer' = [i \in 1 .. bufblksz' |-> took + i] /\ took' = took + bufblksz'
    BY <1>2 DEF RecvChunk
  <2>2. bufblksz' \in Nat
    BY <2>1, NextChunkTyped
  <2>3. /\ took = NBlocks - blkremains
        /\ blkremains <= NBlocks /\ offset = First + NBlocks - blkremains
        /\ Applied(NBlocks - blkremains)
    BY <2>1 DEF WriteInv
  <2>4. NBlocks' = NBlocks /\ First' = First /\ Applied(NBlocks - blkremains)'
    BY <2>1, <2>3 DEF NBlocks, First, Applied, Blocks
  <2>5. \A i \in 1 .. bufblksz' : buffer'[i] = NBlocks' - blkremains' + i
    BY <2>1, <2>3, <2>4
  <2>6. took' = NBlocks' - blkremains' + bufblksz'
    BY <2>1, <2>3, <2>4
  <2> QED BY <2>1, <2>3, <2>4, <2>5, <2>6 DEF WriteInv
<1>3. CASE WriteChunk
  <2> DEFINE n == NBlocks - blkremains
  <2>1. /\ pc = "write_apply" /\ pc' = IF sendflag' # 0 THEN "write" ELSE "reply"
        /\ UNCHANGED <<request, bufblksz, buffer, took, prior, sendflag>>
        /\ error = "SUCCESS" /\ disk' = Written(Chunk)
        /\ offset' = offset + bufblksz /\ blkremains' = blkremains - bufblksz
    BY <1>3 DEF WriteChunk, ErrorOfWrite, Advance, history
  <2>2. /\ blkremains <= NBlocks /\ offset = First + NBlocks - blkremains /\ Applied(n)
        /\ took = NBlocks - blkremains + bufblksz
        /\ \A i \in 1 .. bufblksz : buffer[i] = NBlocks - blkremains + i
    BY <2>1 DEF WriteInv
  <2>3. /\ bufblksz \in Nat /\ blkremains \in Nat /\ offset \in Nat
        /\ First \in Nat /\ NBlocks \in Nat
    BY RangeNat DEF Typed, TypeOK
  <2>4. bufblksz <= blkremains
    BY <2>1 DEF Typed, LoopInv
  <2>5. /\ NBlocks' = NBlocks /\ First' = First
        /\ NBlocks' - blkremains' = n + bufblksz /\ n \in Nat
    BY <2>1, <2>2, <2>3 DEF NBlocks, First
  <2>6. ASSUME NEW b \in Blocks
        PROVE  disk'[b] = IF b \in First .. First + (n + bufblksz) - 1 THEN b - First + 1
                          ELSE prior[b]
    <3>1. b \in Int
      BY BlockSizeAssumption, ExportSizeAssumption, DivNat DEF Blocks
    <3>2. disk'[b] = IF b \in Chunk THEN buffer[b - offset + 1] ELSE disk[b]
      BY <2>1 DEF Written
    <3>3. CASE b \in Chunk
      <4>1. b - offset + 1 \in 1 .. bufblksz
        BY <2>3, <3>1, <3>3 DEF Chunk
      <4>2. disk'[b] = n + (b - offset + 1)
        BY <2>2, <3>2, <3>3, <4>1
      <4>3. b \in First .. First + (n + bufblksz) - 1
        BY <2>2, <2>3, <2>5, <3>1, <3>3 DEF Chunk
      <4> QED BY <2>2, <2>3, <2>5, <3>1, <4>2, <4>3
    <3>4. CASE b \notin Chunk
      <4>1. b \in First .. First + (n + bufblksz) - 1 <=> b \in First .. First + n - 1
        BY <2>2, <2>3, <2>5, <3>1, <3>4 DEF Chunk
      <4>2. disk'[b] = IF b \in First .. First + n - 1 THEN b - First + 1 ELSE prior[b]
        BY <2>2, <3>2, <3>4 DEF Applied
      <4> QED BY <4>1, <4>2
    <3> QED BY <3>3, <3>4
  <2>7. Applied(NBlocks - blkremains)'
    BY <2>1, <2>5, <2>6 DEF Applied, Blocks
  <2>8. /\ blkremains' <= NBlocks' /\ offset' = First' + NBlocks' - blkremains'
        /\ took' = NBlocks' - blkremains'
    BY <2>1, <2>2, <2>3, <2>4, <2>5
  <2>9. pc' = "reply" => blkremains' = 0
    BY <2>1, <2>3 DEF ControlInv
  <2>10. pc' = "reply" => took' = NBlocks' /\ Applied(NBlocks)'
    BY <2>3, <2>5, <2>7, <2>8, <2>9 DEF Applied
  <2> QED BY <2>1, <2>7, <2>8, <2>10 DEF WriteInv
<1>4. CASE RecvChunkFail
  BY <1>4 DEF RecvChunkFail
<1>5. CASE ReadReply \/ ReadChunk \/ ReadChunkFail \/ SendChunk \/ SendChunkFail \/ Flush
  <2>1. UNCHANGED request /\ request.type # "WRITE"
    BY <1>5 DEF ReadReply, ReadChunk, ReadChunkFail, SendChunk, SendChunkFail, Flush, ControlInv
  <2> QED BY <2>1
<1>6. CASE CallMissing \/ RecvFail \/ Reply
  BY <1>6 DEF CallMissing, RecvFail, Return, Reply, WriteInv
<1>7. CASE Ended \/ UNCHANGED vars
  BY <1>7 DEF Ended, vars, loop, history, WriteInv, Applied, First, NBlocks, Blocks
<1> QED BY <1>1, <1>2, <1>3, <1>4, <1>5, <1>6, <1>7 DEF Next, ServerStep

Inv == Typed /\ ControlInv /\ HeaderInv /\ RetryInv /\ ReadInv /\ WriteInv

LEMMA InitInv == Init => Inv
<1> SUFFICES ASSUME Init PROVE Inv
  OBVIOUS
<1>1. Typed
  BY InitTyped
<1>2. ControlInv /\ HeaderInv /\ ReadInv /\ WriteInv
  BY DEF Init, NoRequest, ControlInv, HeaderInv, ReadInv, WriteInv
<1>3. RetryInv
  BY DEF Init, RetryInv
<1> QED BY <1>1, <1>2, <1>3 DEF Inv

LEMMA StepInv == Inv /\ [Next]_vars => Inv'
  BY StepTyped, ControlStep, HeaderStep, RetryStep, ReadStep, WriteStep DEF Inv

LEMMA AlwaysInv == Spec => []Inv
  BY InitInv, StepInv, PTL DEF Spec

\* A READ that is answered with NBD_SUCCESS on a sound connection is followed by
\* exactly the bytes it asked for, in order, for every buffer and number of retries.
THEOREM ReadsDelivered == Spec => []ReadDelivers
<1>1. Inv => ReadDelivers
  <2> SUFFICES ASSUME Inv, pc = "recv", request.type = "READ", error = "SUCCESS", intact,
                      BlockAligned
               PROVE  /\ Len(payload) * BlockSize = request.count
                      /\ \A i \in 1 .. Len(payload) :
                             payload[i] * BlockSize = request.offset + (i - 1) * BlockSize
    BY DEF ReadDelivers
  <2>1. Sent(NBlocks)
    BY DEF Inv, ReadInv
  <2>2. request.offset \in Nat /\ request.count \in Nat /\ BlockSize \in Nat \ {0}
    BY BlockSizeAssumption DEF Inv, Typed, TypeOK
  <2>3. NBlocks * BlockSize = request.count /\ First * BlockSize = request.offset
    BY <2>2, DivExact DEF BlockAligned, NBlocks, First
  <2>4. First \in Nat
    BY RangeNat DEF Inv
  <2>5. ASSUME NEW i \in 1 .. Len(payload)
        PROVE  payload[i] * BlockSize = request.offset + (i - 1) * BlockSize
    <3>1. payload[i] = First + (i - 1) /\ i \in Int
      BY <2>1, <2>4, RangeNat DEF Sent, Inv
    <3>2. (First + (i - 1)) * BlockSize = First * BlockSize + (i - 1) * BlockSize
      BY <2>2, <2>4, <3>1
    <3> QED BY <2>3, <3>1, <3>2
  <2> QED BY <2>1, <2>3, <2>5 DEF Sent
<1> QED BY <1>1, AlwaysInv, PTL

\* A WRITE that is answered with NBD_SUCCESS has taken its whole payload, has put
\* every block of it in its place and has touched no other block.
THEOREM WritesDelivered == Spec => []WriteDelivers
<1>1. Inv => WriteDelivers
  <2> SUFFICES ASSUME Inv, pc = "reply", request.type = "WRITE", error = "SUCCESS", BlockAligned
               PROVE  took * BlockSize = request.count /\ Applied(NBlocks)
    BY DEF WriteDelivers, Applied
  <2>1. took = NBlocks /\ Applied(NBlocks)
    BY DEF Inv, WriteInv
  <2>2. request.count \in Nat /\ BlockSize \in Nat \ {0}
    BY BlockSizeAssumption DEF Inv, Typed, TypeOK
  <2>3. NBlocks * BlockSize = request.count
    BY <2>2, DivExact DEF BlockAligned, NBlocks
  <2> QED BY <2>1, <2>3
<1> QED BY <1>1, AlwaysInv, PTL

\* Every request gets exactly one reply header, before any data, and before the next
\* request is read; NBD_CMD_DISC gets none.
THEOREM HeadersOnce == Spec => []OneHeader
<1>1. Inv => OneHeader
  BY DEF Inv, HeaderInv, OneHeader
<1> QED BY <1>1, AlwaysInv, PTL

\* A session is given up on a failing pread after 1 + CONFIG_MAX_RETRIES failures of
\* the same chunk, neither sooner nor later.
THEOREM RetriesBounded == Spec => []RetryBudget
<1>1. Inv => RetryBudget
  BY DEF Inv, RetryInv, RetryBudget
<1> QED BY <1>1, AlwaysInv, PTL

-----------------------------------------------------------------------------
(* The refinement of BlockDevice.                                             *)

Mode ==
    IF ~intact \/ ~exact THEN "broken"
    ELSE IF pc \in {"returned", "crashed"} THEN "closed"
    ELSE IF pc = "recv" THEN "idle" ELSE "busy"
Order == [type |-> request.type, first |-> First, n |-> NBlocks]

LEMMA DeviceInit == Init => Device!Init
<1> SUFFICES ASSUME Init PROVE Device!Init
  OBVIOUS
<1>1. Typed
  BY InitTyped
<1>2. Order \in Device!Orders
  BY <1>1, RangeNat DEF Order, Device!Orders, Typed, TypeOK
<1> QED BY <1>1, <1>2 DEF Init, Device!Init, Order, Typed, TypeOK

\* A step that breaks the session, or finds it broken.
LEMMA BrokenStep == ASSUME Inv, [Next]_vars, Mode' = "broken" PROVE [Device!Next]_(Device!vars)
<1>1. CASE Mode = "broken"
  BY <1>1 DEF Device!Next, Device!Broken, Mode
<1>2. CASE Mode # "broken"
  <2>1. intact /\ exact /\ ~(intact' /\ exact')
    BY <1>2 DEF Mode
  <2>2. CASE RecvRequest
    BY <2>1, <2>2, ReceiveDoes DEF RecvRequest, Device!Next, Device!Break, Mode
  <2>3. CASE ReadReply \/ Reply \/ SendChunkFail
    BY <2>1, <2>3 DEF ReadReply, Reply, SendChunkFail, Device!Next, Device!Break, Mode
  <2>4. CASE ReadChunk \/ ReadChunkFail \/ SendChunk \/ RecvChunk \/ RecvChunkFail \/ WriteChunk
             \/ CallMissing \/ Flush \/ RecvFail \/ Ended \/ UNCHANGED vars
    <3>1. UNCHANGED <<intact, exact>>
      BY <2>4 DEF ReadChunk, ReadChunkFail, SendChunk, RecvChunk, RecvChunkFail, WriteChunk,
                  CallMissing, Flush, RecvFail, Ended, vars, session
    <3> QED BY <2>1, <3>1
  <2> QED BY <2>2, <2>3, <2>4 DEF Next, ServerStep
<1> QED BY <1>1, <1>2

\* A step of a session that stays sound is one of the device, by the place it is at.
LEMMA SoundStep ==
    ASSUME Inv, [Next]_vars, intact', exact' PROVE [Device!Next]_(Device!vars)
<1>1. intact /\ exact
  BY BrokenStays DEF Inv
<1>2. Order' \in Device!Orders /\ error' \in NBD_ERRORS
  <2>1. Typed'
    BY StepTyped DEF Inv
  <2>2. First' \in Nat /\ NBlocks' \in Nat
    BY <2>1, BlockSizeAssumption, DivNat DEF Typed, TypeOK, First, NBlocks
  <2> QED BY <2>1, <2>2 DEF Order, Device!Orders, Typed, TypeOK
<1>3. CASE RecvRequest
  <2>1. PICK req \in Requests : RecvRead(req) \/ RecvWrite(req) \/ RecvDisc(req)
                                \/ RecvFlush(req) \/ RecvOther(req)
    BY <1>3 DEF RecvRequest
  <2>2. /\ pc = "recv" /\ pc' \in {"read_reply", "write", "reply", "flush", "returned"}
        /\ prior' = disk /\ disk' = disk /\ payload' = <<>>
    BY <2>1, ReceiveDoes
  <2>3. Device!Issue
    BY <1>1, <1>2, <2>2 DEF Device!Issue, Order
  <2> QED BY <2>3 DEF Device!Next
<1>4. CASE RecvFail \/ CallMissing
  <2>1. Device!Close
    BY <1>1, <1>4 DEF RecvFail, CallMissing, Return, Device!Close, history, First, NBlocks
  <2> QED BY <2>1 DEF Device!Next
<1>5. CASE ReadReply
  <2>1. /\ pc = "read_reply" /\ pc' = IF sendflag # 0 THEN "read" ELSE "recv"
        /\ UNCHANGED <<request, disk, prior, payload, error>>
    BY <1>5 DEF ReadReply
  <2>2. request.type = "READ" /\ (sendflag # 0 <=> error = "SUCCESS")
    BY <1>1, <2>1 DEF Inv, ControlInv
  <2>3. CASE sendflag # 0
    BY <1>1, <1>2, <2>1, <2>3 DEF Device!Next, Device!Transfer, Device!HandsOut, First, NBlocks
  <2>4. CASE sendflag = 0
    BY <1>1, <1>2, <2>1, <2>2, <2>4
       DEF Device!Next, Device!Complete, Device!HandsOut, First, NBlocks
  <2> QED BY <2>3, <2>4
<1>6. CASE ReadChunk \/ ReadChunkFail \/ RecvChunk \/ RecvChunkFail \/ Flush
  <2>1. UNCHANGED <<request, disk, prior, payload>>
    BY <1>6 DEF ReadChunk, ReadChunkFail, RecvChunk, RecvChunkFail, Flush, history
  <2>2. /\ pc \in {"read", "write", "flush"}
        /\ pc' \in {"read", "read_send", "write_apply", "reply", "returned"}
    <3>1. CASE ReadChunkFail
      BY <3>1 DEF ReadChunkFail, FlagOfRetry, Return
    <3>2. CASE ReadChunk \/ RecvChunk \/ RecvChunkFail \/ Flush
      BY <3>2 DEF ReadChunk, RecvChunk, RecvChunkFail, Flush
    <3> QED BY <1>6, <3>1, <3>2
  <2>3. CASE pc' = "returned"
    BY <1>1, <2>1, <2>2, <2>3 DEF Device!Next, Device!Close, First, NBlocks
  <2>4. CASE pc' # "returned"
    BY <1>1, <1>2, <2>1, <2>2, <2>4
       DEF Device!Next, Device!Transfer, Device!HandsOut, First, NBlocks
  <2> QED BY <2>3, <2>4
<1>7. CASE SendChunk
  <2>1. /\ pc = "read_send" /\ pc' = IF sendflag # 0 THEN "read" ELSE "recv"
        /\ UNCHANGED <<request, disk, prior, error>>
        /\ offset' = offset + bufblksz /\ blkremains' = blkremains - bufblksz
        /\ payload' = payload \o [i \in 1 .. bufblksz |-> offset + i - 1]
    BY <1>7 DEF SendChunk, AfterRead, Advance
  <2>2. request.type = "READ" /\ error = "SUCCESS"
    BY <1>1, <2>1 DEF Inv, ControlInv
  <2>3. NBlocks' = NBlocks /\ First' = First
    BY <2>1 DEF NBlocks, First
  <2>4. blkremains \in Nat /\ bufblksz \in Nat /\ NBlocks \in Nat /\ First \in Nat
    BY RangeNat DEF Inv, Typed, TypeOK
  <2>5. blkremains <= NBlocks /\ Sent(NBlocks - blkremains) /\ bufblksz <= blkremains
    BY <2>1, <2>2 DEF Inv, ReadInv, Typed, LoopInv
  <2>6. /\ Sent(NBlocks - blkremains)'
        /\ sendflag = 0 => blkremains' = 0
    <3>1. ReadInv'
      BY ReadStep DEF Inv
    <3>2. sendflag = 0 => blkremains' = 0
      BY <2>1, <2>4 DEF Inv, ControlInv
    <3>3. sendflag = 0 => Sent(NBlocks)'
      BY <2>1, <2>2, <3>1 DEF ReadInv
    <3>4. sendflag # 0 => Sent(NBlocks - blkremains)'
      BY <2>1, <2>2, <3>1 DEF ReadInv
    <3> QED BY <2>3, <2>4, <3>2, <3>3, <3>4 DEF Sent
  <2>7. /\ Len(payload') = NBlocks - blkremains' /\ Len(payload) = NBlocks - blkremains
        /\ \A i \in 1 .. Len(payload') : payload'[i] = First + i - 1
    BY <2>3, <2>5, <2>6 DEF Sent
  <2>8. Len(payload) <= Len(payload') /\ Len(payload') <= NBlocks
    BY <2>1, <2>4, <2>5, <2>7
  <2>9. Device!HandsOut
    BY <2>2, <2>7, <2>8 DEF Device!HandsOut
  <2>10. CASE sendflag # 0
    BY <1>1, <1>2, <2>1, <2>3, <2>9, <2>10 DEF Device!Next, Device!Transfer
  <2>11. CASE sendflag = 0
    <3>1. Len(payload') = NBlocks
      BY <2>4, <2>6, <2>7, <2>11
    <3> QED BY <1>1, <1>2, <2>1, <2>2, <2>3, <2>9, <2>11, <3>1
            DEF Device!Next, Device!Complete, Device!Done
  <2> QED BY <2>10, <2>11
<1>8. CASE SendChunkFail
  BY <1>8 DEF SendChunkFail
<1>9. CASE WriteChunk
  <2>1. /\ pc = "write_apply" /\ pc' \in {"write", "reply"}
        /\ UNCHANGED <<request, prior, payload>>
    BY <1>9 DEF WriteChunk, history
  <2>2. PICK some \in SUBSET Chunk : disk' = Written(some)
    BY <1>9 DEF WriteChunk
  <2>3. request.type = "WRITE" /\ error = "SUCCESS"
    BY <1>1, <2>1 DEF Inv, ControlInv
  <2>4. NBlocks' = NBlocks /\ First' = First
    BY <2>1 DEF NBlocks, First
  <2>5. blkremains \in Nat /\ bufblksz \in Nat /\ NBlocks \in Nat /\ First \in Nat
    BY RangeNat DEF Inv, Typed, TypeOK
  <2>6. bufblksz <= blkremains
    BY <2>1 DEF Inv, Typed, LoopInv
  <2>7. /\ blkremains <= NBlocks /\ offset = First + NBlocks - blkremains
        /\ \A i \in 1 .. bufblksz : buffer[i] = NBlocks - blkremains + i
    BY <2>1, <2>3 DEF Inv, WriteInv
  <2>8. ASSUME NEW b \in Blocks, disk'[b] # disk[b]
        PROVE  b \in First .. First + NBlocks - 1 /\ disk'[b] = b - First + 1
    <3>1. b \in some /\ disk'[b] = buffer[b - offset + 1]
      BY <2>2, <2>8 DEF Written
    <3>2. b \in offset .. offset + bufblksz - 1
      BY <2>2, <3>1 DEF Chunk
    <3>3. b \in Int /\ b - offset + 1 \in 1 .. bufblksz
      BY <2>5, <2>7, <3>2
    <3>4. disk'[b] = NBlocks - blkremains + (b - offset + 1)
      BY <2>7, <3>1, <3>3
    <3> QED BY <2>5, <2>6, <2>7, <3>2, <3>3, <3>4
  <2>9. Device!Transfer
    BY <1>1, <1>2, <2>1, <2>3, <2>4, <2>8
       DEF Device!Transfer, Device!HandsOut, Device!Range, Device!Payload
  <2> QED BY <2>9 DEF Device!Next
<1>10. CASE Reply
  <2>1. /\ pc = "reply" /\ pc' = "recv" /\ UNCHANGED <<request, disk, prior, payload, error>>
    BY <1>10 DEF Reply
  <2>2. request.type # "READ"
    BY <2>1 DEF Inv, ControlInv
  <2>3. ASSUME request.type = "WRITE", error = "SUCCESS"
        PROVE  disk = [b \in Blocks |-> IF b \in First .. First + NBlocks - 1
                                        THEN b - First + 1 ELSE prior[b]]
    <3>1. Applied(NBlocks)
      BY <2>1, <2>3 DEF Inv, WriteInv
    <3>2. disk \in [Blocks -> Nat]
      BY DEF Inv, Typed, TypeOK
    <3> QED BY <3>1, <3>2 DEF Applied
  <2>4. Device!Complete
    BY <1>1, <1>2, <2>1, <2>2, <2>3
       DEF Device!Complete, Device!HandsOut, Device!Done, Device!Range, Device!Payload,
           First, NBlocks
  <2> QED BY <2>4 DEF Device!Next
<1>11. CASE Ended \/ UNCHANGED vars
  BY <1>11 DEF Ended, vars, session, history, Device!vars, First, NBlocks
<1> QED BY <1>3, <1>4, <1>5, <1>6, <1>7, <1>8, <1>9, <1>10, <1>11 DEF Next, ServerStep

\* The transmission phase implements the block device, whatever the sizes, the
\* buffer, the retries and the requests: no success is answered that was not one,
\* and no request touches a block outside its range.
THEOREM DeviceImplemented == Spec => ImplementsDevice
<1>1. Inv /\ [Next]_vars => [Device!Next]_(Device!vars)
  BY BrokenStep, SoundStep DEF Mode
<1>2. Spec => Device!Init
  BY DeviceInit DEF Spec
<1>3. Spec => [][Device!Next]_(Device!vars)
  BY AlwaysInv, <1>1, PTL DEF Spec
<1> QED BY <1>2, <1>3, PTL DEF ImplementsDevice, Device!Spec
=============================================================================
