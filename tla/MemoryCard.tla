----------------------------- MODULE MemoryCard -----------------------------
(***************************************************************************)
(* The memory card plugin (plugins/mcman/mcman_d.c): mcman_ctor for each   *)
(* port, then mcman_pread and mcman_pwrite by the threads of the clients.  *)
(* A card is NAND flash: a write reads the blocks it does not fill into a  *)
(* buffer, puts its pages in, erases the block and programs all of its     *)
(* pages.  There is one action per call of the card's driver, each of      *)
(* which may fail.                                                         *)
(*                                                                         *)
(* The buffer and the number of pages of a block are kept once for all     *)
(* cards; mcman_pread uses neither.                                        *)
(***************************************************************************)
EXTENDS Integers, Sequences

CONSTANTS
    Writers, Readers,  \* client threads
    MaxDevices,   \* MAX_DEVICES
    Card,         \* port -> [ppb, pages]: pages of a block and of the card
    Wide, Narrow, \* uint64_t and uint32_t arithmetic is modulo these numbers
    Ranges,       \* <<offset, count>>: the pages clients ask for
    MaxRequests   \* bound on the number of reads and writes

Ports == 0 .. MaxDevices - 1
Threads == Writers \cup Readers

\* `offset & (pagesPerBlock - 1)` is a remainder for powers of two only.
ASSUME CardAssumption ==
    /\ MaxDevices \in Nat
    /\ Card \in [Ports -> [ppb : Nat \ {0}, pages : Nat]]
    /\ \A p \in Ports : Card[p].ppb \in {2^k : k \in 0 .. 15} /\ Card[p].pages % Card[p].ppb = 0
\* Either width counts the pages of a card, an int (mcman_d.c 207).
ASSUME WidthAssumption ==
    /\ Wide \in Nat \ {0} /\ Narrow \in Nat \ {0} /\ Narrow <= Wide
    /\ \A p \in Ports : Card[p].pages <= Narrow
ASSUME RequestsAssumption == Ranges \subseteq Nat \X Nat /\ MaxRequests \in Nat

VARIABLES
    detected,       \* ports whose constructor has run
    ready,          \* ports that have an export
    pagesPerBlock,  \* of the card set up last
    bbuffer,        \* page of a block -> content
    card,           \* port -> page -> content
    at, local,      \* thread -> where it is, and its locals
    \* History
    requests,       \* number of reads and writes so far
    prior,          \* thread -> the card before its request
    erased,         \* thread -> blocks its write has erased
    mixed           \* threads whose request overlaps a write it is mixed up with

mcmanVars == <<detected, ready, pagesPerBlock, bbuffer, card, at, local,
          requests, prior, erased, mixed>>
setup == <<detected, ready, pagesPerBlock>>
history == <<requests, prior, erased, mixed>>

Erased == <<"erased", 0, 0>>
Junk == <<"junk", 0, 0>>
Stale == <<"stale", 0, 0>>
Old(port, p) == <<"old", port, p>>
New(w, k) == <<"new", w, k>>   \* page k of the data of write w

Pages(port) == 0 .. Card[port].pages - 1
BlockOf(port, b) == {p \in Pages(port) : p \div Card[port].ppb = b}

NoRequest == [op |-> "none", port |-> -1, offset |-> 0, count |-> 0, id |-> 0, i |-> 0,
              endBlock |-> 0, blockOffset |-> 0, remainingPages |-> 0, writtenPages |-> 0,
              j |-> 0, data |-> <<>>, result |-> 0]

McmanInit ==
    /\ detected = {} /\ ready = {}
    /\ pagesPerBlock = 0
    /\ bbuffer = <<>>
    /\ card = [port \in Ports |-> [p \in Pages(port) |-> Old(port, p)]]
    /\ at = [t \in Threads |-> "idle"]
    /\ local = [t \in Threads |-> NoRequest]
    /\ requests = 0
    /\ prior = [t \in Threads |-> <<>>]
    /\ erased = [t \in Threads |-> {}]
    /\ mixed = {}

\* The cards are set up in order before the server starts.  A card that is not
\* there leaves what the other one has set.
mcman_ctor(port) ==
    /\ port \notin detected /\ \A p \in Ports : p < port => p \in detected
    /\ detected' = detected \cup {port}
    /\ \/ /\ ready' = ready \cup {port}
          /\ pagesPerBlock' = Card[port].ppb
          /\ bbuffer' = [k \in 0 .. Card[port].ppb - 1 |-> Stale]
       \/ UNCHANGED <<ready, pagesPerBlock, bbuffer>>
    /\ UNCHANGED <<card, at, local, history>>

-----------------------------------------------------------------------------
(* mcman_pwrite and what it calls.                                           *)

At(t, label) == at[t] = label
MoveTo(t, label) == at' = [at EXCEPT ![t] = label]

EndBlock(offset, count) == (((offset + count - 1) % Wide) \div pagesPerBlock) % Narrow

\* The server hands a request for pages of the export to the plugin.
Writing(t) == local[t].op = "write"
StartRequest(t, port, offset, count) ==
    /\ At(t, "idle")
    /\ detected = Ports
    /\ port \in ready
    /\ requests < MaxRequests
    /\ offset + count <= Card[port].pages
    /\ requests' = requests + 1
    /\ prior' = [prior EXCEPT ![t] = card[port]]
    /\ UNCHANGED <<setup, bbuffer, card, erased>>

StartWrite(t, port, offset, count) ==
    /\ StartRequest(t, port, offset, count)
    /\ local' = [local EXCEPT ![t] =
          [NoRequest EXCEPT !.op = "write", !.port = port, !.offset = offset, !.count = count,
             !.id = requests', !.i = offset \div pagesPerBlock,
             !.endBlock = EndBlock(offset, count), !.blockOffset = offset % pagesPerBlock,
             !.remainingPages = count]]
    /\ LET others == {u \in Threads \ {t} : Writing(u) \/ local[u].port = port}
       IN mixed' = mixed \cup others \cup (IF \E u \in others : Writing(u) THEN {t} ELSE {})
    /\ MoveTo(t, "block")

StartRead(t, port, offset, count) ==
    /\ StartRequest(t, port, offset, count)
    /\ local' = [local EXCEPT ![t] =
          [NoRequest EXCEPT !.op = "read", !.port = port, !.offset = offset, !.count = count]]
    /\ mixed' = mixed \cup
          (IF \E u \in Threads \ {t} : Writing(u) /\ local[u].port = port THEN {t} ELSE {})
    /\ MoveTo(t, "pread")

\* Pages to be written into the block.
NPages_NoOffset(t) ==  \* mutant: blockOffset is not taken off
    IF local[t].remainingPages >= pagesPerBlock THEN pagesPerBlock
    ELSE local[t].remainingPages
NPages(t) ==
    IF local[t].remainingPages >= pagesPerBlock - local[t].blockOffset
    THEN pagesPerBlock - local[t].blockOffset
    ELSE local[t].remainingPages

\* The head of the loop over the blocks, and injectPages' choice: a block that is
\* not filled is read first.
Block(t) ==
    /\ At(t, "block")
    /\ \/ local[t].i > local[t].endBlock /\ MoveTo(t, "done")
       \/ /\ local[t].i <= local[t].endBlock
          /\ MoveTo(t, IF local[t].blockOffset # 0 \/ NPages(t) # pagesPerBlock
                     THEN "load" ELSE "inject")
    /\ local' = [local EXCEPT ![t].j = 0]
    /\ UNCHANGED <<setup, bbuffer, card, history>>

\* The page that the next call of the driver is about.
Page(t) == local[t].i * pagesPerBlock + local[t].j

\* A call failed: the loop is left, and the error returned.
Fail(t) ==
    /\ MoveTo(t, "done")
    /\ local' = [local EXCEPT ![t].result = -1]

\* mcman_pread: one page after the other.
mcman_pread(t) ==
    LET page == local[t].offset + local[t].j
    IN /\ At(t, "pread")
       /\ \/ local[t].j = local[t].count /\ MoveTo(t, "done") /\ UNCHANGED local
          \/ /\ local[t].j < local[t].count
             /\ local' = [local EXCEPT ![t].j = @ + 1,
                                       ![t].data = Append(@, card[local[t].port][page])]
             /\ UNCHANGED at
          \/ local[t].j < local[t].count /\ Fail(t)
       /\ UNCHANGED <<setup, bbuffer, card, history>>

LastPage(t) == local[t].j + 1 = pagesPerBlock

\* readBlock.
McReadPage(t) ==
    /\ At(t, "load")
    /\ \/ /\ Page(t) \in Pages(local[t].port)
          /\ bbuffer' = [bbuffer EXCEPT ![local[t].j] = card[local[t].port][Page(t)]]
          /\ local' = [local EXCEPT ![t].j = IF LastPage(t) THEN 0 ELSE @ + 1]
          /\ MoveTo(t, IF LastPage(t) THEN "inject" ELSE "load")
       \/ Fail(t) /\ UNCHANGED bbuffer
    /\ UNCHANGED <<setup, card, history>>

\* The pages of the request go to their place in the buffer.
Inject(t) ==
    /\ At(t, "inject")
    /\ bbuffer' = [k \in DOMAIN bbuffer |->
          IF k \in local[t].blockOffset .. local[t].blockOffset + NPages(t) - 1
          THEN New(local[t].id, local[t].writtenPages + k - local[t].blockOffset)
          ELSE bbuffer[k]]
    /\ MoveTo(t, "erase")
    /\ UNCHANGED <<setup, card, local, history>>

\* writeBlock: erase the block.  A failing erase may have taken place.
McEraseBlock2(t) ==
    LET port  == local[t].port
        block == BlockOf(port, local[t].i)
    IN /\ At(t, "erase")
       /\ \/ /\ block # {}
             /\ card' = [card EXCEPT ![port] =
                   [p \in Pages(port) |-> IF p \in block THEN Erased ELSE @[p]]]
             /\ erased' = [erased EXCEPT ![t] = @ \cup {local[t].i}]
             /\ \/ MoveTo(t, "program") /\ UNCHANGED local
                \/ Fail(t)
          \/ Fail(t) /\ UNCHANGED <<card, erased>>
       /\ UNCHANGED <<setup, bbuffer, requests, prior, mixed>>

\* The block is done.
NextBlock_Stuck(t) ==  \* mutant: i is not advanced
    local' = [local EXCEPT ![t].blockOffset = 0, ![t].j = 0,
                           ![t].remainingPages = @ - NPages(t),
                           ![t].writtenPages = @ + NPages(t)]
NextBlock(t) ==
    local' = [local EXCEPT ![t].i = @ + 1, ![t].blockOffset = 0, ![t].j = 0,
                           ![t].remainingPages = @ - NPages(t),
                           ![t].writtenPages = @ + NPages(t)]

\* Only an erased page takes what is programmed; a page that is not, or a call that
\* fails, may leave anything.
McWritePage(t) ==
    LET port == local[t].port
        Put(content) == card' = [card EXCEPT ![port][Page(t)] = content]
    IN /\ At(t, "program")
       /\ \/ /\ Page(t) \in Pages(port)
             /\ Put(IF card[port][Page(t)] = Erased THEN bbuffer[local[t].j] ELSE Junk)
             /\ IF LastPage(t) THEN NextBlock(t) /\ MoveTo(t, "block")
                ELSE local' = [local EXCEPT ![t].j = @ + 1] /\ UNCHANGED at
          \/ Page(t) \in Pages(port) /\ Put(Junk) /\ Fail(t)
          \/ Fail(t) /\ UNCHANGED card
       /\ UNCHANGED <<setup, bbuffer, history>>

\* The request is done with.
Return(t) ==
    /\ At(t, "done")
    /\ MoveTo(t, "idle")
    /\ local' = [local EXCEPT ![t] = NoRequest]
    /\ prior' = [prior EXCEPT ![t] = <<>>]
    /\ erased' = [erased EXCEPT ![t] = {}]
    /\ mixed' = mixed \ {t}
    /\ UNCHANGED <<setup, bbuffer, card, requests>>

Step(t) ==
    \/ Block(t) \/ McReadPage(t) \/ Inject(t) \/ McEraseBlock2(t) \/ McWritePage(t)
    \/ mcman_pread(t) \/ Return(t)

\* No card, or the bound is reached: nothing more to do.
Quiet ==
    /\ detected = Ports
    /\ ready = {} \/ requests = MaxRequests
    /\ \A t \in Threads : at[t] = "idle"
    /\ UNCHANGED mcmanVars

McmanNext ==
    \/ \E port \in Ports : mcman_ctor(port)
    \/ \E t \in Writers, port \in Ports, r \in Ranges : StartWrite(t, port, r[1], r[2])
    \/ \E t \in Readers, port \in Ports, r \in Ranges : StartRead(t, port, r[1], r[2])
    \/ \E t \in Threads : Step(t)
    \/ Quiet

McmanSpec == McmanInit /\ [][McmanNext]_mcmanVars

\* The calls of the driver return, with success or not.
McmanFairSpec == McmanSpec /\ \A t \in Threads : WF_mcmanVars(Step(t))

-----------------------------------------------------------------------------
(* Properties.                                                               *)

Involved(t) == {p \div pagesPerBlock : p \in local[t].offset .. local[t].offset + local[t].count - 1}
\* No card of other blocks was found after this one.
LastOfItsKind(t) ==
    \A port \in ready : port > local[t].port => Card[port].ppb = Card[local[t].port].ppb
Ended(t, op, result) ==
    At(t, "done") /\ local[t].op = op /\ local[t].result = result /\ t \notin mixed

\* What page p of the card holds after all of the write, or before it.
Wanted(t, p) ==
    IF p \in local[t].offset .. local[t].offset + local[t].count - 1
    THEN New(local[t].id, p - local[t].offset) ELSE prior[t][p]
Exact(t) == \A p \in Pages(local[t].port) : card[local[t].port][p] = Wanted(t, p)

\* A read that returns 0 has given the pages asked for (mcman_d.c 139-148).  A write
\* that returns 0 has put every page in its place and left every other page of the card
\* as it was, those of the blocks it erased included (mcman_d.c 109-127, 163-187), and
\* one that fails has lost at most the block it was in (mcman_d.c 181-182), as long as
\* no card of other blocks was found after this one, which replaces pagesPerBlock
\* (mcman_d.c 213).  This is said of reads that overlap no write to the same card, and of
\* writes that overlap no other write at all: they share the block buffer (mcman_d.c 29).
\* In any case a write of at least a page erases only the blocks it computes from the
\* request (mcman_d.c 163-164).
TransferExact ==
    \A t \in Threads :
        /\ Ended(t, "read", 0) =>
              local[t].data = [k \in 1 .. local[t].count |-> prior[t][local[t].offset + k - 1]]
        /\ Ended(t, "write", 0) /\ LastOfItsKind(t) => Exact(t)
        /\ Ended(t, "write", -1) /\ LastOfItsKind(t) =>
              \A p \in Pages(local[t].port) :
                 /\ p \div pagesPerBlock < local[t].i => card[local[t].port][p] = Wanted(t, p)
                 /\ p \div pagesPerBlock > local[t].i => card[local[t].port][p] = prior[t][p]
        /\ local[t].count > 0 => erased[t] \subseteq Involved(t)

\* Every request returns, also when a call fails at any point (mcman_d.c 139-144, 173-187).
RequestEnds == \A t \in Threads : at[t] # "idle" ~> at[t] = "idle"
=============================================================================
