-------------------------- MODULE FilePluginProofs --------------------------
(***************************************************************************)
(* Proofs about the file plugin, for every number of clients, files,       *)
(* exports and descriptors and every size of a file.                       *)
(***************************************************************************)
EXTENDS FilePlugin, WellFoundedInduction, TLAPS

\* The least-number principle, for the lowest free descriptor.
LEMMA LeastNat ==
    ASSUME NEW S \in SUBSET Nat, S # {}
    PROVE  \E m \in S : \A n \in S : m <= n
<1> DEFINE R == OpToRel(<, Nat)
<1>1. \A x, y \in Nat : x < y => <<x, y>> \in R
  BY DEF OpToRel
<1>2. IsWellFoundedOn(R, Nat)
  BY NatLessThanWellFounded
<1> HIDE DEF R
<1>3. PICK m \in S : \A n \in S : ~(<<n, m>> \in R)
  BY <1>2, WFMin
<1>4. \A n \in S : ~(n < m)
  BY <1>1, <1>3, Zenon
<1> QED BY <1>4

-----------------------------------------------------------------------------
(* The invariant.                                                             *)

Fields == {"export", "dir", "id", "offset", "count", "done", "data", "result"}
LocalOK(l) ==
    /\ DOMAIN l = Fields
    /\ l.export \in Places \cup {-1}
    /\ l.offset \in Nat /\ l.count \in Nat /\ l.done \in Nat

TypeOK ==
    /\ handles \in [Places -> [filename : Files \cup {None}, fd : Int]]
    /\ exports \in Nat
    /\ fds \in [Fds -> Files \cup {None}]
    /\ disk = [f \in Files |-> disk[f]]
    /\ pc \in [Clients -> {"idle", "open", "transfer", "done"}]
    /\ local = [c \in Clients |-> local[c]]
    /\ \A c \in Clients : LocalOK(local[c])
    /\ prior = [c \in Clients |-> prior[c]]
    /\ mixed \in [Clients -> BOOLEAN]

\* The handle's descriptor is of the handle's file.
Own(i) ==
    handles[i].fd \in Fds =>
        handles[i].filename \in Files /\ fds[handles[i].fd] = handles[i].filename

Empty(i) == handles[i].filename = None /\ handles[i].fd = 0

\* A place that no export has yet has no file and no descriptor.  The place behind the array
\* changes its file under a descriptor, but not under a client.
HandlesInv ==
    \A i \in Places :
        /\ exports <= i /\ i < FILE_DRIVER_MAX_DEVICES => Empty(i)
        /\ i < FILE_DRIVER_MAX_DEVICES => Own(i)

OpenInv(c) ==
    pc[c] # "idle" =>
        local[c].export \in Places /\ Handle(c).filename \in Files /\ Own(local[c].export)

Transferring(c) == pc[c] \in {"transfer", "done"}

\* No other transfer is of the same file.
Separate(c) ==
    \A d \in Clients \ {c} : Transferring(d) => Handle(d).filename # Handle(c).filename

\* What a transfer has done, which is its range up to `done` and nothing else.
Moved(c) == local[c].offset .. local[c].offset + local[c].done - 1
ReadSoFar(c) ==
    \A k \in Bytes :
        /\ disk[Handle(c).filename][k] = prior[c][k]
        /\ k \in Moved(c) => local[c].data[k - local[c].offset] = prior[c][k]
WrittenSoFar(c) ==
    \A k \in Bytes :
        disk[Handle(c).filename][k] =
            IF k \in Moved(c) THEN New(local[c].id, k - local[c].offset) ELSE prior[c][k]

TransferInv(c) ==
    Transferring(c) =>
        /\ local[c].offset + local[c].count <= Size
        /\ local[c].done <= local[c].count
        /\ pc[c] = "done" /\ local[c].result = 0 => local[c].done = local[c].count
        /\ ~mixed[c] =>
              /\ Separate(c)
              /\ local[c].dir = "read" => ReadSoFar(c)
              /\ local[c].dir # "read" => WrittenSoFar(c)

Inv ==
    /\ TypeOK
    /\ HandlesInv
    /\ \A c \in Clients : OpenInv(c) /\ TransferInv(c)

LEMMA InitInv == Init => Inv
<1> SUFFICES ASSUME Init PROVE Inv
  OBVIOUS
<1>1. LocalOK(Idle)
  BY DEF LocalOK, Fields, Idle
<1>2. TypeOK
  BY <1>1 DEF Init, TypeOK
<1>3. HandlesInv
  BY LimitsAssumption DEF Init, HandlesInv, Own, Empty, Fds
<1>4. \A c \in Clients : OpenInv(c) /\ TransferInv(c)
  BY DEF Init, OpenInv, TransferInv, Transferring
<1> QED BY <1>2, <1>3, <1>4 DEF Inv

\* The locals of a client are a record, so that an assignment to a field leaves the others.
LEMMA LocalType == ASSUME Inv, NEW c \in Clients PROVE LocalOK(local[c])
  BY DEF Inv, TypeOK

\* A step of client c, for the transfer of another client d.
LEMMA Keeps ==
    ASSUME Inv, NEW c \in Clients, NEW d \in Clients, d # c,
           \A i \in Places : handles'[i].filename = handles[i].filename,
           \A e \in Clients \ {c} : pc'[e] = pc[e] /\ local'[e] = local[e],
           prior'[d] = prior[d],
           Transferring(c)' => local'[c].export \in Places,
           ~mixed'[d] /\ Transferring(d) =>
              /\ ~mixed[d]
              /\ Transferring(c)' => handles[local'[c].export].filename # Handle(d).filename
              /\ disk'[Handle(d).filename] = disk[Handle(d).filename]
    PROVE  TransferInv(d)'
<1> SUFFICES ASSUME Transferring(d)' PROVE TransferInv(d)'
  BY DEF TransferInv
<1>1. pc'[d] = pc[d] /\ local'[d] = local[d] /\ Transferring(d)
  BY DEF Transferring
<1>2. TransferInv(d) /\ \A e \in Clients : OpenInv(e)
  BY DEF Inv
<1>3. \A e \in Clients : Transferring(e) => local[e].export \in Places
  BY <1>2 DEF OpenInv, Transferring
<1>4. CASE mixed'[d]
  BY <1>1, <1>2, <1>4 DEF TransferInv
<1>5. CASE ~mixed'[d]
  <2>1. /\ ~mixed[d]
        /\ Transferring(c)' => handles[local'[c].export].filename # Handle(d).filename
        /\ disk'[Handle(d).filename] = disk[Handle(d).filename]
    BY <1>1, <1>5
  <2>2. Separate(d)
    BY <1>1, <1>2, <2>1 DEF TransferInv
  <2>3. Handle(d)'.filename = Handle(d).filename
    BY <1>1, <1>3 DEF Handle
  <2>4. Separate(d)'
    <3> SUFFICES ASSUME NEW e \in Clients \ {d}, Transferring(e)'
                 PROVE  Handle(e)'.filename # Handle(d)'.filename
      BY DEF Separate
    <3>1. CASE e = c
      BY <2>1, <2>3, <3>1 DEF Handle
    <3>2. CASE e # c
      <4>1. Transferring(e) /\ local'[e] = local[e]
        BY <3>2 DEF Transferring
      <4>2. Handle(e)'.filename = Handle(e).filename
        BY <1>3, <4>1 DEF Handle
      <4> QED BY <2>2, <2>3, <4>1, <4>2 DEF Separate
    <3> QED BY <3>1, <3>2
  <2>5. local[d].dir = "read" => ReadSoFar(d)'
    <3>1. local[d].dir = "read" => ReadSoFar(d)
      BY <1>1, <1>2, <2>1 DEF TransferInv
    <3> QED BY <1>1, <2>1, <2>3, <3>1 DEF ReadSoFar, Moved
  <2>6. local[d].dir # "read" => WrittenSoFar(d)'
    <3>1. local[d].dir # "read" => WrittenSoFar(d)
      BY <1>1, <1>2, <2>1 DEF TransferInv
    <3> QED BY <1>1, <2>1, <2>3, <3>1 DEF WrittenSoFar, Moved
  <2> QED BY <1>1, <1>2, <2>4, <2>5, <2>6 DEF TransferInv
<1> QED BY <1>4, <1>5

\* A step of client c that opens nothing.
LEMMA Inside ==
    ASSUME Inv, NEW c \in Clients, pc[c] # "idle", UNCHANGED <<handles, exports, fds>>,
           NEW l \in {"idle", "open", "transfer", "done"}, pc' = [pc EXCEPT ![c] = l],
           NEW r, LocalOK(r), l = "idle" \/ r.export = local[c].export,
           local' = [local EXCEPT ![c] = r],
           disk' = [f \in Files |-> disk'[f]],
           prior' = [d \in Clients |-> prior'[d]],
           mixed' \in [Clients -> BOOLEAN],
           \A d \in Clients \ {c} :
              /\ prior'[d] = prior[d]
              /\ ~mixed'[d] /\ Transferring(d) =>
                    /\ ~mixed[d]
                    /\ Transferring(c)' => Handle(c).filename # Handle(d).filename
                    /\ disk'[Handle(d).filename] = disk[Handle(d).filename],
           TransferInv(c)'
    PROVE  Inv'
<1>1. /\ pc'[c] = l /\ local'[c] = r
      /\ \A e \in Clients \ {c} : pc'[e] = pc[e] /\ local'[e] = local[e]
  BY DEF Inv, TypeOK
<1>2. TypeOK'
  <2>1. pc' \in [Clients -> {"idle", "open", "transfer", "done"}]
    BY DEF Inv, TypeOK
  <2>2. local' = [d \in Clients |-> local'[d]]
    BY DEF Inv, TypeOK
  <2>3. \A d \in Clients : LocalOK(local'[d])
    BY <1>1, LocalType
  <2>4. \A d \in Clients : LocalOK(local[d])'
    BY <2>3 DEF LocalOK
  <2> QED BY <2>1, <2>2, <2>4 DEF Inv, TypeOK
<1>3. HandlesInv'
  BY DEF Inv, HandlesInv, Own, Empty
<1>4. \A d \in Clients : OpenInv(d)'
  BY <1>1 DEF Inv, OpenInv, Own, Handle
<1>5. Transferring(c)' => local'[c].export \in Places /\ local'[c].export = local[c].export
  BY <1>1 DEF Transferring, Inv, OpenInv
<1>6. ASSUME NEW d \in Clients, d # c PROVE TransferInv(d)'
  <2>1. /\ prior'[d] = prior[d]
        /\ ~mixed'[d] /\ Transferring(d) =>
              /\ ~mixed[d]
              /\ Transferring(c)' => handles[local'[c].export].filename # Handle(d).filename
              /\ disk'[Handle(d).filename] = disk[Handle(d).filename]
    BY <1>5, <1>6 DEF Handle
  <2> QED BY <1>1, <1>5, <1>6, <2>1, Keeps
<1> QED BY <1>2, <1>3, <1>4, <1>6 DEF Inv

-----------------------------------------------------------------------------
(* Exports and lookups.                                                       *)

LEMMA CtorInv == ASSUME Inv, NEW f \in Files, file_ctor(f) PROVE Inv'
<1>1. /\ pc \in [Clients -> {"idle"}]
      /\ handles' = [handles EXCEPT ![FreePlace].filename = f]
      /\ exports' = exports + 1
      /\ UNCHANGED <<fds, disk, pc, local, prior, mixed>>
  BY DEF file_ctor
<1>2. /\ handles \in [Places -> [filename : Files \cup {None}, fd : Int]]
      /\ exports \in Nat /\ FreePlace \in Places
      /\ FreePlace < FILE_DRIVER_MAX_DEVICES => FreePlace = exports
  BY LimitsAssumption DEF Inv, TypeOK, FreePlace, Places
<1>3. /\ handles' \in [Places -> [filename : Files \cup {None}, fd : Int]]
      /\ \A i \in Places : handles'[i].fd = handles[i].fd
      /\ \A i \in Places : i # FreePlace => handles'[i] = handles[i]
  BY <1>1, <1>2
<1>4. TypeOK'
  BY <1>1, <1>2, <1>3 DEF Inv, TypeOK, LocalOK
<1>5. HandlesInv'
  <2> SUFFICES ASSUME NEW i \in Places, i < FILE_DRIVER_MAX_DEVICES
               PROVE  (exports' <= i => Empty(i)') /\ Own(i)'
    BY DEF HandlesInv
  <2>0. i \in Nat
    BY DEF Places
  <2>1. (exports <= i => Empty(i)) /\ Own(i)
    BY DEF Inv, HandlesInv
  <2>2. exports' <= i => Empty(i)'
    BY <1>1, <1>2, <1>3, <2>0, <2>1, LimitsAssumption DEF FreePlace, Empty
  <2>3. Own(i)'
    <3>1. CASE i = FreePlace
      <4>1. handles'[i].fd = 0
        BY <1>2, <1>3, <2>0, <2>1, <3>1 DEF Empty
      <4> QED BY <4>1, LimitsAssumption DEF Own, Fds
    <3>2. CASE i # FreePlace
      BY <1>1, <1>3, <2>1, <3>2 DEF Own
    <3> QED BY <3>1, <3>2
  <2> QED BY <2>2, <2>3
<1>6. \A c \in Clients : OpenInv(c)' /\ TransferInv(c)'
  BY <1>1 DEF OpenInv, TransferInv, Transferring
<1> QED BY <1>4, <1>5, <1>6 DEF Inv

LEMMA LowestIsFree == ASSUME FreeFds # {} PROVE Lowest \in Fds /\ fds[Lowest] = None
<1>1. FreeFds \in SUBSET Nat
  BY LimitsAssumption DEF FreeFds, Fds
<1>2. \E fd \in FreeFds : \A other \in FreeFds : fd <= other
  BY <1>1, LeastNat
<1>3. Lowest \in FreeFds
  BY <1>2 DEF Lowest
<1> QED BY <1>3 DEF FreeFds

\* The descriptor that is taken was no other handle's.
LEMMA OpenDoes ==
    ASSUME TypeOK, NEW i \in Places, handles[i].filename \in Files, file_open(i)
    PROVE  /\ handles' \in [Places -> [filename : Files \cup {None}, fd : Int]]
           /\ fds' \in [Fds -> Files \cup {None}]
           /\ \A j \in Places : handles'[j].filename = handles[j].filename
           /\ \A j \in Places : j # i => handles'[j] = handles[j]
           /\ Own(i)'
           /\ \A j \in Places : Own(j) => Own(j)'
<1>0. /\ handles \in [Places -> [filename : Files \cup {None}, fd : Int]]
      /\ fds \in [Fds -> Files \cup {None}]
  BY DEF TypeOK
<1>1. CASE handles' = [handles EXCEPT ![i].fd = -1] /\ UNCHANGED fds
  <2>1. -1 \notin Fds
    BY LimitsAssumption DEF Fds
  <2>2. /\ handles' \in [Places -> [filename : Files \cup {None}, fd : Int]]
        /\ \A j \in Places : handles'[j].filename = handles[j].filename
        /\ \A j \in Places : j # i => handles'[j] = handles[j]
        /\ handles'[i].fd = -1
    BY <1>0, <1>1
  <2>3. Own(i)'
    BY <2>1, <2>2 DEF Own
  <2>4. ASSUME NEW j \in Places, Own(j), j # i PROVE Own(j)'
    BY <1>1, <2>2, <2>4 DEF Own
  <2> QED BY <1>0, <1>1, <2>2, <2>3, <2>4
<1>2. CASE /\ FreeFds # {}
           /\ fds' = [fds EXCEPT ![Lowest] = handles[i].filename]
           /\ handles' = [handles EXCEPT ![i].fd = Lowest]
  <2>1. Lowest \in Fds /\ Lowest \in Int /\ fds[Lowest] = None
    BY <1>2, LowestIsFree DEF Fds
  <2>2. /\ handles' \in [Places -> [filename : Files \cup {None}, fd : Int]]
        /\ \A j \in Places : handles'[j].filename = handles[j].filename
        /\ \A j \in Places : j # i => handles'[j] = handles[j]
        /\ handles'[i].fd = Lowest
    BY <1>0, <1>2, <2>1
  <2>3. /\ fds' \in [Fds -> Files \cup {None}]
        /\ fds'[Lowest] = handles[i].filename
        /\ \A fd \in Fds : fd # Lowest => fds'[fd] = fds[fd]
    BY <1>0, <1>2, <2>1
  <2>4. Own(i)'
    BY <2>2, <2>3 DEF Own
  <2>5. ASSUME NEW j \in Places, Own(j), j # i PROVE Own(j)'
    <3>1. handles[j].fd \in Fds => handles[j].fd # Lowest
      BY <2>1, <2>5, FilesAssumption DEF Own
    <3> QED BY <2>2, <2>3, <2>5, <3>1 DEF Own
  <2> QED BY <2>2, <2>3, <2>4, <2>5
<1> QED BY <1>1, <1>2 DEF file_open

LEMMA GetSizeInv == ASSUME Inv, NEW c \in Clients, NEW i \in Places, file_get_size(c, i) PROVE Inv'
<1> DEFINE r == [Idle EXCEPT !.export = i]
<1>1. /\ pc[c] = "idle" /\ handles[i].filename # None /\ file_open(i)
      /\ local' = [local EXCEPT ![c] = r] /\ pc' = [pc EXCEPT ![c] = "open"]
      /\ UNCHANGED <<exports, disk, prior, mixed>>
  BY DEF file_get_size, At, Goto
<1>2. handles[i].filename \in Files /\ TypeOK
  BY <1>1 DEF Inv, TypeOK
<1>3. /\ handles' \in [Places -> [filename : Files \cup {None}, fd : Int]]
      /\ fds' \in [Fds -> Files \cup {None}]
      /\ \A j \in Places : handles'[j].filename = handles[j].filename
      /\ \A j \in Places : j # i => handles'[j] = handles[j]
      /\ Own(i)'
      /\ \A j \in Places : Own(j) => Own(j)'
  BY <1>1, <1>2, OpenDoes
<1>4. r.export = i /\ LocalOK(r)
  BY DEF Idle, LocalOK, Fields
<1> HIDE DEF r
<1>5. /\ pc'[c] = "open" /\ local'[c] = r
      /\ \A e \in Clients \ {c} : pc'[e] = pc[e] /\ local'[e] = local[e]
  BY <1>1, <1>2 DEF TypeOK
<1>6. TypeOK'
  <2>1. pc' \in [Clients -> {"idle", "open", "transfer", "done"}]
    BY <1>1, <1>2 DEF TypeOK
  <2>2. local' = [d \in Clients |-> local'[d]]
    BY <1>1, <1>2 DEF TypeOK
  <2>3. \A d \in Clients : LocalOK(local'[d])
    BY <1>4, <1>5, LocalType
  <2>4. \A d \in Clients : LocalOK(local[d])'
    BY <2>3 DEF LocalOK
  <2> QED BY <1>1, <1>2, <1>3, <2>1, <2>2, <2>4 DEF TypeOK
<1>7. HandlesInv'
  <2> SUFFICES ASSUME NEW j \in Places, j < FILE_DRIVER_MAX_DEVICES
               PROVE  (exports' <= j => Empty(j)') /\ Own(j)'
    BY DEF HandlesInv
  <2>1. (exports <= j => Empty(j)) /\ Own(j)
    BY DEF Inv, HandlesInv
  <2>2. Own(j)'
    BY <1>3, <2>1
  <2>3. exports' <= j => Empty(j)'
    <3>1. CASE j # i
      BY <1>1, <1>3, <2>1, <3>1 DEF Empty
    <3>2. CASE j = i
      BY <1>1, <2>1, <3>2 DEF Empty
    <3> QED BY <3>1, <3>2
  <2> QED BY <2>2, <2>3
<1>8. ASSUME NEW d \in Clients PROVE OpenInv(d)'
  <2>1. CASE d = c
    BY <1>2, <1>3, <1>4, <1>5, <2>1 DEF OpenInv, Handle
  <2>2. CASE d # c
    <3>1. OpenInv(d) /\ pc'[d] = pc[d] /\ local'[d] = local[d]
      BY <1>5, <2>2 DEF Inv
    <3>2. CASE pc[d] # "idle"
      <4>1. local[d].export \in Places /\ Handle(d).filename \in Files /\ Own(local[d].export)
        BY <3>1, <3>2 DEF OpenInv
      <4>2. Handle(d)'.filename = Handle(d).filename
        BY <1>3, <3>1, <4>1 DEF Handle
      <4>3. Own(local[d].export)'
        <5>1. \A j \in Places : j = local'[d].export => Own(j)'
          BY <1>3, <3>1, <4>1
        <5> QED BY <3>1, <4>1, <5>1 DEF Own
      <4> QED BY <3>1, <4>1, <4>2, <4>3 DEF OpenInv
    <3>3. CASE pc[d] = "idle"
      BY <3>1, <3>3 DEF OpenInv
    <3> QED BY <3>2, <3>3
  <2> QED BY <2>1, <2>2
<1>9. ASSUME NEW d \in Clients PROVE TransferInv(d)'
  <2>1. CASE d = c
    BY <1>5, <2>1 DEF TransferInv, Transferring
  <2>2. CASE d # c
    <3>1. ~Transferring(c)'
      BY <1>5 DEF Transferring
    <3> QED BY <1>1, <1>3, <1>5, <2>2, <3>1, Keeps
  <2> QED BY <2>1, <2>2
<1> QED BY <1>6, <1>7, <1>8, <1>9 DEF Inv

-----------------------------------------------------------------------------
(* Transfers.                                                                 *)

LEMMA Apart ==
    ASSUME Inv, NEW c \in Clients, Transferring(c), NEW d \in Clients \ {c},
           ~mixed[d], Transferring(d)
    PROVE  Handle(c).filename # Handle(d).filename
  BY DEF Inv, TransferInv, Separate

\* A step within a transfer, which writes to no file but its own.
LEMMA Within ==
    ASSUME Inv, NEW c \in Clients, Transferring(c),
           UNCHANGED <<handles, exports, fds, prior, mixed>>,
           NEW l \in {"transfer", "done"}, pc' = [pc EXCEPT ![c] = l],
           NEW r, LocalOK(r), r.export = local[c].export,
           r.dir = local[c].dir, r.id = local[c].id,
           r.offset = local[c].offset, r.count = local[c].count, r.done <= r.count,
           l = "done" /\ r.result = 0 => r.done = r.count,
           local' = [local EXCEPT ![c] = r],
           disk' = [f \in Files |-> disk'[f]],
           \A f \in Files : f # Handle(c).filename => disk'[f] = disk[f],
           ~mixed[c] => /\ r.dir = "read" => ReadSoFar(c)'
                        /\ r.dir # "read" => WrittenSoFar(c)'
    PROVE  Inv'
<1>1. pc[c] # "idle"
  BY DEF Transferring
<1>2. /\ pc'[c] = l /\ local'[c] = r
      /\ \A e \in Clients \ {c} : pc'[e] = pc[e] /\ local'[e] = local[e]
  BY DEF Inv, TypeOK
<1>3. TransferInv(c)'
  <2>1. TransferInv(c)
    BY DEF Inv
  <2>2. ~mixed[c] => Separate(c)'
    <3> SUFFICES ASSUME ~mixed[c], NEW d \in Clients \ {c}, Transferring(d)'
                 PROVE  Handle(d)'.filename # Handle(c)'.filename
      BY DEF Separate
    <3>1. Transferring(d) /\ Separate(c)
      BY <1>2, <2>1 DEF Transferring, TransferInv
    <3>2. Handle(d)' = Handle(d) /\ Handle(c)' = Handle(c)
      BY <1>2 DEF Handle
    <3> QED BY <3>1, <3>2 DEF Separate
  <2> QED BY <1>2, <2>1, <2>2 DEF TransferInv
<1>4. ASSUME NEW d \in Clients \ {c}, ~mixed'[d], Transferring(d)
      PROVE  /\ ~mixed[d]
             /\ Handle(c).filename # Handle(d).filename
             /\ disk'[Handle(d).filename] = disk[Handle(d).filename]
  <2>1. Handle(c).filename # Handle(d).filename
    BY <1>4, Apart
  <2>2. Handle(d).filename \in Files
    BY <1>4 DEF Inv, OpenInv, Transferring
  <2> QED BY <1>4, <2>1, <2>2
<1>5. mixed' \in [Clients -> BOOLEAN] /\ prior' = [d \in Clients |-> prior'[d]]
  BY DEF Inv, TypeOK
<1> QED BY <1>1, <1>3, <1>4, <1>5, Inside

\* The transfer ends, and nothing else changes.
LEMMA FinishInv ==
    ASSUME Inv, NEW c \in Clients, pc[c] = "transfer", NEW result, Finish(c, result),
           UNCHANGED <<handles, exports, fds, disk, prior, mixed>>,
           result = 0 => local[c].done = local[c].count
    PROVE  Inv'
<1> DEFINE r == [local[c] EXCEPT !.result = result]
<1>1. pc' = [pc EXCEPT ![c] = "done"] /\ local' = [local EXCEPT ![c] = r]
  BY DEF Finish, Goto
<1>2. LocalOK(local[c]) /\ Transferring(c)
  BY LocalType DEF Transferring
<1>3. LocalOK(r) /\ r.export = local[c].export /\ r.dir = local[c].dir /\ r.id = local[c].id
      /\ r.offset = local[c].offset /\ r.count = local[c].count /\ r.done = local[c].done
      /\ r.data = local[c].data /\ r.result = result
  BY <1>2 DEF LocalOK
<1> HIDE DEF r
<1>4. TransferInv(c) /\ local'[c] = r
  BY <1>1 DEF Inv, TypeOK
<1>5. Handle(c)' = Handle(c)
  BY <1>3, <1>4 DEF Handle
<1>6. ~mixed[c] => /\ r.dir = "read" => ReadSoFar(c)'
                   /\ r.dir # "read" => WrittenSoFar(c)'
  BY <1>2, <1>3, <1>4, <1>5 DEF TransferInv, ReadSoFar, WrittenSoFar, Moved
<1>7. r.done <= r.count
  BY <1>2, <1>3, <1>4 DEF TransferInv
<1>8. disk' = [f \in Files |-> disk'[f]]
  BY DEF Inv, TypeOK
<1> QED BY <1>1, <1>2, <1>3, <1>6, <1>7, <1>8, Within

\* What a part of the transfer adds to it.
LEMMA PreadInv ==
    ASSUME Inv, NEW c \in Clients, NEW n \in Nat, pread(c, n) PROVE Inv'
<1> DEFINE f == fds[Handle(c).fd]
           done == local[c].done
           data == [k \in 0 .. done + n - 1 |->
                      IF k < done THEN local[c].data[k] ELSE disk[f][Position(c) + k - done]]
           r == [local[c] EXCEPT !.done = done + n, !.data = data]
<1>1. /\ pc[c] = "transfer" /\ local[c].dir = "read" /\ Handle(c).fd \in Fds
      /\ n \in 1 .. Left(c)
      /\ local' = [local EXCEPT ![c] = r]
      /\ UNCHANGED <<handles, exports, fds, disk, pc, prior, mixed>>
  BY DEF pread, At, Usable, Advance
<1>2. LocalOK(local[c]) /\ Transferring(c) /\ TransferInv(c) /\ OpenInv(c)
  BY <1>1, LocalType DEF Transferring, Inv
<1>3. f = Handle(c).filename
  BY <1>1, <1>2 DEF OpenInv, Own, Handle
<1>4. done \in Nat /\ local[c].offset \in Nat /\ local[c].count \in Nat
  BY <1>2 DEF LocalOK
<1>5. n \in Nat /\ done + n <= local[c].count /\ local[c].offset + local[c].count <= Size
  BY <1>1, <1>2, <1>4 DEF Left, TransferInv
<1>6. \A j \in 0 .. done + n - 1 :
          data[j] = IF j < done THEN local[c].data[j] ELSE disk[f][local[c].offset + j]
  BY <1>4, <1>5 DEF Position
<1> HIDE DEF data
<1>7. LocalOK(r) /\ r.export = local[c].export /\ r.dir = local[c].dir /\ r.id = local[c].id
      /\ r.offset = local[c].offset /\ r.count = local[c].count /\ r.done = done + n
      /\ r.data = data
  <2>1. done + n \in Nat
    BY <1>4, <1>5
  <2>2. r = [local[c] EXCEPT !.done = done + n, !.data = data]
    OBVIOUS
  <2> HIDE DEF r
  <2> QED BY <1>2, <2>1, <2>2 DEF LocalOK, Fields
<1> HIDE DEF r
<1>8. pc' = [pc EXCEPT ![c] = "transfer"] /\ local'[c] = r
  BY <1>1 DEF Inv, TypeOK
<1>9. Handle(c)' = Handle(c)
  BY <1>1, <1>7, <1>8 DEF Handle
<1>10. ~mixed[c] => ReadSoFar(c)'
  <2> SUFFICES ASSUME ~mixed[c], NEW k \in Bytes
               PROVE  /\ disk[Handle(c).filename][k] = prior[c][k]
                      /\ k \in r.offset .. r.offset + r.done - 1 => r.data[k - r.offset] = prior[c][k]
    BY <1>1, <1>8, <1>9 DEF ReadSoFar, Moved
  <2>1. /\ disk[Handle(c).filename][k] = prior[c][k]
        /\ k \in Moved(c) => local[c].data[k - local[c].offset] = prior[c][k]
    BY <1>1, <1>2 DEF TransferInv, ReadSoFar
  <2>2. ASSUME k \in r.offset .. r.offset + r.done - 1 PROVE r.data[k - r.offset] = prior[c][k]
    <3> DEFINE j == k - local[c].offset
    <3>1. j \in 0 .. done + n - 1 /\ k \in Int /\ local[c].offset + j = k
      BY <1>4, <1>5, <1>7, <2>2 DEF Bytes
    <3>2. CASE j < done
      <4>1. k \in Moved(c)
        BY <1>4, <3>1, <3>2 DEF Moved
      <4> QED BY <1>7, <1>6, <2>1, <3>1, <3>2, <4>1
    <3>3. CASE ~(j < done)
      <4>1. data[j] = disk[f][local[c].offset + j]
        BY <1>6, <3>1, <3>3
      <4> QED BY <1>3, <1>7, <2>1, <3>1, <4>1
    <3> QED BY <3>2, <3>3
  <2> QED BY <2>1, <2>2
<1>11. disk' = [g \in Files |-> disk'[g]]
  BY <1>1 DEF Inv, TypeOK
<1> QED BY <1>1, <1>2, <1>5, <1>7, <1>8, <1>10, <1>11, Within

LEMMA PwriteInv ==
    ASSUME Inv, NEW c \in Clients, NEW n \in Nat, pwrite(c, n) PROVE Inv'
<1> DEFINE f == fds[Handle(c).fd]
           done == local[c].done
           from == local[c].offset + done
           new == [k \in Bytes |-> IF k \in from .. from + n - 1
                                   THEN New(local[c].id, done + k - from) ELSE disk[f][k]]
           r == [local[c] EXCEPT !.done = done + n]
<1>1. /\ pc[c] = "transfer" /\ local[c].dir = "write" /\ Handle(c).fd \in Fds
      /\ n \in 1 .. Left(c)
      /\ local' = [local EXCEPT ![c] = r]
      /\ disk' = [disk EXCEPT ![f] = new]
      /\ UNCHANGED <<handles, exports, fds, pc, prior, mixed>>
  BY DEF pwrite, At, Usable, Advance, Source, Position
<1>2. LocalOK(local[c]) /\ Transferring(c) /\ TransferInv(c) /\ OpenInv(c)
  BY <1>1, LocalType DEF Transferring, Inv
<1>3. f = Handle(c).filename /\ f \in Files
  BY <1>1, <1>2 DEF OpenInv, Own, Handle
<1>4. done \in Nat /\ local[c].offset \in Nat /\ local[c].count \in Nat
  BY <1>2 DEF LocalOK
<1>5. n \in Nat /\ done + n <= local[c].count
  BY <1>1, <1>4 DEF Left
<1>6. LocalOK(r) /\ r.export = local[c].export /\ r.dir = local[c].dir /\ r.id = local[c].id
      /\ r.offset = local[c].offset /\ r.count = local[c].count /\ r.done = done + n
  BY <1>2, <1>4, <1>5 DEF LocalOK
<1>7. \A k \in Bytes : new[k] = IF k \in from .. from + n - 1
                                THEN New(local[c].id, k - local[c].offset) ELSE disk[f][k]
  <2>1. \A k \in Bytes : done + k - from = k - local[c].offset
    BY <1>4 DEF Bytes
  <2> QED BY <2>1
<1> HIDE DEF r, new, f
<1>8. pc' = [pc EXCEPT ![c] = "transfer"] /\ local'[c] = r
  BY <1>1 DEF Inv, TypeOK
<1>9. Handle(c)' = Handle(c)
  BY <1>1, <1>6, <1>8 DEF Handle
<1>10. /\ disk' = [g \in Files |-> disk'[g]]
       /\ disk'[f] = new
       /\ \A g \in Files : g # f => disk'[g] = disk[g]
  BY <1>1, <1>3 DEF Inv, TypeOK
<1>11. ~mixed[c] => WrittenSoFar(c)'
  <2> SUFFICES ASSUME ~mixed[c], NEW k \in Bytes
               PROVE  new[k] = IF k \in r.offset .. r.offset + r.done - 1
                               THEN New(r.id, k - r.offset) ELSE prior[c][k]
    BY <1>1, <1>3, <1>8, <1>9, <1>10 DEF WrittenSoFar, Moved
  <2>1. disk[f][k] = IF k \in Moved(c) THEN New(local[c].id, k - local[c].offset) ELSE prior[c][k]
    BY <1>1, <1>2, <1>3 DEF TransferInv, WrittenSoFar
  <2>2. k \in r.offset .. r.offset + r.done - 1 <=> k \in Moved(c) \/ k \in from .. from + n - 1
    BY <1>4, <1>5, <1>6 DEF Moved, Bytes
  <2> QED BY <1>6, <1>7, <2>1, <2>2
<1> QED BY <1>1, <1>2, <1>3, <1>5, <1>6, <1>8, <1>10, <1>11, Within

\* A transfer begins with nothing moved; those it meets are marked.
LEMMA StartInv ==
    ASSUME Inv, NEW c \in Clients, NEW dir, NEW offset \in Nat, NEW count \in Nat,
           Start(c, dir, offset, count)
    PROVE  Inv'
<1> DEFINE r == [local[c] EXCEPT !.dir = dir, !.id = ops + 1, !.offset = offset,
                                 !.count = count, !.done = 0, !.data = <<>>, !.result = 0]
           others == {d \in Clients \ {c} : Transferring(d) /\ Handle(d).filename = Handle(c).filename}
<1>1. /\ pc[c] = "open" /\ offset + count <= Size
      /\ local' = [local EXCEPT ![c] = r]
      /\ prior' = [prior EXCEPT ![c] = disk[Handle(c).filename]]
      /\ mixed' = [d \in Clients |-> IF d = c THEN others # {} ELSE mixed[d] \/ d \in others]
      /\ pc' = [pc EXCEPT ![c] = "transfer"]
      /\ UNCHANGED <<handles, exports, fds, disk>>
  BY DEF Start, At, Goto, Transferring
<1>2. LocalOK(local[c]) /\ pc[c] # "idle"
  BY <1>1, LocalType
<1>3. LocalOK(r) /\ r.export = local[c].export /\ r.offset = offset /\ r.count = count
      /\ r.done = 0
  <2>1. r = [local[c] EXCEPT !.dir = dir, !.id = ops + 1, !.offset = offset,
                             !.count = count, !.done = 0, !.data = <<>>, !.result = 0]
    OBVIOUS
  <2> HIDE DEF r
  <2> QED BY <1>2, <2>1 DEF LocalOK, Fields
<1> HIDE DEF r
<1>4. /\ pc'[c] = "transfer" /\ local'[c] = r /\ Handle(c)' = Handle(c)
      /\ prior'[c] = disk[Handle(c).filename]
      /\ \A d \in Clients \ {c} : pc'[d] = pc[d] /\ local'[d] = local[d] /\ prior'[d] = prior[d]
      /\ prior' = [d \in Clients |-> prior'[d]]
  BY <1>1, <1>3 DEF Inv, TypeOK, Handle
<1>5. mixed' \in [Clients -> BOOLEAN]
  BY <1>1 DEF Inv, TypeOK
<1>6. disk' = [g \in Files |-> disk'[g]]
  BY <1>1 DEF Inv, TypeOK
<1>7. \A d \in Clients \ {c} : ~mixed'[d] /\ Transferring(d) =>
         ~mixed[d] /\ Handle(c).filename # Handle(d).filename
  BY <1>1
<1>8. TransferInv(c)'
  <2>1. Moved(c)' = {}
    BY <1>3, <1>4 DEF Moved
  <2>2. ReadSoFar(c)' /\ WrittenSoFar(c)'
    BY <1>1, <1>4, <2>1 DEF ReadSoFar, WrittenSoFar
  <2>3. ~mixed'[c] => Separate(c)'
    <3> SUFFICES ASSUME ~mixed'[c], NEW d \in Clients \ {c}, Transferring(d)'
                 PROVE  Handle(d)'.filename # Handle(c)'.filename
      BY DEF Separate
    <3>1. Transferring(d) /\ Handle(d)' = Handle(d)
      BY <1>1, <1>4 DEF Transferring, Handle
    <3>2. d \notin others
      BY <1>1
    <3> QED BY <1>4, <3>1, <3>2
  <2> QED BY <1>1, <1>3, <1>4, <2>2, <2>3 DEF TransferInv
<1> QED BY <1>1, <1>2, <1>3, <1>4, <1>5, <1>6, <1>7, <1>8, Inside

\* The session goes on, or ends.
LEMMA EndInv == ASSUME Inv, NEW c \in Clients, Return(c) \/ Disconnect(c) PROVE Inv'
<1>1. PICK l \in {"idle", "open"}, i \in {-1, local[c].export} :
         /\ pc[c] # "idle" /\ (l = "idle" \/ i = local[c].export)
         /\ pc' = [pc EXCEPT ![c] = l]
         /\ local' = [local EXCEPT ![c] = [Idle EXCEPT !.export = i]]
         /\ UNCHANGED <<handles, exports, fds, disk>>
  BY DEF Return, Disconnect, At, Goto, Idle
<1> DEFINE r == [Idle EXCEPT !.export = i]
<1>2. LocalOK(r) /\ r.export = i
  <2>1. i \in Places \cup {-1}
    BY LocalType DEF LocalOK
  <2> QED BY <2>1 DEF Idle, LocalOK, Fields
<1> HIDE DEF r
<1>3. pc'[c] = l
  BY <1>1 DEF Inv, TypeOK
<1>4. ~Transferring(c)' /\ TransferInv(c)'
  BY <1>3 DEF TransferInv, Transferring
<1>5. /\ \A d \in Clients \ {c} : prior'[d] = prior[d] /\ mixed'[d] = mixed[d]
      /\ prior' = [d \in Clients |-> prior'[d]] /\ mixed' \in [Clients -> BOOLEAN]
  BY DEF Return, Disconnect, Inv, TypeOK
<1>6. disk' = [g \in Files |-> disk'[g]]
  BY <1>1 DEF Inv, TypeOK
<1> QED BY <1>1, <1>2, <1>4, <1>5, <1>6, Inside DEF r

-----------------------------------------------------------------------------

LEMMA StepInv == Inv /\ [Next]_vars => Inv'
<1> SUFFICES ASSUME Inv, [Next]_vars PROVE Inv'
  OBVIOUS
<1>1. ASSUME NEW c \in Clients, LoopEnds(c) PROVE Inv'
  <2>0. local[c].done \in Nat /\ local[c].count \in Nat
    BY LocalType DEF LocalOK
  <2>1. local[c].done = local[c].count
    BY <1>1, <2>0 DEF LoopEnds, Left
  <2> QED BY <1>1, <2>1, FinishInv DEF LoopEnds, At
<1>2. ASSUME NEW c \in Clients, CallFails(c) PROVE Inv'
  BY <1>2, FinishInv DEF CallFails, At
<1>3. ASSUME NEW c \in Clients, NEW n \in 1 .. Size, pread(c, n) \/ pwrite(c, n) PROVE Inv'
  BY <1>3, PreadInv, PwriteInv, LimitsAssumption
<1>4. ASSUME NEW c \in Clients, NEW dir, NEW offset \in 0 .. Size, NEW count \in 0 .. Size,
             Start(c, dir, offset, count)
      PROVE  Inv'
  BY <1>4, StartInv, LimitsAssumption
<1>5. CASE UNCHANGED vars
  <2>1. TypeOK' /\ HandlesInv'
    BY <1>5 DEF vars, Inv, TypeOK, LocalOK, HandlesInv, Own, Empty
  <2>2. ASSUME NEW c \in Clients PROVE OpenInv(c)' /\ TransferInv(c)'
    BY <1>5 DEF vars, Inv, OpenInv, Own, Handle, TransferInv, Transferring, Separate, ReadSoFar,
                WrittenSoFar, Moved
  <2> QED BY <2>1, <2>2 DEF Inv
<1>6. CASE Quiet
  BY <1>5, <1>6 DEF Quiet
<1> QED BY <1>1, <1>2, <1>3, <1>4, <1>5, <1>6, CtorInv, GetSizeInv, EndInv DEF Next, Step

LEMMA AlwaysInv == Spec => []Inv
  BY InitInv, StepInv, PTL DEF Spec

-----------------------------------------------------------------------------
(* Theorems.                                                                  *)

\* However exports and lookups follow each other, the descriptor in a handle is of the
\* handle's file, although each lookup replaces it and none is closed (file.c 88-102).
THEOREM HandlesHaveTheirFile == Spec => []HandleHasItsFile
<1>1. ASSUME Inv PROVE HandleHasItsFile
  <2>1. \A i \in 0 .. FILE_DRIVER_MAX_DEVICES - 1 : i \in Places /\ i < FILE_DRIVER_MAX_DEVICES
    BY LimitsAssumption DEF Places
  <2> QED BY <1>1, <2>1 DEF Inv, HandlesInv, Own, HandleHasItsFile
<1> QED BY <1>1, AlwaysInv, PTL

\* A transfer in any number of parts, with lookups of its export and transfers of other
\* files going on between them, reads what the file had and writes its range, all of it
\* when it returns 0, and nothing outside of it (file.c 29-71).
THEOREM TransfersExact == Spec => []TransferExact
<1>1. ASSUME Inv PROVE TransferExact
  <2> SUFFICES ASSUME NEW c \in Clients, pc[c] = "done", ~mixed[c], NEW k \in Bytes
               PROVE  LET range == local[c].offset .. local[c].offset + local[c].count - 1
                          Of(j) == j - local[c].offset
                      IN IF local[c].dir = "read"
                         THEN local[c].result = 0 /\ k \in range => local[c].data[Of(k)] = prior[c][k]
                         ELSE disk[Handle(c).filename][k] \in
                                IF k \notin range THEN {prior[c][k]}
                                ELSE IF local[c].result = 0 THEN {New(local[c].id, Of(k))}
                                ELSE {prior[c][k], New(local[c].id, Of(k))}
    BY DEF TransferExact, At
  <2>1. LocalOK(local[c]) /\ Transferring(c) /\ TransferInv(c)
    BY <1>1, LocalType DEF Inv, Transferring
  <2>2. local[c].offset \in Nat /\ local[c].count \in Nat /\ local[c].done \in Nat
    BY <2>1 DEF LocalOK
  <2>3. /\ local[c].done <= local[c].count
        /\ local[c].result = 0 => local[c].done = local[c].count
        /\ local[c].dir = "read" => ReadSoFar(c)
        /\ local[c].dir # "read" => WrittenSoFar(c)
    BY <2>1 DEF TransferInv
  <2>4. CASE local[c].dir = "read"
    BY <2>2, <2>3, <2>4 DEF ReadSoFar, Moved
  <2>5. CASE local[c].dir # "read"
    <3>1. k \in Moved(c) => k \in local[c].offset .. local[c].offset + local[c].count - 1
      BY <2>2, <2>3 DEF Moved, Bytes
    <3>2. local[c].result = 0 =>
             (k \in Moved(c) <=> k \in local[c].offset .. local[c].offset + local[c].count - 1)
      BY <2>3 DEF Moved
    <3>3. disk[Handle(c).filename][k] =
             IF k \in Moved(c) THEN New(local[c].id, k - local[c].offset) ELSE prior[c][k]
      BY <2>3, <2>5 DEF WrittenSoFar
    <3> QED BY <2>5, <3>1, <3>2, <3>3
  <2> QED BY <2>4, <2>5
<1> QED BY <1>1, AlwaysInv, PTL
=============================================================================
