------------------------------ MODULE TtyProofs ------------------------------
(***************************************************************************)
(* Proofs about the ring buffer of the console plugin, for every size of   *)
(* the ring, every length of a read, every number of clients that read and *)
(* any amount of text.  The plugin has no lock: that one thread prints at  *)
(* a time, and for the stream as a whole that one client reads, are        *)
(* hypotheses of the theorems.                                             *)
(***************************************************************************)
EXTENDS Tty, SequenceTheorems, TLAPS

-----------------------------------------------------------------------------
(* Places in a ring.                                                          *)

LEMMA DivMod ==
    ASSUME NEW T \in Nat \ {0}, NEW a \in Nat
    PROVE  (a \div T) \in Int /\ a = (T * (a \div T)) + (a % T) /\ (a % T) \in 0 .. T - 1
  OBVIOUS

LEMMA SmallMultiple ==
    ASSUME NEW T \in Nat \ {0}, NEW d \in Int, T * d < T, T * d > -T PROVE d = 0
  OBVIOUS

LEMMA ModUnique ==
    ASSUME NEW T \in Nat \ {0}, NEW a \in Nat, NEW q \in Int, NEW r \in 0 .. T - 1,
           a = (T * q) + r
    PROVE  a % T = r
<1> DEFINE p == a \div T
<1>1. p \in Int /\ a = (T * p) + (a % T) /\ (a % T) \in 0 .. T - 1
  BY DivMod
<1> HIDE DEF p
<1>2. T * (p - q) = r - (a % T)
  BY <1>1
<1>3. p - q = 0
  BY <1>1, <1>2, SmallMultiple
<1> QED BY <1>1, <1>3

\* Positions less than the size of the ring apart have different places.
LEMMA PlacesDiffer ==
    ASSUME NEW T \in Nat \ {0}, NEW a \in Nat, NEW b \in Nat, b < a, a < b + T
    PROVE  a % T # b % T
<1> SUFFICES ASSUME a % T = b % T PROVE FALSE
  OBVIOUS
<1> DEFINE p == a \div T
           q == b \div T
<1>1. p \in Int /\ a = (T * p) + (a % T) /\ (a % T) \in 0 .. T - 1
  BY DivMod
<1>2. q \in Int /\ b = (T * q) + (b % T) /\ (b % T) \in 0 .. T - 1
  BY DivMod
<1> HIDE DEF p, q
<1>3. T * (p - q) = a - b
  BY <1>1, <1>2
<1>4. p - q = 0
  BY <1>1, <1>2, <1>3, SmallMultiple
<1> QED BY <1>3, <1>4

\* A transfer that goes beyond the end of the ring goes on at its beginning.
LEMMA ModAdd ==
    ASSUME NEW T \in Nat \ {0}, NEW a \in Nat, NEW k \in Nat, k < T
    PROVE  (a + k) % T = IF (a % T) + k < T THEN (a % T) + k ELSE (a % T) + k - T
<1> DEFINE p == a \div T
<1>1. p \in Int /\ a = (T * p) + (a % T) /\ (a % T) \in 0 .. T - 1
  BY DivMod
<1> HIDE DEF p
<1>2. a + k \in Nat /\ p + 1 \in Int
  BY <1>1
<1>3. CASE (a % T) + k < T
  <2>1. a + k = (T * p) + ((a % T) + k) /\ (a % T) + k \in 0 .. T - 1
    BY <1>1, <1>3
  <2> QED BY <1>1, <1>2, <1>3, <2>1, ModUnique
<1>4. CASE ~((a % T) + k < T)
  <2>1. a + k = (T * (p + 1)) + ((a % T) + k - T) /\ (a % T) + k - T \in 0 .. T - 1
    BY <1>1, <1>4
  <2> QED BY <1>2, <1>4, <2>1, ModUnique
<1> QED BY <1>3, <1>4

-----------------------------------------------------------------------------
(* The invariant.                                                             *)

Bytes == {Byte(w, k) : w \in Writers, k \in Nat} \cup {Unset, Beyond}
Locals == [pos : Nat, size : Nat, start : Nat, done : Nat, data : Seq(Bytes)]
Ring == 0 .. TTY_SIZE - 1

TypeOK ==
    /\ pc \in [Threads -> {"idle", "wait", "check", "copy", "advance", "signal"}]
    /\ local \in [Threads -> Locals]
    /\ ringbuffer \in [Ring -> Bytes]
    /\ log \in Seq(Bytes) /\ received \in Seq(Bytes)
    /\ rwhence \in Nat /\ wwhence \in Nat /\ begun \in Nat
    /\ lapped \in BOOLEAN

\* A byte is where its position says, until printing may have come round to it.
RingInv ==
    /\ Len(log) = wwhence
    /\ wwhence <= begun
    /\ \A p \in Nat : p < wwhence /\ begun <= p + TTY_SIZE =>
          ringbuffer[Pos(p)] = log[p + 1]

\* A thread that prints has the positions from wwhence on to itself.
Writing(w) == pc[w] \in {"copy", "advance"}
WriterInv(w) ==
    /\ pc[w] \notin {"wait", "check"}
    /\ ~Writing(w) => begun = wwhence
    /\ Writing(w) =>
          LET l == local[w]
          IN /\ l.start = wwhence /\ begun = wwhence + l.size /\ l.pos = Pos(l.start)
             /\ l.size <= TTY_SIZE /\ Len(l.data) = l.size
             /\ l.done <= l.size /\ (pc[w] = "advance" => l.done = l.size)
             /\ \A k \in Nat : k < l.done => ringbuffer[Pos(l.start + k)] = l.data[k + 1]

\* What a client has of the positions from where it started.
Taking(r) == pc[r] \in {"copy", "advance", "signal"}
ReaderInv(r) ==
    LET l == local[r]
    IN /\ pc[r] # "idle" => l.pos = Pos(l.start) /\ l.start <= rwhence
       /\ pc[r] \in {"wait", "check"} => l.done = 0 /\ l.data = <<>>
       /\ Taking(r) =>
             /\ l.start + l.size <= wwhence /\ Len(l.data) = l.done
             /\ l.done <= l.size /\ (pc[r] # "copy" => l.done = l.size)
             /\ begun <= l.start + TTY_SIZE =>
                   \A k \in 1 .. l.done : l.data[k] = log[l.start + k]

Inv ==
    /\ TypeOK /\ RingInv
    /\ \A w \in Writers : WriterInv(w)
    /\ \A r \in Readers : ReaderInv(r)

\* All that clients have read, when one reads at a time.
StreamInv ==
    /\ Len(received) = rwhence
    /\ \A r \in Readers : pc[r] \notin {"idle", "signal"} => local[r].start = rwhence
    /\ ~lapped =>
          /\ begun <= rwhence + TTY_SIZE
          /\ rwhence <= wwhence
          /\ \A k \in 1 .. rwhence : received[k] = log[k]

\* One thread prints; one client reads.
OneWriter == \A v, w \in Writers : v = w
OneReader == \A q, r \in Readers : q = r

LEMMA PosInRing == ASSUME NEW p \in Nat PROVE Pos(p) \in Ring /\ Pos(p) \in Nat
  BY TtySizeAssumption, DivMod DEF Ring, Pos

LEMMA PosDiffer ==
    ASSUME NEW a \in Nat, NEW b \in Nat, b < a, a < b + TTY_SIZE PROVE Pos(a) # Pos(b)
  BY TtySizeAssumption, PlacesDiffer DEF Pos

LEMMA PosAdd ==
    ASSUME NEW a \in Nat, NEW k \in Nat, k < TTY_SIZE
    PROVE  Pos(a + k) = IF Pos(a) + k < TTY_SIZE THEN Pos(a) + k ELSE Pos(a) + k - TTY_SIZE
  BY TtySizeAssumption, ModAdd DEF Pos

LEMMA InitInv == Init => Inv /\ StreamInv
<1> SUFFICES ASSUME Init PROVE Inv /\ StreamInv
  OBVIOUS
<1>0. <<>> \in Seq(Bytes) /\ Len(<<>>) = 0
  OBVIOUS
<1>1. Nothing \in Locals
  BY <1>0 DEF Nothing, Locals
<1>2. TypeOK
  <2>1. Unset \in Bytes
    BY DEF Bytes
  <2> QED BY <1>0, <1>1, <2>1 DEF Init, TypeOK, Ring
<1>3. RingInv
  BY <1>0 DEF Init, RingInv
<1>4. \A w \in Writers : WriterInv(w)
  BY DEF Init, WriterInv, Writing, Threads
<1>5. \A r \in Readers : ReaderInv(r)
  BY DEF Init, ReaderInv, Taking, Threads
<1>6. StreamInv
  BY <1>0, TtySizeAssumption DEF Init, StreamInv, Threads
<1> QED BY <1>2, <1>3, <1>4, <1>5, <1>6 DEF Inv

LEMMA LocalType ==
    ASSUME Inv, NEW t \in Threads
    PROVE  /\ local[t] \in Locals
           /\ local[t].pos \in Nat /\ local[t].size \in Nat /\ local[t].start \in Nat
           /\ local[t].done \in Nat /\ local[t].data \in Seq(Bytes)
<1>1. local[t] \in Locals
  BY DEF Inv, TypeOK
<1> QED BY <1>1 DEF Locals

\* The places of a transfer no longer than the ring, in its one or two parts.
LEMMA PlaceIsPos ==
    ASSUME Inv, NEW t \in Threads, local[t].pos = Pos(local[t].start),
           local[t].size <= TTY_SIZE, NEW k \in Nat, k < local[t].size
    PROVE  Place(t, k) = Pos(local[t].start + k) /\ Place(t, k) \in Ring
<1> DEFINE l == local[t]
<1>1. l.pos \in Nat /\ l.size \in Nat /\ l.start \in Nat
  BY LocalType
<1>2. l.pos \in 0 .. TTY_SIZE - 1 /\ TTY_SIZE \in Nat
  BY <1>1, PosInRing, TtySizeAssumption DEF Ring
<1>3. Pos(l.start + k) = IF l.pos + k < TTY_SIZE THEN l.pos + k ELSE l.pos + k - TTY_SIZE
  <2>1. k < TTY_SIZE
    BY <1>1, <1>2
  <2> QED BY <1>1, <2>1, PosAdd
<1>4. Place(t, k) = IF l.pos + k < TTY_SIZE THEN l.pos + k ELSE l.pos + k - TTY_SIZE
  BY <1>1, <1>2 DEF Place, FirstPart
<1>5. Place(t, k) \in Ring
  BY <1>1, <1>2, <1>4 DEF Ring
<1> QED BY <1>3, <1>4, <1>5

\* A memcpy goes on from what is done, to the end of the transfer at most.
LEMMA CopyToProps ==
    ASSUME Inv, NEW t \in Threads, local[t].pos = Pos(local[t].start),
           local[t].done <= local[t].size
    PROVE  CopyTo(t) \in Nat /\ local[t].done <= CopyTo(t) /\ CopyTo(t) <= local[t].size
<1> DEFINE l == local[t]
<1>1. l.pos \in Nat /\ l.size \in Nat /\ l.start \in Nat /\ l.done \in Nat
  BY LocalType
<1>2. l.pos \in 0 .. TTY_SIZE - 1 /\ TTY_SIZE \in Nat
  BY <1>1, PosInRing, TtySizeAssumption DEF Ring
<1>3. FirstPart(t) \in Nat /\ FirstPart(t) <= l.size
  BY <1>1, <1>2 DEF FirstPart
<1> QED BY <1>1, <1>3 DEF CopyTo

-----------------------------------------------------------------------------
(* What a step leaves alone.                                                  *)

LEMMA ReaderKeeps ==
    ASSUME Inv, NEW r \in Readers, pc'[r] = pc[r], local'[r] = local[r],
           rwhence' \in Nat, wwhence' \in Nat, begun' \in Nat,
           rwhence <= rwhence', wwhence <= wwhence', begun <= begun',
           \A i \in 1 .. wwhence : log'[i] = log[i]
    PROVE  ReaderInv(r)'
<1> DEFINE l == local[r]
<1>1. l.size \in Nat /\ l.start \in Nat /\ l.done \in Nat
  BY LocalType DEF Threads
<1>2. ReaderInv(r) /\ rwhence \in Nat /\ wwhence \in Nat /\ begun \in Nat
  BY DEF Inv, TypeOK
<1>3. pc[r] # "idle" => l.pos = Pos(l.start) /\ l.start <= rwhence'
  BY <1>1, <1>2 DEF ReaderInv
<1>4. pc[r] \in {"wait", "check"} => l.done = 0 /\ l.data = <<>>
  BY <1>2 DEF ReaderInv
<1>5. ASSUME Taking(r)
      PROVE  /\ l.start + l.size <= wwhence' /\ Len(l.data) = l.done
             /\ l.done <= l.size /\ (pc[r] # "copy" => l.done = l.size)
             /\ begun' <= l.start + TTY_SIZE =>
                   \A k \in 1 .. l.done : l.data[k] = log'[l.start + k]
  <2>1. /\ l.start + l.size <= wwhence /\ Len(l.data) = l.done
        /\ l.done <= l.size /\ (pc[r] # "copy" => l.done = l.size)
        /\ begun <= l.start + TTY_SIZE =>
              \A k \in 1 .. l.done : l.data[k] = log[l.start + k]
    BY <1>2, <1>5 DEF ReaderInv
  <2>2. \A k \in 1 .. l.done : log'[l.start + k] = log[l.start + k]
    <3>1. l.start + l.size <= wwhence /\ l.done <= l.size /\ wwhence \in Nat
      BY <1>2, <2>1
    <3> SUFFICES ASSUME NEW k \in 1 .. l.done PROVE l.start + k \in 1 .. wwhence
      OBVIOUS
    <3> QED BY <1>1, <3>1
  <2>3. begun' <= l.start + TTY_SIZE => begun <= l.start + TTY_SIZE
    BY <1>1, <1>2, TtySizeAssumption
  <2>4. l.start + l.size <= wwhence'
    BY <1>1, <1>2, <2>1
  <2> QED BY <2>1, <2>2, <2>3, <2>4
<1> QED BY <1>3, <1>4, <1>5 DEF ReaderInv, Taking

LEMMA WriterKeeps ==
    ASSUME Inv, NEW w \in Writers, pc'[w] = pc[w], local'[w] = local[w],
           UNCHANGED <<wwhence, begun, ringbuffer>>
    PROVE  WriterInv(w)'
  BY DEF Inv, WriterInv, Writing

\* A step of a client that reads.
LEMMA ReaderSteps ==
    ASSUME Inv, NEW r \in Readers, UNCHANGED <<ringbuffer, wwhence, log, begun, lapped>>,
           NEW lab \in {"idle", "wait", "check", "copy", "advance", "signal"}, NEW q \in Locals,
           pc' = [pc EXCEPT ![r] = lab], local' = [local EXCEPT ![r] = q],
           rwhence' \in Nat, rwhence <= rwhence', received' \in Seq(Bytes),
           ReaderInv(r)'
    PROVE  Inv'
<1>1. r \in Threads
  BY DEF Threads
<1>2. TypeOK'
  BY <1>1 DEF Inv, TypeOK
<1>3. RingInv'
  BY DEF Inv, RingInv
<1>4. \A t \in Threads \ {r} : pc'[t] = pc[t] /\ local'[t] = local[t]
  BY <1>1 DEF Inv, TypeOK
<1>5. ASSUME NEW w \in Writers PROVE WriterInv(w)'
  <2>1. w \in Threads \ {r}
    BY ThreadsAssumption DEF Threads
  <2> QED BY <1>4, <2>1, WriterKeeps
<1>6. ASSUME NEW s \in Readers, s # r PROVE ReaderInv(s)'
  <2>1. s \in Threads \ {r}
    BY <1>6 DEF Threads
  <2>2. wwhence \in Nat /\ begun \in Nat
    BY DEF Inv, TypeOK
  <2> QED BY <1>4, <2>1, <2>2, ReaderKeeps
<1> QED BY <1>2, <1>3, <1>5, <1>6 DEF Inv

-----------------------------------------------------------------------------
(* Reading.                                                                   *)

LEMMA StartReadInv ==
    ASSUME Inv, NEW r \in Readers, NEW count \in Nat, StartRead(r, count) PROVE Inv'
<1> DEFINE q == [Nothing EXCEPT !.pos = Pos(rwhence), !.size = count, !.start = rwhence]
<1>1. /\ local' = [local EXCEPT ![r] = q] /\ pc' = [pc EXCEPT ![r] = "wait"]
      /\ UNCHANGED <<ringbuffer, rwhence, wwhence, log, begun, lapped, received>>
  BY DEF StartRead, Goto, history
<1>2. r \in Threads /\ rwhence \in Nat /\ received \in Seq(Bytes)
  BY DEF Threads, Inv, TypeOK
<1>3. <<>> \in Seq(Bytes)
  OBVIOUS
<1>4. Pos(rwhence) \in Nat
  BY <1>2, PosInRing
<1>5. q \in Locals /\ q.pos = Pos(rwhence) /\ q.start = rwhence /\ q.done = 0 /\ q.data = <<>>
  BY <1>2, <1>3, <1>4 DEF Nothing, Locals
<1> HIDE DEF q
<1>6. pc'[r] = "wait" /\ local'[r] = q
  BY <1>1, <1>2 DEF Inv, TypeOK
<1>7. ReaderInv(r)'
  BY <1>1, <1>2, <1>5, <1>6 DEF ReaderInv, Taking
<1>8. rwhence' \in Nat /\ rwhence <= rwhence' /\ received' \in Seq(Bytes)
  BY <1>1, <1>2
<1> QED BY <1>1, <1>5, <1>7, <1>8, ReaderSteps

\* A client goes on with what it has.
LEMMA ReaderGoesOn ==
    ASSUME Inv, NEW r \in Readers, UNCHANGED <<ringbuffer, wwhence, log, begun, lapped, local>>,
           NEW lab \in {"idle", "wait", "check", "copy", "advance", "signal"},
           pc' = [pc EXCEPT ![r] = lab],
           rwhence' \in Nat, rwhence <= rwhence', received' \in Seq(Bytes),
           ReaderInv(r)'
    PROVE  Inv'
<1>1. r \in Threads /\ local[r] \in Locals
  BY DEF Threads, Inv, TypeOK
<1>2. local' = [local EXCEPT ![r] = local[r]]
  BY DEF Inv, TypeOK
<1> QED BY <1>1, <1>2, ReaderSteps

LEMMA WaitInv == ASSUME Inv, NEW r \in Readers, WaitEventFlag(r) \/ Check(r) PROVE Inv'
<1>1. /\ pc[r] \in {"wait", "check"}
      /\ UNCHANGED <<ringbuffer, rwhence, wwhence, log, begun, lapped, received, local>>
  BY DEF WaitEventFlag, Check, At, history
<1>2. PICK lab \in {"wait", "check", "copy"} :
         /\ pc' = [pc EXCEPT ![r] = lab]
         /\ lab = "copy" => Enough(r)
  BY DEF WaitEventFlag, Check, Goto
<1>3. r \in Threads /\ rwhence \in Nat /\ wwhence \in Nat /\ received \in Seq(Bytes) /\ ReaderInv(r)
  BY DEF Threads, Inv, TypeOK
<1>4. pc'[r] = lab
  BY <1>2, <1>3 DEF Inv, TypeOK
<1> DEFINE l == local[r]
<1>5. l.start \in Nat /\ l.size \in Nat
  BY <1>3, LocalType
<1>6. /\ l.pos = Pos(l.start) /\ l.start <= rwhence
      /\ l.done = 0 /\ l.data = <<>>
  BY <1>1, <1>3 DEF ReaderInv
<1>7. lab = "copy" => l.start + l.size <= wwhence
  BY <1>2, <1>3, <1>5, <1>6 DEF Enough
<1>8. ReaderInv(r)'
  <2>1. Len(l.data) = 0
    BY <1>6
  <2> QED BY <1>1, <1>2, <1>4, <1>5, <1>6, <1>7, <2>1 DEF ReaderInv, Taking
<1>9. rwhence' \in Nat /\ rwhence <= rwhence' /\ received' \in Seq(Bytes)
  BY <1>1, <1>3
<1> QED BY <1>1, <1>2, <1>8, <1>9, ReaderGoesOn

\* The bytes that a memcpy takes are those of the stream, unless printing has come round.
LEMMA CopyOutInv == ASSUME Inv, NEW r \in Readers, CopyOut(r) PROVE Inv'
<1> DEFINE l == local[r]
           to == CopyTo(r)
           byte(p) == IF p \in DOMAIN ringbuffer THEN ringbuffer[p] ELSE Beyond
           taken == [i \in 1 .. to - l.done |-> byte(Place(r, l.done + i - 1))]
           q == [l EXCEPT !.done = to, !.data = l.data \o taken]
<1>1. /\ pc[r] = "copy" /\ local' = [local EXCEPT ![r] = q]
      /\ IF to = l.size THEN pc' = [pc EXCEPT ![r] = "advance"] ELSE UNCHANGED pc
      /\ UNCHANGED <<ringbuffer, rwhence, wwhence, log, begun, lapped, received>>
  BY DEF CopyOut, At, Goto, history
<1>2. r \in Threads /\ rwhence \in Nat /\ wwhence \in Nat /\ begun \in Nat /\ received \in Seq(Bytes)
  BY DEF Threads, Inv, TypeOK
<1>3. /\ l \in Locals /\ l.size \in Nat /\ l.start \in Nat /\ l.done \in Nat
      /\ l.data \in Seq(Bytes)
  BY <1>2, LocalType
<1>4. /\ l.pos = Pos(l.start) /\ l.start <= rwhence
      /\ l.start + l.size <= wwhence /\ Len(l.data) = l.done /\ l.done <= l.size
      /\ begun <= l.start + TTY_SIZE => \A k \in 1 .. l.done : l.data[k] = log[l.start + k]
  BY <1>1 DEF Inv, ReaderInv, Taking
<1>5. to \in Nat /\ l.done <= to /\ to <= l.size
  BY <1>2, <1>4, CopyToProps
<1> HIDE DEF to
<1>6. taken \in Seq(Bytes) /\ Len(taken) = to - l.done
      /\ \A i \in 1 .. to - l.done : taken[i] = byte(Place(r, l.done + i - 1))
  <2>1. \A p : byte(p) \in Bytes
    BY DEF Inv, TypeOK, Bytes
  <2>2. to - l.done \in Nat
    BY <1>3, <1>5
  <2> HIDE DEF byte
  <2> QED BY <2>1, <2>2
<1> HIDE DEF taken
<1>7. /\ l.data \o taken \in Seq(Bytes)
      /\ Len(l.data \o taken) = to
      /\ \A k \in 1 .. to : (l.data \o taken)[k] =
            IF k <= l.done THEN l.data[k] ELSE taken[k - l.done]
  <2>1. /\ l.data \o taken \in Seq(Bytes)
        /\ Len(l.data \o taken) = Len(l.data) + Len(taken)
        /\ \A k \in 1 .. Len(l.data) + Len(taken) : (l.data \o taken)[k] =
              IF k <= Len(l.data) THEN l.data[k] ELSE taken[k - Len(l.data)]
    BY <1>3, <1>6, ConcatProperties
  <2>2. Len(l.data) = l.done /\ Len(l.data) + Len(taken) = to
    BY <1>3, <1>4, <1>5, <1>6
  <2> QED BY <2>1, <2>2
<1>8. /\ q \in Locals /\ q.pos = l.pos /\ q.start = l.start /\ q.size = l.size
      /\ q.done = to /\ q.data = l.data \o taken
  BY <1>3, <1>5, <1>7 DEF Locals
<1>9. begun <= l.start + TTY_SIZE => \A k \in 1 .. to : (l.data \o taken)[k] = log[l.start + k]
  <2> SUFFICES ASSUME begun <= l.start + TTY_SIZE, NEW k \in 1 .. to
               PROVE  (l.data \o taken)[k] = log[l.start + k]
    OBVIOUS
  <2>1. CASE k <= l.done
    BY <1>3, <1>4, <1>7, <2>1
  <2>2. CASE ~(k <= l.done)
    <3> DEFINE j == k - 1
    <3>1. /\ k - l.done \in 1 .. to - l.done
          /\ l.done + (k - l.done) - 1 = j
          /\ j \in Nat /\ j < l.size
      BY <1>3, <1>5, <2>2
    <3>2. wwhence <= begun /\ RingInv
      BY DEF Inv, RingInv
    <3>3. l.size <= TTY_SIZE
      BY <1>2, <1>3, <1>4, <3>2, TtySizeAssumption
    <3>4. Place(r, j) = Pos(l.start + j) /\ Place(r, j) \in Ring
      BY <1>2, <1>4, <3>1, <3>3, PlaceIsPos
    <3>5. taken[k - l.done] = byte(Place(r, j))
      BY <1>6, <3>1
    <3>6. byte(Place(r, j)) = ringbuffer[Pos(l.start + j)]
      BY <3>4 DEF Inv, TypeOK
    <3>7. /\ l.start + j \in Nat /\ l.start + j < wwhence
          /\ begun <= (l.start + j) + TTY_SIZE /\ (l.start + j) + 1 = l.start + k
      <4>1. l.start + l.size <= wwhence
        BY <1>4
      <4>2. l.start \in Nat /\ l.size \in Nat /\ TTY_SIZE \in Nat /\ k \in Int
        BY <1>3, <1>5, TtySizeAssumption
      <4>3. begun \in Nat /\ wwhence \in Nat
        BY <1>2
      <4> QED BY <3>1, <4>1, <4>2, <4>3
    <3>8. ringbuffer[Pos(l.start + j)] = log[(l.start + j) + 1]
      BY <3>2, <3>7 DEF RingInv
    <3> QED BY <1>7, <2>2, <3>5, <3>6, <3>7, <3>8
  <2> QED BY <2>1, <2>2
<1> HIDE DEF q
<1>10. local'[r] = q
  BY <1>1, <1>2 DEF Inv, TypeOK
<1>11. PICK lab \in {"copy", "advance"} :
          pc' = [pc EXCEPT ![r] = lab] /\ (lab = "advance" => to = l.size)
  BY <1>1 DEF Inv, TypeOK
<1>12. pc'[r] = lab
  BY <1>2, <1>11 DEF Inv, TypeOK
<1>13. ReaderInv(r)'
  BY <1>1, <1>4, <1>5, <1>7, <1>8, <1>9, <1>10, <1>11, <1>12 DEF ReaderInv, Taking
<1>14. rwhence' \in Nat /\ rwhence <= rwhence' /\ received' \in Seq(Bytes)
  BY <1>1, <1>2
<1> QED BY <1>1, <1>8, <1>11, <1>13, <1>14, ReaderSteps

LEMMA EndCopyInv == ASSUME Inv, NEW r \in Readers, EndCopy(r) PROVE Inv'
<1> DEFINE l == local[r]
<1>1. /\ pc[r] = "advance" /\ pc' = [pc EXCEPT ![r] = "signal"]
      /\ rwhence' = rwhence + l.size /\ received' = received \o l.data
      /\ UNCHANGED <<ringbuffer, wwhence, local, log, begun, lapped>>
  BY DEF EndCopy, At, Goto, AdvanceRead
<1>2. r \in Threads /\ rwhence \in Nat /\ received \in Seq(Bytes) /\ ReaderInv(r)
  BY DEF Threads, Inv, TypeOK
<1>3. l.size \in Nat /\ l.start \in Nat /\ l.data \in Seq(Bytes)
  BY <1>2, LocalType
<1>4. rwhence' \in Nat /\ rwhence <= rwhence' /\ received' \in Seq(Bytes)
  BY <1>1, <1>2, <1>3
<1>5. pc'[r] = "signal"
  BY <1>1, <1>2 DEF Inv, TypeOK
<1>6. ReaderInv(r)'
  BY <1>1, <1>2, <1>3, <1>4, <1>5 DEF ReaderInv, Taking
<1> QED BY <1>1, <1>4, <1>6, ReaderGoesOn

LEMMA EndReadInv == ASSUME Inv, NEW r \in Readers, EndRead(r) PROVE Inv'
<1>1. /\ pc' = [pc EXCEPT ![r] = "idle"]
      /\ UNCHANGED <<ringbuffer, rwhence, wwhence, local, log, begun, lapped, received>>
  BY DEF EndRead, Goto, history
<1>2. r \in Threads /\ rwhence \in Nat /\ received \in Seq(Bytes)
  BY DEF Threads, Inv, TypeOK
<1>3. pc'[r] = "idle"
  BY <1>1, <1>2 DEF Inv, TypeOK
<1>4. ReaderInv(r)'
  BY <1>3 DEF ReaderInv, Taking
<1>5. rwhence' \in Nat /\ rwhence <= rwhence' /\ received' \in Seq(Bytes)
  BY <1>1, <1>2
<1> QED BY <1>1, <1>4, <1>5, ReaderGoesOn

-----------------------------------------------------------------------------
(* Printing.                                                                  *)

\* A step of the thread that prints.
LEMMA WriterSteps ==
    ASSUME Inv, OneWriter, NEW w \in Writers, UNCHANGED <<rwhence, received>>,
           NEW lab \in {"idle", "copy", "advance", "signal"}, NEW q \in Locals,
           pc' = [pc EXCEPT ![w] = lab], local' = [local EXCEPT ![w] = q],
           ringbuffer' \in [Ring -> Bytes], log' \in Seq(Bytes), lapped' \in BOOLEAN,
           wwhence' \in Nat, begun' \in Nat, wwhence <= wwhence', begun <= begun',
           \A i \in 1 .. wwhence : log'[i] = log[i],
           RingInv', WriterInv(w)'
    PROVE  Inv'
<1>1. w \in Threads
  BY DEF Threads
<1>2. TypeOK'
  BY <1>1 DEF Inv, TypeOK
<1>3. \A t \in Threads \ {w} : pc'[t] = pc[t] /\ local'[t] = local[t]
  BY <1>1 DEF Inv, TypeOK
<1>4. \A v \in Writers : WriterInv(v)'
  BY DEF OneWriter
<1>5. ASSUME NEW r \in Readers PROVE ReaderInv(r)'
  <2>1. r \in Threads \ {w}
    BY ThreadsAssumption DEF Threads
  <2>2. rwhence' \in Nat /\ rwhence <= rwhence'
    BY DEF Inv, TypeOK
  <2> QED BY <1>3, <2>1, <2>2, ReaderKeeps
<1> QED BY <1>2, <1>4, <1>5 DEF Inv

LEMMA StartWriteInv ==
    ASSUME Inv, OneWriter, NEW w \in Writers, NEW size \in 1 .. TTY_SIZE, StartWrite(w, size)
    PROVE  Inv'
<1> DEFINE data == [k \in 1 .. size |-> Byte(w, wwhence + k - 1)]
           q == [Nothing EXCEPT !.pos = Pos(wwhence), !.size = size, !.start = wwhence,
                                !.data = data]
<1>1. /\ pc[w] = "idle" /\ local' = [local EXCEPT ![w] = q] /\ pc' = [pc EXCEPT ![w] = "copy"]
      /\ begun' = begun + size /\ lapped' = (lapped \/ begun' > rwhence + TTY_SIZE)
      /\ UNCHANGED <<ringbuffer, rwhence, wwhence, log, received>>
  BY DEF StartWrite, At, Goto
<1>2. w \in Threads /\ wwhence \in Nat /\ begun \in Nat /\ size \in Nat /\ TTY_SIZE \in Nat
      /\ size <= TTY_SIZE
  BY TtySizeAssumption DEF Threads, Inv, TypeOK
<1>3. data \in Seq(Bytes) /\ Len(data) = size
  <2>1. \A k \in 1 .. size : Byte(w, wwhence + k - 1) \in Bytes
    <3>1. \A k \in 1 .. size : wwhence + k - 1 \in Nat
      BY <1>2
    <3> QED BY <3>1 DEF Bytes
  <2> QED BY <1>2, <2>1
<1> HIDE DEF data
<1>4. Pos(wwhence) \in Nat
  BY <1>2, PosInRing
<1>5. /\ q \in Locals /\ q.pos = Pos(wwhence) /\ q.start = wwhence /\ q.size = size
      /\ q.done = 0 /\ q.data = data
  BY <1>2, <1>3, <1>4 DEF Nothing, Locals
<1> HIDE DEF q
<1>6. pc'[w] = "copy" /\ local'[w] = q
  BY <1>1, <1>2 DEF Inv, TypeOK
<1>7. begun = wwhence
  BY <1>1 DEF Inv, WriterInv, Writing
<1>8. begun' \in Nat /\ begun <= begun' /\ wwhence' \in Nat /\ wwhence <= wwhence'
  BY <1>1, <1>2
<1>9. RingInv'
  <2>1. RingInv
    BY DEF Inv
  <2>2. \A p \in Nat : begun' <= p + TTY_SIZE => begun <= p + TTY_SIZE
    BY <1>2, <1>8
  <2>3. wwhence' <= begun'
    BY <1>1, <1>2, <1>7
  <2> QED BY <1>1, <2>1, <2>2, <2>3 DEF RingInv
<1>10. WriterInv(w)'
  <2>1. \A k \in Nat : ~(k < q.done)
    BY <1>5
  <2> QED BY <1>1, <1>2, <1>3, <1>5, <1>6, <1>7, <2>1 DEF WriterInv, Writing
<1>11. lapped' \in BOOLEAN
  BY <1>1
<1>12. ringbuffer' \in [Ring -> Bytes] /\ log' \in Seq(Bytes) /\ \A i \in 1 .. wwhence : log'[i] = log[i]
  BY <1>1 DEF Inv, TypeOK
<1> QED BY <1>1, <1>5, <1>8, <1>9, <1>10, <1>11, <1>12, WriterSteps

\* The places a memcpy writes to are those of its own positions, none of which is that
\* of a byte that may still be read.
LEMMA CopyInInv == ASSUME Inv, OneWriter, NEW w \in Writers, CopyIn(w) PROVE Inv'
<1> DEFINE l == local[w]
           to == CopyTo(w)
           written == l.done .. to - 1
           q == [l EXCEPT !.done = to]
<1>1. /\ pc[w] = "copy" /\ local' = [local EXCEPT ![w] = q]
      /\ IF to = l.size THEN pc' = [pc EXCEPT ![w] = "advance"] ELSE UNCHANGED pc
      /\ UNCHANGED <<rwhence, wwhence, log, begun, lapped, received>>
      /\ ringbuffer' = [p \in DOMAIN ringbuffer |->
            IF \E k \in written : Place(w, k) = p
            THEN l.data[1 + CHOOSE k \in written : Place(w, k) = p]
            ELSE ringbuffer[p]]
  BY DEF CopyIn, At, Goto, history
<1>2. w \in Threads /\ rwhence \in Nat /\ wwhence \in Nat /\ begun \in Nat /\ TTY_SIZE \in Nat
      /\ ringbuffer \in [Ring -> Bytes] /\ log \in Seq(Bytes) /\ lapped \in BOOLEAN
  BY TtySizeAssumption DEF Threads, Inv, TypeOK
<1>3. /\ l \in Locals /\ l.size \in Nat /\ l.start \in Nat /\ l.done \in Nat
      /\ l.data \in Seq(Bytes)
  BY <1>2, LocalType
<1>4. /\ l.start = wwhence /\ begun = wwhence + l.size /\ l.pos = Pos(l.start)
      /\ l.size <= TTY_SIZE /\ Len(l.data) = l.size /\ l.done <= l.size
      /\ \A k \in Nat : k < l.done => ringbuffer[Pos(l.start + k)] = l.data[k + 1]
  BY <1>1 DEF Inv, WriterInv, Writing
<1>5. to \in Nat /\ l.done <= to /\ to <= l.size
  BY <1>2, <1>4, CopyToProps
<1> HIDE DEF to
<1>6. \A k \in Nat : k < l.size => Place(w, k) = Pos(l.start + k) /\ Place(w, k) \in Ring
  BY <1>2, <1>4, PlaceIsPos
<1>7. \A k \in written : k \in Nat /\ k < l.size /\ k < to /\ l.done <= k
  BY <1>3, <1>5
<1>8. \A j, k \in Nat : j < k /\ k < l.size => Pos(l.start + j) # Pos(l.start + k)
  <2> SUFFICES ASSUME NEW j \in Nat, NEW k \in Nat, j < k, k < l.size
               PROVE  Pos(l.start + j) # Pos(l.start + k)
    OBVIOUS
  <2>1. l.size <= TTY_SIZE /\ l.size \in Nat /\ l.start \in Nat /\ TTY_SIZE \in Nat
    BY <1>2, <1>3, <1>4
  <2> HIDE DEF l
  <2>2. k < j + TTY_SIZE
    BY <2>1
  <2>3. /\ l.start + j \in Nat /\ l.start + k \in Nat /\ l.start + j < l.start + k
        /\ l.start + k < (l.start + j) + TTY_SIZE
    BY <2>1, <2>2
  <2> QED BY <2>3, PosDiffer
<1>9. ASSUME NEW k \in written PROVE ringbuffer'[Pos(l.start + k)] = l.data[k + 1]
  <2> DEFINE p == Pos(l.start + k)
             c == CHOOSE i \in written : Place(w, i) = p
  <2>1. Place(w, k) = p /\ p \in Ring
    BY <1>6, <1>7
  <2>2. c \in written /\ Place(w, c) = p
    BY <2>1
  <2>3. Pos(l.start + c) = Pos(l.start + k)
    BY <1>6, <1>7, <2>2
  <2>4. c = k
    BY <1>7, <1>8, <2>2, <2>3
  <2>5. ringbuffer'[p] = l.data[1 + c]
    BY <1>1, <1>2, <2>1
  <2>6. 1 + k = k + 1
    BY <1>7
  <2> HIDE DEF p, c
  <2> QED BY <2>4, <2>5, <2>6 DEF p
<1>10. ASSUME NEW p \in Ring, \A k \in written : Pos(l.start + k) # p
       PROVE  ringbuffer'[p] = ringbuffer[p]
  <2>1. ~ \E k \in written : Place(w, k) = p
    BY <1>6, <1>7, <1>10
  <2> QED BY <1>1, <1>2, <2>1
<1>11. ringbuffer' \in [Ring -> Bytes]
  <2> SUFFICES ASSUME NEW p \in Ring PROVE ringbuffer'[p] \in Bytes
    BY <1>1, <1>2
  <2>1. CASE \E k \in written : Pos(l.start + k) = p
    <3>1. PICK k \in written : Pos(l.start + k) = p
      BY <2>1
    <3>2. k + 1 \in 1 .. Len(l.data)
      BY <1>3, <1>4, <1>7
    <3>3. l.data[k + 1] \in Bytes
      BY <1>3, <3>2
    <3> QED BY <1>9, <3>1, <3>3
  <2>2. CASE ~ \E k \in written : Pos(l.start + k) = p
    BY <1>2, <1>10, <2>2
  <2> QED BY <2>1, <2>2
<1>12. RingInv'
  <2>1. RingInv
    BY DEF Inv
  <2>2. ASSUME NEW p \in Nat, p < wwhence, begun <= p + TTY_SIZE
        PROVE  ringbuffer'[Pos(p)] = log[p + 1]
    <3>1. ASSUME NEW k \in written PROVE Pos(l.start + k) # Pos(p)
      <4>1. k \in Nat /\ k < l.size
        BY <1>7
      <4>2. l.start + k \in Nat /\ p < l.start + k /\ l.start + k < p + TTY_SIZE
        <5>1. l.start = wwhence /\ begun = wwhence + l.size
          BY <1>4
        <5> QED BY <1>2, <1>3, <2>2, <4>1, <5>1
      <4> QED BY <4>2, PosDiffer
    <3>2. ringbuffer'[Pos(p)] = ringbuffer[Pos(p)]
      BY <1>10, <3>1, PosInRing
    <3> QED BY <2>1, <2>2, <3>2 DEF RingInv
  <2> QED BY <1>1, <2>1, <2>2 DEF RingInv
<1>13. q \in Locals /\ q.pos = l.pos /\ q.start = l.start /\ q.size = l.size
       /\ q.done = to /\ q.data = l.data
  BY <1>3, <1>5 DEF Locals
<1> HIDE DEF q
<1>14. \A k \in Nat : k < to => ringbuffer'[Pos(l.start + k)] = l.data[k + 1]
  <2> SUFFICES ASSUME NEW k \in Nat, k < to
               PROVE  ringbuffer'[Pos(l.start + k)] = l.data[k + 1]
    OBVIOUS
  <2>1. CASE k < l.done
    <3>1. ASSUME NEW j \in written PROVE Pos(l.start + j) # Pos(l.start + k)
      <4>1. j \in Nat /\ k < j /\ j < l.size
        BY <1>3, <1>7, <2>1
      <4> QED BY <1>8, <4>1
    <3>2. Pos(l.start + k) \in Ring
      <4>1. l.start + k \in Nat
        BY <1>3
      <4> QED BY <4>1, PosInRing
    <3>3. ringbuffer'[Pos(l.start + k)] = ringbuffer[Pos(l.start + k)]
      BY <1>10, <3>1, <3>2
    <3> QED BY <1>4, <2>1, <3>3
  <2>2. CASE ~(k < l.done)
    <3>1. k \in written
      BY <1>3, <1>5, <2>2
    <3> QED BY <1>9, <3>1
  <2> QED BY <2>1, <2>2
<1>15. PICK lab \in {"copy", "advance"} :
          pc' = [pc EXCEPT ![w] = lab] /\ (lab = "advance" => to = l.size)
  BY <1>1 DEF Inv, TypeOK
<1>16. pc'[w] = lab /\ local'[w] = q
  BY <1>1, <1>2, <1>15 DEF Inv, TypeOK
<1>17. WriterInv(w)'
  <2>1. \A k \in Nat : k < q.done => ringbuffer'[Pos(q.start + k)] = q.data[k + 1]
    BY <1>13, <1>14
  <2>2. /\ q.start = wwhence' /\ begun' = wwhence' + q.size /\ q.pos = Pos(q.start)
        /\ q.size <= TTY_SIZE /\ Len(q.data) = q.size /\ q.done <= q.size
        /\ (lab = "advance" => q.done = q.size)
    <3>1. /\ l.start = wwhence /\ begun = wwhence + l.size /\ l.pos = Pos(l.start)
          /\ l.size <= TTY_SIZE /\ Len(l.data) = l.size
      BY <1>4
    <3> QED BY <1>1, <1>5, <1>13, <1>15, <3>1
  <2> HIDE DEF l
  <2> QED BY <1>15, <1>16, <2>1, <2>2 DEF WriterInv, Writing
<1>18. /\ wwhence' \in Nat /\ begun' \in Nat /\ wwhence <= wwhence' /\ begun <= begun'
       /\ log' \in Seq(Bytes) /\ lapped' \in BOOLEAN /\ \A i \in 1 .. wwhence : log'[i] = log[i]
  BY <1>1, <1>2
<1> QED BY <1>1, <1>11, <1>12, <1>13, <1>15, <1>17, <1>18, WriterSteps

\* With the position, what was copied becomes part of the stream.
LEMMA AdvanceWriteInv == ASSUME Inv, OneWriter, NEW w \in Writers, AdvanceWrite(w) PROVE Inv'
<1> DEFINE l == local[w]
<1>1. /\ pc[w] = "advance" /\ pc' = [pc EXCEPT ![w] = "signal"]
      /\ wwhence' = wwhence + l.size /\ log' = log \o l.data
      /\ UNCHANGED <<ringbuffer, rwhence, local, begun, received, lapped>>
  BY DEF AdvanceWrite, At, Goto
<1>2. w \in Threads /\ rwhence \in Nat /\ wwhence \in Nat /\ begun \in Nat /\ TTY_SIZE \in Nat
      /\ ringbuffer \in [Ring -> Bytes] /\ log \in Seq(Bytes) /\ lapped \in BOOLEAN
  BY TtySizeAssumption DEF Threads, Inv, TypeOK
<1>3. l \in Locals /\ l.size \in Nat /\ l.start \in Nat /\ l.data \in Seq(Bytes)
  BY <1>2, LocalType
<1>4. /\ l.start = wwhence /\ begun = wwhence + l.size /\ Len(l.data) = l.size
      /\ \A k \in Nat : k < l.size => ringbuffer[Pos(l.start + k)] = l.data[k + 1]
  BY <1>1 DEF Inv, WriterInv, Writing
<1>5. RingInv /\ Len(log) = wwhence
  BY DEF Inv, RingInv
<1>6. /\ log' \in Seq(Bytes) /\ Len(log') = wwhence + l.size
      /\ \A i \in 1 .. wwhence + l.size :
            log'[i] = IF i <= wwhence THEN log[i] ELSE l.data[i - wwhence]
  <2>1. Len(l.data) = l.size
    BY <1>4
  <2>2. /\ log' \in Seq(Bytes) /\ Len(log') = Len(log) + Len(l.data)
        /\ \A i \in 1 .. Len(log) + Len(l.data) :
              log'[i] = IF i <= Len(log) THEN log[i] ELSE l.data[i - Len(log)]
    BY <1>1, <1>2, <1>3, ConcatProperties
  <2> HIDE DEF l
  <2> QED BY <1>5, <2>1, <2>2
<1>7. pc'[w] = "signal" /\ local' = [local EXCEPT ![w] = l]
  BY <1>1, <1>2 DEF Inv, TypeOK
<1>8. /\ wwhence' \in Nat /\ begun' \in Nat /\ wwhence <= wwhence' /\ begun <= begun'
      /\ wwhence' = begun'
  BY <1>1, <1>2, <1>3, <1>4
<1>9. ASSUME NEW i \in 1 .. wwhence PROVE log'[i] = log[i]
  <2>1. i \in 1 .. wwhence + l.size /\ i <= wwhence
    BY <1>2, <1>3
  <2> QED BY <1>6, <2>1
<1>10. RingInv'
  <2>1. ASSUME NEW p \in Nat, p < wwhence + l.size, begun <= p + TTY_SIZE
        PROVE  ringbuffer[Pos(p)] = log'[p + 1]
    <3>a. l.size \in Nat /\ wwhence \in Nat
      BY <1>2, <1>3
    <3>0. p + 1 \in 1 .. wwhence + l.size
      BY <2>1, <3>a
    <3>1. CASE p < wwhence
      <4>0. p + 1 <= wwhence
        BY <3>a, <3>1
      <4>1. log'[p + 1] = log[p + 1]
        BY <1>6, <3>0, <4>0
      <4> QED BY <1>5, <2>1, <3>1, <4>1 DEF RingInv
    <3>2. CASE ~(p < wwhence)
      <4> DEFINE k == p - wwhence
      <4>1. k \in Nat /\ k < l.size /\ wwhence + k = p /\ (p + 1) - wwhence = k + 1 /\ ~(p + 1 <= wwhence)
        BY <2>1, <3>a, <3>2
      <4> HIDE DEF k
      <4>2. log'[p + 1] = l.data[k + 1]
        <5>1. /\ \A i \in 1 .. wwhence + l.size :
                    ~(i <= wwhence) => log'[i] = l.data[i - wwhence]
              /\ ~(p + 1 <= wwhence)
          BY <1>6, <4>1
        <5>2. log'[p + 1] = l.data[(p + 1) - wwhence]
          BY <3>0, <5>1
        <5>3. (p + 1) - wwhence = k + 1
          BY <4>1
        <5> QED BY <5>2, <5>3
      <4>3. ringbuffer[Pos(wwhence + k)] = l.data[k + 1]
        <5>1. ringbuffer[Pos(l.start + k)] = l.data[k + 1] /\ l.start = wwhence
          BY <1>4, <4>1
        <5> QED BY <5>1
      <4> QED BY <4>1, <4>2, <4>3
    <3> QED BY <3>1, <3>2
  <2> QED BY <1>1, <1>2, <1>6, <1>8, <2>1 DEF RingInv
<1>11. WriterInv(w)'
  BY <1>7, <1>8 DEF WriterInv, Writing
<1>12. \A i \in 1 .. wwhence : log'[i] = log[i]
  BY <1>9
<1> QED BY <1>1, <1>2, <1>3, <1>6, <1>7, <1>8, <1>10, <1>11, <1>12, WriterSteps

LEMMA EndWriteInv == ASSUME Inv, OneWriter, NEW w \in Writers, EndWrite(w) PROVE Inv'
<1>1. /\ pc[w] = "signal" /\ pc' = [pc EXCEPT ![w] = "idle"]
      /\ UNCHANGED <<ringbuffer, rwhence, wwhence, local, log, begun, lapped, received>>
  BY DEF EndWrite, At, Goto, history
<1>2. /\ w \in Threads /\ wwhence \in Nat /\ begun \in Nat /\ local[w] \in Locals
      /\ ringbuffer \in [Ring -> Bytes] /\ log \in Seq(Bytes) /\ lapped \in BOOLEAN
  BY DEF Threads, Inv, TypeOK
<1>3. pc'[w] = "idle" /\ local' = [local EXCEPT ![w] = local[w]]
  BY <1>1, <1>2 DEF Inv, TypeOK
<1>4. WriterInv(w)'
  BY <1>1, <1>3 DEF Inv, WriterInv, Writing
<1>5. RingInv'
  BY <1>1 DEF Inv, RingInv
<1>6. /\ wwhence' \in Nat /\ begun' \in Nat /\ wwhence <= wwhence' /\ begun <= begun'
      /\ log' \in Seq(Bytes) /\ lapped' \in BOOLEAN /\ ringbuffer' \in [Ring -> Bytes]
      /\ \A i \in 1 .. wwhence : log'[i] = log[i]
  BY <1>1, <1>2
<1> QED BY <1>1, <1>2, <1>3, <1>4, <1>5, <1>6, WriterSteps

-----------------------------------------------------------------------------

LEMMA StepInv == ASSUME OneWriter PROVE Inv /\ [Next]_vars => Inv'
<1> SUFFICES ASSUME Inv, [Next]_vars PROVE Inv'
  OBVIOUS
<1>1. CASE UNCHANGED <<ringbuffer, rwhence, wwhence, pc, local, history>>
  BY <1>1 DEF history, Inv, TypeOK, RingInv, WriterInv, Writing, ReaderInv, Taking
<1>2. CASE nbdtty_ctor
  BY <1>1, <1>2 DEF nbdtty_ctor
<1>3. ASSUME NEW r \in Readers, NEW count \in Counts, StartRead(r, count) PROVE Inv'
  BY <1>3, StartReadInv, CountsAssumption
<1>4. CASE UNCHANGED vars
  BY <1>1, <1>4 DEF vars
<1>5. CASE Quiet
  BY <1>4, <1>5 DEF Quiet
<1> QED BY <1>2, <1>3, <1>4, <1>5, WaitInv, CopyOutInv, EndCopyInv, EndReadInv, StartWriteInv,
           CopyInInv, AdvanceWriteInv, EndWriteInv DEF Next, StepWrite, StepRead


-----------------------------------------------------------------------------
(* The stream as a whole.                                                     *)

\* A step that is not of a client keeps what was received, as long as it does not lap it.
LEMMA StreamKeeps ==
    ASSUME Inv, StreamInv, UNCHANGED <<rwhence, received>>,
           \A r \in Readers : pc'[r] = pc[r] /\ local'[r] = local[r],
           wwhence' \in Nat, wwhence <= wwhence',
           \A i \in 1 .. wwhence : log'[i] = log[i],
           ~lapped' => ~lapped /\ begun' <= rwhence + TTY_SIZE
    PROVE  StreamInv'
<1>1. rwhence \in Nat /\ wwhence \in Nat
  BY DEF Inv, TypeOK
<1>2. Len(received') = rwhence'
  BY DEF StreamInv
<1>3. \A r \in Readers : pc'[r] \notin {"idle", "signal"} => local'[r].start = rwhence'
  BY DEF StreamInv
<1>4. ASSUME ~lapped'
      PROVE  /\ begun' <= rwhence' + TTY_SIZE /\ rwhence' <= wwhence'
             /\ \A k \in 1 .. rwhence' : received'[k] = log'[k]
  <2>1. rwhence <= wwhence
    BY <1>4 DEF StreamInv
  <2>2. \A k \in 1 .. rwhence : k \in 1 .. wwhence
    BY <1>1, <2>1
  <2>3. \A k \in 1 .. rwhence : received[k] = log[k]
    BY <1>4 DEF StreamInv
  <2>4. \A k \in 1 .. rwhence' : received'[k] = log'[k]
    BY <2>2, <2>3
  <2>5. rwhence' <= wwhence'
    BY <1>1, <2>1
  <2> QED BY <1>4, <2>4, <2>5
<1> QED BY <1>2, <1>3, <1>4 DEF StreamInv

\* The client reads on from rwhence, which its own transfers move only when they end.
LEMMA StreamReads ==
    ASSUME StreamInv, OneReader, NEW r \in Readers,
           UNCHANGED <<rwhence, wwhence, log, begun, received, lapped>>,
           pc'[r] \notin {"idle", "signal"} => local'[r].start = rwhence
    PROVE  StreamInv'
<1>1. \A q \in Readers : q = r
  BY DEF OneReader
<1>2. \A q \in Readers : pc'[q] \notin {"idle", "signal"} => local'[q].start = rwhence'
  BY <1>1
<1> QED BY <1>2 DEF StreamInv

\* The end of a read puts its bytes behind those received before, and both are the log's.
LEMMA EndCopyStream ==
    ASSUME Inv, StreamInv, OneReader, NEW r \in Readers, EndCopy(r) PROVE StreamInv'
<1> DEFINE l == local[r]
<1>1. /\ pc[r] = "advance" /\ pc' = [pc EXCEPT ![r] = "signal"]
      /\ rwhence' = rwhence + l.size /\ received' = received \o l.data
      /\ UNCHANGED <<wwhence, local, log, begun, lapped>>
  BY DEF EndCopy, At, Goto, AdvanceRead
<1>2. /\ r \in Threads /\ rwhence \in Nat /\ wwhence \in Nat /\ begun \in Nat
      /\ received \in Seq(Bytes) /\ ReaderInv(r) /\ TTY_SIZE \in Nat
  BY TtySizeAssumption DEF Threads, Inv, TypeOK
<1>3. l.size \in Nat /\ l.data \in Seq(Bytes)
  BY <1>2, LocalType
<1>4. l.start = rwhence /\ Len(received) = rwhence
  BY <1>1 DEF StreamInv
<1>5. /\ l.start + l.size <= wwhence /\ Len(l.data) = l.size
      /\ begun <= l.start + TTY_SIZE => \A k \in 1 .. l.size : l.data[k] = log[l.start + k]
  BY <1>1, <1>2 DEF ReaderInv, Taking
<1>6. /\ Len(received') = rwhence + l.size
      /\ \A i \in 1 .. rwhence + l.size :
            received'[i] = IF i <= rwhence THEN received[i] ELSE l.data[i - rwhence]
  <2>1. /\ Len(received') = Len(received) + Len(l.data)
        /\ \A i \in 1 .. Len(received) + Len(l.data) : received'[i] =
              IF i <= Len(received) THEN received[i] ELSE l.data[i - Len(received)]
    BY <1>1, <1>2, <1>3, ConcatProperties
  <2>2. Len(l.data) = l.size
    BY <1>5
  <2> HIDE DEF l
  <2> QED BY <1>4, <2>1, <2>2
<1>7. ASSUME ~lapped
      PROVE  /\ begun <= rwhence' + TTY_SIZE /\ rwhence' <= wwhence
             /\ \A i \in 1 .. rwhence' : received'[i] = log[i]
  <2>1. begun <= rwhence + TTY_SIZE /\ \A k \in 1 .. rwhence : received[k] = log[k]
    BY <1>7 DEF StreamInv
  <2>2. \A k \in 1 .. l.size : l.data[k] = log[rwhence + k]
    BY <1>4, <1>5, <2>1
  <2>3. rwhence + l.size <= wwhence
    BY <1>4, <1>5
  <2> HIDE DEF l
  <2>4. ASSUME NEW i \in 1 .. rwhence + l.size PROVE received'[i] = log[i]
    <3>1. CASE i <= rwhence
      <4>1. i \in 1 .. rwhence
        BY <1>2, <3>1
      <4> QED BY <1>6, <2>1, <3>1, <4>1
    <3>2. CASE ~(i <= rwhence)
      <4>1. i - rwhence \in 1 .. l.size /\ rwhence + (i - rwhence) = i
        BY <1>2, <1>3, <3>2
      <4>2. received'[i] = l.data[i - rwhence]
        BY <1>6, <3>2
      <4>3. l.data[i - rwhence] = log[rwhence + (i - rwhence)]
        BY <2>2, <4>1
      <4> QED BY <4>1, <4>2, <4>3
    <3> QED BY <3>1, <3>2
  <2>5. begun <= rwhence + TTY_SIZE
    BY <2>1
  <2>6. begun <= (rwhence + l.size) + TTY_SIZE
    BY <1>2, <1>3, <2>5
  <2> QED BY <1>1, <2>3, <2>4, <2>6
<1>8. \A q \in Readers : pc'[q] = "signal"
  BY <1>1, <1>2 DEF OneReader, Inv, TypeOK
<1> QED BY <1>1, <1>6, <1>7, <1>8 DEF StreamInv

LEMMA ReaderStream ==
    ASSUME Inv, StreamInv, OneReader, NEW r \in Readers,
           StepRead(r) \/ \E count \in Counts : StartRead(r, count)
    PROVE  StreamInv'
<1>1. r \in Threads /\ pc \in [Threads -> {"idle", "wait", "check", "copy", "advance", "signal"}]
      /\ local \in [Threads -> Locals]
  BY DEF Threads, Inv, TypeOK
<1>2. pc[r] \notin {"idle", "signal"} => local[r].start = rwhence
  BY DEF StreamInv
<1>3. ASSUME NEW count \in Counts, StartRead(r, count) PROVE StreamInv'
  <2>1. local'[r].start = rwhence /\ UNCHANGED <<rwhence, wwhence, log, begun, received, lapped>>
    BY <1>1, <1>3 DEF StartRead, Nothing, history
  <2> QED BY <2>1, StreamReads
<1>4. CASE WaitEventFlag(r)
  BY <1>1, <1>2, <1>4, StreamReads DEF WaitEventFlag, At, history
<1>5. CASE Check(r)
  BY <1>1, <1>2, <1>5, StreamReads DEF Check, At, history
<1>6. CASE CopyOut(r)
  <2>1. pc[r] = "copy" /\ UNCHANGED <<rwhence, wwhence, log, begun, received, lapped>>
    BY <1>6 DEF CopyOut, At, history
  <2>2. local'[r].start = local[r].start
    <3>1. PICK x, y : local' = [local EXCEPT ![r] = [local[r] EXCEPT !.done = x, !.data = y]]
      BY <1>1, <1>6 DEF CopyOut
    <3>2. local[r] \in Locals
      BY <1>1
    <3> QED BY <1>1, <3>1, <3>2 DEF Locals
  <2> QED BY <1>2, <2>1, <2>2, StreamReads
<1>7. CASE EndCopy(r)
  BY <1>7, EndCopyStream
<1>8. CASE EndRead(r)
  <2>1. pc'[r] = "idle" /\ UNCHANGED <<rwhence, wwhence, log, begun, received, lapped>>
    BY <1>1, <1>8 DEF EndRead, Goto, history
  <2> QED BY <2>1, StreamReads
<1> QED BY <1>3, <1>4, <1>5, <1>6, <1>7, <1>8 DEF StepRead

LEMMA WriterStream ==
    ASSUME Inv, StreamInv, NEW w \in Writers,
           StepWrite(w) \/ \E size \in 1 .. TTY_SIZE : StartWrite(w, size)
    PROVE  StreamInv'
<1>1. /\ rwhence \in Nat /\ wwhence \in Nat /\ begun \in Nat /\ lapped \in BOOLEAN
      /\ w \in Threads /\ TTY_SIZE \in Nat
      /\ pc \in [Threads -> {"idle", "wait", "check", "copy", "advance", "signal"}]
      /\ local \in [Threads -> Locals]
  BY TtySizeAssumption DEF Threads, Inv, TypeOK
<1>2. Readers \subseteq Threads /\ w \notin Readers
  BY ThreadsAssumption DEF Threads
<1>3. ~lapped => begun <= rwhence + TTY_SIZE
  BY DEF StreamInv
<1>4. ASSUME NEW size \in 1 .. TTY_SIZE, StartWrite(w, size) PROVE StreamInv'
  <2>1. /\ UNCHANGED <<rwhence, wwhence, log, received>>
        /\ lapped' = (lapped \/ begun' > rwhence + TTY_SIZE) /\ begun' = begun + size
        /\ \A r \in Readers : pc'[r] = pc[r] /\ local'[r] = local[r]
    BY <1>1, <1>2, <1>4 DEF StartWrite, Goto
  <2>2. begun' \in Nat
    BY <1>1, <2>1
  <2>3. ~lapped' => ~lapped /\ begun' <= rwhence + TTY_SIZE
    <3>1. ~(begun' > rwhence + TTY_SIZE) => begun' <= rwhence + TTY_SIZE
      BY <1>1, <2>2
    <3>2. lapped' = (lapped \/ begun' > rwhence + TTY_SIZE)
      BY <2>1
    <3> QED BY <3>1, <3>2
  <2>4. wwhence' \in Nat /\ wwhence <= wwhence'
    BY <1>1, <2>1
  <2> QED BY <2>1, <2>3, <2>4, StreamKeeps
<1>5. CASE CopyIn(w)
  <2>1. /\ UNCHANGED <<rwhence, wwhence, log, begun, received, lapped>>
        /\ \A r \in Readers : pc'[r] = pc[r] /\ local'[r] = local[r]
    BY <1>1, <1>2, <1>5 DEF CopyIn, Goto, history
  <2>2. wwhence' \in Nat /\ wwhence <= wwhence'
    BY <1>1, <2>1
  <2> QED BY <1>3, <2>1, <2>2, StreamKeeps
<1>6. CASE AdvanceWrite(w)
  <2>1. /\ UNCHANGED <<rwhence, begun, received, lapped>> /\ log' = log \o local[w].data
        /\ wwhence' = wwhence + local[w].size
        /\ \A r \in Readers : pc'[r] = pc[r] /\ local'[r] = local[r]
    BY <1>1, <1>2, <1>6 DEF AdvanceWrite, Goto
  <2>2. local[w].size \in Nat /\ local[w].data \in Seq(Bytes)
    BY <1>1, LocalType
  <2>3. wwhence' \in Nat /\ wwhence <= wwhence'
    BY <1>1, <2>1, <2>2
  <2>4. log \in Seq(Bytes) /\ Len(log) = wwhence
    BY DEF Inv, TypeOK, RingInv
  <2>5. ASSUME NEW i \in 1 .. wwhence PROVE log'[i] = log[i]
    <3>1. i \in 1 .. Len(log) + Len(local[w].data) /\ i <= Len(log)
      BY <2>2, <2>4, LenProperties
    <3> QED BY <2>1, <2>2, <2>4, <3>1, ConcatProperties
  <2>6. \A i \in 1 .. wwhence : log'[i] = log[i]
    BY <2>5
  <2> QED BY <1>3, <2>1, <2>3, <2>6, StreamKeeps
<1>7. CASE EndWrite(w)
  <2>1. /\ UNCHANGED <<rwhence, wwhence, log, begun, received, lapped>>
        /\ \A r \in Readers : pc'[r] = pc[r] /\ local'[r] = local[r]
    BY <1>1, <1>2, <1>7 DEF EndWrite, Goto, history
  <2>2. wwhence' \in Nat /\ wwhence <= wwhence'
    BY <1>1, <2>1
  <2> QED BY <1>3, <2>1, <2>2, StreamKeeps
<1> QED BY <1>4, <1>5, <1>6, <1>7 DEF StepWrite

LEMMA StreamStep == ASSUME OneReader PROVE Inv /\ StreamInv /\ [Next]_vars => StreamInv'
<1> SUFFICES ASSUME Inv, StreamInv, [Next]_vars PROVE StreamInv'
  OBVIOUS
<1>1. CASE UNCHANGED <<ringbuffer, rwhence, wwhence, pc, local, history>>
  BY <1>1 DEF history, StreamInv
<1>2. CASE nbdtty_ctor
  BY <1>1, <1>2 DEF nbdtty_ctor
<1>3. CASE UNCHANGED vars
  BY <1>1, <1>3 DEF vars
<1>4. CASE Quiet
  BY <1>3, <1>4 DEF Quiet
<1> QED BY <1>2, <1>3, <1>4, ReaderStream, WriterStream DEF Next

-----------------------------------------------------------------------------
(* The theorems.                                                              *)

LEMMA AlwaysInv == ASSUME OneWriter PROVE Spec => []Inv
  BY InitInv, StepInv, PTL DEF Spec

\* What a read returns is what was printed at its positions, for any number of clients
\* that read at once, as long as one thread prints and has not gone round the ring
\* (tty.c 40-55, 120-142).
THEOREM ReadsGiveStream == ASSUME OneWriter PROVE Spec => []ReadStream
<1>1. Inv => ReadStream
  <2> SUFFICES ASSUME Inv, NEW r \in Readers, At(r, "signal"),
                      begun <= local[r].start + TTY_SIZE
               PROVE  local[r].data =
                         SubSeq(log, local[r].start + 1, local[r].start + local[r].size)
    BY DEF ReadStream
  <2> DEFINE l == local[r]
             s == SubSeq(log, l.start + 1, l.start + l.size)
  <2>1. l.size \in Nat /\ l.start \in Nat /\ l.data \in Seq(Bytes)
    BY LocalType DEF Threads
  <2>2. /\ l.start + l.size <= wwhence /\ Len(l.data) = l.size
        /\ \A k \in 1 .. l.size : l.data[k] = log[l.start + k]
    BY DEF Inv, ReaderInv, Taking, At
  <2>3. log \in Seq(Bytes) /\ Len(log) = wwhence /\ wwhence \in Nat
    BY DEF Inv, TypeOK, RingInv
  <2> HIDE DEF l
  <2>4. s \in Seq(Bytes) /\ Len(s) = l.size
        /\ \A k \in 1 .. l.size : s[k] = log[l.start + k]
    <3> DEFINE m == l.start + 1
               n == l.start + l.size
    <3>1. m \in Int /\ n \in Int /\ (IF m <= n THEN n - m + 1 ELSE 0) = l.size
      BY <2>1
    <3>2. \A i \in m .. n : i \in 1 .. Len(log)
      BY <2>1, <2>2, <2>3
    <3>3. \A i \in m .. n : log[i] \in Bytes
      BY <2>3, <3>2
    <3>4. \A k \in 1 .. l.size : k \in 1 .. n - m + 1 /\ m + k - 1 = l.start + k
      BY <2>1
    <3> HIDE DEF m, n
    <3>5. /\ SubSeq(log, m, n) \in Seq(Bytes)
          /\ Len(SubSeq(log, m, n)) = IF m <= n THEN n - m + 1 ELSE 0
          /\ \A i \in 1 .. n - m + 1 : SubSeq(log, m, n)[i] = log[m + i - 1]
      BY <3>1, <3>3, SubSeqProperties
    <3>6. s = SubSeq(log, m, n)
      BY DEF m, n
    <3> HIDE DEF s
    <3> QED BY <3>1, <3>4, <3>5, <3>6
  <2> HIDE DEF s
  <2>5. l.data = s
    BY <2>1, <2>2, <2>4, SeqEqual
  <2> QED BY <2>5 DEF l, s
<1> QED BY <1>1, AlwaysInv, PTL

\* One read after the other gives the console's text from its beginning, no byte twice
\* and none left out, when one thread prints, one client reads and printing never goes
\* over what was not read (tty.c 102, 132-142 against 40-55).
THEOREM StreamStaysInOrder == ASSUME OneWriter, OneReader PROVE Spec => []StreamInOrder
<1>1. Inv /\ StreamInv => StreamInOrder
  <2> SUFFICES ASSUME Inv, StreamInv, ~lapped
               PROVE  IsPrefix(received, log) /\ Len(received) = rwhence
    BY DEF StreamInOrder
  <2>1. /\ rwhence \in Nat /\ wwhence \in Nat
        /\ log \in Seq(Bytes) /\ received \in Seq(Bytes)
    BY DEF Inv, TypeOK
  <2>2. Len(log) = wwhence /\ Len(received) = rwhence /\ rwhence <= wwhence
    BY DEF Inv, RingInv, StreamInv
  <2>3. \A k \in 1 .. rwhence : received[k] = log[k]
    BY DEF StreamInv
  <2>4. SubSeq(received, 1, rwhence) = SubSeq(log, 1, rwhence)
    BY <2>1, <2>2, <2>3
  <2> QED BY <2>2, <2>4 DEF IsPrefix
<1>2. Inv /\ StreamInv /\ [Next]_vars => Inv' /\ StreamInv'
  BY StepInv, StreamStep
<1>3. Spec => [](Inv /\ StreamInv)
  BY <1>2, InitInv, PTL DEF Spec
<1> QED BY <1>1, <1>3, PTL
=============================================================================
