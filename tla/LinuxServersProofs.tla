-------------------------- MODULE LinuxServersProofs --------------------------
(***************************************************************************)
(* Proofs about the two programs that serve connections on Linux: the      *)
(* libuv server (Workers), for every number of slots and every set of      *)
(* connections, and mini-xinetd (MiniXinetd), for every set of             *)
(* connections, configuration and list of servers.                         *)
(***************************************************************************)
EXTENDS Workers, MiniXinetd, SequenceTheorems, FiniteSetTheorems, WellFoundedInduction, TLAPS

-----------------------------------------------------------------------------
(* The libuv server.                                                         *)

TypeOK ==
    /\ backlog \in Seq(Conns)
    /\ accepted_fd \in Conns \cup {None}
    /\ stopped \in BOOLEAN
    /\ client_states \in [Slots -> {"FREE", "INUSE"}]
    /\ work \in [Slots -> {"none", "queued", "accepted", "running", "finished"}]
    /\ sock \in [Slots -> Conns \cup {None}]
    /\ came \subseteq Conns /\ gone \subseteq came
    /\ served \subseteq came /\ turnedAway \subseteq came

\* A slot is free exactly when its request is at rest, and only a request that was
\* queued for a connection still in uv_accept's hands waits for a thread.
SlotsInv ==
    /\ \A i \in Slots : client_states[i] = "FREE" <=> work[i] = "none"
    /\ \A i \in Slots : work[i] = "queued" => accepted_fd # None /\ accepted_fd \notin turnedAway
    /\ \A i, j \in Slots : work[i] = "queued" /\ work[j] = "queued" => i = j

\* A connection is in one place: in the backlog, in uv_accept's hands, or in a slot.
PlacesInv ==
    /\ \A m \in 1 .. Len(backlog) :
          /\ backlog[m] \in came \ (served \cup turnedAway)
          /\ backlog[m] # accepted_fd
    /\ \A m, n \in 1 .. Len(backlog) : backlog[m] = backlog[n] => m = n
    /\ accepted_fd # None => accepted_fd \in came \ served
    /\ \A i \in Slots : sock[i] # None => sock[i] \in served
    /\ \A i, j \in Slots : sock[i] = sock[j] /\ sock[i] # None => i = j

Inv == TypeOK /\ SlotsInv /\ PlacesInv

LEMMA InitInv == Init => Inv
<1> SUFFICES ASSUME Init PROVE Inv
  OBVIOUS
<1>1. backlog \in Seq(Conns) /\ Len(backlog) = 0
  BY DEF Init
<1>2. TypeOK
  BY <1>1 DEF Init, TypeOK
<1>3. SlotsInv
  BY DEF Init, SlotsInv
<1>4. PlacesInv
  BY <1>1 DEF Init, PlacesInv
<1> QED BY <1>2, <1>3, <1>4 DEF Inv

LEMMA ConnectInv == ASSUME Inv, NEW c \in Conns, Connect(c) PROVE Inv'
<1>1. /\ backlog' = Append(backlog, c) /\ c \notin came /\ came' = came \cup {c}
      /\ UNCHANGED <<accepted_fd, slots, stopped, gone, served, turnedAway>>
  BY DEF Connect
<1>2. /\ backlog \in Seq(Conns) /\ backlog' \in Seq(Conns) /\ Len(backlog') = Len(backlog) + 1
      /\ Len(backlog) \in Nat
      /\ \A m \in 1 .. Len(backlog) : backlog'[m] = backlog[m]
      /\ backlog'[Len(backlog) + 1] = c
  BY <1>1 DEF Inv, TypeOK
<1>3. TypeOK'
  BY <1>1, <1>2 DEF Inv, TypeOK, slots
<1>4. SlotsInv'
  BY <1>1 DEF Inv, SlotsInv, slots
<1>5. PlacesInv'
  <2>1. ASSUME NEW m \in 1 .. Len(backlog')
        PROVE  /\ m \in 1 .. Len(backlog) \/ m = Len(backlog) + 1
               /\ backlog'[m] = IF m \in 1 .. Len(backlog) THEN backlog[m] ELSE c
    BY <1>2
  <2>2. c # accepted_fd /\ c \notin served \cup turnedAway
    BY <1>1, ConnsAssumption DEF Inv, TypeOK, PlacesInv
  <2>3. \A m \in 1 .. Len(backlog') :
          /\ backlog'[m] \in came' \ (served' \cup turnedAway')
          /\ backlog'[m] # accepted_fd'
    BY <1>1, <2>1, <2>2 DEF Inv, PlacesInv
  <2>4. \A m, n \in 1 .. Len(backlog') : backlog'[m] = backlog'[n] => m = n
    BY <1>1, <2>1 DEF Inv, PlacesInv
  <2> QED BY <1>1, <2>3, <2>4 DEF Inv, PlacesInv, slots
<1> QED BY <1>3, <1>4, <1>5 DEF Inv

LEMMA LeaveInv == ASSUME Inv, NEW c \in Conns, Leave(c) PROVE Inv'
  BY DEF Leave, Inv, TypeOK, SlotsInv, PlacesInv, slots

LEMMA NewConnectionInv == ASSUME Inv, on_new_connection, accepted_fd = None, backlog # <<>> PROVE Inv'
<1> DEFINE c == Head(backlog)
<1>1. /\ backlog # <<>> /\ accepted_fd' = c /\ backlog' = Tail(backlog)
      /\ UNCHANGED <<sock, stopped, came, gone, served>>
  BY DEF on_new_connection
<1>2. accepted_fd = None /\ \A i \in Slots : work[i] # "queued"
  BY <1>1 DEF Inv, SlotsInv
<1>3. /\ backlog \in Seq(Conns) /\ backlog' \in Seq(Conns) /\ Len(backlog) \in Nat \ {0}
      /\ Len(backlog') = Len(backlog) - 1 /\ c = backlog[1] /\ c \in Conns
      /\ \A m \in 1 .. Len(backlog') : backlog'[m] = backlog[m + 1]
  BY <1>1, HeadTailProperties DEF Inv, TypeOK
<1>4. c \in came \ (served \cup turnedAway)
  BY <1>3 DEF Inv, PlacesInv
<1> HIDE DEF c
<1>5. \/ /\ FreeSlots # {} /\ Claim /\ UNCHANGED turnedAway
         /\ work' = [i \in Slots |-> IF i \in TakenSlots THEN "queued" ELSE work[i]]
      \/ /\ turnedAway' = turnedAway \cup {c} /\ UNCHANGED <<client_states, work>>
  BY DEF on_new_connection, c
<1>6. \A i, j \in TakenSlots : i = j /\ i \in Slots
  BY MaxClientsAssumption DEF TakenSlots, FreeSlots, Slots
<1>7. TypeOK'
  BY <1>1, <1>3, <1>4, <1>5 DEF Inv, TypeOK, Claim
<1>8. SlotsInv'
  <2>2. \A i \in Slots : client_states'[i] = "FREE" <=> work'[i] = "none"
    BY <1>5 DEF Claim, Inv, SlotsInv
  <2>3. ASSUME NEW i \in Slots, work'[i] = "queued"
        PROVE  i \in TakenSlots /\ UNCHANGED turnedAway
    BY <1>2, <1>5, <2>3
  <2>4. \A i \in Slots : work'[i] = "queued" => accepted_fd' # None /\ accepted_fd' \notin turnedAway'
    BY <1>1, <1>3, <1>4, <2>3, ConnsAssumption
  <2>5. \A i, j \in Slots : work'[i] = "queued" /\ work'[j] = "queued" => i = j
    BY <1>6, <2>3
  <2> QED BY <2>2, <2>4, <2>5 DEF SlotsInv
<1>9. PlacesInv'
  <2>1. ASSUME NEW m \in 1 .. Len(backlog')
        PROVE  backlog'[m] = backlog[m + 1] /\ m + 1 \in 1 .. Len(backlog) /\ m + 1 # 1
    BY <1>3
  <2>2. \A m \in 1 .. Len(backlog') :
          /\ backlog'[m] \in came' \ (served' \cup turnedAway')
          /\ backlog'[m] # accepted_fd'
    BY <1>1, <1>3, <1>5, <2>1 DEF Inv, PlacesInv
  <2>3. \A m, n \in 1 .. Len(backlog') : backlog'[m] = backlog'[n] => m = n
    BY <1>3, <2>1 DEF Inv, PlacesInv
  <2> QED BY <1>1, <1>4, <2>2, <2>3 DEF Inv, PlacesInv
<1> QED BY <1>7, <1>8, <1>9 DEF Inv

LEMMA AcceptInv == ASSUME Inv, NEW i \in Slots, Accept(i) PROVE Inv'
<1>1. accepted_fd # None /\ accepted_fd \notin turnedAway
  BY DEF Accept, Inv, SlotsInv
<1>2. /\ work[i] = "queued" /\ work' = [work EXCEPT ![i] = "accepted"]
      /\ sock' = [sock EXCEPT ![i] = accepted_fd] /\ served' = served \cup {accepted_fd}
      /\ accepted_fd' = None
      /\ UNCHANGED <<backlog, client_states, stopped, came, gone, turnedAway>>
  BY <1>1 DEF Accept
<1>3. accepted_fd \in came \ served
  BY <1>1 DEF Inv, PlacesInv
<1>4. TypeOK'
  BY <1>2, <1>3 DEF Inv, TypeOK
<1>5. SlotsInv'
  BY <1>2 DEF Inv, TypeOK, SlotsInv
<1>6. PlacesInv'
  <2>1. \A j \in Slots : sock'[j] = IF j = i THEN accepted_fd ELSE sock[j]
    BY <1>2 DEF Inv, TypeOK
  <2>2. \A j \in Slots : sock[j] # accepted_fd
    BY <1>1, <1>3 DEF Inv, PlacesInv
  <2>3. \A m \in 1 .. Len(backlog) : backlog[m] \in Conns
    BY DEF Inv, TypeOK
  <2> QED BY <1>2, <1>3, <2>1, <2>2, <2>3, ConnsAssumption DEF Inv, PlacesInv
<1> QED BY <1>4, <1>5, <1>6 DEF Inv

LEMMA EndInv ==
    ASSUME Inv, NEW i \in Slots, StartRun(i) \/ EndRun(i) \/ on_after_work(i) PROVE Inv'
<1>1. CASE StartRun(i) \/ EndRun(i)
  <2>1. /\ work[i] \in {"accepted", "running"}
        /\ \E w \in {"running", "finished"} : work' = [work EXCEPT ![i] = w]
        /\ UNCHANGED <<backlog, accepted_fd, client_states, sock, stopped, clients>>
    BY <1>1 DEF StartRun, EndRun
  <2>2. TypeOK' /\ SlotsInv'
    BY <2>1 DEF Inv, TypeOK, SlotsInv, clients
  <2>3. PlacesInv'
    BY <2>1 DEF Inv, PlacesInv, clients
  <2> QED BY <2>2, <2>3 DEF Inv
<1>2. CASE on_after_work(i)
  <2>1. /\ work[i] = "finished" /\ work' = [work EXCEPT ![i] = "none"]
        /\ sock' = [sock EXCEPT ![i] = None]
        /\ client_states' = [client_states EXCEPT ![i] = "FREE"]
        /\ UNCHANGED <<backlog, accepted_fd, stopped, came, gone, served, turnedAway>>
    BY <1>2 DEF on_after_work, Release, clients
  <2>2. TypeOK' /\ SlotsInv'
    BY <2>1 DEF Inv, TypeOK, SlotsInv
  <2>3. PlacesInv'
    BY <2>1 DEF Inv, TypeOK, PlacesInv
  <2> QED BY <2>2, <2>3 DEF Inv
<1> QED BY <1>1, <1>2

LEMMA LoopInv ==
    ASSUME Inv, Readable \/ Check \/ Stop \/ Poll \/ signal_handler \/ Quiet \/ UNCHANGED vars
    PROVE  Inv'
<1>1. CASE accepted_fd = None /\ backlog # <<>> /\ on_new_connection
  BY <1>1, NewConnectionInv
<1>2. CASE UNCHANGED <<backlog, accepted_fd, slots, clients>> /\ stopped' \in BOOLEAN
  <2>1. TypeOK' /\ SlotsInv'
    BY <1>2 DEF slots, clients, Inv, TypeOK, SlotsInv
  <2>2. PlacesInv'
    BY <1>2 DEF slots, clients, Inv, PlacesInv
  <2> QED BY <2>1, <2>2 DEF Inv
<1>3. stopped \in BOOLEAN
  BY DEF Inv, TypeOK
<1>4. CASE Readable
  BY <1>1, <1>2, <1>4 DEF Readable
<1>5. CASE Check
  BY <1>1, <1>2, <1>3, <1>5 DEF Check
<1>6. CASE Stop \/ Poll \/ signal_handler \/ Quiet \/ UNCHANGED vars
  BY <1>2, <1>3, <1>6 DEF Stop, Poll, signal_handler, Quiet, vars
<1> QED BY <1>4, <1>5, <1>6

LEMMA StepInv == Inv /\ [Next]_vars => Inv'
  BY ConnectInv, LeaveInv, LoopInv, AcceptInv, EndInv DEF Next

\* However many clients come, leave and are turned away, and however the loop's steps
\* fall between those of the threads: the thread of a slot finds
\* the connection that the slot was taken for, no slot is given away while a thread
\* is at work in it, and no connection is served in two slots.
THEOREM AcceptNeverFails == Spec => []AcceptSucceeds
<1>1. Inv => AcceptSucceeds
  BY DEF Inv, SlotsInv, PlacesInv, AcceptSucceeds
<1>2. Spec => []Inv
  BY InitInv, StepInv, PTL DEF Spec
<1> QED BY <1>1, <1>2, PTL

-----------------------------------------------------------------------------
(* mini-xinetd.                                                              *)

(* Its threads.                                                              *)

Running == {"set", "run", "restore"}
WithStreams == Running \cup {"save", "close"}
PlacesOfThreads ==
    {"none", "start", "fdopen", "save", "set", "run", "restore", "close", "close twice",
     "left", "end", "closed twice"}
ThreadsType ==
    /\ pc \in [Conns -> PlacesOfThreads]
    /\ fd \in [Conns -> Fds \cup {0}] /\ \A c \in Conns : pc[c] # "none" => fd[c] \in Fds
    /\ fds \in [Fds -> Conns \cup {None}]
    /\ old_stdout = [c \in Conns |-> old_stdout[c]]
    /\ dups \in [Conns -> Seq(Fds)]
    /\ stream = [c \in Conns \cup {Console} |-> stream[c]]

\* Nobody has closed a descriptor twice.
Closed == \A c \in Conns : pc[c] \notin {"close twice", "closed twice"}

\* Whom stdout leads to, as long as nobody has printed during the run of another.
StdoutInv ==
    ~overlap /\ Closed =>
        /\ \A c \in Conns : pc[c] \in Running => old_stdout[c] = Console
        /\ \A c \in Holders : stdout = c
        /\ Holders = {} => stdout = Console
        /\ \A c \in Conns : stream[c] \subseteq {c}

\* The descriptors of a thread lead to its connection.
DescriptorsInv ==
    Closed => \A c \in Conns :
        /\ pc[c] \notin {"none", "end"} => \A n \in Mine(c) : n \in Fds /\ fds[n] = c
        /\ IF pc[c] \in WithStreams THEN Len(dups[c]) = 2
           ELSE pc[c] # "end" => dups[c] = <<>>

XInv == ThreadsType /\ StdoutInv /\ DescriptorsInv

LEMMA LeastNat ==
    ASSUME NEW S \in SUBSET Nat, S # {}
    PROVE  \E m \in S : \A n \in S : m <= n
<1> DEFINE R == OpToRel(<, Nat)
<1>1. \A x, y \in Nat : x < y => <<x, y>> \in R
  BY DEF OpToRel
<1>2. IsWellFoundedOn(R, Nat)
  BY NatLessThanWellFounded
<1> HIDE DEF R
<1>3. PICK m \in S : \A n \in S : ~(<<n, m>> \in R)
  BY <1>2, WFMin
<1>4. \A n \in S : ~(n < m)
  BY <1>1, <1>3, Zenon
<1> QED BY <1>4

\* The lowest free descriptors.
LEMMA LowestIn == ASSUME NEW S \in SUBSET Fds, S # {} PROVE Lowest(S) \in S
<1>1. S \in SUBSET Nat
  BY LimitsAssumption DEF Fds
<1>2. \E m \in S : \A k \in S : m <= k
  BY <1>1, LeastNat
<1> QED BY <1>2 DEF Lowest

LEMMA DupsFree ==
    /\ Cardinality(FreeFds) >= 1 => Dup(1) \in FreeFds
    /\ Cardinality(FreeFds) >= 2 => Dup(2) \in FreeFds \ {Dup(1)}
<1> DEFINE n == Lowest(FreeFds)
<1>1. FreeFds \in SUBSET Fds /\ (FreeFds # {} => n \in FreeFds)
  BY LowestIn DEF FreeFds
<1>2. Cardinality(FreeFds) >= 1 => FreeFds # {}
  BY FS_EmptySet
<1>3. Cardinality(FreeFds) >= 2 => FreeFds # {} /\ FreeFds \ {n} # {}
  <2> SUFFICES ASSUME Cardinality(FreeFds) >= 2, FreeFds = {} \/ FreeFds \ {n} = {} PROVE FALSE
    OBVIOUS
  <2>1. FreeFds = {} \/ FreeFds = {n}
    BY <1>1
  <2> HIDE DEF n
  <2>2. Cardinality({}) = 0 /\ Cardinality({n}) = 1
    BY FS_EmptySet, FS_Singleton
  <2> QED BY <2>1, <2>2
<1>4. Dup(1) = n /\ Dup(2) = Lowest(FreeFds \ {n})
  BY DEF Dup
<1>5. FreeFds \ {n} # {} => Lowest(FreeFds \ {n}) \in FreeFds \ {n}
  BY <1>1, LowestIn
<1> QED BY <1>1, <1>2, <1>3, <1>4, <1>5

LEMMA XInit == ASSUME XinetdInit PROVE XInv
<1>1. ThreadsType
  BY DEF XinetdInit, ThreadsType, PlacesOfThreads
<1>2. StdoutInv
  BY DEF XinetdInit, StdoutInv, Holders, Running
<1>3. DescriptorsInv
  BY DEF XinetdInit, DescriptorsInv, WithStreams, Running
<1> QED BY <1>1, <1>2, <1>3 DEF XInv

\* What leaves the threads, stdout and the streams alone.
LEMMA XConfig ==
    ASSUME XInv, UNCHANGED <<stdout, fds, threads, prints>> PROVE XInv'
<1>1. UNCHANGED <<stdout, fds, pc, fd, old_stdout, dups, stream, overlap>>
  BY DEF threads, prints
<1>2. ThreadsType'
  BY <1>1 DEF XInv, ThreadsType, Fds
<1>3. StdoutInv'
  BY <1>1 DEF XInv, StdoutInv, Holders, Closed
<1>4. DescriptorsInv'
  <2>1. \A c \in Conns : Mine(c)' = Mine(c)
    BY <1>1 DEF Mine
  <2> QED BY <1>1, <2>1 DEF XInv, DescriptorsInv, Closed, Fds
<1> QED BY <1>2, <1>3, <1>4 DEF XInv

\* What leaves the descriptors alone, and moves a thread within the part of its way in
\* which it has its streams, or within the part in which it has none.
LEMMA SameDescriptors ==
    ASSUME XInv, NEW c \in Conns, UNCHANGED <<fd, fds, dups>>,
           NEW to \in PlacesOfThreads, pc' = [pc EXCEPT ![c] = to],
           pc[c] \notin {"none", "end", "close twice", "closed twice"}, to \notin {"none", "end"},
           pc[c] \in WithStreams <=> to \in WithStreams
    PROVE  DescriptorsInv' /\ (Closed' => Closed)
<1>1. \A d \in Conns : pc'[d] = IF d = c THEN to ELSE pc[d]
  BY DEF XInv, ThreadsType
<1>2. Closed' => Closed
  <2>1. \A d \in Conns \ {c} : pc'[d] = pc[d]
    BY <1>1
  <2> QED BY <2>1 DEF Closed
<1>3. \A d \in Conns : Mine(d)' = Mine(d)
  BY DEF Mine
<1>4. ASSUME Closed', NEW d \in Conns
      PROVE  /\ pc'[d] \notin {"none", "end"} => \A n \in Mine(d)' : n \in Fds /\ fds'[n] = d
             /\ IF pc'[d] \in WithStreams THEN Len(dups'[d]) = 2
                ELSE pc'[d] # "end" => dups'[d] = <<>>
  <2>1. Closed
    BY <1>2, <1>4
  <2>2. /\ pc[d] \notin {"none", "end"} => \A n \in Mine(d) : n \in Fds /\ fds[n] = d
        /\ IF pc[d] \in WithStreams THEN Len(dups[d]) = 2 ELSE pc[d] # "end" => dups[d] = <<>>
    BY <2>1 DEF XInv, DescriptorsInv
  <2>3. /\ pc'[d] \notin {"none", "end"} => pc[d] \notin {"none", "end"}
        /\ pc'[d] \in WithStreams <=> pc[d] \in WithStreams
        /\ pc'[d] # "end" => pc[d] # "end"
    <3>1. CASE d = c
      BY <1>1, <3>1
    <3>2. CASE d # c
      BY <1>1, <3>2
    <3> QED BY <3>1, <3>2
  <2>4. Mine(d)' = Mine(d) /\ fds' = fds /\ dups' = dups
    BY <1>3
  <2> QED BY <2>2, <2>3, <2>4
<1> QED BY <1>2, <1>4 DEF DescriptorsInv, Fds

\* What printing does while nobody has stdout.
LEMMA PrintsToConsole ==
    ASSUME XInv, NEW who, Prints(who), ~overlap, Closed, Holders = {}
    PROVE  \A c \in Conns : stream'[c] = stream[c]
<1>1. stdout = Console /\ Console \notin Conns
  BY ConsoleAssumption DEF XInv, StdoutInv
<1>2. stream' = [k \in DOMAIN stream |-> IF k = Console THEN stream[k] \cup {who} ELSE stream[k]]
  BY <1>1 DEF Prints, Target
<1> QED BY <1>1, <1>2 DEF XInv, ThreadsType

LEMMA PrintsType ==
    ASSUME XInv, NEW who, Prints(who)
    PROVE  stream' = [c \in Conns \cup {Console} |-> stream'[c]]
  BY DEF XInv, ThreadsType, Prints

LEMMA XAccept ==
    ASSUME XInv, NEW i \in listening, NEW c \in Conns, AcceptConnection(i, c)
    PROVE  XInv'
<1> DEFINE n == Lowest(FreeFds)
<1>1. /\ pc[c] = "none" /\ FreeFds # {} /\ fds' = [fds EXCEPT ![n] = c] /\ fd' = [fd EXCEPT ![c] = n]
      /\ Prints("main") /\ Touches(None) /\ pc' = [pc EXCEPT ![c] = "start"]
      /\ UNCHANGED <<stdout, old_stdout, dups>>
  BY DEF AcceptConnection
<1>2. n \in FreeFds
  BY <1>1, LowestIn DEF FreeFds
<1> HIDE DEF n
<1>3. n \in Fds /\ fds[n] = None /\ None \notin Conns
  BY <1>2, ConnsAssumption DEF FreeFds
<1>4. ThreadsType'
  BY <1>1, <1>3, PrintsType DEF XInv, ThreadsType, Fds, PlacesOfThreads
<1>5. Closed' => Closed
  BY <1>1 DEF Closed, XInv, ThreadsType
<1>6. StdoutInv'
  <2> SUFFICES ASSUME ~overlap', Closed' PROVE StdoutInv'
    BY DEF StdoutInv
  <2>1. ~overlap /\ Holders \ {None} = {}
    BY <1>1 DEF Touches
  <2>2. Holders = {}
    BY <1>3, <2>1 DEF Holders
  <2>3. \A d \in Conns : stream'[d] = stream[d]
    BY <1>1, <1>5, <2>1, <2>2, PrintsToConsole
  <2>4. Holders' = {}
    BY <1>1, <2>2 DEF Holders, XInv, ThreadsType
  <2> QED BY <1>1, <1>5, <2>1, <2>2, <2>3, <2>4 DEF XInv, StdoutInv, Running, ThreadsType
<1>7. DescriptorsInv'
  <2> SUFFICES ASSUME Closed', NEW d \in Conns
               PROVE  /\ pc'[d] \notin {"none", "end"} =>
                            \A k \in Mine(d)' : k \in Fds /\ fds'[k] = d
                      /\ IF pc'[d] \in WithStreams THEN Len(dups'[d]) = 2
                         ELSE pc'[d] # "end" => dups'[d] = <<>>
    BY DEF DescriptorsInv, Fds
  <2>1. CASE d = c
    <3>1. dups[c] = <<>> /\ pc'[c] = "start" /\ fd'[c] = n
      BY <1>1, <1>5 DEF XInv, DescriptorsInv, ThreadsType, WithStreams, Running
    <3>2. Mine(c)' = {n}
      BY <1>1, <3>1 DEF Mine
    <3> QED BY <1>1, <1>3, <2>1, <3>1, <3>2 DEF XInv, ThreadsType, WithStreams, Running
  <2>2. CASE d # c
    <3>1. pc'[d] = pc[d] /\ Mine(d)' = Mine(d) /\ dups' = dups
      BY <1>1, <2>2 DEF XInv, ThreadsType, Mine
    <3>2. \A k \in Fds : k # n => fds'[k] = fds[k]
      BY <1>1 DEF XInv, ThreadsType
    <3> QED BY <1>3, <1>5, <3>1, <3>2 DEF XInv, DescriptorsInv
  <2> QED BY <2>1, <2>2
<1> QED BY <1>4, <1>6, <1>7 DEF XInv

LEMMA XLookup == ASSUME XInv, NEW c \in Conns, Lookup(c) PROVE XInv'
<1>1. PICK to \in {"fdopen", "left"} :
      /\ pc[c] = "start" /\ pc' = [pc EXCEPT ![c] = to]
      /\ Prints(c) /\ Touches(c)
      /\ UNCHANGED <<stdout, fds, fd, old_stdout, dups>>
  BY DEF Lookup, Step
<1>2. ThreadsType'
  BY <1>1, PrintsType DEF XInv, ThreadsType, Fds, PlacesOfThreads
<1>3. DescriptorsInv' /\ (Closed' => Closed)
  BY <1>1, SameDescriptors DEF PlacesOfThreads, WithStreams, Running
<1>4. StdoutInv'
  <2> SUFFICES ASSUME ~overlap', Closed' PROVE StdoutInv'
    BY DEF StdoutInv
  <2>1. ~overlap /\ Holders \ {c} = {}
    BY <1>1 DEF Touches
  <2>2. Holders = {}
    BY <1>1, <2>1 DEF Holders
  <2>3. \A d \in Conns : stream'[d] = stream[d]
    BY <1>1, <1>3, <2>1, <2>2, PrintsToConsole
  <2>4. Holders' = {}
    BY <1>1, <2>2 DEF Holders, XInv, ThreadsType
  <2> QED BY <1>1, <1>3, <2>1, <2>2, <2>3, <2>4 DEF XInv, StdoutInv, Running, ThreadsType
<1> QED BY <1>2, <1>3, <1>4 DEF XInv

LEMMA XHave ==
    ASSUME XInv, NEW c \in Conns, HaveStreams(c), UNCHANGED <<phase, stdout, old_stdout, prints>>
    PROVE  XInv'
<1>1. /\ pc[c] = "fdopen" /\ pc' = [pc EXCEPT ![c] = "save"]
      /\ Cardinality(FreeFds) >= 2 /\ fds[fd[c]] # None
      /\ dups' = [dups EXCEPT ![c] = <<Dup(1), Dup(2)>>]
      /\ fds' = [fds EXCEPT ![Dup(1)] = fds[fd[c]], ![Dup(2)] = fds[fd[c]]]
      /\ UNCHANGED <<fd, stdout, old_stdout, stream, overlap>>
  BY DEF HaveStreams, Step, prints
<1>2. Dup(1) \in FreeFds /\ Dup(2) \in FreeFds /\ Dup(1) # Dup(2)
  <2>1. Cardinality(FreeFds) >= 1
    <3>1. IsFiniteSet(FreeFds)
      <4>1. IsFiniteSet(Fds)
        BY LimitsAssumption, FS_Interval DEF Fds
      <4> QED BY <4>1, FS_Subset DEF FreeFds
    <3>2. Cardinality(FreeFds) \in Nat
      BY <3>1, FS_CardinalityType
    <3> QED BY <1>1, <3>2
  <2> QED BY <1>1, <2>1, DupsFree
<1>3. /\ Dup(1) \in Fds /\ Dup(2) \in Fds /\ fds[Dup(1)] = None /\ fds[Dup(2)] = None
      /\ None \notin Conns
  BY <1>2, ConnsAssumption DEF FreeFds
<1>4. PICK k : k = fds[fd[c]]
  OBVIOUS
<1>5. fd[c] \in Fds /\ k \in Conns
  BY <1>1, <1>4 DEF XInv, ThreadsType
<1>6. ThreadsType'
  <2>1. fds' \in [Fds -> Conns \cup {None}]
    BY <1>1, <1>3, <1>4, <1>5 DEF XInv, ThreadsType
  <2>2. <<Dup(1), Dup(2)>> \in Seq(Fds)
    BY <1>3
  <2>3. dups' \in [Conns -> Seq(Fds)]
    BY <1>1, <2>2 DEF XInv, ThreadsType
  <2> QED BY <1>1, <2>1, <2>3 DEF XInv, ThreadsType, Fds, PlacesOfThreads
<1>7. Closed' => Closed
  BY <1>1 DEF Closed, XInv, ThreadsType
<1>8. StdoutInv'
  <2>1. Holders' = Holders
    BY <1>1 DEF Holders, XInv, ThreadsType
  <2> QED BY <1>1, <1>7, <2>1 DEF XInv, StdoutInv, Running, ThreadsType
<1>9. DescriptorsInv'
  <2> SUFFICES ASSUME Closed', NEW d \in Conns
               PROVE  /\ pc'[d] \notin {"none", "end"} =>
                            \A j \in Mine(d)' : j \in Fds /\ fds'[j] = d
                      /\ IF pc'[d] \in WithStreams THEN Len(dups'[d]) = 2
                         ELSE pc'[d] # "end" => dups'[d] = <<>>
    BY DEF DescriptorsInv, Fds
  <2>1. \A j \in Fds : fds'[j] = IF j \in {Dup(1), Dup(2)} THEN k ELSE fds[j]
    BY <1>1, <1>3, <1>4 DEF XInv, ThreadsType
  <2>2. fd[c] \in Fds /\ k = c
    BY <1>1, <1>4, <1>7 DEF XInv, DescriptorsInv, Mine
  <2>3. CASE d = c
    <3>1. dups'[c] = <<Dup(1), Dup(2)>>
      BY <1>1 DEF XInv, ThreadsType
    <3>2. Mine(c)' = {fd[c], Dup(1), Dup(2)}
      <4>1. DOMAIN <<Dup(1), Dup(2)>> = {1, 2}
        OBVIOUS
      <4> QED BY <1>1, <3>1, <4>1 DEF Mine
    <3>3. pc'[c] = "save"
      BY <1>1 DEF XInv, ThreadsType
    <3>4. Len(dups'[c]) = 2
      BY <3>1
    <3>5. fds[fd[c]] = c
      BY <1>4, <2>2
    <3> QED BY <1>3, <2>1, <2>2, <2>3, <3>2, <3>3, <3>4, <3>5 DEF WithStreams
  <2>4. CASE d # c
    <3>1. pc'[d] = pc[d] /\ Mine(d)' = Mine(d) /\ dups'[d] = dups[d]
      BY <1>1, <2>4 DEF XInv, ThreadsType, Mine
    <3> QED BY <1>3, <1>7, <2>1, <3>1 DEF XInv, DescriptorsInv
  <2> QED BY <2>3, <2>4
<1> QED BY <1>6, <1>8, <1>9 DEF XInv

LEMMA XLack ==
    ASSUME XInv, NEW c \in Conns, LackStream(c), UNCHANGED <<phase, stdout, old_stdout, prints>>
    PROVE  XInv'
<1>1. /\ pc[c] = "fdopen" /\ pc' = [pc EXCEPT ![c] = "close twice"]
      /\ UNCHANGED <<fd, stdout, old_stdout, dups, stream, overlap>>
  BY DEF LackStream, Step, prints
<1>2. PICK k \in 0 .. 2 :
        /\ k > 0 => Cardinality(FreeFds) >= k /\ fds[fd[c]] # None
        /\ fds' = [n \in Fds |-> IF n = fd[c] THEN None
                                 ELSE IF n \in {Dup(j) : j \in 1 .. k} THEN fds[fd[c]] ELSE fds[n]]
  BY DEF LackStream
<1>3. fds[fd[c]] \in Conns \cup {None}
  BY <1>1 DEF XInv, ThreadsType
<1>4. ~Closed'
  BY <1>1 DEF Closed, XInv, ThreadsType
<1>5. ThreadsType'
  <2>1. fds' \in [Fds -> Conns \cup {None}]
    BY <1>2, <1>3 DEF XInv, ThreadsType
  <2> QED BY <1>1, <2>1 DEF XInv, ThreadsType, Fds, PlacesOfThreads
<1> QED BY <1>4, <1>5 DEF XInv, StdoutInv, DescriptorsInv

LEMMA XOpen == ASSUME XInv, NEW c \in Conns, OpenStreams(c) PROVE XInv'
  BY XHave, XLack DEF OpenStreams

LEMMA XSave == ASSUME XInv, NEW c \in Conns, SaveStdout(c) PROVE XInv'
<1>1. /\ pc[c] = "save" /\ pc' = [pc EXCEPT ![c] = "set"]
      /\ old_stdout' = [old_stdout EXCEPT ![c] = stdout] /\ Touches(c)
      /\ UNCHANGED <<fd, fds, dups, stdout, stream>>
  BY DEF SaveStdout, Step
<1>2. ThreadsType'
  BY <1>1 DEF XInv, ThreadsType, Fds, PlacesOfThreads
<1>3. DescriptorsInv' /\ (Closed' => Closed)
  BY <1>1, SameDescriptors DEF PlacesOfThreads, WithStreams, Running
<1>4. StdoutInv'
  <2> SUFFICES ASSUME ~overlap', Closed' PROVE StdoutInv'
    BY DEF StdoutInv
  <2>1. ~overlap /\ Holders \ {c} = {}
    BY <1>1 DEF Touches
  <2>2. Holders = {}
    BY <1>1, <2>1 DEF Holders
  <2>3. Holders' = {}
    BY <1>1, <2>2 DEF Holders, XInv, ThreadsType
  <2> QED BY <1>1, <1>3, <2>1, <2>2, <2>3 DEF XInv, StdoutInv, Running, ThreadsType
<1> QED BY <1>2, <1>3, <1>4 DEF XInv

LEMMA XSet == ASSUME XInv, NEW c \in Conns, SetStdout(c) PROVE XInv'
<1>1. /\ pc[c] = "set" /\ pc' = [pc EXCEPT ![c] = "run"] /\ stdout' = c /\ Touches(c)
      /\ UNCHANGED <<fd, fds, dups, old_stdout, stream>>
  BY DEF SetStdout, Step
<1>2. ThreadsType'
  BY <1>1 DEF XInv, ThreadsType, Fds, PlacesOfThreads
<1>3. DescriptorsInv' /\ (Closed' => Closed)
  BY <1>1, SameDescriptors DEF PlacesOfThreads, WithStreams, Running
<1>4. StdoutInv'
  <2> SUFFICES ASSUME ~overlap', Closed' PROVE StdoutInv'
    BY DEF StdoutInv
  <2>1. ~overlap /\ Holders \ {c} = {}
    BY <1>1 DEF Touches
  <2>2. Holders = {}
    BY <1>1, <2>1 DEF Holders
  <2>3. Holders' = {c}
    BY <1>1, <2>2 DEF Holders, XInv, ThreadsType
  <2> QED BY <1>1, <1>3, <2>1, <2>2, <2>3 DEF XInv, StdoutInv, Running, ThreadsType
<1> QED BY <1>2, <1>3, <1>4 DEF XInv

LEMMA XRun == ASSUME XInv, NEW c \in Conns, Run(c) PROVE XInv'
<1>1. /\ pc[c] = "run" /\ pc' = [pc EXCEPT ![c] = "restore"] /\ Prints(c)
      /\ UNCHANGED <<fd, fds, dups, stdout, old_stdout, overlap>>
  BY DEF Run, Step
<1>2. ThreadsType'
  BY <1>1, PrintsType DEF XInv, ThreadsType, Fds, PlacesOfThreads
<1>3. DescriptorsInv' /\ (Closed' => Closed)
  BY <1>1, SameDescriptors DEF PlacesOfThreads, WithStreams, Running
<1>4. StdoutInv'
  <2> SUFFICES ASSUME ~overlap, Closed' PROVE StdoutInv'
    BY <1>1 DEF StdoutInv
  <2>1. c \in Holders /\ stdout = c
    BY <1>1, <1>3 DEF Holders, XInv, StdoutInv
  <2>2. Holders' = Holders
    BY <1>1 DEF Holders, XInv, ThreadsType
  <2>3. \A d \in Conns : stream'[d] \subseteq {d}
    <3>1. Target = c
      <4>1. Len(dups[c]) = 2 /\ \A n \in Mine(c) : fds[n] = c
        BY <1>1, <1>3 DEF XInv, DescriptorsInv, WithStreams, Running
      <4>2. 1 \in DOMAIN dups[c]
        BY <4>1 DEF XInv, ThreadsType
      <4>3. dups[c][1] \in Mine(c)
        BY <4>2 DEF Mine
      <4>4. c # Console
        BY ConsoleAssumption
      <4> QED BY <2>1, <4>1, <4>3, <4>4 DEF Target
    <3>2. stream' = [d \in DOMAIN stream |-> IF d = c THEN stream[d] \cup {c} ELSE stream[d]]
      BY <1>1, <2>1, <3>1 DEF Prints
    <3>3. \A d \in Conns : stream'[d] = IF d = c THEN stream[d] \cup {c} ELSE stream[d]
      BY <3>2 DEF XInv, ThreadsType
    <3>4. \A d \in Conns : stream[d] \subseteq {d}
      BY <1>3 DEF XInv, StdoutInv
    <3> QED BY <3>3, <3>4
  <2> QED BY <1>1, <1>3, <2>1, <2>2, <2>3 DEF XInv, StdoutInv, Running, ThreadsType
<1> QED BY <1>2, <1>3, <1>4 DEF XInv

LEMMA XRestore == ASSUME XInv, NEW c \in Conns, RestoreStdout(c) PROVE XInv'
<1>1. /\ pc[c] = "restore" /\ pc' = [pc EXCEPT ![c] = "close"] /\ stdout' = old_stdout[c]
      /\ UNCHANGED <<fd, fds, dups, old_stdout, stream, overlap>>
  BY DEF RestoreStdout, Restored, Step, prints
<1>2. ThreadsType'
  BY <1>1 DEF XInv, ThreadsType, Fds, PlacesOfThreads
<1>3. DescriptorsInv' /\ (Closed' => Closed)
  BY <1>1, SameDescriptors DEF PlacesOfThreads, WithStreams, Running
<1>4. StdoutInv'
  <2> SUFFICES ASSUME ~overlap, Closed' PROVE StdoutInv'
    BY <1>1 DEF StdoutInv
  <2>1. Holders = {c}
    BY <1>1, <1>3 DEF Holders, XInv, StdoutInv
  <2>2. Holders' = {}
    BY <1>1, <2>1 DEF Holders, XInv, ThreadsType
  <2>3. stdout' = Console
    BY <1>1, <1>3 DEF XInv, StdoutInv, Running
  <2> QED BY <1>1, <1>3, <2>2, <2>3 DEF XInv, StdoutInv, Running, ThreadsType
<1> QED BY <1>2, <1>3, <1>4 DEF XInv

LEMMA XClose == ASSUME XInv, NEW c \in Conns, CloseConnection(c) PROVE XInv'
<1>1. /\ \/ pc[c] = "close" /\ pc' = [pc EXCEPT ![c] = "end"]
         \/ pc[c] = "close twice" /\ pc' = [pc EXCEPT ![c] = "closed twice"]
      /\ fds' = [n \in Fds |-> IF n \in Mine(c) THEN None ELSE fds[n]]
      /\ UNCHANGED <<fd, stdout, old_stdout, dups, stream, overlap>>
  BY DEF CloseConnection, CloseLast, Step, prints
<1>2. ThreadsType'
  BY <1>1 DEF XInv, ThreadsType, Fds, PlacesOfThreads
<1>3. Closed' => Closed /\ pc[c] = "close"
  BY <1>1 DEF Closed, XInv, ThreadsType
<1>4. StdoutInv'
  <2>1. Holders' = Holders
    BY <1>1 DEF Holders, XInv, ThreadsType
  <2> QED BY <1>1, <1>3, <2>1 DEF XInv, StdoutInv, Running, ThreadsType
<1>5. DescriptorsInv'
  <2> SUFFICES ASSUME Closed', NEW d \in Conns
               PROVE  /\ pc'[d] \notin {"none", "end"} =>
                            \A j \in Mine(d)' : j \in Fds /\ fds'[j] = d
                      /\ IF pc'[d] \in WithStreams THEN Len(dups'[d]) = 2
                         ELSE pc'[d] # "end" => dups'[d] = <<>>
    BY DEF DescriptorsInv, Fds
  <2>1. CASE d = c
    BY <1>1, <1>3, <2>1 DEF XInv, ThreadsType, WithStreams, Running
  <2>2. CASE d # c
    <3>1. pc'[d] = pc[d] /\ Mine(d)' = Mine(d) /\ dups' = dups
      BY <1>1, <2>2 DEF XInv, ThreadsType, Mine
    <3>2. \A n \in Mine(c) : fds[n] = c
      BY <1>3 DEF XInv, DescriptorsInv
    <3> QED BY <1>1, <1>3, <2>2, <3>1, <3>2 DEF XInv, DescriptorsInv
  <2> QED BY <2>1, <2>2
<1> QED BY <1>2, <1>4, <1>5 DEF XInv

LEMMA XStep == ASSUME XInv, [XinetdNext]_xinetdVars PROVE XInv'
<1>1. ASSUME NEW l \in ConfigLines, ParseLine(l) PROVE XInv'
  BY <1>1, XConfig DEF ParseLine
<1>2. CASE EndOfConfig \/ start_listener \/ Listening
  BY <1>2, XConfig DEF EndOfConfig, start_listener, Listening
<1>3. CASE XinetdQuiet \/ UNCHANGED xinetdVars
  BY <1>3, XConfig DEF XinetdQuiet, xinetdVars
<1>4. ASSUME NEW c \in Conns, Thread(c) PROVE XInv'
  BY <1>4, XLookup, XOpen, XSave, XSet, XRun, XRestore, XClose DEF Thread
<1> QED BY <1>1, <1>2, <1>3, <1>4, XAccept DEF XinetdNext

\* As long as every thread gets its streams: none closes a descriptor of another; and
\* while no connection comes, and no thread starts, while another has stdout, each
\* connection is sent what its own server prints and nothing else, and stdout is back at
\* the console after every run (mini-xinetd.c 147-161, 182, 230).
THEOREM ConnectionsStayApart == XinetdSpec => []ConnectionsApart
<1>1. XinetdInit => XInv
  BY XInit
<1>2. XInv /\ [XinetdNext]_xinetdVars => XInv'
  BY XStep
<1>3. XInv => ConnectionsApart
  BY DEF XInv, StdoutInv, DescriptorsInv, Closed, ConnectionsApart
<1> QED BY <1>1, <1>2, <1>3, PTL DEF XinetdSpec

-----------------------------------------------------------------------------
(* mini-xinetd: what is read of a configuration.                              *)

\* The definitions of ServicesAsWritten, for any configuration.
LastOf(ls, d, k, kind, default) ==
    LET set == {j \in d .. k : ls[j].kind = kind}
    IN IF set = {} THEN default ELSE ls[CHOOSE j \in set : \A m \in set : m <= j].value
Entry(ls, d, k) ==
    [name |-> ls[d].value, port |-> LastOf(ls, d, k, "port", "0"),
     server |-> LastOf(ls, d, k, "server", "")]
BracesOf(ls) == {k \in 1 .. Len(ls) : ls[k].kind = "brace"}
Declared(ls, k) ==
    {d \in 1 .. k : /\ ls[d].kind = "service"
                    /\ \A j \in d + 1 .. k - 1 : ls[j].kind \notin {"service", "brace"}}
Matched(ls) == \A k \in BracesOf(ls) : Declared(ls, k) # {}
Written(ls, found) ==
    /\ Len(found) = Cardinality(BracesOf(ls))
    /\ \A n \in 1 .. Len(found) :
          \E k \in BracesOf(ls) : \E d \in Declared(ls, k) :
             Cardinality({j \in BracesOf(ls) : j <= k}) = n /\ found[n] = Entry(ls, d, k)

\* A service is being declared, from line d on.
Open(ls, d) ==
    /\ d \in 1 .. Len(ls) /\ ls[d].kind = "service"
    /\ \A j \in d + 1 .. Len(ls) : ls[j].kind \notin {"service", "brace"}

Values == {l.value : l \in ConfigLines} \cup {None, "0", ""}
Service == [name : Values, port : Values, server : Values]
ParseInv ==
    phase = "parse" =>
        /\ lines \in Seq(ConfigLines) /\ services \in Seq(Service) /\ current \in Service
        /\ in \in BOOLEAN
        /\ in => \E d \in 1 .. Len(lines) : Open(lines, d) /\ current = Entry(lines, d, Len(lines))
        /\ ~in => \A d \in 1 .. Len(lines) : ~Open(lines, d)
        /\ Matched(lines) => Written(lines, services)

\* A set of numbers up to n has a greatest one.
LEMMA GreatestOf ==
    ASSUME NEW n \in Nat, NEW S \in SUBSET (1 .. n), S # {}
    PROVE  \E j \in S : \A m \in S : m <= j
<1> DEFINE T == {n - j : j \in S}
<1>1. T \in SUBSET Nat /\ T # {}
  <2>1. \A j \in S : n - j \in Nat
    OBVIOUS
  <2> QED BY <2>1
<1>2. PICK t \in T : \A u \in T : t <= u
  BY <1>1, LeastNat
<1>3. PICK j \in S : t = n - j
  BY <1>2
<1>4. \A m \in S : n - j <= n - m
  BY <1>2, <1>3
<1>5. \A m \in S : m <= j
  <2>1. j \in Int /\ \A m \in S : m \in Int
    OBVIOUS
  <2> QED BY <1>4, <2>1
<1> QED BY <1>5

\* What another line leaves of the lines before it.
LEMMA LineAdded ==
    ASSUME NEW ls \in Seq(ConfigLines), NEW l \in ConfigLines
    PROVE  LET ms == Append(ls, l) n == Len(ls)
           IN  /\ n \in Nat /\ ms \in Seq(ConfigLines) /\ Len(ms) = n + 1 /\ ms[n + 1] = l
               /\ \A k \in 1 .. n : ms[k] = ls[k]
  OBVIOUS

\* A line added at the end does not change the last field of a range before it.
LEMMA LastStays ==
    ASSUME NEW ls \in Seq(ConfigLines), NEW l \in ConfigLines,
           NEW d \in 1 .. Len(ls), NEW k \in 1 .. Len(ls), NEW kind, NEW default
    PROVE  LastOf(Append(ls, l), d, k, kind, default) = LastOf(ls, d, k, kind, default)
<1> DEFINE ms == Append(ls, l)
           S == {j \in d .. k : ls[j].kind = kind}
           T == {j \in d .. k : ms[j].kind = kind}
           c == CHOOSE j \in S : \A m \in S : m <= j
           e == CHOOSE j \in T : \A m \in T : m <= j
<1>1. Len(ls) \in Nat /\ \A j \in 1 .. Len(ls) : ms[j] = ls[j]
  BY LineAdded
<1> HIDE DEF ms
<1>2. T = S
  BY <1>1
<1>3. S # {} => c \in 1 .. Len(ls)
  <2>1. S \in SUBSET (1 .. Len(ls))
    BY <1>1
  <2>2. S # {} => \E j \in S : \A m \in S : m <= j
    BY <1>1, <2>1, GreatestOf
  <2> QED BY <2>1, <2>2
<1>4. LastOf(ms, d, k, kind, default) = IF S = {} THEN default ELSE ms[c].value
  <2>1. LastOf(ms, d, k, kind, default) = IF T = {} THEN default ELSE ms[e].value
    BY DEF LastOf
  <2>2. e = c
    BY <1>2
  <2> HIDE DEF S, T, c, e
  <2> QED BY <1>2, <2>1, <2>2
<1>5. LastOf(ls, d, k, kind, default) = IF S = {} THEN default ELSE ls[c].value
  BY DEF LastOf
<1> HIDE DEF S, c
<1> QED BY <1>1, <1>3, <1>4, <1>5 DEF ms

\* The last field of a range that takes in the added line.
LEMMA LastAdded ==
    ASSUME NEW ls \in Seq(ConfigLines), NEW l \in ConfigLines,
           NEW d \in 1 .. Len(ls), NEW kind, NEW default
    PROVE  LET n == Len(ls)
           IN  LastOf(Append(ls, l), d, n + 1, kind, default) =
                  IF l.kind = kind THEN l.value ELSE LastOf(ls, d, n, kind, default)
<1> DEFINE ms == Append(ls, l)
           n == Len(ls)
           S == {j \in d .. n : ls[j].kind = kind}
           T == {j \in d .. n + 1 : ms[j].kind = kind}
           c == CHOOSE j \in S : \A m \in S : m <= j
           e == CHOOSE j \in T : \A m \in T : m <= j
<1>1. n \in Nat /\ ms[n + 1] = l /\ \A j \in 1 .. n : ms[j] = ls[j]
  BY LineAdded
<1>2. n \in Nat /\ d \in 1 .. n
  BY <1>1
<1> HIDE DEF ms, n
<1>3. LastOf(ms, d, n + 1, kind, default) = IF T = {} THEN default ELSE ms[e].value
  BY DEF LastOf
<1>4. LastOf(ls, d, n, kind, default) = IF S = {} THEN default ELSE ls[c].value
  BY DEF LastOf
<1>5. CASE l.kind = kind
  <2>1. n + 1 \in T /\ \A m \in T : m <= n + 1
    BY <1>1, <1>2, <1>5
  <2>2. T \in SUBSET Int
    BY <1>2
  <2> HIDE DEF T
  <2>3. e = n + 1
    <3>1. e \in T /\ \A m \in T : m <= e
      BY <2>1
    <3>2. e \in Int /\ e <= n + 1 /\ n + 1 <= e
      BY <2>1, <2>2, <3>1
    <3> HIDE DEF e
    <3> QED BY <1>2, <3>2
  <2>4. T # {}
    BY <2>1
  <2> HIDE DEF e
  <2> QED BY <1>1, <1>3, <1>5, <2>3, <2>4 DEF ms, n
<1>6. CASE l.kind # kind
  <2>1. T = S
    BY <1>1, <1>2, <1>6
  <2>2. S # {} => c \in 1 .. n
    <3>1. S \in SUBSET (1 .. n)
      BY <1>2
    <3>2. S # {} => \E j \in S : \A m \in S : m <= j
      BY <1>2, <3>1, GreatestOf
    <3> QED BY <3>1, <3>2
  <2>3. e = c
    BY <2>1
  <2> HIDE DEF S, T, c, e
  <2> QED BY <1>1, <1>3, <1>4, <1>6, <2>1, <2>2, <2>3 DEF ms, n
<1> QED BY <1>5, <1>6

\* A declaration that is closed stays as it is.
LEMMA EntryStays ==
    ASSUME NEW ls \in Seq(ConfigLines), NEW l \in ConfigLines,
           NEW d \in 1 .. Len(ls), NEW k \in 1 .. Len(ls)
    PROVE  Entry(Append(ls, l), d, k) = Entry(ls, d, k)
<1>1. Append(ls, l)[d] = ls[d]
  BY LineAdded
<1>2. LastOf(Append(ls, l), d, k, "port", "0") = LastOf(ls, d, k, "port", "0")
  BY LastStays
<1>3. LastOf(Append(ls, l), d, k, "server", "") = LastOf(ls, d, k, "server", "")
  <2> DEFINE empty == ""
  <2> HIDE DEF empty
  <2>1. LastOf(Append(ls, l), d, k, "server", empty) = LastOf(ls, d, k, "server", empty)
    BY LastStays
  <2> QED BY <2>1 DEF empty
<1> QED BY <1>1, <1>2, <1>3, Zenon DEF Entry

\* The braces and declarations of a configuration with one more line.
LEMMA BracesAdded ==
    ASSUME NEW ls \in Seq(ConfigLines), NEW l \in ConfigLines
    PROVE  LET ms == Append(ls, l) n == Len(ls)
           IN  /\ l.kind = "brace" => BracesOf(ms) = BracesOf(ls) \cup {n + 1}
               /\ l.kind # "brace" => BracesOf(ms) = BracesOf(ls)
               /\ BracesOf(ls) \subseteq 1 .. n /\ n + 1 \notin BracesOf(ls)
               /\ IsFiniteSet(BracesOf(ls)) /\ Cardinality(BracesOf(ls)) \in Nat
               /\ l.kind = "brace" => Cardinality(BracesOf(ms)) = Cardinality(BracesOf(ls)) + 1
               /\ \A k \in 1 .. n : Declared(ms, k) = Declared(ls, k)
<1> DEFINE ms == Append(ls, l)
           n == Len(ls)
<1>1. n \in Nat /\ Len(ms) = n + 1 /\ ms[n + 1] = l /\ \A k \in 1 .. n : ms[k] = ls[k]
  BY LineAdded
<1> HIDE DEF ms, n
<1>2. BracesOf(ls) \subseteq 1 .. n /\ n + 1 \notin BracesOf(ls)
  BY <1>1 DEF BracesOf, n
<1>3. /\ l.kind = "brace" => BracesOf(ms) = BracesOf(ls) \cup {n + 1}
      /\ l.kind # "brace" => BracesOf(ms) = BracesOf(ls)
  BY <1>1 DEF BracesOf, n
<1>4. IsFiniteSet(BracesOf(ls)) /\ Cardinality(BracesOf(ls)) \in Nat
  <2>1. IsFiniteSet(1 .. n)
    BY <1>1, FS_Interval
  <2> QED BY <1>2, <2>1, FS_Subset, FS_CardinalityType
<1>5. l.kind = "brace" => Cardinality(BracesOf(ms)) = Cardinality(BracesOf(ls)) + 1
  BY <1>2, <1>3, <1>4, FS_AddElement
<1>6. ASSUME NEW k \in 1 .. n PROVE Declared(ms, k) = Declared(ls, k)
  <2>1. \A j \in 1 .. k : ms[j] = ls[j]
    BY <1>1
  <2> QED BY <1>1, <2>1 DEF Declared
<1> QED BY <1>2, <1>3, <1>4, <1>5, <1>6 DEF ms, n

\* What was found of the lines so far is what is found of them in the longer list.
LEMMA FoundStays ==
    ASSUME NEW ls \in Seq(ConfigLines), NEW l \in ConfigLines,
           NEW k \in BracesOf(ls), NEW d \in Declared(ls, k)
    PROVE  LET ms == Append(ls, l)
           IN  /\ k \in BracesOf(ms) /\ d \in Declared(ms, k) /\ Entry(ms, d, k) = Entry(ls, d, k)
               /\ {j \in BracesOf(ms) : j <= k} = {j \in BracesOf(ls) : j <= k}
<1> DEFINE ms == Append(ls, l)
           n == Len(ls)
<1>1. /\ BracesOf(ms) = BracesOf(ls) \/ BracesOf(ms) = BracesOf(ls) \cup {n + 1}
      /\ BracesOf(ls) \subseteq 1 .. n
      /\ \A i \in 1 .. n : Declared(ms, i) = Declared(ls, i)
  BY BracesAdded
<1>2. k \in 1 .. n /\ n \in Nat
  BY <1>1
<1>3. d \in 1 .. n
  BY <1>2 DEF Declared
<1>4. Entry(ms, d, k) = Entry(ls, d, k)
  BY <1>2, <1>3, EntryStays
<1> HIDE DEF ms, n
<1>5. {j \in BracesOf(ms) : j <= k} = {j \in BracesOf(ls) : j <= k}
  BY <1>1, <1>2
<1> QED BY <1>1, <1>2, <1>4, <1>5 DEF ms, n

LEMMA MatchedBefore ==
    ASSUME NEW ls \in Seq(ConfigLines), NEW l \in ConfigLines, Matched(Append(ls, l))
    PROVE  Matched(ls)
  BY BracesAdded DEF Matched

\* A line without a brace ends no declaration.
LEMMA NoBraceFound ==
    ASSUME NEW ls \in Seq(ConfigLines), NEW l \in ConfigLines, NEW found, l.kind # "brace",
           Written(ls, found)
    PROVE  Written(Append(ls, l), found)
<1> DEFINE ms == Append(ls, l)
<1>1. BracesOf(ms) = BracesOf(ls)
  BY BracesAdded
<1>2. ASSUME NEW n \in 1 .. Len(found)
      PROVE  \E k \in BracesOf(ms) : \E d \in Declared(ms, k) :
                Cardinality({j \in BracesOf(ms) : j <= k}) = n /\ found[n] = Entry(ms, d, k)
  <2>1. PICK k \in BracesOf(ls) : \E d \in Declared(ls, k) :
            Cardinality({j \in BracesOf(ls) : j <= k}) = n /\ found[n] = Entry(ls, d, k)
    BY DEF Written
  <2>2. PICK d \in Declared(ls, k) :
            Cardinality({j \in BracesOf(ls) : j <= k}) = n /\ found[n] = Entry(ls, d, k)
    BY <2>1
  <2>3. /\ k \in BracesOf(ms) /\ d \in Declared(ms, k) /\ Entry(ms, d, k) = Entry(ls, d, k)
        /\ {j \in BracesOf(ms) : j <= k} = {j \in BracesOf(ls) : j <= k}
    BY FoundStays
  <2> HIDE DEF ms
  <2> QED BY <2>2, <2>3
<1> HIDE DEF ms
<1>3. Len(found) = Cardinality(BracesOf(ms))
  BY <1>1 DEF Written
<1>4. Written(ms, found)
  BY <1>2, <1>3 DEF Written
<1> QED BY <1>4 DEF ms

\* A closing brace adds the open declaration to the services written.
LEMMA BraceFound ==
    ASSUME NEW ls \in Seq(ConfigLines), NEW l \in ConfigLines, l.kind = "brace",
           NEW S, NEW found \in Seq(S), NEW e \in S, NEW d \in Nat,
           Written(ls, found), Open(ls, d), e = Entry(ls, d, Len(ls))
    PROVE  Written(Append(ls, l), Append(found, e))
<1> DEFINE ms == Append(ls, l)
           k == Len(ls) + 1
           more == Append(found, e)
           Found(n) == \E i \in BracesOf(ms) : \E c \in Declared(ms, i) :
                          /\ Cardinality({j \in BracesOf(ms) : j <= i}) = n
                          /\ more[n] = Entry(ms, c, i)
<1>1. /\ Len(ls) \in Nat /\ Len(ms) = k /\ ms[k] = l /\ \A j \in 1 .. Len(ls) : ms[j] = ls[j]
      /\ d \in 1 .. Len(ls)
  BY LineAdded DEF Open
<1>2. /\ BracesOf(ms) = BracesOf(ls) \cup {k} /\ BracesOf(ls) \subseteq 1 .. Len(ls)
      /\ Cardinality(BracesOf(ms)) = Cardinality(BracesOf(ls)) + 1
      /\ Cardinality(BracesOf(ls)) \in Nat
  BY BracesAdded
<1>3. /\ Len(more) = Len(found) + 1 /\ more[Len(found) + 1] = e /\ Len(found) \in Nat
      /\ \A n \in 1 .. Len(found) : more[n] = found[n]
  OBVIOUS
<1>4. Len(found) = Cardinality(BracesOf(ls))
  BY DEF Written
<1>5. Len(more) = Cardinality(BracesOf(ms))
  BY <1>2, <1>3, <1>4
<1>6. ASSUME NEW n \in 1 .. Len(found) PROVE Found(n)
  <2>1. PICK i \in BracesOf(ls) : \E c \in Declared(ls, i) :
            Cardinality({j \in BracesOf(ls) : j <= i}) = n /\ found[n] = Entry(ls, c, i)
    BY DEF Written
  <2>2. PICK c \in Declared(ls, i) :
            Cardinality({j \in BracesOf(ls) : j <= i}) = n /\ found[n] = Entry(ls, c, i)
    BY <2>1
  <2>3. /\ i \in BracesOf(ms) /\ c \in Declared(ms, i) /\ Entry(ms, c, i) = Entry(ls, c, i)
        /\ {j \in BracesOf(ms) : j <= i} = {j \in BracesOf(ls) : j <= i}
    BY FoundStays
  <2>4. more[n] = found[n]
    BY <1>3
  <2> HIDE DEF ms, more
  <2> QED BY <2>2, <2>3, <2>4
<1>7. Found(Len(found) + 1)
  <2>1. k \in BracesOf(ms)
    BY <1>2
  <2>2. d \in Declared(ms, k)
    <3>1. ms[d].kind = "service" /\ d \in 1 .. k
      BY <1>1 DEF Open
    <3>2. \A j \in d + 1 .. k - 1 : j \in 1 .. Len(ls)
      BY <1>1
    <3>3. \A j \in d + 1 .. k - 1 : ms[j].kind \notin {"service", "brace"}
      BY <1>1, <3>2 DEF Open
    <3> HIDE DEF ms, k
    <3> QED BY <3>1, <3>3 DEF Declared
  <2>3. {j \in BracesOf(ms) : j <= k} = BracesOf(ms)
    BY <1>1, <1>2
  <2>4. Entry(ms, d, k) = e
    <3>1. l.kind # "port" /\ l.kind # "server"
      OBVIOUS
    <3>2. LastOf(ms, d, k, "port", "0") = LastOf(ls, d, Len(ls), "port", "0")
      BY <1>1, <3>1, LastAdded
    <3>3. LastOf(ms, d, k, "server", "") = LastOf(ls, d, Len(ls), "server", "")
      <4> DEFINE empty == ""
      <4> HIDE DEF empty
      <4>1. LastOf(ms, d, k, "server", empty) = LastOf(ls, d, Len(ls), "server", empty)
        BY <1>1, <3>1, LastAdded
      <4> QED BY <4>1 DEF empty
    <3>4. ms[d].value = ls[d].value
      BY <1>1
    <3> HIDE DEF ms, k
    <3> QED BY <3>2, <3>3, <3>4, Zenon DEF Entry
  <2>5. more[Len(found) + 1] = e /\ Cardinality(BracesOf(ms)) = Len(found) + 1
    BY <1>2, <1>3, <1>4
  <2> HIDE DEF ms, k, more
  <2> QED BY <2>1, <2>2, <2>3, <2>4, <2>5
<1> HIDE DEF ms, more, Found
<1>8. ASSUME NEW n \in 1 .. Len(more) PROVE Found(n)
  <2>1. n \in 1 .. Len(found) \/ n = Len(found) + 1
    BY <1>3
  <2> QED BY <1>6, <1>7, <2>1
<1>9. Written(ms, more)
  BY <1>5, <1>8 DEF Written, Found
<1> QED BY <1>9 DEF ms, more

\* The declaration that is open, after another line.
LEMMA OpenAdded ==
    ASSUME NEW ls \in Seq(ConfigLines), NEW l \in ConfigLines
    PROVE  LET ms == Append(ls, l) n == Len(ls)
           IN  /\ l.kind = "service" => Open(ms, n + 1)
               /\ l.kind = "brace" => \A d \in Nat : ~Open(ms, d)
               /\ l.kind \notin {"service", "brace"} => \A d \in Nat : Open(ms, d) <=> Open(ls, d)
<1> DEFINE ms == Append(ls, l)
           n == Len(ls)
<1>1. n \in Nat /\ Len(ms) = n + 1 /\ ms[n + 1] = l /\ \A k \in 1 .. n : ms[k] = ls[k]
  BY LineAdded
<1> HIDE DEF ms, n
<1>2. l.kind = "service" => Open(ms, n + 1)
  BY <1>1 DEF Open
<1>3. ASSUME l.kind = "brace", NEW d \in Nat, Open(ms, d) PROVE FALSE
  <2>1. d # n + 1 /\ d \in 1 .. n + 1
    BY <1>1, <1>3 DEF Open
  <2>2. n + 1 \in d + 1 .. n + 1
    BY <1>1, <2>1
  <2> QED BY <1>1, <1>3, <2>2 DEF Open
<1>4. ASSUME l.kind \notin {"service", "brace"}, NEW d \in Nat PROVE Open(ms, d) <=> Open(ls, d)
  <2>1. ASSUME Open(ms, d) PROVE Open(ls, d)
    <3>1. d \in 1 .. n /\ ls[d].kind = "service"
      BY <1>1, <1>4, <2>1 DEF Open
    <3>2. ASSUME NEW j \in d + 1 .. n PROVE ls[j].kind \notin {"service", "brace"}
      <4>1. j \in d + 1 .. n + 1 /\ ms[j] = ls[j]
        BY <1>1, <3>1
      <4> QED BY <1>1, <2>1, <4>1 DEF Open
    <3> QED BY <3>1, <3>2 DEF Open, n
  <2>2. ASSUME Open(ls, d) PROVE Open(ms, d)
    <3>1. d \in 1 .. n + 1 /\ ms[d].kind = "service"
      BY <1>1, <2>2 DEF Open, n
    <3>2. ASSUME NEW j \in d + 1 .. n + 1 PROVE ms[j].kind \notin {"service", "brace"}
      <4>1. j = n + 1 \/ (j \in d + 1 .. n /\ ms[j] = ls[j])
        BY <1>1, <3>1
      <4> QED BY <1>1, <1>4, <2>2, <4>1 DEF Open, n
    <3> QED BY <1>1, <3>1, <3>2 DEF Open
  <2> QED BY <2>1, <2>2
<1> QED BY <1>2, <1>3, <1>4 DEF ms, n

LEMMA ParseInit == XinetdInit => ParseInv
<1> SUFFICES ASSUME XinetdInit PROVE ParseInv
  OBVIOUS
<1>1. lines = <<>> /\ services = <<>> /\ in = FALSE /\ current = Unset
  BY DEF XinetdInit
<1>2. Len(lines) = 0 /\ lines \in Seq(ConfigLines) /\ services \in Seq(Service) /\ Len(services) = 0
  BY <1>1
<1>3. current \in Service
  BY <1>1 DEF Unset, Service, Values
<1>4. Written(lines, services)
  <2>1. BracesOf(lines) = {}
    BY <1>2 DEF BracesOf
  <2> QED BY <1>2, <2>1, FS_EmptySet DEF Written
<1>5. in \in BOOLEAN /\ ~in
  BY <1>1, Zenon
<1>6. \A d \in 1 .. Len(lines) : ~Open(lines, d)
  BY <1>2
<1> QED BY <1>2, <1>3, <1>4, <1>5, <1>6, Zenon DEF ParseInv

LEMMA ParsesLine == ASSUME ParseInv, NEW l \in ConfigLines, ParseLine(l) PROVE ParseInv'
<1> SUFFICES ASSUME phase' = "parse" PROVE ParseInv'
  BY DEF ParseInv
<1> DEFINE n == Len(lines)
<1>1. /\ phase = "parse" /\ lines' = Append(lines, l)
      /\ l.kind \in {"service", "brace", "port", "server", "none"}
  BY DEF ParseLine
<1>2. /\ lines \in Seq(ConfigLines) /\ services \in Seq(Service) /\ current \in Service /\ in \in BOOLEAN
      /\ in => \E d \in 1 .. n : Open(lines, d) /\ current = Entry(lines, d, n)
      /\ ~in => \A d \in 1 .. n : ~Open(lines, d)
      /\ Matched(lines) => Written(lines, services)
  BY <1>1 DEF ParseInv
<1>3. n \in Nat /\ lines' \in Seq(ConfigLines) /\ Len(lines') = n + 1 /\ lines'[n + 1] = l
      /\ \A k \in 1 .. n : lines'[k] = lines[k]
  BY <1>1, <1>2, LineAdded
<1>4. l.value \in Values
  BY DEF Values
<1>5. Matched(lines') => Matched(lines)
  BY <1>1, <1>2, MatchedBefore
<1>6. ASSUME l.kind # "brace", services' = services
      PROVE  Matched(lines') => Written(lines', services')
  BY <1>1, <1>2, <1>5, <1>6, NoBraceFound
<1>7. CASE l.kind = "service"
  <2>1. current' = [name |-> l.value, port |-> "0", server |-> ""] /\ in' = TRUE /\ services' = services
    BY <1>7 DEF ParseLine, Declare
  <2>2. current' \in Service
    BY <1>4, <2>1 DEF Service, Values
  <2>3. Open(lines', n + 1)
    BY <1>1, <1>2, <1>7, OpenAdded
  <2>4. current' = Entry(lines', n + 1, n + 1)
    <3>1. {j \in n + 1 .. n + 1 : lines'[j].kind = "port"} = {}
      BY <1>3, <1>7
    <3>2. {j \in n + 1 .. n + 1 : lines'[j].kind = "server"} = {}
      BY <1>3, <1>7
    <3>3. LastOf(lines', n + 1, n + 1, "port", "0") = "0"
      BY <3>1, Zenon DEF LastOf
    <3>4. LastOf(lines', n + 1, n + 1, "server", "") = ""
      BY <3>2, Zenon DEF LastOf
    <3>5. lines'[n + 1].value = l.value
      BY <1>3
    <3> QED BY <2>1, <3>3, <3>4, <3>5, Zenon DEF Entry
  <2>5. Matched(lines') => Written(lines', services')
    BY <1>6, <1>7, <2>1
  <2>6. \E d \in 1 .. Len(lines') : Open(lines', d) /\ current' = Entry(lines', d, Len(lines'))
    BY <1>3, <2>3, <2>4
  <2> QED BY <1>2, <1>3, <2>1, <2>2, <2>5, <2>6 DEF ParseInv
<1>8. CASE l.kind = "brace"
  <2>1. services' = Append(services, current) /\ in' = FALSE /\ current' = current
    BY <1>1, <1>8 DEF ParseLine
  <2>2. \A d \in 1 .. Len(lines') : ~Open(lines', d)
    <3>1. \A d \in Nat : ~Open(lines', d)
      BY <1>1, <1>2, <1>8, OpenAdded
    <3>2. 1 .. Len(lines') \subseteq Nat
      OBVIOUS
    <3> QED BY <3>1, <3>2
  <2>3. services' \in Seq(Service)
    BY <1>2, <2>1
  <2>4. ASSUME Matched(lines') PROVE Written(lines', services')
    <3>1. Written(lines, services)
      BY <1>2, <1>5, <2>4
    <3>2. PICK d \in 1 .. n : Open(lines, d) /\ current = Entry(lines, d, n)
      <4>1. n + 1 \in BracesOf(lines')
        BY <1>3, <1>8 DEF BracesOf
      <4>2. PICK c \in Declared(lines', n + 1) : TRUE
        BY <2>4, <4>1 DEF Matched
      <4>3. c \in 1 .. n + 1 /\ lines'[c].kind = "service"
            /\ \A j \in c + 1 .. n + 1 - 1 : lines'[j].kind \notin {"service", "brace"}
        BY <4>2 DEF Declared
      <4>4. c \in 1 .. n /\ lines[c].kind = "service"
        BY <1>3, <1>8, <4>3
      <4>5. ASSUME NEW j \in c + 1 .. n PROVE lines[j].kind \notin {"service", "brace"}
        <5>1. j \in 1 .. n /\ j \in c + 1 .. n + 1 - 1
          BY <1>3, <4>4
        <5> QED BY <1>3, <4>3, <5>1
      <4>6. Open(lines, c)
        BY <4>4, <4>5 DEF Open
      <4> QED BY <1>2, <4>4, <4>6
    <3>3. d \in Nat
      BY <1>3
    <3> QED BY <1>1, <1>2, <1>8, <2>1, <3>1, <3>2, <3>3, BraceFound
  <2> QED BY <1>2, <1>3, <2>1, <2>2, <2>3, <2>4 DEF ParseInv
<1>9. CASE l.kind \in {"port", "server", "none"}
  <2>1. /\ services' = services /\ in' = in
        /\ current' = IF ~in \/ l.kind = "none" THEN current
                      ELSE IF l.kind = "port" THEN [current EXCEPT !.port = l.value]
                      ELSE [current EXCEPT !.server = l.value]
    BY <1>9 DEF ParseLine
  <2>2. current' \in Service
    BY <1>2, <1>4, <2>1 DEF Service
  <2>3. \A d \in Nat : Open(lines', d) <=> Open(lines, d)
    BY <1>1, <1>2, <1>9, OpenAdded
  <2>4. Matched(lines') => Written(lines', services')
    BY <1>6, <1>9, <2>1
  <2>5. CASE ~in
    <3>1. \A d \in 1 .. Len(lines') : ~Open(lines', d)
      <4>1. \A d \in 1 .. Len(lines') : d \in Nat
        OBVIOUS
      <4>2. \A d \in Nat : Open(lines, d) => d \in 1 .. n
        BY DEF Open
      <4> QED BY <1>2, <2>3, <2>5, <4>1, <4>2
    <3> QED BY <1>2, <1>3, <2>1, <2>2, <2>4, <2>5, <3>1 DEF ParseInv
  <2>6. CASE in
    <3>1. PICK d \in 1 .. n : Open(lines, d) /\ current = Entry(lines, d, n)
      BY <1>2, <2>6
    <3>2. d \in Nat /\ d \in 1 .. Len(lines') /\ Open(lines', d)
      BY <1>3, <2>3, <3>1
    <3>3. current' = Entry(lines', d, n + 1)
      <4>1. lines'[d].value = lines[d].value
        BY <1>3
      <4> DEFINE empty == ""
      <4> HIDE DEF empty
      <4> DEFINE p == LastOf(lines, d, n, "port", "0")
                 s == LastOf(lines, d, n, "server", empty)
      <4>2. LastOf(lines', d, n + 1, "port", "0") = IF l.kind = "port" THEN l.value ELSE p
        BY <1>1, <1>2, LastAdded
      <4>3. LastOf(lines', d, n + 1, "server", empty) = IF l.kind = "server" THEN l.value ELSE s
        <5>1. ASSUME NEW default
              PROVE  LastOf(Append(lines, l), d, n + 1, "server", default) =
                        IF l.kind = "server" THEN l.value ELSE LastOf(lines, d, n, "server", default)
          BY <1>2, <3>1, LastAdded
        <5> QED BY <1>1, <5>1, Zenon
      <4>4. current = [name |-> lines[d].value, port |-> p, server |-> s]
        BY <3>1 DEF Entry, empty
      <4>5. Entry(lines', d, n + 1) =
               [name |-> lines'[d].value, port |-> LastOf(lines', d, n + 1, "port", "0"),
                server |-> LastOf(lines', d, n + 1, "server", empty)]
        BY DEF Entry, empty
      <4> HIDE DEF p, s, n
      <4>6. CASE l.kind = "none"
        BY <2>1, <4>1, <4>2, <4>3, <4>4, <4>5, <4>6
      <4>7. CASE l.kind = "port"
        BY <2>1, <2>6, <4>1, <4>2, <4>3, <4>4, <4>5, <4>7
      <4>8. CASE l.kind = "server"
        BY <2>1, <2>6, <4>1, <4>2, <4>3, <4>4, <4>5, <4>8
      <4> QED BY <1>9, <4>6, <4>7, <4>8
    <3>4. \E c \in 1 .. Len(lines') : Open(lines', c) /\ current' = Entry(lines', c, Len(lines'))
      BY <1>3, <3>2, <3>3
    <3> QED BY <1>2, <1>3, <2>1, <2>2, <2>4, <2>6, <3>4 DEF ParseInv
  <2> QED BY <1>2, <2>5, <2>6
<1> QED BY <1>1, <1>7, <1>8, <1>9

LEMMA ParseStep == ASSUME ParseInv, [XinetdNext]_xinetdVars PROVE ParseInv'
<1>1. ASSUME phase' # "parse" PROVE ParseInv'
  BY <1>1 DEF ParseInv
<1>2. ASSUME UNCHANGED <<phase, config>> PROVE ParseInv'
  BY <1>2 DEF ParseInv, config
<1>3. ASSUME NEW l \in ConfigLines, ParseLine(l) PROVE ParseInv'
  BY <1>3, ParsesLine
<1>4. CASE EndOfConfig \/ start_listener \/ Listening
  <2>1. phase' # "parse"
    BY <1>4 DEF EndOfConfig, start_listener, Listening
  <2> QED BY <1>1, <2>1
<1>5. CASE XinetdQuiet \/ UNCHANGED xinetdVars
  BY <1>2, <1>5 DEF XinetdQuiet, xinetdVars
<1>6. ASSUME NEW c \in Conns, NEW i \in listening, AcceptConnection(i, c) PROVE ParseInv'
  <2>1. phase' # "parse"
    BY <1>6 DEF AcceptConnection, Prints
  <2> QED BY <1>1, <2>1
<1>7. ASSUME NEW c \in Conns, Thread(c) PROVE ParseInv'
  <2>1. phase' # "parse"
    BY <1>7 DEF Thread, Lookup, OpenStreams, HaveStreams, LackStream, SaveStdout, SetStdout, Run,
                RestoreStdout, CloseConnection, Step, Prints
  <2> QED BY <1>1, <2>1
<1> QED BY <1>3, <1>4, <1>5, <1>6, <1>7 DEF XinetdNext

\* The services of a configuration of any length whose braces match are those written in it,
\* each with its own name, port and server, whatever the service before it had
\* (mini-xinetd.c 80-112).
THEOREM ServicesReadAsWritten == XinetdSpec => []ServicesAsWritten
<1>1. ASSUME ParseInv, WellFormed, phase = "parse"
      PROVE  /\ Len(services) = Cardinality(Braces)
             /\ \A n \in DOMAIN services :
                   \E k \in Braces : \E d \in DeclarationOf(k) :
                      /\ Cardinality({j \in Braces : j <= k}) = n
                      /\ services[n] = [name |-> lines[d].value,
                                        port |-> LastValue(d, k, "port", "0"),
                                        server |-> LastValue(d, k, "server", "")]
  <2>1. lines \in Seq(ConfigLines) /\ services \in Seq(Service)
    BY <1>1 DEF ParseInv
  <2>2. DOMAIN lines = 1 .. Len(lines) /\ DOMAIN services = 1 .. Len(services)
    BY <2>1
  <2>3. Braces = BracesOf(lines)
    BY <2>2 DEF Braces, Kind, BracesOf
  <2>4. \A k : DeclarationOf(k) = Declared(lines, k)
    BY DEF DeclarationOf, Kind, Declared
  <2>5. \A d, k : Entry(lines, d, k) = [name |-> lines[d].value,
                                        port |-> LastValue(d, k, "port", "0"),
                                        server |-> LastValue(d, k, "server", "")]
    BY DEF LastValue, Kind, Entry, LastOf
  <2>6. Written(lines, services)
    BY <1>1, <2>3, <2>4 DEF ParseInv, WellFormed, Matched
  <2>7. Len(services) = Cardinality(Braces)
    BY <2>3, <2>6, Zenon DEF Written
  <2>8. ASSUME NEW n \in DOMAIN services
        PROVE  \E k \in Braces : \E d \in DeclarationOf(k) :
                  /\ Cardinality({j \in Braces : j <= k}) = n
                  /\ services[n] = Entry(lines, d, k)
    BY <2>2, <2>3, <2>4, <2>6, Zenon DEF Written
  <2> QED BY <2>5, <2>7, <2>8, Zenon
<1>2. ASSUME NEW S PROVE Cardinality(S) = Cardinality(S)
  BY DEF Cardinality, Cardinality
<1>3. ParseInv => ServicesAsWritten
  BY <1>1, <1>2, Zenon DEF ServicesAsWritten
<1> QED BY <1>3, ParseInit, ParseStep, PTL DEF XinetdSpec
=============================================================================
