-------------------------- MODULE NbdSessionProofs --------------------------
(***************************************************************************)
(* Proofs about the client threads of an NBD server and the pool they      *)
(* share, for every number of clients, contexts and exports.               *)
(***************************************************************************)
EXTENDS NbdSession, WellFoundedInduction, TLAPS

\* The least-number principle, for the loops that stop at the first slot they want.
LEMMA LeastNat ==
    ASSUME NEW S \in SUBSET Nat, S # {}
    PROVE  \E m \in S : \A n \in S : m <= n
<1> DEFINE R == OpToRel(<, Nat)
<1>1. \A x, y \in Nat : x < y => <<x, y>> \in R
  BY DEF OpToRel
<1>2. IsWellFoundedOn(R, Nat)
  BY NatLessThanWellFounded
<1> HIDE DEF R
<1>3. PICK m \in S : \A n \in S : ~(<<n, m>> \in R)
  BY <1>2, WFMin
<1>4. \A n \in S : ~(n < m)
  BY <1>1, <1>3, Zenon
<1> QED BY <1>4

-----------------------------------------------------------------------------
(* The pool.                                                                  *)

LEMMA FirstFreeProps ==
    ASSUME NEW n \in Nat, NEW status
    PROVE  LET i == FirstFree(status, n)
           IN  /\ i \in 0 .. n
               /\ i < n => status[i] = "FREE"
               /\ \A j \in 0 .. n - 1 : j < i => status[j] # "FREE"
<1> DEFINE T == {i \in 0 .. n : i < n => status[i] = "FREE"}
<1>1. n \in T /\ T \in SUBSET Nat
  OBVIOUS
<1>2. PICK m \in T : \A i \in T : m <= i
  BY <1>1, LeastNat
<1>3. ASSUME NEW j \in 0 .. n - 1, j < m PROVE status[j] # "FREE"
  <2> SUFFICES ASSUME status[j] = "FREE" PROVE FALSE
    OBVIOUS
  <2>1. j \in T
    OBVIOUS
  <2> QED BY <1>2, <1>3, <2>1
<1>4. m \in 0 .. n /\ (m < n => status[m] = "FREE")
  BY <1>2
<1> QED BY <1>3, <1>4 DEF FirstFree

\* lwnbd_contexts_count, and what a full or a packed table has to do with it.
LEMMA CountProps ==
    /\ lwnbd_contexts_count \in 0 .. MaxContexts
    /\ lwnbd_contexts_count < MaxContexts => contexts_status[lwnbd_contexts_count] = "FREE"
    /\ \A j \in Index : j < lwnbd_contexts_count => contexts_status[j] # "FREE"
  BY MaxContextsAssumption, FirstFreeProps DEF lwnbd_contexts_count, Index

LEMMA CountPropsNext ==
    /\ lwnbd_contexts_count' \in 0 .. MaxContexts
    /\ lwnbd_contexts_count' < MaxContexts => contexts_status'[lwnbd_contexts_count'] = "FREE"
    /\ \A j \in Index : j < lwnbd_contexts_count' => contexts_status'[j] # "FREE"
  BY MaxContextsAssumption, FirstFreeProps DEF lwnbd_contexts_count, Index

\* The lookup by name finds a context of that name, if there is one.
LEMMA LookupFinds ==
    ASSUME NEW name, lwnbd_get_context_string(name) # NULL
    PROVE  lwnbd_get_context_string(name) \in Matches(name)
<1>1. Matches(name) # {} /\ Matches(name) \in SUBSET Nat
  BY MaxContextsAssumption DEF lwnbd_get_context_string, Matches, Index
<1>2. \E m \in Matches(name) : \A n \in Matches(name) : m <= n
  BY <1>1, LeastNat
<1> QED BY <1>1, <1>2 DEF lwnbd_get_context_string

-----------------------------------------------------------------------------
(* The invariant: what each thread knows of the pool stays true while the     *)
(* others fill it, because the count only grows.                              *)

Labels == {"idle", "scan", "claim", "dispatch", "transmission", "greet", "flags", "option",
           "EXPORT_NAME", "ABORT", "LIST", "OTHER", "grant", "list_ack"}

Locals == [state : {"HANDSHAKE", "TRANSMISSION"}, ctx : {NULL} \cup Index, slot : Nat,
           cflags : Nat, opt : Options \cup {NoOption}, i : Nat, listed : Seq(Nat), upto : Nat]

TypeOK ==
    /\ pc \in [Clients -> Labels]
    /\ local \in [Clients -> Locals]
    /\ contexts_status \in [Index -> {"FREE", "CREATED"}]
    /\ server \in [state : {"HANDSHAKE", "TRANSMISSION", "ABORT"}, preinit : BOOLEAN,
                   default : {NULL, 0}, gflags : {0}]

Listing(r) == Len(r.listed) = r.i /\ \A k \in 1 .. r.i : r.listed[k] = k - 1

\* A thread at label l with locals r, while the pool has n contexts.
ThreadOK(l, r, n) ==
    /\ l = "claim" => Len(Exported) <= r.slot /\ r.slot <= n /\ r.slot < MaxContexts
    /\ l \notin {"idle", "scan", "claim"} => r.ctx < n
    /\ l = "LIST" => r.upto <= n /\ r.i <= n /\ Listing(r)
    /\ l = "list_ack" => r.upto <= r.i /\ r.i <= n /\ Listing(r)

PoolInv ==
    /\ NoHole
    /\ Len(Exported) <= lwnbd_contexts_count
    /\ server.default = 0 => Len(Exported) > 0

ThreadsInv == \A c \in Clients : ThreadOK(pc[c], local[c], lwnbd_contexts_count)

Inv == TypeOK /\ PoolInv /\ ThreadsInv

LEMMA Grows ==
    ASSUME NEW l, NEW r \in Locals, NEW m \in Nat, NEW n \in Nat, ThreadOK(l, r, m), m <= n
    PROVE  ThreadOK(l, r, n)
<1>1. r.ctx \in Int /\ r.slot \in Nat /\ r.upto \in Nat /\ r.i \in Nat
  BY MaxContextsAssumption DEF Locals, NULL, Index
<1> QED BY <1>1 DEF ThreadOK

LEMMA FreshLocals == Fresh \in Locals
  BY DEF Fresh, Locals, NoOption

LEMMA InitInv == Init => Inv
<1> SUFFICES ASSUME Init PROVE Inv
  OBVIOUS
<1>1. Len(Exported) \in Nat /\ Len(Exported) <= MaxContexts
  BY ExportedAssumption
<1>2. TypeOK
  BY FreshLocals DEF Init, TypeOK, Labels
<1>3. NoHole
  BY <1>1, MaxContextsAssumption DEF Init, NoHole, Packed, Index
<1>4. Len(Exported) <= lwnbd_contexts_count
  <2>1. CASE lwnbd_contexts_count = MaxContexts
    BY <1>1, <2>1
  <2>2. CASE lwnbd_contexts_count # MaxContexts
    <3>1. lwnbd_contexts_count \in Index /\ contexts_status[lwnbd_contexts_count] = "FREE"
      BY <2>2, CountProps, MaxContextsAssumption DEF Index
    <3> QED BY <1>1, <3>1, MaxContextsAssumption DEF Init, Index
  <2> QED BY <2>1, <2>2
<1>5. ThreadsInv
  BY DEF Init, ThreadsInv, ThreadOK
<1> QED BY <1>2, <1>3, <1>4, <1>5 DEF Inv, PoolInv, Init

\* A thread that leaves the pool alone.
LEMMA Moves ==
    ASSUME Inv, NEW c \in Clients, NEW l \in Labels, NEW r \in Locals,
           pc' = [pc EXCEPT ![c] = l], local' = [local EXCEPT ![c] = r],
           UNCHANGED pool,
           server' = server \/ \E s \in {"TRANSMISSION", "ABORT"} :
                                   server' = [server EXCEPT !.state = s],
           ThreadOK(l, r, lwnbd_contexts_count)
    PROVE  Inv'
<1>1. UNCHANGED <<contexts, contexts_status>> /\ lwnbd_contexts_count' = lwnbd_contexts_count
  BY DEF pool, lwnbd_contexts_count
<1>2. TypeOK'
  BY <1>1 DEF Inv, TypeOK
<1>3. PoolInv'
  <2>1. server'.default = server.default
    BY DEF Inv, TypeOK
  <2> QED BY <1>1, <2>1 DEF Inv, PoolInv, NoHole
<1>4. ThreadsInv'
  <2> SUFFICES ASSUME NEW d \in Clients
               PROVE  ThreadOK(pc[d], local[d], lwnbd_contexts_count)'
    BY DEF ThreadsInv
  <2>1. pc'[d] = (IF d = c THEN l ELSE pc[d]) /\ local'[d] = (IF d = c THEN r ELSE local[d])
    BY DEF Inv, TypeOK
  <2>2. ThreadOK(pc'[d], local'[d], lwnbd_contexts_count)
    BY <2>1 DEF Inv, ThreadsInv
  <2> QED BY <1>1, <2>2 DEF ThreadOK
<1> QED BY <1>2, <1>3, <1>4 DEF Inv

\* The thread ends.
LEMMA Returns == ASSUME Inv, NEW c \in Clients, Return(c), UNCHANGED <<server, pool>> PROVE Inv'
<1>1. ThreadOK("idle", Fresh, lwnbd_contexts_count)
  BY DEF ThreadOK
<1> QED BY <1>1, Moves, FreshLocals DEF Return, Goto, Labels

\* A thread that moves on with its locals.
LEMMA Continues ==
    ASSUME Inv, NEW c \in Clients, NEW l \in Labels, Continue(c, l), UNCHANGED pool,
           server' = server \/ \E s \in {"TRANSMISSION", "ABORT"} :
                                   server' = [server EXCEPT !.state = s],
           ThreadOK(l, local[c], lwnbd_contexts_count)
    PROVE  Inv'
<1>1. local[c] \in Locals /\ local' = [local EXCEPT ![c] = local[c]]
  BY DEF Inv, TypeOK, Continue
<1> QED BY <1>1, Moves DEF Continue, Goto

LEMMA EmptyList == <<>> \in Seq(Nat)
  OBVIOUS

\* What a thread knows of its context is kept by every label of the handshake that
\* promises nothing else.
Plain == Labels \ {"claim", "LIST", "list_ack"}

LEMMA PlainOK ==
    ASSUME NEW l \in Plain, NEW r, NEW n,
           l \in {"idle", "scan"} \/ r.ctx < n
    PROVE  ThreadOK(l, r, n)
  BY DEF Plain, ThreadOK

LEMMA Holds ==
    ASSUME Inv, NEW c \in Clients, pc[c] \notin {"idle", "scan", "claim"}
    PROVE  local[c] \in Locals /\ local[c].ctx < lwnbd_contexts_count
  BY DEF Inv, TypeOK, ThreadsInv, ThreadOK

LEMMA ConnectInv == ASSUME Inv, NEW c \in Clients, Connect(c) PROVE Inv'
<1> USE DEF Connect
<1>0. UNCHANGED <<server, pool>>
  OBVIOUS
<1>1. CASE Continue(c, "scan")
  <2>1. "scan" \in Labels /\ "scan" \in Plain
    BY DEF Labels, Plain
  <2>2. ThreadOK("scan", local[c], lwnbd_contexts_count)
    BY <2>1, PlainOK
  <2> QED BY <1>0, <1>1, <2>1, <2>2, Continues
<1>2. CASE Return(c)
  BY <1>0, <1>2, Returns
<1>3. CASE /\ server.default # NULL
           /\ local' = [local EXCEPT ![c].ctx = server.default, ![c].state = "TRANSMISSION"]
           /\ Goto(c, "dispatch")
  <2> DEFINE r == [local[c] EXCEPT !.ctx = server.default, !.state = "TRANSMISSION"]
  <2>1. server.default = 0 /\ Len(Exported) > 0 /\ Len(Exported) \in Nat
    BY <1>3, ExportedAssumption DEF Inv, TypeOK, PoolInv
  <2>2. 0 \in Index /\ 0 < lwnbd_contexts_count
    BY <2>1, CountProps, MaxContextsAssumption, ExportedAssumption DEF Inv, PoolInv, Index
  <2>3. r \in Locals /\ r.ctx = 0
    BY <2>1, <2>2 DEF Inv, TypeOK, Locals
  <2>4. local' = [local EXCEPT ![c] = r]
    BY <1>3
  <2> HIDE DEF r
  <2>5. "dispatch" \in Labels /\ "dispatch" \in Plain
    BY DEF Labels, Plain
  <2>6. ThreadOK("dispatch", r, lwnbd_contexts_count)
    BY <2>2, <2>3, <2>5, PlainOK
  <2> QED BY <1>0, <1>3, <2>3, <2>4, <2>5, <2>6, Moves DEF Goto
<1> QED BY <1>1, <1>2, <1>3

LEMMA ScanInv == ASSUME Inv, NEW c \in Clients, Scan(c) PROVE Inv'
<1>0. UNCHANGED <<server, pool>>
  BY DEF Scan
<1>1. CASE Return(c)
  BY <1>0, <1>1, Returns
<1>2. CASE ~PoolFull /\ local' = [local EXCEPT ![c].slot = lwnbd_contexts_count] /\ Goto(c, "claim")
  <2> DEFINE r == [local[c] EXCEPT !.slot = lwnbd_contexts_count]
  <2>1. lwnbd_contexts_count \in Nat /\ lwnbd_contexts_count < MaxContexts
    BY <1>2, CountProps, MaxContextsAssumption DEF PoolFull
  <2>2. r \in Locals /\ r.slot = lwnbd_contexts_count
    BY <2>1 DEF Inv, TypeOK, Locals
  <2>3. local' = [local EXCEPT ![c] = r]
    BY <1>2
  <2> HIDE DEF r
  <2>4. ThreadOK("claim", r, lwnbd_contexts_count) /\ "claim" \in Labels
    BY <2>1, <2>2 DEF ThreadOK, Labels, Inv, PoolInv
  <2> QED BY <1>0, <1>2, <2>2, <2>3, <2>4, Moves DEF Goto
<1> QED BY <1>1, <1>2 DEF Scan

\* The slot found may have been taken by another thread meanwhile, or be the first
\* free one still.
LEMMA ClaimInv == ASSUME Inv, NEW c \in Clients, Claim(c) PROVE Inv'
<1> DEFINE s == local[c].slot
           n == lwnbd_contexts_count
           r == [local[c] EXCEPT !.ctx = s, !.state = "HANDSHAKE", !.slot = 0]
<1>0. UNCHANGED <<server, contexts>> /\ pc' = [pc EXCEPT ![c] = "dispatch"]
  BY DEF Claim, Goto
<1>1. n \in 0 .. MaxContexts /\ MaxContexts \in Nat /\ Len(Exported) \in Nat
  BY CountProps, MaxContextsAssumption, ExportedAssumption
<1>2. s \in Nat /\ Len(Exported) <= s /\ s <= n /\ s < MaxContexts
  BY DEF Claim, At, Inv, TypeOK, Locals, ThreadsInv, ThreadOK
<1>3. s \in Index
  BY <1>1, <1>2 DEF Index
<1>4. r \in Locals /\ r.ctx = s
  BY <1>3 DEF Inv, TypeOK, Locals
<1>5. local' = [local EXCEPT ![c] = r]
  BY DEF Claim, Claimed
<1>6. /\ contexts_status \in [Index -> {"FREE", "CREATED"}]
      /\ contexts_status' = [contexts_status EXCEPT ![s] = "CREATED"]
  BY DEF Claim, Claimed, Inv, TypeOK
<1> HIDE DEF s, r
<1>7. TypeOK'
  BY <1>0, <1>3, <1>4, <1>5, <1>6 DEF Inv, TypeOK, Labels
<1>8. \A j \in Index : j < n => contexts_status[j] # "FREE"
  BY CountProps
<1>9. NoHole'
  <2> SUFFICES ASSUME NEW i \in Index, NEW j \in Index, i < j, contexts_status'[j] # "FREE"
               PROVE  contexts_status'[i] # "FREE"
    BY DEF NoHole, Packed, Index
  <2>1. CASE j = s
    <3>1. i < n
      BY <1>1, <1>2, <2>1 DEF Index
    <3> QED BY <1>3, <1>6, <1>8, <3>1
  <2>2. CASE j # s
    <3>1. contexts_status[j] # "FREE"
      BY <1>6, <2>2
    <3>2. contexts_status[i] # "FREE"
      BY <3>1 DEF Inv, PoolInv, NoHole, Packed, Index
    <3> QED BY <1>3, <1>6, <3>2
  <2> QED BY <2>1, <2>2
<1>10. n' \in Nat /\ n <= n' /\ s < n'
  <2>1. n' \in 0 .. MaxContexts /\ (n' < MaxContexts => contexts_status'[n'] = "FREE")
    BY CountPropsNext
  <2>2. CASE n' = MaxContexts
    BY <1>1, <1>2, <2>2
  <2>3. CASE n' # MaxContexts
    <3>1. n' \in Index /\ contexts_status'[n'] = "FREE"
      BY <1>1, <2>1, <2>3 DEF Index
    <3>2. n' # s /\ contexts_status[n'] = "FREE"
      BY <1>3, <1>6, <3>1
    <3>3. ~(n' < n)
      BY <1>8, <3>1, <3>2
    <3> QED BY <1>1, <1>2, <2>1, <3>2, <3>3
  <2> QED BY <2>1, <2>2, <2>3
<1>11. PoolInv'
  BY <1>0, <1>1, <1>9, <1>10 DEF Inv, PoolInv
<1>12. ThreadsInv'
  <2> SUFFICES ASSUME NEW d \in Clients
               PROVE  ThreadOK(pc[d], local[d], lwnbd_contexts_count)'
    BY DEF ThreadsInv
  <2>1. CASE d = c
    <3>1. pc'[d] = "dispatch" /\ local'[d] = r
      BY <1>0, <1>5, <2>1 DEF Inv, TypeOK
    <3> QED BY <1>4, <1>10, <3>1 DEF ThreadOK
  <2>2. CASE d # c
    <3>1. pc'[d] = pc[d] /\ local'[d] = local[d] /\ local[d] \in Locals
      BY <1>0, <1>5, <2>2 DEF Inv, TypeOK
    <3>2. ThreadOK(pc[d], local[d], n)
      BY DEF Inv, ThreadsInv
    <3>3. ThreadOK(pc[d], local[d], n')
      BY <1>1, <1>10, <3>1, <3>2, Grows
    <3> QED BY <1>0, <3>1, <3>3 DEF ThreadOK
  <2> QED BY <2>1, <2>2
<1> QED BY <1>7, <1>11, <1>12 DEF Inv

LEMMA DispatchInv == ASSUME Inv, NEW c \in Clients, Dispatch(c) PROVE Inv'
<1>1. PICK l \in {"greet", "transmission"} : Continue(c, l)
  BY DEF Dispatch
<1>2. l \in Labels /\ l \in Plain
  BY DEF Labels, Plain
<1>3. local[c].ctx < lwnbd_contexts_count
  BY Holds DEF Dispatch, At
<1>4. ThreadOK(l, local[c], lwnbd_contexts_count)
  BY <1>2, <1>3, PlainOK
<1>5. UNCHANGED <<server, pool>>
  BY DEF Dispatch
<1> QED BY <1>1, <1>2, <1>4, <1>5, Continues

LEMMA TransmissionInv == ASSUME Inv, NEW c \in Clients, Transmission(c) PROVE Inv'
<1>1. CASE Return(c) /\ UNCHANGED server
  BY <1>1, Returns DEF Transmission
<1>2. CASE server' = [server EXCEPT !.state = "ABORT"] /\ Continue(c, "dispatch")
  <2>1. "dispatch" \in Labels /\ "dispatch" \in Plain
    BY DEF Labels, Plain
  <2>2. local[c].ctx < lwnbd_contexts_count
    BY Holds DEF Transmission, At
  <2>3. ThreadOK("dispatch", local[c], lwnbd_contexts_count)
    BY <2>1, <2>2, PlainOK
  <2>4. UNCHANGED pool
    BY DEF Transmission
  <2> QED BY <1>2, <2>1, <2>3, <2>4, Continues
<1> QED BY <1>1, <1>2 DEF Transmission

LEMMA GreetInv == ASSUME Inv, NEW c \in Clients, Greet(c) PROVE Inv'
<1>0. UNCHANGED <<server, pool>>
  BY DEF Greet
<1>1. CASE Return(c)
  BY <1>0, <1>1, Returns
<1>2. CASE Continue(c, "flags")
  <2>1. "flags" \in Labels /\ "flags" \in Plain
    BY DEF Labels, Plain
  <2>2. local[c].ctx < lwnbd_contexts_count
    BY Holds DEF Greet, At
  <2>3. ThreadOK("flags", local[c], lwnbd_contexts_count)
    BY <2>1, <2>2, PlainOK
  <2> QED BY <1>0, <1>2, <2>1, <2>3, Continues
<1> QED BY <1>1, <1>2 DEF Greet, Transfer

LEMMA FlagsInv == ASSUME Inv, NEW c \in Clients, Flags(c) PROVE Inv'
<1>0. UNCHANGED <<server, pool>>
  BY DEF Flags
<1>1. CASE Return(c)
  BY <1>0, <1>1, Returns
<1>2. ASSUME NEW cflags \in CFlags, local' = [local EXCEPT ![c].cflags = cflags], Goto(c, "option")
      PROVE  Inv'
  <2> DEFINE r == [local[c] EXCEPT !.cflags = cflags]
  <2>1. cflags \in Nat
    BY DEF CFlags, NBD_FLAG_FIXED_NEWSTYLE, NBD_FLAG_NO_ZEROES
  <2>2. local[c] \in Locals /\ local[c].ctx < lwnbd_contexts_count
    BY Holds DEF Flags, At
  <2>3. r \in Locals /\ r.ctx = local[c].ctx
    BY <2>1, <2>2 DEF Locals
  <2>4. local' = [local EXCEPT ![c] = r]
    BY <1>2
  <2> HIDE DEF r
  <2>5. "option" \in Labels /\ "option" \in Plain
    BY DEF Labels, Plain
  <2>6. ThreadOK("option", r, lwnbd_contexts_count)
    BY <2>2, <2>3, <2>5, PlainOK
  <2> QED BY <1>0, <1>2, <2>3, <2>4, <2>5, <2>6, Moves DEF Goto
<1> QED BY <1>1, <1>2 DEF Flags, Transfer

\* An option starts with nothing listed.
LEMMA RecvOptionInv ==
    ASSUME Inv, NEW c \in Clients, NEW o \in Options, RecvOption(c, o) PROVE Inv'
<1> DEFINE n == lwnbd_contexts_count
           l == Case(o.option)
           q == [o EXCEPT !.full = FALSE]
           r == [local[c] EXCEPT !.opt = q, !.i = 0, !.listed = <<>>, !.upto = n]
<1>0. CASE o.full /\ local' = [local EXCEPT ![c].opt = o] /\ UNCHANGED pc
  <2> DEFINE d == [local[c] EXCEPT !.opt = o]
  <2>1. local[c] \in Locals /\ local[c].ctx < lwnbd_contexts_count /\ pc[c] = "option"
    BY Holds DEF RecvOption, At
  <2>2. d \in Locals /\ d.ctx = local[c].ctx
    BY <2>1 DEF Locals
  <2>3. local' = [local EXCEPT ![c] = d] /\ pc' = [pc EXCEPT ![c] = "option"]
    BY <1>0, <2>1 DEF Inv, TypeOK
  <2>4. UNCHANGED <<server, pool>>
    BY DEF RecvOption
  <2> HIDE DEF d
  <2>5. "option" \in Labels /\ "option" \in Plain
    BY DEF Labels, Plain
  <2>6. ThreadOK("option", d, lwnbd_contexts_count)
    BY <2>1, <2>2, <2>5, PlainOK
  <2> QED BY <2>2, <2>3, <2>4, <2>5, <2>6, Moves
<1>1. CASE Goto(c, l) /\ local' = [local EXCEPT ![c].opt = q, ![c].i = 0,
                                   ![c].listed = <<>>, ![c].upto = n]
  <2>1. UNCHANGED <<server, pool>> /\ pc' = [pc EXCEPT ![c] = l]
    BY <1>1 DEF RecvOption, Goto
  <2>2. n \in Nat
    BY CountProps
  <2>3. local[c] \in Locals /\ local[c].ctx < n
    BY Holds DEF RecvOption, At
  <2>4. q \in Options
    BY DEF Options
  <2>5. r \in Locals /\ r.ctx = local[c].ctx /\ r.i = 0 /\ r.listed = <<>> /\ r.upto = n
    <3> HIDE DEF q
    <3> QED BY <2>2, <2>3, <2>4, EmptyList DEF Locals
  <2>6. local' = [local EXCEPT ![c] = r]
    BY <1>1
  <2>7. l \in {"EXPORT_NAME", "ABORT", "LIST", "OTHER"}
    BY DEF Case
  <2> HIDE DEF r, l
  <2>8. l \in Labels
    BY <2>7 DEF Labels
  <2>9. ThreadOK(l, r, n)
    <3>1. Listing(r)
      BY <2>5 DEF Listing
    <3> QED BY <2>2, <2>3, <2>5, <2>7, <3>1 DEF ThreadOK
  <2> QED BY <2>1, <2>5, <2>6, <2>8, <2>9, Moves
<1> QED BY <1>0, <1>1 DEF RecvOption

LEMMA LookupInv == ASSUME Inv, NEW c \in Clients, Lookup(c) PROVE Inv'
<1> DEFINE found == Wanted(c)
<1>0. UNCHANGED <<server, pool>> /\ pc[c] = "EXPORT_NAME"
  BY DEF Lookup, At
<1>1. CASE UNCHANGED <<pc, local>>
  BY <1>0, <1>1 DEF Inv, TypeOK, PoolInv, ThreadsInv, ThreadOK, pool, lwnbd_contexts_count, NoHole
<1>2. CASE Return(c)
  BY <1>0, <1>2, Returns
<1>3. ASSUME NEW x, x # NULL, x \in Index, x < lwnbd_contexts_count,
             local' = [local EXCEPT ![c].ctx = x, ![c].opt = NoOption], Goto(c, "grant")
      PROVE  Inv'
  <2> DEFINE r == [local[c] EXCEPT !.ctx = x, !.opt = NoOption]
  <2>1. r \in Locals /\ r.ctx = x
    BY <1>3 DEF Inv, TypeOK, Locals
  <2>2. local' = [local EXCEPT ![c] = r]
    BY <1>3
  <2> HIDE DEF r
  <2>3. "grant" \in Labels /\ ThreadOK("grant", r, lwnbd_contexts_count)
    BY <1>3, <2>1 DEF Labels, ThreadOK
  <2> QED BY <1>0, <1>3, <2>1, <2>2, <2>3, Moves DEF Goto
<1>4. CASE local[c].opt.name = NoData /\ LookupResult(c, local[c].ctx)
  <2>1. local[c].ctx \in {NULL} \cup Index /\ local[c].ctx < lwnbd_contexts_count
    BY <1>0, Holds DEF Locals
  <2>2. CASE local[c].ctx = NULL
    BY <1>2, <1>4, <2>2 DEF LookupResult
  <2>3. CASE local[c].ctx # NULL
    <3>1. local' = [local EXCEPT ![c].ctx = local[c].ctx, ![c].opt = NoOption]
          /\ Goto(c, "grant")
      BY <1>4, <2>3 DEF LookupResult
    <3> QED BY <1>3, <1>4, <2>1, <2>3, <3>1
  <2> QED BY <2>2, <2>3
<1>5. CASE LookupResult(c, found)
  <2>1. CASE found = NULL
    BY <1>2, <1>5, <2>1 DEF LookupResult
  <2>2. CASE found # NULL
    <3>1. found \in Matches(local[c].opt.name)
      BY <2>2, LookupFinds DEF Wanted
    <3>2. found \in Index /\ found < lwnbd_contexts_count 
      BY <3>1 DEF Matches
    <3>3. local' = [local EXCEPT ![c].ctx = found, ![c].opt = NoOption] /\ Goto(c, "grant")
      BY <1>5, <2>2 DEF LookupResult
    <3> HIDE DEF found
    <3> QED BY <1>3, <1>5, <2>2, <3>2, <3>3
  <2> QED BY <2>1, <2>2
<1>6. CASE LookupResult(c, NULL)
  BY <1>2, <1>6 DEF LookupResult
<1> QED BY <1>1, <1>4, <1>5, <1>6 DEF Lookup

\* The end of the handshake keeps the context the thread has.
LEMMA Leaves ==
    ASSUME Inv, NEW c \in Clients, pc[c] \notin {"idle", "scan", "claim"}, Leave(c),
           UNCHANGED pool,
           server' = server \/ \E s \in {"TRANSMISSION", "ABORT"} :
                                   server' = [server EXCEPT !.state = s]
    PROVE  Inv'
<1> DEFINE r == [Fresh EXCEPT !.state = local[c].state, !.ctx = local[c].ctx]
<1>1. local[c] \in Locals /\ local[c].ctx < lwnbd_contexts_count
  BY Holds
<1>2. local[c].state \in {"HANDSHAKE", "TRANSMISSION"} /\ local[c].ctx \in {NULL} \cup Index
  BY <1>1 DEF Locals
<1>3. r \in Locals /\ r.ctx = local[c].ctx
  BY <1>2, EmptyList DEF Locals, Fresh
<1>4. pc' = [pc EXCEPT ![c] = "dispatch"] /\ local' = [local EXCEPT ![c] = r]
  BY DEF Leave, Goto
<1> HIDE DEF r
<1>5. "dispatch" \in Labels /\ "dispatch" \in Plain
  BY DEF Labels, Plain
<1>6. ThreadOK("dispatch", r, lwnbd_contexts_count)
  BY <1>1, <1>3, <1>5, PlainOK
<1> QED BY <1>3, <1>4, <1>5, <1>6, Moves

LEMMA GrantInv == ASSUME Inv, NEW c \in Clients, Grant(c) \/ Abort(c) PROVE Inv'
<1>0. UNCHANGED pool /\ pc[c] \notin {"idle", "scan", "claim"}
  BY DEF Grant, Abort, At
<1>1. Return(c) \/ Leave(c)
  BY DEF Grant, Abort, Transfer
<1>2. \/ server' = [server EXCEPT !.state = IF pc'[c] = "dispatch" THEN "TRANSMISSION" ELSE @]
      \/ server' = [server EXCEPT !.state = IF pc'[c] = "dispatch" THEN "ABORT" ELSE @]
  BY DEF Grant, Abort
<1>3. pc \in [Clients -> Labels]
  BY DEF Inv, TypeOK
<1>4. CASE Return(c)
  <2>1. pc'[c] = "idle"
    BY <1>3, <1>4 DEF Return, Goto
  <2>2. server' = [server EXCEPT !.state = @]
    BY <1>2, <2>1
  <2>3. server' = server
    BY <2>2 DEF Inv, TypeOK
  <2> QED BY <1>0, <1>4, <2>3, Returns
<1>5. CASE Leave(c)
  <2>1. pc'[c] = "dispatch"
    BY <1>3, <1>5 DEF Leave, Goto
  <2>2. \E s \in {"TRANSMISSION", "ABORT"} : server' = [server EXCEPT !.state = s]
    BY <1>2, <2>1
  <2> QED BY <1>0, <1>5, <2>2, Leaves
<1> QED BY <1>1, <1>4, <1>5

\* The list grows by the entry it is at.
LEMMA ListEntryInv == ASSUME Inv, NEW c \in Clients, ListEntry(c) PROVE Inv'
<1>0. UNCHANGED <<server, pool>> /\ pc[c] = "LIST"
  BY DEF ListEntry, At
<1>1. CASE Return(c)
  BY <1>0, <1>1, Returns
<1>2. CASE /\ local' = [local EXCEPT ![c].listed = Append(@, local[c].i), ![c].i = NextEntry(c)]
           /\ UNCHANGED pc
  <2> DEFINE n == lwnbd_contexts_count
             q == local[c]
             r == [q EXCEPT !.listed = Append(q.listed, q.i), !.i = q.i + 1]
  <2>1. n \in Nat /\ q \in Locals /\ q.ctx < n /\ q.i < n
    BY <1>0, Holds, CountProps DEF ListEntry
  <2>2. q.i \in Nat /\ q.listed \in Seq(Nat)
    BY <2>1 DEF Locals
  <2>3. q.upto <= n /\ Listing(q)
    BY <1>0 DEF Inv, ThreadsInv, ThreadOK
  <2>4. r \in Locals /\ r.ctx = q.ctx /\ r.upto = q.upto /\ r.i = q.i + 1
        /\ r.listed = Append(q.listed, q.i)
    <3>1. Append(q.listed, q.i) \in Seq(Nat) /\ q.i + 1 \in Nat
      BY <2>2
    <3> QED BY <2>1, <3>1 DEF Locals
  <2>5. local' = [local EXCEPT ![c] = r] /\ pc' = [pc EXCEPT ![c] = "LIST"]
    <3>1. pc' = [pc EXCEPT ![c] = "LIST"]
      BY <1>0, <1>2 DEF Inv, TypeOK
    <3> QED BY <1>2, <3>1 DEF NextEntry
  <2>6. Listing(r)
    BY <2>2, <2>3, <2>4 DEF Listing
  <2> HIDE DEF n, r
  <2>7. "LIST" \in Labels /\ ThreadOK("LIST", r, n)
    BY <2>1, <2>2, <2>3, <2>4, <2>6 DEF Labels, ThreadOK
  <2> QED BY <1>0, <2>4, <2>5, <2>7, Moves DEF n
<1> QED BY <1>1, <1>2 DEF ListEntry, Transfer

LEMMA ListEndInv == ASSUME Inv, NEW c \in Clients, ListEnd(c) PROVE Inv'
<1>0. UNCHANGED <<server, pool>> /\ pc[c] = "LIST" /\ Continue(c, "list_ack")
  BY DEF ListEnd, At
<1> DEFINE n == lwnbd_contexts_count
           q == local[c]
<1>1. n \in Nat /\ q \in Locals /\ q.ctx < n /\ q.i >= n
  BY <1>0, Holds, CountProps DEF ListEnd
<1>2. q.i \in Nat /\ q.upto \in Nat
  BY <1>1 DEF Locals
<1>3. q.upto <= n /\ q.i <= n /\ Listing(q)
  BY <1>0 DEF Inv, ThreadsInv, ThreadOK
<1>4. "list_ack" \in Labels /\ ThreadOK("list_ack", q, n)
  BY <1>1, <1>2, <1>3 DEF Labels, ThreadOK
<1> QED BY <1>0, <1>4, Continues

LEMMA AnswerInv == ASSUME Inv, NEW c \in Clients, Answer(c) PROVE Inv'
<1>0. UNCHANGED <<server, pool>> /\ pc[c] \in {"list_ack", "OTHER"}
  BY DEF Answer, At
<1>1. CASE Return(c)
  BY <1>0, <1>1, Returns
<1>2. CASE /\ local' = [local EXCEPT ![c].opt = NoOption, ![c].i = 0, ![c].listed = <<>>,
                                     ![c].upto = 0]
           /\ Goto(c, "option")
  <2> DEFINE r == [local[c] EXCEPT !.opt = NoOption, !.i = 0, !.listed = <<>>, !.upto = 0]
  <2>1. local[c] \in Locals /\ local[c].ctx < lwnbd_contexts_count
    BY <1>0, Holds
  <2>2. r \in Locals /\ r.ctx = local[c].ctx
    BY <2>1, EmptyList DEF Locals
  <2>3. local' = [local EXCEPT ![c] = r]
    BY <1>2
  <2> HIDE DEF r
  <2>4. "option" \in Labels /\ "option" \in Plain
    BY DEF Labels, Plain
  <2>5. ThreadOK("option", r, lwnbd_contexts_count)
    BY <2>1, <2>2, <2>4, PlainOK
  <2> QED BY <1>0, <1>2, <2>2, <2>3, <2>4, <2>5, Moves DEF Goto
<1> QED BY <1>1, <1>2 DEF Answer, Transfer

LEMMA StepInv == Inv /\ [Next]_vars => Inv'
<1> SUFFICES ASSUME Inv, [Next]_vars PROVE Inv'
  OBVIOUS
<1>1. CASE UNCHANGED <<pc, local, server, contexts, contexts_status>>
  BY <1>1 DEF Inv, TypeOK, PoolInv, ThreadsInv, ThreadOK, lwnbd_contexts_count, NoHole
<1>2. ASSUME NEW c \in Clients, Connect(c) PROVE Inv'
  BY <1>2, ConnectInv
<1>3. ASSUME NEW c \in Clients, HangUp(c) PROVE Inv'
  BY <1>1, <1>3 DEF HangUp, pool
<1>4. ASSUME NEW c \in Clients, Step(c) PROVE Inv'
  <2>1. CASE RecvOptionFail(c)
    BY <2>1, Returns DEF RecvOptionFail
  <2> QED BY <1>4, <2>1, ScanInv, ClaimInv, DispatchInv, TransmissionInv, GreetInv, FlagsInv,
             LookupInv, GrantInv, ListEntryInv, ListEndInv, AnswerInv DEF Step
<1>5. ASSUME NEW c \in Clients, NEW o \in Options, RecvOption(c, o) PROVE Inv'
  BY <1>5, RecvOptionInv
<1>6. CASE UNCHANGED vars
  BY <1>1, <1>6 DEF vars, pool
<1> QED BY <1>2, <1>3, <1>4, <1>5, <1>6 DEF Next

LEMMA AlwaysInv == Spec => []Inv
  BY InitInv, StepInv, PTL DEF Spec

-----------------------------------------------------------------------------
(* Theorems.                                                                  *)

\* However many threads race for contexts between finding a slot and marking it, the
\* pool has no hole, no thread takes the slot of an export, and every thread past the
\* claim has a context the pool counts (contexts.c 61-73, 118).
THEOREM PoolStaysSound == Spec => []PoolSound
<1>1. ASSUME Inv PROVE PoolSound
  <2>1. \A c \in Clients : local[c].slot \in Nat
    BY <1>1 DEF Inv, TypeOK, Locals
  <2>2. lwnbd_contexts_count \in Nat /\ Len(Exported) \in Nat
    BY CountProps, ExportedAssumption
  <2> QED BY <1>1, <2>1, <2>2 DEF Inv, PoolInv, ThreadsInv, ThreadOK, PoolSound
<1> QED BY <1>1, AlwaysInv, PTL

\* A list that is acknowledged named every context there was when it was asked for,
\* each once and in order, whatever the other threads added while it was sent
\* (protocol-handshake.c 134-161).
THEOREM ListsComplete == Spec => []ListComplete
<1>1. ASSUME Inv PROVE ListComplete
  BY <1>1 DEF Inv, ThreadsInv, ThreadOK, Listing, ListComplete
<1> QED BY <1>1, AlwaysInv, PTL

-----------------------------------------------------------------------------
(* What is undefined.  The contexts the threads take keep no name and no      *)
(* plugin, and nothing is done after something undefined.                     *)

Fixed == contexts = InitialContexts

LEMMA AlwaysFixed == Spec => [](Fixed)
<1>1. Init => Fixed
  BY DEF Init, Fixed
<1>2. Fixed /\ [Next]_vars => Fixed'
  <2>1. ASSUME [Next]_vars PROVE UNCHANGED contexts
    <3>1. ASSUME NEW c \in Clients, Step(c) PROVE UNCHANGED contexts
      BY <3>1 DEF Step, Scan, Claim, Dispatch, Transmission, Greet, Flags, RecvOptionFail,
                  Lookup, Grant, Abort, ListEntry, ListEnd, Answer, pool
    <3> QED BY <2>1, <3>1 DEF Next, Connect, HangUp, RecvOption, vars, pool
  <2> QED BY <2>1 DEF Fixed, InitialContexts, Index
<1> QED BY <1>1, <1>2, PTL DEF Spec

\* What an unfit context that was found says of the name and of the exports.
LEMMA UnfitCause ==
    ASSUME Fixed, Inv, NEW c \in Clients,
           Wanted(c) # NULL, Unfit(c, Wanted(c))
    PROVE  \/ local[c].opt.name = Blank.name /\ Len(Exported) < lwnbd_contexts_count
           \/ /\ ~local[c].opt.query
              /\ \E i \in DOMAIN Exported :
                    Exported[i].name = local[c].opt.name /\ Exported[i].p \in NeedsQuery
<1> DEFINE f == Wanted(c)
<1>1. f \in Index /\ f < lwnbd_contexts_count /\ contexts[f].name = local[c].opt.name
  BY LookupFinds DEF Wanted, Matches
<1>2. Len(Exported) \in Nat /\ lwnbd_contexts_count \in Nat /\ f \in Nat
  BY <1>1, CountProps, ExportedAssumption, MaxContextsAssumption DEF Index
<1>3. contexts[f] = IF f < Len(Exported) THEN Exported[f + 1] ELSE Blank
  BY <1>1 DEF Fixed, InitialContexts
<1> HIDE DEF f
<1>4. CASE f < Len(Exported)
  <2>1. f + 1 \in 1 .. Len(Exported) /\ f + 1 \in DOMAIN Exported
        /\ contexts[f] = Exported[f + 1]
    BY <1>2, <1>3, <1>4, ExportedAssumption
  <2>2. Exported[f + 1] \in [name : Names, p : Drivers]
    <3>1. \A k \in 1 .. Len(Exported) : Exported[k] \in [name : Names, p : Drivers]
      <4> DEFINE T == [name : Names, p : Drivers]
      <4>1. Exported \in Seq(T)
        BY ExportedAssumption
      <4> HIDE DEF T
      <4>2. \A k \in 1 .. Len(Exported) : Exported[k] \in T
        BY <4>1
      <4> QED BY <4>2 DEF T
    <3> QED BY <2>1, <3>1
  <2>3. contexts[f].p # NoDriver
    BY <2>1, <2>2, NoDriverAssumption
  <2>4. contexts[f].p \in NeedsQuery /\ ~local[c].opt.query
    BY <2>3 DEF Unfit, f
  <2> QED BY <1>1, <2>1, <2>4
<1>5. CASE ~(f < Len(Exported))
  <2>1. contexts[f] = Blank
    BY <1>3, <1>5
  <2>2. local[c].opt.name = Blank.name
    BY <1>1, <2>1
  <2> QED BY <1>1, <1>2, <1>5, <2>2
<1> QED BY <1>4, <1>5

\* Whatever clients send and however their threads interleave, the server does nothing
\* undefined before data that fill the buffer, an empty path once a thread has taken a
\* context, or an export that wants a query asked for without one
\* (protocol-handshake.c 68-88, contexts_uri.c 47-70).
THEOREM UndefinedHasItsCause == Spec => []UndefinedHasCause
<1>1. Init => UndefinedHasCause
  BY DEF Init, UndefinedHasCause
<1>2. ASSUME Inv, Fixed, UndefinedHasCause, [Next]_vars
      PROVE  UndefinedHasCause'
  <2>1. CASE UNCHANGED vars
    BY <1>2, <2>1 DEF UndefinedHasCause, vars, pool, lwnbd_contexts_count
  <2>2. CASE alive'
    BY <2>2 DEF UndefinedHasCause
  <2>3. ASSUME NEW c \in Clients, NEW o \in Options, RecvOption(c, o), ~alive'
        PROVE  UndefinedHasCause'
    <3>1. o.full /\ local' = [local EXCEPT ![c].opt = o] /\ UNCHANGED pc /\ pc[c] = "option"
      BY <2>3 DEF RecvOption, At
    <3>2. local'[c].opt = o /\ pc'[c] = "option"
      BY <1>2, <3>1 DEF Inv, TypeOK, Locals
    <3> QED BY <3>1, <3>2 DEF UndefinedHasCause
  <2>4. ASSUME NEW c \in Clients, Lookup(c), ~alive' PROVE UndefinedHasCause'
    <3>1. /\ Wanted(c) # NULL /\ Unfit(c, Wanted(c))
          /\ UNCHANGED <<pc, local, pool>> /\ pc[c] = "EXPORT_NAME"
      BY <2>4 DEF Lookup, At
    <3>2. \/ local[c].opt.name = Blank.name /\ Len(Exported) < lwnbd_contexts_count
          \/ /\ ~local[c].opt.query
             /\ \E i \in DOMAIN Exported :
                   Exported[i].name = local[c].opt.name /\ Exported[i].p \in NeedsQuery
      BY <1>2, <3>1, UnfitCause
    <3>3. local' = local /\ pc' = pc /\ lwnbd_contexts_count' = lwnbd_contexts_count
      BY <3>1 DEF pool, lwnbd_contexts_count
    <3>4. Blank.name = ""
      BY Zenon DEF Blank
    <3> QED BY <3>1, <3>2, <3>3, <3>4, Zenon DEF UndefinedHasCause
  <2>5. ASSUME NEW c \in Clients, Step(c), ~alive' PROVE UndefinedHasCause'
    <3>1. CASE Lookup(c)
      BY <2>5, <3>1, <2>4
    <3>2. CASE Scan(c) \/ Claim(c) \/ Dispatch(c) \/ Transmission(c) \/ RecvOptionFail(c)
      BY <2>5, <3>2 DEF Scan, Claim, Dispatch, Transmission, RecvOptionFail, At
    <3>3. CASE Greet(c) \/ Flags(c)
      <4>1. alive /\ UNCHANGED alive
        BY <3>3, Zenon DEF Greet, Flags, At
      <4> QED BY <2>5, <4>1
    <3>4. CASE Grant(c) \/ Abort(c)
      BY <2>5, <3>4 DEF Grant, Abort, At
    <3>5. CASE ListEntry(c)
      BY <2>5, <3>5 DEF ListEntry, At
    <3>6. CASE ListEnd(c)
      BY <2>5, <3>6 DEF ListEnd, At
    <3>7. CASE Answer(c)
      BY <2>5, <3>7 DEF Answer, At
    <3> QED BY <2>5, <3>1, <3>2, <3>3, <3>4, <3>5, <3>6, <3>7 DEF Step
  <2>6. ASSUME NEW c \in Clients, Connect(c) \/ HangUp(c), ~alive' PROVE FALSE
    BY <2>6 DEF Connect, HangUp, At
  <2> QED BY <1>2, <2>1, <2>2, <2>3, <2>5, <2>6 DEF Next
<1> QED BY <1>1, <1>2, AlwaysInv, AlwaysFixed, PTL DEF Spec
=============================================================================
