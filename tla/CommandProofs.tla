--------------------------- MODULE CommandProofs ---------------------------
(***************************************************************************)
(* Proofs about the command plugin, for every number of clients, commands  *)
(* and lookups and every size of the buffer.                               *)
(***************************************************************************)
EXTENDS Command, WellFoundedInduction, TLAPS

\* The least-number principle, for the search of the table.
LEMMA LeastNat ==
    ASSUME NEW S \in SUBSET Nat, S # {}
    PROVE  \E m \in S : \A n \in S : m <= n
<1> DEFINE R == OpToRel(<, Nat)
<1>1. \A x, y \in Nat : x < y => <<x, y>> \in R
  BY DEF OpToRel
<1>2. IsWellFoundedOn(R, Nat)
  BY NatLessThanWellFounded
<1> HIDE DEF R
<1>3. PICK m \in S : \A n \in S : ~(<<n, m>> \in R)
  BY <1>2, WFMin
<1>4. \A n \in S : ~(n < m)
  BY <1>1, <1>3, Zenon
<1> QED BY <1>4

-----------------------------------------------------------------------------
(* The invariant.  A session is undisturbed as long as no other client is     *)
(* between its lookup and its answer; what the session is then owed is in the *)
(* variables that all clients share.                                          *)

Looking == {"run", "update", "answer"}
Sessions == [id : Nat, command : Kinds \cup {None}, told : Nat, alone : BOOLEAN]

TypeOK ==
    /\ commands \in Seq(Kinds)
    /\ pc \in [Clients -> Looking \cup {"idle", "open"}]
    /\ session \in [Clients -> Sessions]
    /\ last = [c \in Clients |-> last[c]]
    /\ DOMAIN result = Places
    /\ exportsize \in Nat /\ context \in Nat /\ opens \in Nat

Undisturbed(c) == pc[c] \in Looking \cup {"open"} /\ session[c].alone

Cleared == exportsize = 1 /\ \A k \in Places : result[k] = Zero
Printed(c) == \A k \in Places : result[k] = OwnOutput(c, k)
ReadOwn(c) ==
    last[c].kind = "read" /\ last[c].offset = 0 =>
        \A k \in DOMAIN last[c].data : last[c].data[k] = OwnOutput(c, k)

GetInv(c) ==
    /\ pc[c] = "run" => Cleared
    /\ pc[c] # "run" => Printed(c)
    /\ pc[c] = "update" => exportsize = OwnSize(c)
    /\ pc[c] = "answer" => context = OwnSize(c)
    /\ pc[c] = "open" => session[c].told = OwnSize(c) /\ ReadOwn(c)

PostInv(c) ==
    /\ pp = session[c].command
    /\ last[c].kind = "write" => last[c].command = session[c].command

ClientInv(c) ==
    /\ pc[c] # "open" => last[c] = NoAccess
    /\ pc[c] = "run" => session[c].command.type = "GET"
    /\ Undisturbed(c) =>
          /\ \A e \in Clients \ {c} : pc[e] \notin Looking
          /\ session[c].command.type = "GET" => GetInv(c)
          /\ session[c].command.type = "POST" => PostInv(c)

Inv == TypeOK /\ \A c \in Clients : ClientInv(c)

LEMMA InitInv == Init => Inv
<1> SUFFICES ASSUME Init PROVE Inv
  OBVIOUS
<1>1. TypeOK
  BY DEF Init, TypeOK, Sessions, NoSession, Places
<1>2. \A c \in Clients : ClientInv(c)
  BY DEF Init, ClientInv, Undisturbed, Looking
<1> QED BY <1>1, <1>2 DEF Inv

\* The search of the table ends at a command or at none.
LEMMA LookupType ==
    ASSUME TypeOK, NEW key PROVE Lookup(key) \in Kinds \cup {None}
<1> DEFINE found == {i \in DOMAIN commands : commands[i].name = key}
<1>1. CASE found = {}
  BY <1>1 DEF Lookup
<1>2. CASE found # {}
  <2>1. found \in SUBSET Nat
    BY DEF TypeOK
  <2>2. \E i \in found : \A j \in found : i <= j
    BY <1>2, <2>1, LeastNat
  <2>3. (CHOOSE i \in found : \A j \in found : i <= j) \in DOMAIN commands
    BY <2>2
  <2> QED BY <1>2, <2>3 DEF Lookup, TypeOK
<1> QED BY <1>1, <1>2

\* No command is none, and what one prints has room in the buffer.
LEMMA KindProps ==
    ASSUME NEW k \in Kinds \cup {None}
    PROVE  /\ k.type \in {"GET", "POST"} => k \in Kinds
           /\ k.size \in 0 .. CMD_BUFFER_SZ
           /\ k.type = "none" => k = None
<1>1. CASE k \in Kinds
  BY <1>1, KindsAssumption, LimitsAssumption
<1>2. CASE k = None
  BY <1>2, LimitsAssumption DEF None
<1> QED BY <1>1, <1>2

\* A step of client c, for the session of another client d.
LEMMA Others ==
    ASSUME Inv, NEW c \in Clients, NEW d \in Clients, d # c,
           pc'[d] = pc[d], session'[d] = session[d], last'[d] = last[d],
           pc'[c] \in Looking => pc[c] \in Looking,
           \A e \in Clients \ {c} : pc'[e] = pc[e],
           pc[c] \in Looking \/ UNCHANGED <<shared, context>>
    PROVE  ClientInv(d)'
<1>1. ClientInv(d)
  BY DEF Inv
<1>2. CASE ~Undisturbed(d)
  BY <1>1, <1>2 DEF ClientInv, Undisturbed
<1>3. CASE Undisturbed(d)
  <2>1. \A e \in Clients \ {d} : pc[e] \notin Looking
    BY <1>1, <1>3 DEF ClientInv
  <2>2. UNCHANGED <<result, exportsize, pp, context>>
    BY <2>1 DEF shared
  <2>3. \A e \in Clients \ {d} : pc'[e] \notin Looking
    BY <2>1
  <2>4. GetInv(d) => GetInv(d)'
    BY <2>2 DEF GetInv, Cleared, Printed, OwnOutput, OwnSize, ReadOwn
  <2>5. PostInv(d) => PostInv(d)'
    BY <2>2 DEF PostInv
  <2> QED BY <1>1, <1>3, <2>3, <2>4, <2>5 DEF ClientInv, Undisturbed
<1> QED BY <1>2, <1>3

-----------------------------------------------------------------------------
(* The lookup.                                                                *)

LEMMA OpenDoes ==
    ASSUME TypeOK, NEW c \in Clients, NEW k \in Kinds \cup {None}, Open(c, k)
    PROVE  /\ session' \in [Clients -> Sessions]
           /\ session'[c].command = k
           /\ session'[c].alone => \A e \in Clients \ {c} : pc[e] \notin Looking
           /\ \A d \in Clients \ {c} : session'[d].command = session[d].command /\ ~session'[d].alone
<1>1. \A d \in Clients : session[d] \in Sessions
  BY DEF TypeOK
<1>2. [id |-> opens + 1, command |-> k, told |-> 0,
       alone |-> \A e \in Clients \ {c} : pc[e] \notin {"run", "update", "answer"}] \in Sessions
  BY DEF Sessions, TypeOK
<1>3. \A d \in Clients : [session[d] EXCEPT !.alone = FALSE] \in Sessions
  BY <1>1 DEF Sessions
<1>4. \A d \in Clients : [session[d] EXCEPT !.alone = FALSE].command = session[d].command
                         /\ ~[session[d] EXCEPT !.alone = FALSE].alone
  BY <1>1 DEF Sessions
<1>5. session' \in [Clients -> Sessions]
  BY <1>2, <1>3 DEF Open
<1>6. session'[c].command = k
      /\ (session'[c].alone => \A e \in Clients \ {c} : pc[e] \notin Looking)
  BY DEF Open, Looking
<1>7. \A d \in Clients \ {c} : session'[d] = [session[d] EXCEPT !.alone = FALSE]
  BY DEF Open
<1> QED BY <1>4, <1>5, <1>6, <1>7

\* The shared variables as the lookup leaves them.
LEMMA DispatchInv ==
    ASSUME Inv, NEW c \in Clients, NEW key, pc[c] = "idle", Dispatch(c, key),
           UNCHANGED <<commands, context, last>>
    PROVE  Inv'
<1> DEFINE k == Lookup(key)
<1>1. k \in Kinds \cup {None} /\ Open(c, k)
  BY LookupType DEF Inv, Dispatch
<1> HIDE DEF k
<1>2. /\ session' \in [Clients -> Sessions]
      /\ session'[c].command = k
      /\ session'[c].alone => \A e \in Clients \ {c} : pc[e] \notin Looking
      /\ \A d \in Clients \ {c} : session'[d].command = session[d].command /\ ~session'[d].alone
  BY <1>1, OpenDoes DEF Inv
<1>3. \/ k = None /\ UNCHANGED <<shared, pc>>
      \/ k.type = "GET" /\ ClearResult(c) /\ Goto(c, "run") /\ UNCHANGED pp
      \/ k.type = "POST" /\ command_query_post(k) /\ Goto(c, "update")
  BY DEF Dispatch, k
<1>4. pc \in [Clients -> Looking \cup {"idle", "open"}]
  BY DEF Inv, TypeOK
<1>5. /\ pc' \in [Clients -> Looking \cup {"idle", "open"}]
      /\ \A e \in Clients \ {c} : pc'[e] = pc[e]
      /\ pc'[c] # "open"
  BY <1>3, <1>4 DEF Goto, Looking
<1>6. TypeOK'
  <2>1. DOMAIN result' = Places /\ exportsize' \in Nat
    BY <1>3, LimitsAssumption DEF Inv, TypeOK, shared, ClearResult, command_query_post
  <2>2. opens' \in Nat
    BY DEF Dispatch, Inv, TypeOK
  <2> QED BY <1>2, <1>5, <2>1, <2>2 DEF Inv, TypeOK
<1>7. ASSUME NEW d \in Clients, d # c PROVE ClientInv(d)'
  BY <1>2, <1>5, <1>7 DEF Inv, ClientInv, Undisturbed
<1>8. ClientInv(c)'
  <2>1. last'[c] = NoAccess
    BY DEF Inv, ClientInv
  <2>2. session'[c].alone => \A e \in Clients \ {c} : pc'[e] \notin Looking
    BY <1>2, <1>5
  <2>3. CASE k = None /\ UNCHANGED <<shared, pc>>
    BY <2>1, <2>3 DEF ClientInv, Undisturbed, Looking
  <2>4. CASE k.type = "GET" /\ ClearResult(c) /\ Goto(c, "run") /\ UNCHANGED pp
    <3>1. pc'[c] = "run"
      BY <1>4, <2>4 DEF Goto
    <3>2. Cleared'
      BY <2>4 DEF ClearResult, Cleared, Places
    <3> QED BY <1>2, <2>1, <2>2, <2>4, <3>1, <3>2 DEF ClientInv, Undisturbed, GetInv
  <2>5. CASE k.type = "POST" /\ command_query_post(k) /\ Goto(c, "update")
    <3>1. pc'[c] = "update"
      BY <1>4, <2>5 DEF Goto
    <3>2. pp' = session'[c].command
      BY <1>2, <2>5 DEF command_query_post, KeepPost
    <3>3. last'[c].kind # "write"
      BY <2>1 DEF NoAccess
    <3> QED BY <1>2, <2>1, <2>2, <2>5, <3>1, <3>2, <3>3 DEF ClientInv, Undisturbed, PostInv
  <2> QED BY <1>3, <2>3, <2>4, <2>5
<1> QED BY <1>6, <1>7, <1>8 DEF Inv

\* A step from the lookup to the answer, or from an open session, moves one client.
LEMMA Moves ==
    ASSUME Inv, NEW c \in Clients, NEW l \in Looking \cup {"idle", "open"},
           pc[c] # "idle", l \in Looking => pc[c] \in Looking,
           pc' = [pc EXCEPT ![c] = l]
    PROVE  /\ pc' \in [Clients -> Looking \cup {"idle", "open"}]
           /\ pc'[c] = l
           /\ \A e \in Clients \ {c} : pc'[e] = pc[e]
  BY DEF Inv, TypeOK

LEMMA RunInv == ASSUME Inv, NEW c \in Clients, RunCommand(c) PROVE Inv'
<1> DEFINE size == session[c].command.size
<1>1. /\ pc[c] = "run" /\ UNCHANGED <<commands, pp, context, opens, session, last>>
      /\ result' = [k \in Places |-> IF k < size THEN Out(session[c].id, k) ELSE result[k]]
      /\ exportsize' = IF size = 0 THEN exportsize ELSE size
  BY DEF RunCommand, At
<1>2. PICK l \in {"update", "idle"} : pc' = [pc EXCEPT ![c] = l]
  BY DEF RunCommand, Goto
<1>3. session[c] \in Sessions
  BY DEF Inv, TypeOK
<1>4. size \in Nat
  BY <1>3, KindProps, LimitsAssumption DEF Sessions
<1>5. /\ pc' \in [Clients -> Looking \cup {"idle", "open"}]
      /\ pc'[c] = l
      /\ \A e \in Clients \ {c} : pc'[e] = pc[e]
  BY <1>1, <1>2, Moves DEF Looking
<1>6. TypeOK'
  <2>1. DOMAIN result' = Places /\ exportsize' \in Nat
    BY <1>1, <1>4 DEF Inv, TypeOK
  <2> QED BY <1>1, <1>5, <2>1 DEF Inv, TypeOK
<1>7. ASSUME NEW d \in Clients, d # c PROVE ClientInv(d)'
  BY <1>1, <1>5, <1>7, Others DEF Looking
<1>8. ClientInv(c)'
  <2>0. ClientInv(c)
    BY DEF Inv
  <2>1. last'[c] = NoAccess /\ session[c].command.type = "GET"
    BY <1>1, <2>0 DEF ClientInv
  <2>2. CASE ~Undisturbed(c)'
    BY <1>5, <2>1, <2>2 DEF ClientInv
  <2>3. CASE Undisturbed(c)'
    <3>1. l = "update" /\ Undisturbed(c)
      BY <1>1, <1>5, <2>3 DEF Undisturbed, Looking
    <3>2. /\ \A e \in Clients \ {c} : pc[e] \notin Looking
          /\ Cleared
      BY <1>1, <2>0, <2>1, <3>1 DEF ClientInv, GetInv
    <3>3. Printed(c)'
      BY <1>1, <1>4, <3>2 DEF Printed, OwnOutput, Cleared
    <3>4. exportsize' = OwnSize(c)'
      BY <1>1, <1>4, <3>2 DEF OwnSize, Cleared
    <3> QED BY <1>1, <1>5, <2>1, <3>1, <3>2, <3>3, <3>4 DEF ClientInv, GetInv
  <2> QED BY <2>2, <2>3
<1> QED BY <1>6, <1>7, <1>8 DEF Inv

LEMMA UpdateInv == ASSUME Inv, NEW c \in Clients, lwnbd_update_size(c) PROVE Inv'
<1>1. /\ pc[c] = "update" /\ UNCHANGED <<commands, shared, opens, session, last>>
      /\ context' = exportsize /\ pc' = [pc EXCEPT ![c] = "answer"]
  BY DEF lwnbd_update_size, At, Goto, command_get_size
<1>2. /\ pc' \in [Clients -> Looking \cup {"idle", "open"}]
      /\ pc'[c] = "answer"
      /\ \A e \in Clients \ {c} : pc'[e] = pc[e]
  BY <1>1, Moves DEF Looking
<1>3. TypeOK'
  BY <1>1, <1>2 DEF Inv, TypeOK, shared
<1>4. ASSUME NEW d \in Clients, d # c PROVE ClientInv(d)'
  BY <1>1, <1>2, <1>4, Others DEF Looking
<1>5. ClientInv(c)'
  <2>0. ClientInv(c)
    BY DEF Inv
  <2>1. Undisturbed(c)' => Undisturbed(c)
    BY <1>1 DEF Undisturbed, Looking
  <2>2. GetInv(c) => GetInv(c)'
    BY <1>1, <1>2 DEF GetInv, Printed, OwnOutput, OwnSize, shared
  <2>3. PostInv(c) => PostInv(c)'
    BY <1>1, <1>2 DEF PostInv, shared
  <2> QED BY <1>1, <1>2, <2>0, <2>1, <2>2, <2>3 DEF ClientInv
<1> QED BY <1>3, <1>4, <1>5 DEF Inv

LEMMA AnswerInv == ASSUME Inv, NEW c \in Clients, Answer(c) PROVE Inv'
<1>1. /\ pc[c] = "answer" /\ UNCHANGED <<commands, shared, context, opens, last>>
      /\ session' = [session EXCEPT ![c].told = context] /\ pc' = [pc EXCEPT ![c] = "open"]
  BY DEF Answer, At, Goto
<1>2. /\ pc' \in [Clients -> Looking \cup {"idle", "open"}]
      /\ pc'[c] = "open"
      /\ \A e \in Clients \ {c} : pc'[e] = pc[e]
  BY <1>1, Moves DEF Looking
<1>3. /\ session' \in [Clients -> Sessions]
      /\ \A d \in Clients \ {c} : session'[d] = session[d]
      /\ session'[c].told = context
      /\ session'[c].command = session[c].command
      /\ session'[c].id = session[c].id /\ session'[c].alone = session[c].alone
  BY <1>1 DEF Inv, TypeOK, Sessions
<1>4. TypeOK'
  BY <1>1, <1>2, <1>3 DEF Inv, TypeOK, shared
<1>5. ASSUME NEW d \in Clients, d # c PROVE ClientInv(d)'
  BY <1>1, <1>2, <1>3, <1>5, Others DEF Looking
<1>6. ClientInv(c)'
  <2>0. ClientInv(c)
    BY DEF Inv
  <2>1. Undisturbed(c)' => Undisturbed(c)
    BY <1>1, <1>3 DEF Undisturbed, Looking
  <2>2. last'[c].kind = "none"
    BY <1>1, <2>0 DEF ClientInv, NoAccess
  <2>3. GetInv(c) => GetInv(c)'
    BY <1>1, <1>2, <1>3, <2>2 DEF GetInv, Printed, OwnOutput, OwnSize, ReadOwn, shared
  <2>4. PostInv(c) => PostInv(c)'
    BY <1>1, <1>2, <1>3, <2>2 DEF PostInv, shared
  <2> QED BY <1>1, <1>2, <1>3, <2>0, <2>1, <2>3, <2>4 DEF ClientInv
<1> QED BY <1>4, <1>5, <1>6 DEF Inv

-----------------------------------------------------------------------------
(* Transmission.                                                              *)

\* A read or a write, which changes nothing but what the client has last done.
LEMMA AccessInv ==
    ASSUME Inv, NEW c \in Clients, pc[c] = "open", NEW a,
           last' = [last EXCEPT ![c] = a],
           UNCHANGED <<commands, shared, context, pc, opens, session>>,
           Undisturbed(c) =>
              /\ session[c].command.type = "GET" => ReadOwn(c)'
              /\ session[c].command.type = "POST" =>
                    (a.kind = "write" => a.command = session[c].command)
    PROVE  Inv'
<1>1. /\ \A d \in Clients \ {c} : last'[d] = last[d]
      /\ last'[c] = a
      /\ last' = [d \in Clients |-> last'[d]]
  BY DEF Inv, TypeOK
<1>2. TypeOK'
  BY <1>1 DEF Inv, TypeOK, shared
<1>3. ASSUME NEW d \in Clients, d # c PROVE ClientInv(d)'
  BY <1>1, <1>3, Others
<1>4. ClientInv(c)'
  <2>0. ClientInv(c)
    BY DEF Inv
  <2>1. Undisturbed(c)' = Undisturbed(c)
    BY DEF Undisturbed
  <2>2. GetInv(c) /\ ReadOwn(c)' => GetInv(c)'
    BY DEF GetInv, Cleared, Printed, OwnOutput, OwnSize, shared
  <2>3. PostInv(c) /\ (a.kind = "write" => a.command = session[c].command) => PostInv(c)'
    BY <1>1 DEF PostInv, shared
  <2> QED BY <2>0, <2>1, <2>2, <2>3 DEF ClientInv
<1> QED BY <1>2, <1>3, <1>4 DEF Inv

\* A read within the size the client was told is within the buffer.
LEMMA PreadInv ==
    ASSUME Inv, NEW c \in Clients, NEW offset \in Nat, NEW count \in Nat,
           command_pread(c, offset, count)
    PROVE  Inv'
<1> DEFINE a == [kind |-> "read", offset |-> offset, count |-> count, data |-> Copied(count)]
<1>1. /\ pc[c] = "open" /\ offset + count <= session[c].told
      /\ last' = [last EXCEPT ![c] = a]
      /\ UNCHANGED <<commands, shared, context, pc, opens, session>>
  BY DEF command_pread, At
<1>2. last'[c] = a
  BY <1>1 DEF Inv, TypeOK
<1>3. ASSUME Undisturbed(c), session[c].command.type = "GET" PROVE ReadOwn(c)'
  <2>1. GetInv(c)
    BY <1>3 DEF Inv, ClientInv
  <2>2. Printed(c) /\ session[c].told = OwnSize(c)
    BY <1>1, <2>1 DEF GetInv
  <2>3. session[c] \in Sessions
    BY DEF Inv, TypeOK
  <2>4. session[c].command.size \in 0 .. CMD_BUFFER_SZ
    BY <2>3, KindProps DEF Sessions
  <2>5. OwnSize(c) \in 1 .. CMD_BUFFER_SZ
    BY <2>4, LimitsAssumption DEF OwnSize
  <2>6. \A k \in 0 .. count - 1 : k \in Places
    BY <1>1, <2>2, <2>5, LimitsAssumption DEF Places
  <2>7. \A k \in 0 .. count - 1 : Copied(count)[k] = OwnOutput(c, k)
    BY <2>2, <2>6 DEF Printed, Copied
  <2>8. DOMAIN a.data = 0 .. count - 1 /\ a.data = Copied(count)
    BY DEF Copied
  <2>9. \A k \in DOMAIN a.data : a.data[k] = OwnOutput(c, k)'
    BY <1>1, <2>7, <2>8 DEF OwnOutput
  <2> HIDE DEF a
  <2> QED BY <1>2, <2>9 DEF ReadOwn
<1>4. a.kind # "write"
  OBVIOUS
<1> HIDE DEF a
<1> QED BY <1>1, <1>3, <1>4, AccessInv

LEMMA PwriteInv == ASSUME Inv, NEW c \in Clients, command_pwrite(c) PROVE Inv'
<1>1. pc[c] = "open" /\ UNCHANGED <<commands, shared, context, pc, opens, session>>
  BY DEF command_pwrite, At
<1>2. CASE UNCHANGED last
  <2>1. TypeOK'
    BY <1>1, <1>2 DEF Inv, TypeOK, shared
  <2>2. ASSUME NEW d \in Clients PROVE ClientInv(d)'
    BY <1>1, <1>2 DEF Inv, ClientInv, Undisturbed, GetInv, PostInv, Cleared, Printed, OwnOutput,
                      OwnSize, ReadOwn, shared
  <2> QED BY <2>1, <2>2 DEF Inv
<1>3. CASE last' = [last EXCEPT ![c] = [kind |-> "write", command |-> pp]]
  <2> DEFINE a == [kind |-> "write", command |-> pp]
  <2>1. last'[c] = a
    BY <1>3 DEF Inv, TypeOK
  <2>2. ReadOwn(c)'
    BY <2>1 DEF ReadOwn
  <2>3. Undisturbed(c) /\ session[c].command.type = "POST" => a.command = session[c].command
    BY DEF Inv, ClientInv, PostInv
  <2> HIDE DEF a
  <2> QED BY <1>1, <1>3, <2>2, <2>3, AccessInv DEF a
<1> QED BY <1>2, <1>3 DEF command_pwrite

LEMMA DisconnectInv == ASSUME Inv, NEW c \in Clients, Disconnect(c) PROVE Inv'
<1>1. /\ pc[c] = "open" /\ UNCHANGED <<commands, shared, context, opens>>
      /\ pc' = [pc EXCEPT ![c] = "idle"]
      /\ last' = [last EXCEPT ![c] = NoAccess]
      /\ session' = [session EXCEPT ![c] = NoSession]
  BY DEF Disconnect, At, Goto
<1>2. /\ pc' \in [Clients -> Looking \cup {"idle", "open"}]
      /\ pc'[c] = "idle"
      /\ \A e \in Clients \ {c} : pc'[e] = pc[e]
  BY <1>1, Moves DEF Looking
<1>3. /\ \A d \in Clients \ {c} : last'[d] = last[d] /\ session'[d] = session[d]
      /\ last'[c] = NoAccess
      /\ last' = [d \in Clients |-> last'[d]]
  BY <1>1 DEF Inv, TypeOK
<1>4. session' \in [Clients -> Sessions]
  BY <1>1 DEF Inv, TypeOK, Sessions, NoSession
<1>5. TypeOK'
  BY <1>1, <1>2, <1>3, <1>4 DEF Inv, TypeOK, shared
<1>6. ASSUME NEW d \in Clients, d # c PROVE ClientInv(d)'
  BY <1>1, <1>2, <1>3, <1>6, Others DEF Looking
<1>7. ClientInv(c)'
  BY <1>2, <1>3 DEF ClientInv, Undisturbed, Looking
<1> QED BY <1>5, <1>6, <1>7 DEF Inv

-----------------------------------------------------------------------------

\* Nothing the sessions depend on changes.
LEMMA Idles ==
    ASSUME Inv, commands' \in Seq(Kinds), UNCHANGED <<shared, context, pc, opens, session, last>>
    PROVE  Inv'
<1>1. TypeOK'
  BY DEF Inv, TypeOK, shared
<1>2. ASSUME NEW d \in Clients PROVE ClientInv(d)'
  BY DEF Inv, ClientInv, Undisturbed, GetInv, PostInv, Cleared, Printed, OwnOutput, OwnSize,
         ReadOwn, shared
<1> QED BY <1>1, <1>2 DEF Inv

LEMMA StepInv == Inv /\ [Next]_vars => Inv'
<1> SUFFICES ASSUME Inv, [Next]_vars PROVE Inv'
  OBVIOUS
<1>0. commands \in Seq(Kinds)
  BY DEF Inv, TypeOK
<1>1. ASSUME NEW k \in Kinds, command_add_command(k) PROVE Inv'
  BY <1>0, <1>1, Idles DEF command_add_command
<1>2. CASE Serve
  BY <1>0, <1>2, Idles DEF Serve
<1>3. ASSUME NEW c \in Clients, NEW key, command_query(c, key) PROVE Inv'
  BY <1>3, DispatchInv DEF command_query, At
<1>4. ASSUME NEW c \in Clients, NoParams(c) PROVE Inv'
  <2>1. ASSUME NEW key, Dispatch(c, key) PROVE Inv'
    BY <1>4, <2>1, DispatchInv DEF NoParams, At
  <2>2. CASE UNCHANGED <<shared, pc, opens, session>>
    BY <1>0, <1>4, <2>2, Idles DEF NoParams
  <2> QED BY <1>4, <2>1, <2>2 DEF NoParams
<1>5. ASSUME NEW c \in Clients, NEW offset \in 0 .. CMD_BUFFER_SZ, NEW count \in 0 .. CMD_BUFFER_SZ,
             command_pread(c, offset, count)
      PROVE  Inv'
  BY <1>5, PreadInv, LimitsAssumption
<1>6. CASE UNCHANGED vars
  BY <1>0, <1>6, Idles DEF vars
<1>7. CASE Quiet
  BY <1>6, <1>7 DEF Quiet
<1> QED BY <1>1, <1>2, <1>3, <1>4, <1>5, <1>6, <1>7, RunInv, UpdateInv, AnswerInv, PwriteInv,
           DisconnectInv DEF Next

LEMMA AlwaysInv == Spec => []Inv
  BY InitInv, StepInv, PTL DEF Spec

-----------------------------------------------------------------------------
(* Theorems.                                                                  *)

\* A client with a GET command is told the size of what its own command printed and
\* reads nothing else, although the result and its size are kept once for all clients,
\* unless the lookup of another client falls into its session (command.c 30-36, 53-64).
THEOREM ReadsAreOwn == Spec => []ReadsOwnResult
<1>1. ASSUME Inv PROVE ReadsOwnResult
  BY <1>1 DEF Inv, ClientInv, Undisturbed, GetInv, ReadOwn, ReadsOwnResult, Alone
<1> QED BY <1>1, AlwaysInv, PTL

\* A client with a POST command runs that one with each write (command.c 38-44, 66-80).
THEOREM WritesAreOwn == Spec => []WritesRunOwn
<1>1. ASSUME Inv PROVE WritesRunOwn
  BY <1>1 DEF Inv, ClientInv, Undisturbed, PostInv, WritesRunOwn, Alone
<1> QED BY <1>1, AlwaysInv, PTL
=============================================================================
