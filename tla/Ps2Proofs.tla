----------------------------- MODULE Ps2Proofs -----------------------------
(***************************************************************************)
(* Proofs about the table of servers and the PlayStation 2 module, for     *)
(* every number of slots, handles and remote calls, every set of build     *)
(* options and every kind of server; and about the memory card plugin that *)
(* the module serves (MemoryCard), for cards and requests of every         *)
(* size and every number of client threads.                                *)
(***************************************************************************)
EXTENDS Ps2, MemoryCard, FiniteSetTheorems, WellFoundedInduction, TLAPS

\* The least-number principle, for the loops that stop at the first free entry.
LEMMA LeastNat ==
    ASSUME NEW S \in SUBSET Nat, S # {}
    PROVE  \E m \in S : \A n \in S : m <= n
<1> DEFINE R == OpToRel(<, Nat)
<1>1. \A x, y \in Nat : x < y => <<x, y>> \in R
  BY DEF OpToRel
<1>2. IsWellFoundedOn(R, Nat)
  BY NatLessThanWellFounded
<1> HIDE DEF R
<1>3. PICK m \in S : \A n \in S : ~(<<n, m>> \in R)
  BY <1>2, WFMin
<1>4. \A n \in S : ~(n < m)
  BY <1>1, <1>3, Zenon
<1> QED BY <1>4

LEMMA FirstOfIn == ASSUME NEW S \in SUBSET Nat, S # {} PROVE FirstOf(S) \in S
  BY LeastNat DEF FirstOf

-----------------------------------------------------------------------------
(* The table of servers.                                                      *)

NbdSlots == {i \in held : servers[i].s.name = "nbd"}

\* The application holds the slots that are taken, and the NBD servers among them
\* have handles of their own, of the array.  No handle is taken for nothing: this
\* is why a free slot means that there is a free handle.
TableInv ==
    /\ servers_status \in [Slots -> {"FREE", "STOPPED"}]
    /\ servers \in [Slots -> [s : Kinds \cup {Null}, handle : {Own} \cup NbdHandles]]
    /\ held = {i \in Slots : servers_status[i] = "STOPPED"}
    /\ handle_in_use \subseteq 0 .. NBD_SERVER_MAX_DEVICES - 1
    /\ \A i \in NbdSlots : servers[i].handle \in handle_in_use
    /\ \A i, j \in NbdSlots : servers[i].handle = servers[j].handle => i = j
    /\ Cardinality(handle_in_use) <= Cardinality(NbdSlots)

\* The steps that change the table.
StopSucceeds(i) ==
    /\ i \in Slots
    /\ "stop" \in servers[i].s.has
    /\ servers_status' = [servers_status EXCEPT ![i] = "FREE"]
    /\ held' = held \ {i}
    /\ UNCHANGED <<servers, handle_in_use>>

LEMMA TableInit == ServersInit => TableInv
<1> SUFFICES ASSUME ServersInit PROVE TableInv
  OBVIOUS
<1>1. NbdSlots = {} /\ handle_in_use = {}
  BY DEF ServersInit, NbdSlots
<1>2. Cardinality(handle_in_use) <= Cardinality(NbdSlots)
  BY <1>1, FS_EmptySet
<1> QED BY <1>1, <1>2 DEF ServersInit, TableInv

\* A server that is set up gets a free slot and, if it is an NBD server, a handle
\* that is not in use.
LEMMA InitSlotFree ==
    ASSUME TableInv, NEW k \in Kinds, InitSucceeds(k)
    PROVE  InitSlot \in Slots \ held /\ InitSlot \in FreeSlots
<1>1. FreeSlots # {} /\ FreeSlots \in SUBSET Nat
  BY LimitsAssumption DEF InitSucceeds, Refused, FreeSlots, Slots
<1>2. InitSlot \in FreeSlots
  BY <1>1, FirstOfIn DEF InitSlot
<1> QED BY <1>2 DEF FreeSlots, TableInv

LEMMA HandleFree ==
    ASSUME TableInv, NEW i \in Slots \ held
    PROVE  nbd_new \in (0 .. NBD_SERVER_MAX_DEVICES - 1) \ handle_in_use
<1> DEFINE D == 0 .. NBD_SERVER_MAX_DEVICES - 1
<1> USE LimitsAssumption, NbdAssumption
<1>1. IsFiniteSet(D) /\ Cardinality(D) = NBD_SERVER_MAX_DEVICES
  BY FS_Interval
<1>2. IsFiniteSet(Slots) /\ Cardinality(Slots) = MAX_NUM_SERVERS
  BY FS_Interval DEF Slots
<1>3. IsFiniteSet(Slots \ {i}) /\ Cardinality(Slots \ {i}) = MAX_NUM_SERVERS - 1
  BY <1>2, FS_RemoveElement
<1>4. NbdSlots \in SUBSET (Slots \ {i})
  BY DEF NbdSlots, TableInv
<1>5. Cardinality(NbdSlots) <= MAX_NUM_SERVERS - 1 /\ Cardinality(NbdSlots) \in Nat
  BY <1>3, <1>4, FS_Subset, FS_CardinalityType
<1>6. Cardinality(handle_in_use) # NBD_SERVER_MAX_DEVICES /\ handle_in_use \in SUBSET D
  <2>1. IsFiniteSet(handle_in_use) /\ Cardinality(handle_in_use) \in Nat
    BY <1>1, FS_Subset, FS_CardinalityType DEF TableInv
  <2> QED BY <1>5, <2>1 DEF TableInv
<1>7. PICK h \in D : h \notin handle_in_use
  BY <1>1, <1>6
<1>8. FreeHandles = D \ handle_in_use
  BY DEF FreeHandles, NbdHandles
<1>9. FreeHandles # {} /\ FreeHandles \in SUBSET Nat
  BY <1>7, <1>8
<1>10. nbd_new = FirstOf(FreeHandles)
  BY <1>9 DEF nbd_new
<1> QED BY <1>8, <1>9, <1>10, FirstOfIn

LEMMA InitTable == ASSUME TableInv, NEW k \in Kinds, InitSucceeds(k) PROVE TableInv'
<1> DEFINE i == InitSlot
           h == IF k.name = "nbd" THEN nbd_new ELSE Own
<1>1. i \in Slots /\ i \notin held
  BY InitSlotFree
<1>2. /\ servers' = [servers EXCEPT ![i] = [s |-> k, handle |-> h]]
      /\ servers_status' = [servers_status EXCEPT ![i] = "STOPPED"]
      /\ handle_in_use' = IF k.name = "nbd" THEN handle_in_use \cup {h} ELSE handle_in_use
      /\ held' = held \cup {i}
  BY DEF InitSucceeds
<1>3. nbd_new \in (0 .. NBD_SERVER_MAX_DEVICES - 1) \ handle_in_use
  BY <1>1, HandleFree
<1>4. h \in {Own} \cup NbdHandles
  BY <1>3, LimitsAssumption DEF NbdHandles
<1> HIDE DEF i, h
<1>5. \A j \in Slots : servers'[j] = IF j = i THEN [s |-> k, handle |-> h] ELSE servers[j]
  BY <1>2 DEF TableInv
<1>6. servers' \in [Slots -> [s : Kinds \cup {Null}, handle : {Own} \cup NbdHandles]]
  BY <1>1, <1>2, <1>4 DEF TableInv
<1>7. /\ servers_status' \in [Slots -> {"FREE", "STOPPED"}]
      /\ held' = {j \in Slots : servers_status'[j] = "STOPPED"}
  BY <1>1, <1>2 DEF TableInv
<1>8. IsFiniteSet(Slots) /\ held \subseteq Slots /\ IsFiniteSet(NbdSlots)
  <2>1. IsFiniteSet(Slots)
    BY FS_Interval, LimitsAssumption DEF Slots
  <2> QED BY <2>1, FS_Subset DEF NbdSlots, TableInv
<1>9. IsFiniteSet(handle_in_use)
  <2>1. IsFiniteSet(0 .. NBD_SERVER_MAX_DEVICES - 1)
    BY FS_Interval, LimitsAssumption
  <2> QED BY <2>1, FS_Subset DEF TableInv
<1>10. CASE k.name = "nbd"
  <2>1. h = nbd_new
    BY <1>10 DEF h
  <2>2. NbdSlots' = NbdSlots \cup {i}
    BY <1>1, <1>2, <1>5, <1>8, <1>10 DEF NbdSlots
  <2>3. i \notin NbdSlots
    BY <1>1 DEF NbdSlots
  <2>4. Cardinality(NbdSlots') = Cardinality(NbdSlots) + 1 /\ Cardinality(NbdSlots) \in Nat
    BY <1>8, <2>2, <2>3, FS_AddElement, FS_CardinalityType
  <2>5. /\ Cardinality(handle_in_use') = Cardinality(handle_in_use) + 1
        /\ Cardinality(handle_in_use) \in Nat
    BY <1>2, <1>3, <1>9, <1>10, <2>1, FS_AddElement, FS_CardinalityType
  <2>6. Cardinality(handle_in_use') <= Cardinality(NbdSlots')
    BY <2>4, <2>5 DEF TableInv
  <2>7. handle_in_use' = handle_in_use \cup {h} /\ h \notin handle_in_use
        /\ h \in 0 .. NBD_SERVER_MAX_DEVICES - 1
    BY <1>2, <1>3, <1>10, <2>1
  <2>8. ASSUME NEW j \in NbdSlots'
        PROVE  /\ servers'[j].handle = IF j = i THEN h ELSE servers[j].handle
               /\ j # i => j \in NbdSlots
    BY <1>1, <1>5, <1>8, <2>2 DEF NbdSlots
  <2>9. /\ \A j \in NbdSlots' : servers'[j].handle \in handle_in_use'
        /\ \A j, l \in NbdSlots' : servers'[j].handle = servers'[l].handle => j = l
    BY <2>7, <2>8 DEF TableInv
  <2> QED BY <1>6, <1>7, <2>6, <2>7, <2>9 DEF TableInv
<1>11. CASE k.name # "nbd"
  <2>1. NbdSlots' = NbdSlots /\ handle_in_use' = handle_in_use
    BY <1>1, <1>2, <1>5, <1>8, <1>11 DEF NbdSlots
  <2>2. \A j \in NbdSlots : servers'[j] = servers[j]
    BY <1>1, <1>5, <1>8 DEF NbdSlots
  <2>3. /\ \A j \in NbdSlots' : servers'[j].handle \in handle_in_use'
        /\ \A j, l \in NbdSlots' : servers'[j].handle = servers'[l].handle => j = l
        /\ Cardinality(handle_in_use') <= Cardinality(NbdSlots')
    BY <2>1, <2>2 DEF TableInv
  <2> QED BY <1>6, <1>7, <2>1, <2>3 DEF TableInv
<1> QED BY <1>10, <1>11

\* An NBD server cannot be stopped, so that its handle stays its own.
LEMMA StopTable == ASSUME TableInv, NEW i, StopSucceeds(i) PROVE TableInv'
<1>1. /\ i \in Slots /\ servers_status' = [servers_status EXCEPT ![i] = "FREE"]
      /\ held' = held \ {i} /\ UNCHANGED <<servers, handle_in_use>>
  BY DEF StopSucceeds
<1>2. i \notin NbdSlots
  <2> SUFFICES ASSUME servers[i].s.name = "nbd" PROVE FALSE
    BY DEF NbdSlots
  <2>1. servers[i].s \in Kinds \cup {Null}
    BY <1>1 DEF TableInv
  <2>2. servers[i].s = nbd_server
    BY <2>1, NbdAssumption DEF Null
  <2> QED BY <2>2 DEF StopSucceeds, nbd_server
<1>3. NbdSlots' = NbdSlots
  BY <1>1, <1>2 DEF NbdSlots
<1>4. /\ servers_status' \in [Slots -> {"FREE", "STOPPED"}]
      /\ held' = {j \in Slots : servers_status'[j] = "STOPPED"}
  BY <1>1 DEF TableInv
<1> QED BY <1>1, <1>3, <1>4 DEF TableInv

LEMMA SameTable ==
    ASSUME TableInv, UNCHANGED <<servers_status, servers, handle_in_use, held>>
    PROVE  TableInv'
<1>1. NbdSlots' = NbdSlots
  BY DEF NbdSlots
<1> QED BY <1>1 DEF TableInv

\* What any step, of either program, may do to the table.
TableStep ==
    \/ UNCHANGED <<servers_status, servers, handle_in_use, held>>
    \/ \E k \in Kinds : InitSucceeds(k)
    \/ \E i \in Slots : StopSucceeds(i)

LEMMA StopDoes ==
    ASSUME NEW i \in Slots, lwnbd_server_stop(i)
    PROVE  \/ StopSucceeds(i) /\ UNCHANGED <<settings, crash>>
           \/ crash' # "none" /\ UNCHANGED <<servers_status, servers, handle_in_use, settings, held>>
  BY DEF lwnbd_server_stop, StopSucceeds, Calls, Missing, Unchanged

LEMMA NextTable == TableInv /\ sifrpc \in Kinds /\ [Next]_allVars => TableStep
<1> SUFFICES ASSUME TableInv, sifrpc \in Kinds, [Next]_allVars PROVE TableStep
  OBVIOUS
<1>1. CASE SifExecModuleBuffer \/ set_ipconfig \/ LinkFails \/ nbd_server_create
           \/ CreateListener \/ Stop \/ (\E readonly \in BOOLEAN : Start(readonly))
           \/ UNCHANGED allVars
  BY <1>1 DEF SifExecModuleBuffer, set_ipconfig, LinkFails, nbd_server_create, CreateListener,
              Stop, Start, allVars, vars, TableStep
<1>2. CASE StartFollowsFailure
  BY <1>2 DEF StartFollowsFailure, Unchanged, TableStep
<1>3. CASE _start
  BY <1>3 DEF _start, TableStep
<1>4. CASE _shutdown
  <2>1. 0 \in Slots
    BY LimitsAssumption DEF Slots
  <2> QED BY <1>4, <2>1, StopDoes DEF _shutdown, TableStep
<1>5. CASE ConfigInit
  BY <1>5, Ps2Assumption DEF ConfigInit, InitFails, TableStep
<1>6. CASE ConfigSettings
  BY <1>6 DEF ConfigSettings, Unchanged, lwnbd_server_config, TableStep
<1>7. CASE Anything
  <2>1. CASE \E k \in Kinds : lwnbd_server_init(k)
    BY <2>1 DEF lwnbd_server_init, InitFails, TableStep
  <2>2. CASE BadHandle \/ \E i \in Slots : RunReturns(i)
    BY <2>2 DEF BadHandle, Unchanged, RunReturns, TableStep
  <2>3. CASE \E i \in held : Call(i)
    <3>1. PICK i \in Slots : Call(i)
      BY <2>3 DEF TableInv
    <3>2. CASE \E key \in Keys : lwnbd_server_config(i, key)
      BY <3>2 DEF lwnbd_server_config, TableStep
    <3>3. CASE lwnbd_server_new(i)
      BY <3>3 DEF lwnbd_server_new, Missing, Unchanged, vars, TableStep
    <3>4. CASE lwnbd_server_run(i)
      BY <3>4 DEF lwnbd_server_run, Missing, Unchanged, vars, TableStep
    <3>5. CASE lwnbd_server_stop(i)
      BY <3>5, StopDoes DEF TableStep
    <3> QED BY <3>1, <3>2, <3>3, <3>4, <3>5 DEF Call
  <2> QED BY <1>7, <2>1, <2>2, <2>3 DEF Anything, AnyCall
<1> QED BY <1>1, <1>2, <1>3, <1>4, <1>5, <1>6, <1>7 DEF Next

LEMMA KeepsTable == TableInv /\ TableStep => TableInv'
  BY InitTable, StopTable, SameTable DEF TableStep

LEMMA HeldStep == TableInv /\ TableStep =>
    \A i \in held : i \in held' => servers'[i] = servers[i] /\ servers_status'[i] = "STOPPED"
<1> SUFFICES ASSUME TableInv, TableStep, NEW i \in held, i \in held'
             PROVE  servers'[i] = servers[i] /\ servers_status'[i] = "STOPPED"
  OBVIOUS
<1>1. i \in Slots /\ servers_status[i] = "STOPPED"
  BY DEF TableInv
<1>2. CASE UNCHANGED <<servers_status, servers, handle_in_use, held>>
  BY <1>1, <1>2
<1>3. ASSUME NEW k \in Kinds, InitSucceeds(k)
      PROVE  servers'[i] = servers[i] /\ servers_status'[i] = "STOPPED"
  <2>1. InitSlot # i
    BY <1>3, InitSlotFree
  <2> QED BY <1>1, <1>3, <2>1 DEF InitSucceeds, TableInv
<1>4. ASSUME NEW j \in Slots, StopSucceeds(j)
      PROVE  servers'[i] = servers[i] /\ servers_status'[i] = "STOPPED"
  BY <1>1, <1>4 DEF StopSucceeds, TableInv
<1> QED BY <1>2, <1>3, <1>4 DEF TableStep

-----------------------------------------------------------------------------
(* The boot of the I/O processor.                                             *)

\* What has been loaded is what comes before the module to be loaded next.
BootInv ==
    /\ program \in {"any", "irx"}
    /\ sifrpc \in Sifrpc
    /\ platform \in {"loading", "up", "failed"}
    /\ step \in 1 .. 14
    /\ \A n \in 1 .. 13 : n < step => modules[n] \in resident
    /\ platform = "up" => step = 14
    /\ lib = "unlinked" => options \cap {"BDM", "TTY"} # {}

LEMMA ModulesLen == Len(modules) = 13
  BY DEF modules

LEMMA BootInit == Init => BootInv
  BY DEF Init, BootInv

LEMMA BootStep == BootInv /\ [Next]_allVars => BootInv'
<1> SUFFICES ASSUME BootInv, [Next]_allVars PROVE BootInv'
  OBVIOUS
<1>1. CASE SifExecModuleBuffer
  <2>1. /\ step <= 13 /\ UNCHANGED <<program, options, sifrpc, lib>> /\ platform = "loading"
        /\ \/ resident' = resident \cup {modules[step]} /\ step' = step + 1 /\ UNCHANGED platform
           \/ platform' = "failed" /\ UNCHANGED <<resident, step>>
    BY <1>1, ModulesLen DEF SifExecModuleBuffer, Booting, module
  <2>2. ASSUME NEW n \in 1 .. 13, n < step' PROVE modules[n] \in resident'
    <3>1. n < step \/ (n = step /\ resident' = resident \cup {modules[step]})
      BY <2>1, <2>2 DEF BootInv
    <3> QED BY <2>1, <2>2, <3>1 DEF BootInv
  <2> QED BY <2>1, <2>2 DEF BootInv
<1>2. CASE set_ipconfig
  <2>1. /\ step > 13 /\ platform' \in {"up", "failed"}
        /\ UNCHANGED <<program, options, sifrpc, lib, step, resident>>
    BY <1>2, ModulesLen DEF set_ipconfig, module
  <2> QED BY <2>1 DEF BootInv
<1>3. CASE LinkFails
  <2>1. platform = "up" /\ UNCHANGED boot /\ UNCHANGED program /\ ~(imports(options) \subseteq resident)
    BY <1>3 DEF LinkFails
  <2>2. {"ps2atad", "ps2ip", "audsrv", "mcman"} \subseteq resident
    <3>1. modules[9] \in resident /\ modules[4] \in resident /\ modules[3] \in resident
          /\ modules[7] \in resident
      BY <2>1 DEF BootInv
    <3> QED BY <3>1 DEF modules
  <2>3. PICK m \in imports(options) : m \notin resident
    BY <2>1
  <2>4. PICK o \in options : m \in CASE o = "ATAD" -> {"ps2atad"} [] o = "NET" -> {"ps2ip"}
             [] o = "PCMSTREAM" -> {"audsrv"} [] o = "MCMAN" -> {"mcman"}
             [] o = "BDM" -> {"bdm"} [] o = "TTY" -> {"iomanX"}
             [] OTHER -> {}
    BY <2>3 DEF imports
  <2>5. o \in {"BDM", "TTY"}
    BY <2>2, <2>3, <2>4
  <2> QED BY <2>1, <2>5 DEF BootInv, boot
<1>4. ASSUME UNCHANGED <<program, boot>>, lib' = lib \/ lib' # "unlinked" PROVE BootInv'
  BY <1>4 DEF boot, BootInv
<1>5. CASE StartFollowsFailure \/ _start \/ _shutdown \/ ConfigInit \/ nbd_server_create
           \/ ConfigSettings \/ CreateListener \/ Stop \/ Anything \/ UNCHANGED allVars
           \/ (\E readonly \in BOOLEAN : Start(readonly))
  <2>1. UNCHANGED <<program, boot>> /\ (lib' = lib \/ lib' # "unlinked")
    BY <1>5 DEF StartFollowsFailure, _start, _shutdown, ConfigInit, nbd_server_create,
         ConfigSettings, CreateListener, Stop, Anything, allVars, Start, module
  <2> QED BY <1>4, <2>1
<1> QED BY <1>1, <1>2, <1>3, <1>5 DEF Next

LEMMA BootOrder == BootInv => LoadOrder
<1> SUFFICES ASSUME BootInv PROVE LoadOrder
  OBVIOUS
<1>1. ASSUME step <= 13 PROVE Required(modules[step]) \subseteq resident
  <2>1. CASE step = 3
    <3>1. modules[2] \in resident
      BY <2>1 DEF BootInv
    <3> QED BY <2>1, <3>1 DEF modules, Required
  <2>2. CASE step = 7
    <3>1. modules[1] \in resident
      BY <2>2 DEF BootInv
    <3> QED BY <2>2, <3>1 DEF modules, Required
  <2>3. CASE step \in 1 .. 13 \ {3, 7}
    <3>1. step \in {1, 2, 4, 5, 6, 8, 9, 10, 11, 12, 13}
      BY <2>3
    <3>2. modules[step] \notin {"mcman", "audsrv"}
      BY <3>1 DEF modules
    <3> QED BY <3>2 DEF Required
  <2> QED BY <1>1, <2>1, <2>2, <2>3 DEF BootInv
<1> QED BY <1>1, ModulesLen DEF BootInv, LoadOrder

-----------------------------------------------------------------------------
(* The module's threads.                                                      *)

Handling == pc \in {"init", "create", "settings", "thread"}

\* The last listener made is never the thread for remote calls, for there are never
\* more threads than calls: a number below the bound is free for the next one.
ThreadInv ==
    /\ threads \subseteq 1 .. MaxCommands + 1
    /\ sent \in 0 .. MaxCommands
    /\ nbdThreadID # RpcThread
    /\ pc \in {"off", "idle", "init", "create", "settings", "thread"}
    /\ pc # "off" => RpcThread \in threads
    /\ Cardinality(threads) <= sent + 1
    /\ Handling => Cardinality(threads) <= sent /\ started
    /\ alternate => listeners \subseteq IF started /\ ~Handling THEN {nbdThreadID} ELSE {}
    /\ sent = 0 => ~started
    /\ started \in BOOLEAN /\ alternate \in BOOLEAN

LEMMA ThreadsFinite ==
    ThreadInv => IsFiniteSet(threads) /\ Cardinality(threads) \in Nat
<1>1. IsFiniteSet(1 .. MaxCommands + 1)
  BY FS_Interval, Ps2Assumption
<1> QED BY <1>1, FS_Subset, FS_CardinalityType DEF ThreadInv

LEMMA FreshThread ==
    ASSUME ThreadInv, pc = "thread"
    PROVE  Fresh \in (1 .. MaxCommands + 1) \ threads
<1> DEFINE T == (1 .. MaxCommands + 1) \ threads
<1> USE Ps2Assumption
<1>1. IsFiniteSet(1 .. MaxCommands + 1) /\ Cardinality(1 .. MaxCommands + 1) = MaxCommands + 1
  BY FS_Interval
<1>2. Cardinality(threads) <= MaxCommands /\ Cardinality(threads) \in Nat
  BY ThreadsFinite DEF ThreadInv, Handling
<1>3. threads # 1 .. MaxCommands + 1
  BY <1>1, <1>2
<1>4. T # {} /\ T \in SUBSET Nat
  <2>1. threads \subseteq 1 .. MaxCommands + 1
    BY DEF ThreadInv
  <2>2. PICK u \in 1 .. MaxCommands + 1 : u \notin threads
    BY <1>3, <2>1, Zenon
  <2> QED BY <2>2
<1>5. PICK t \in T : \A u \in T : t <= u
  BY <1>4, LeastNat
<1>6. \A u \in 1 .. t - 1 : u \in threads
  <2> SUFFICES ASSUME NEW u \in 1 .. t - 1, u \notin threads PROVE FALSE
    OBVIOUS
  <2>1. u \in T /\ u < t
    BY <1>5
  <2> QED BY <1>5, <2>1
<1> QED BY <1>5, <1>6 DEF Fresh

LEMMA ThreadInit == Init => ThreadInv
<1> SUFFICES ASSUME Init PROVE ThreadInv
  OBVIOUS
<1>1. threads = {} /\ sent = 0 /\ pc = "off" /\ nbdThreadID = 0 /\ started = FALSE
      /\ alternate = TRUE
  BY DEF Init
<1>2. Cardinality(threads) = 0
  BY <1>1, FS_EmptySet
<1>3. /\ threads \subseteq 1 .. MaxCommands + 1 /\ sent \in 0 .. MaxCommands
      /\ nbdThreadID # RpcThread /\ Cardinality(threads) <= sent + 1
  BY <1>1, <1>2, Ps2Assumption DEF RpcThread
<1>4. listeners = {}
  BY <1>1 DEF listeners
<1> QED BY <1>1, <1>3, <1>4 DEF ThreadInv, Handling

LEMMA ThreadStep == ThreadInv /\ [Next]_allVars => ThreadInv'
<1> SUFFICES ASSUME ThreadInv, [Next]_allVars PROVE ThreadInv'
  OBVIOUS
<1> USE Ps2Assumption DEF RpcThread
<1>0. IsFiniteSet(threads) /\ Cardinality(threads) \in Nat
  BY ThreadsFinite
<1>1. CASE SifExecModuleBuffer \/ set_ipconfig \/ LinkFails \/ StartFollowsFailure \/ Anything
           \/ UNCHANGED allVars
  <2>1. UNCHANGED <<pc, threads, nbdThreadID, sent, started, alternate>>
    BY <1>1 DEF SifExecModuleBuffer, set_ipconfig, LinkFails, StartFollowsFailure, Anything,
                allVars, module, calls
  <2> QED BY <2>1 DEF ThreadInv, Handling, listeners
<1>2. CASE _start
  <2>1. UNCHANGED <<nbdThreadID, sent, started, alternate>>
    BY <1>2 DEF _start, calls
  <2>2. CASE pc' = "idle" /\ threads' = {RpcThread}
    <3>1. Cardinality(threads') = 1
      BY <2>2, FS_Singleton
    <3> QED BY <2>1, <2>2, <3>1 DEF ThreadInv, Handling, listeners
  <2>3. CASE UNCHANGED <<pc, threads>>
    BY <2>1, <2>3 DEF ThreadInv, Handling, listeners
  <2> QED BY <1>2, <2>2, <2>3 DEF _start, sifrpc_thread
<1>3. CASE _shutdown
  <2>1. /\ UNCHANGED <<nbdThreadID, sent, started, alternate>>
        /\ pc \in {"idle", "off"} /\ pc' = "off" /\ threads' = threads \ {RpcThread}
    BY <1>3 DEF _shutdown, sifrpc_stop, calls
  <2>2. Cardinality(threads') <= Cardinality(threads) /\ Cardinality(threads') \in Nat
    <3>1. threads' \in SUBSET threads
      BY <2>1
    <3> QED BY <1>0, <3>1, FS_Subset, FS_CardinalityType
  <2> QED BY <1>0, <2>1, <2>2 DEF ThreadInv, Handling, listeners
<1>4. ASSUME NEW readonly \in BOOLEAN, Start(readonly) PROVE ThreadInv'
  <2>1. /\ pc = "idle" /\ sent < MaxCommands /\ pc' \in {"init", "thread"} /\ sent' = sent + 1
        /\ started' = TRUE /\ alternate' = (alternate /\ ~started)
        /\ UNCHANGED <<nbdThreadID, threads>>
    BY <1>4 DEF Start, Goto
  <2>2. (alternate' => alternate /\ ~started) /\ alternate' \in BOOLEAN
    BY <2>1
  <2>3. alternate' => listeners' = {}
    BY <2>1, <2>2 DEF ThreadInv, listeners
  <2> QED BY <1>0, <2>1, <2>2, <2>3 DEF ThreadInv, Handling
<1>5. CASE ConfigInit \/ nbd_server_create \/ ConfigSettings
  <2>1. /\ pc \in {"init", "create", "settings"} /\ pc' \in {"create", "settings", "thread"}
        /\ UNCHANGED <<threads, nbdThreadID, sent, started, alternate>>
    BY <1>5 DEF ConfigInit, nbd_server_create, ConfigSettings, Goto, calls
  <2> QED BY <2>1 DEF ThreadInv, Handling, listeners
<1>6. CASE CreateListener
  <2>1. pc = "thread" /\ pc' = "idle" /\ UNCHANGED <<sent, started, alternate>>
    BY <1>6 DEF CreateListener, Goto, calls
  <2>2. CASE nbdThreadID' = Fresh /\ threads' = threads \cup {Fresh}
    <3>1. Fresh \in 1 .. MaxCommands + 1 /\ Fresh \notin threads
      BY <2>1, FreshThread
    <3>2. Cardinality(threads') = Cardinality(threads) + 1
      BY <1>0, <2>2, <3>1, FS_AddElement
    <3> QED BY <1>0, <2>1, <2>2, <3>1, <3>2 DEF ThreadInv, Handling, listeners
  <2>3. CASE nbdThreadID' = None /\ UNCHANGED threads
    BY <1>0, <2>1, <2>3 DEF ThreadInv, Handling, listeners, None
  <2> QED BY <1>6, <2>2, <2>3 DEF CreateListener, Remember
<1>7. CASE Stop
  <2>1. /\ pc = "idle" /\ sent < MaxCommands /\ threads' = threads \ {nbdThreadID}
        /\ sent' = sent + 1 /\ started' = FALSE
        /\ alternate' = (alternate /\ (started \/ sent = 0)) /\ UNCHANGED <<pc, nbdThreadID>>
    BY <1>7 DEF Stop
  <2>2. Cardinality(threads') <= Cardinality(threads) /\ Cardinality(threads') \in Nat
    <3>1. threads' \in SUBSET threads
      BY <2>1
    <3> QED BY <1>0, <3>1, FS_Subset, FS_CardinalityType
  <2>3. (alternate' => alternate) /\ alternate' \in BOOLEAN
    BY <2>1
  <2>4. alternate' => listeners' = {}
    BY <2>1, <2>3 DEF ThreadInv, Handling, listeners
  <2>5. RpcThread \in threads'
    BY <2>1 DEF ThreadInv
  <2>6. /\ threads' \subseteq 1 .. MaxCommands + 1 /\ sent' \in 0 .. MaxCommands /\ sent' # 0
        /\ nbdThreadID' # RpcThread /\ Cardinality(threads') <= sent' + 1
    <3>1. /\ threads \subseteq 1 .. MaxCommands + 1 /\ sent \in 0 .. MaxCommands
          /\ nbdThreadID # RpcThread /\ Cardinality(threads) <= sent + 1
      BY DEF ThreadInv
    <3>2. /\ threads' \subseteq threads /\ sent' = sent + 1 /\ sent < MaxCommands
          /\ nbdThreadID' = nbdThreadID
      BY <2>1
    <3> QED BY <1>0, <2>2, <3>1, <3>2
  <2>7. started' = FALSE /\ pc' = "idle"
    BY <2>1
  <2> QED BY <2>3, <2>4, <2>5, <2>6, <2>7 DEF ThreadInv, Handling
<1> QED BY <1>1, <1>2, <1>3, <1>4, <1>5, <1>6, <1>7 DEF Next

LEMMA ThreadStops == ThreadInv => StopsItsListener
<1> SUFFICES ASSUME ThreadInv PROVE StopsItsListener
  OBVIOUS
<1>1. ASSUME alternate PROVE Cardinality(listeners) <= IF started THEN 1 ELSE 0
  <2>1. CASE listeners = {}
    BY <2>1, FS_EmptySet
  <2>2. CASE started /\ listeners \in SUBSET {nbdThreadID}
    <3>1. IsFiniteSet({nbdThreadID}) /\ Cardinality({nbdThreadID}) = 1
      BY FS_Singleton
    <3> QED BY <2>2, <3>1, FS_Subset
  <2> QED BY <1>1, <2>1, <2>2 DEF ThreadInv
<1> QED BY <1>1 DEF ThreadInv, StopsItsListener

-----------------------------------------------------------------------------

Inv == TableInv /\ BootInv /\ ThreadInv

LEMMA InitInv == Init => Inv
  BY TableInit, BootInit, ThreadInit DEF Inv, Init

LEMMA StepInv == Inv /\ [Next]_allVars => Inv'
<1> SUFFICES ASSUME Inv, [Next]_allVars PROVE Inv'
  OBVIOUS
<1>1. sifrpc \in Kinds
  BY Ps2Assumption DEF Inv, BootInv
<1>2. TableInv'
  BY <1>1, NextTable, KeepsTable DEF Inv
<1>3. program' = program
  BY DEF Next, allVars, SifExecModuleBuffer, set_ipconfig, LinkFails, StartFollowsFailure, _start,
         _shutdown, Start, ConfigInit, nbd_server_create, ConfigSettings, CreateListener, Stop,
         Anything
<1> QED BY <1>2, <1>3, BootStep, ThreadStep DEF Inv

LEMMA AlwaysInv == Spec => []Inv
  BY InitInv, StepInv, PTL DEF Spec

\* However an application sets servers up and stops them, two NBD servers in use never
\* share a handle, and none gets the one behind the array of handles.
THEOREM HandlesStayApart == Spec => []HandlesApart
<1>1. Inv => HandlesApart
  <2> SUFFICES ASSUME TableInv PROVE HandlesApart
    BY DEF Inv
  <2>1. \A i \in NbdSlots : servers[i].handle # NBD_SERVER_MAX_DEVICES
    BY LimitsAssumption DEF TableInv
  <2> QED BY <2>1 DEF TableInv, HandlesApart, NbdSlots
<1> QED BY <1>1, AlwaysInv, PTL

\* A slot the application holds is neither freed nor given to another server until it
\* is stopped.
THEOREM HeldSlotsStay == Spec => HeldStays
<1>1. Inv /\ [Next]_allVars =>
        [\A i \in held : i \in held' =>
            servers'[i] = servers[i] /\ servers_status'[i] = "STOPPED"]_vars
  <2>1. Inv => TableInv /\ sifrpc \in Kinds
    BY Ps2Assumption DEF Inv, BootInv
  <2> QED BY <2>1, NextTable, HeldStep
<1> QED BY <1>1, AlwaysInv, PTL DEF Spec, HeldStays

\* Whichever module fails to load, none is tried without the one it requires, and the
\* lwNBD module misses an import only if it was built with BDM or TTY.
THEOREM LoadedInOrder == Spec => []LoadOrder
<1>1. Inv => LoadOrder
  BY BootOrder DEF Inv
<1> QED BY <1>1, AlwaysInv, PTL

\* As long as START and STOP alternate, there is never more than one listener, none
\* after a STOP, and the thread for remote calls is never the one that is ended.
THEOREM ListenerStopped == Spec => []StopsItsListener
<1>1. Inv => StopsItsListener
  BY ThreadStops DEF Inv
<1> QED BY <1>1, AlwaysInv, PTL

-----------------------------------------------------------------------------
(* The memory card plugin.                                                   *)

Content == {"erased", "junk", "stale", "old", "new"} \X Int \X Int
Request ==
    [op : {"none", "read", "write"}, port : Ports \cup {-1}, offset : Nat, count : Nat, id : Nat,
     i : Nat, endBlock : Nat, blockOffset : Nat, remainingPages : Nat, writtenPages : Nat,
     j : Nat, data : Seq(Content), result : {0, -1}]
InBlock == {"load", "inject", "erase", "program"}
Places == {"idle", "block", "pread", "done"} \cup InBlock

CardType ==
    /\ local \in [Threads -> Request] /\ at \in [Threads -> Places]
    /\ erased = [t \in Threads |-> erased[t]] /\ prior = [t \in Threads |-> prior[t]]
    /\ card = [port \in Ports |-> card[port]] /\ requests \in Nat
    /\ \A port \in Ports : card[port] \in [Pages(port) -> Content]

\* The cards are set up in order, and before any request; the one set up last has left
\* its block size and a buffer of it.
SetupInv ==
    /\ detected \subseteq Ports /\ ready \subseteq detected
    /\ \A p \in detected : \A q \in Ports : q < p => q \in detected
    /\ ready # {} =>
          /\ \E p \in ready : (\A q \in ready : q <= p) /\ pagesPerBlock = Card[p].ppb
          /\ bbuffer \in [0 .. pagesPerBlock - 1 -> Content]
    /\ detected # Ports => \A t \in Threads : at[t] = "idle"

\* The locals L of a write in blocks of n pages: what is left begins in block i at
\* blockOffset, and only the first block has one.
Counted(L, n) ==
    /\ L.writtenPages + L.remainingPages = L.count
    /\ L.blockOffset < n
    /\ L.blockOffset > 0 => L.writtenPages = 0
    /\ L.remainingPages > 0 => L.i * n + L.blockOffset = L.offset + L.writtenPages
    /\ L.count > 0 =>
          /\ L.remainingPages = 0 => L.offset + L.count <= L.i * n
          /\ L.offset < L.i * n + n
          /\ L.endBlock * n < L.offset + L.count /\ L.offset + L.count <= L.endBlock * n + n

\* The locals of any request, where its thread is at a.
Shape(L, a, n, rdy) ==
    /\ L.op = "none" <=> a = "idle"
    /\ L.op = "none" => L.port = -1 /\ L.count = 0
    /\ a = "pread" => L.op = "read"
    /\ a \in {"block"} \cup InBlock => L.op = "write"
    /\ a # "done" => L.result = 0
    /\ L.op # "none" => L.port \in rdy /\ L.offset + L.count <= Card[L.port].pages
    /\ L.op = "read" => L.j <= L.count /\ (a = "done" /\ L.result = 0 => L.j = L.count)
    /\ L.op = "write" =>
          /\ Counted(L, n)
          /\ a \in InBlock => L.i <= L.endBlock
          /\ a = "done" /\ L.result = 0 => L.i > L.endBlock
          /\ a \in {"load", "program"} => L.j < n
          /\ a \in {"inject", "erase"} => L.j = 0

Want(L, old, p) ==
    IF p \in L.offset .. L.offset + L.count - 1 THEN New(L.id, p - L.offset) ELSE old[p]
Fits(L, n) ==
    IF L.remainingPages >= n - L.blockOffset THEN n - L.blockOffset ELSE L.remainingPages

\* The pages c of the card under a write, which were old before it: the blocks that are done
\* are as wanted, those to come as they were.
PagesInv(L, a, n, c, old) ==
    \A p \in Pages(L.port) :
        /\ p < L.i * n => c[p] = Want(L, old, p)
        /\ p >= L.i * n + n => c[p] = old[p]
        /\ (a \in {"block", "load", "inject", "erase"} \/ (a = "done" /\ L.result = 0))
              /\ p >= L.i * n => c[p] = old[p]
        /\ a = "program" /\ p >= L.i * n /\ p < L.i * n + n =>
              c[p] = IF p < L.i * n + L.j THEN Want(L, old, p) ELSE Erased

\* The buffer b: the block as it was, then as it is wanted.
BufferInv(L, a, n, b, old) ==
    \A k \in 0 .. n - 1 :
        /\ a = "load" /\ k < L.j => b[k] = old[L.i * n + k]
        /\ a = "inject" => \/ L.blockOffset = 0 /\ Fits(L, n) = n
                           \/ b[k] = old[L.i * n + k]
        /\ a \in {"erase", "program"} => b[k] = Want(L, old, L.i * n + k)

Blocks(L, n) == {p \div n : p \in L.offset .. L.offset + L.count - 1}

RequestInv(t) ==
    LET L == local[t] n == pagesPerBlock
    IN  /\ Shape(L, at[t], n, ready)
        /\ L.op # "write" => erased[t] = {}
        /\ L.count > 0 => erased[t] \subseteq Blocks(L, n)
        /\ L.op = "read" /\ t \notin mixed =>
              /\ card[L.port] = prior[t]
              /\ L.data = [k \in 1 .. L.j |-> prior[t][L.offset + k - 1]]
        /\ L.op = "write" /\ t \notin mixed /\ Card[L.port].ppb = n =>
              /\ PagesInv(L, at[t], n, card[L.port], prior[t])
              /\ BufferInv(L, at[t], n, bbuffer, prior[t])

\* A write that is not mixed up is alone, and a read has no write to its card beside it.
MixedInv ==
    \A t \in Threads \ mixed : \A u \in Threads \ {t} :
        /\ local[t].op = "write" => local[u].op # "write"
        /\ local[t].op = "read" => ~(local[u].op = "write" /\ local[u].port = local[t].port)

CardInv == CardType /\ SetupInv /\ MixedInv /\ \A t \in Threads : RequestInv(t)

\* Pages and blocks of n pages.
LEMMA BlockArith ==
    ASSUME NEW n \in Nat \ {0}, NEW i \in Nat
    PROVE  /\ i * n \in Nat
           /\ (i + 1) * n = i * n + n
           /\ \A k \in Nat : k > i => k * n >= i * n + n
           /\ \A k \in Nat : k >= i => k * n >= i * n
<1>1. i * n \in Nat /\ (i + 1) * n = i * n + n
  OBVIOUS
<1>2. \A k \in Nat : k > i => k * n >= i * n + n
  OBVIOUS
<1>3. \A k \in Nat : k >= i => k * n >= i * n
  OBVIOUS
<1> QED BY <1>1, <1>2, <1>3

\* The block of a page, by division and by the limits of the block.
LEMMA BlockOfPage ==
    ASSUME NEW n \in Nat \ {0}, NEW p \in Nat
    PROVE  /\ p \div n \in Nat /\ p % n \in 0 .. n - 1
           /\ p = (p \div n) * n + (p % n)
           /\ (p \div n) * n <= p /\ p < (p \div n) * n + n
           /\ \A i \in Nat : /\ p \div n < i <=> p < i * n
                             /\ p \div n > i <=> p >= i * n + n
                             /\ p \div n = i <=> i * n <= p /\ p < i * n + n
<1> DEFINE d == p \div n
           r == p % n
<1>4. p = n * d + r /\ 0 <= r /\ r < n /\ d \in Int /\ r \in Int
  OBVIOUS
<1> HIDE DEF d, r
<1>5. d \in Nat
  <2>1. SUFFICES ASSUME d < 0 PROVE FALSE
    BY <1>4
  <2>2. n * d <= 0 - n
    BY <1>4, <2>1
  <2> QED BY <1>4, <2>2
<1>6. n * d = d * n /\ d * n \in Nat
  BY <1>5
<1>1. d \in Nat /\ r \in 0 .. n - 1 /\ p = d * n + r
  BY <1>4, <1>5, <1>6
<1>2. d * n <= p /\ p < d * n + n
  BY <1>1, <1>6
<1>3. ASSUME NEW i \in Nat
      PROVE  /\ d < i <=> p < i * n
             /\ d > i <=> p >= i * n + n
             /\ d = i <=> i * n <= p /\ p < i * n + n
  <2>1. d < i => i * n >= d * n + n
    BY <1>1, BlockArith
  <2>2. d > i => d * n >= i * n + n
    BY <1>1, BlockArith
  <2>3. d * n \in Nat /\ i * n \in Nat
    BY <1>1, BlockArith
  <2>4. d < i \/ d = i \/ d > i
    BY <1>1
  <2>5. CASE d < i
    BY <1>1, <1>2, <2>1, <2>3, <2>5
  <2>6. CASE d = i
    BY <1>1, <1>2, <2>3, <2>6
  <2>7. CASE d > i
    BY <1>1, <1>2, <2>2, <2>3, <2>7
  <2> QED BY <2>4, <2>5, <2>6, <2>7
<1> QED BY <1>1, <1>2, <1>3 DEF d, r

LEMMA WidthArith ==
    ASSUME NEW x \in Int, NEW w \in Nat \ {0}
    PROVE  x % w \in Nat /\ (x \in Nat /\ x < w => x % w = x)
  OBVIOUS


-----------------------------------------------------------------------------
(* The locals of a write, as it goes from block to block.                    *)

\* The counters stay in step when a write goes to its next block.
LEMMA NextBlockCounts ==
    ASSUME NEW L \in Request, NEW n \in Nat \ {0}, Counted(L, n), NEW K,
           K = [L EXCEPT !.i = L.i + 1, !.blockOffset = 0, !.j = 0,
                         !.remainingPages = L.remainingPages - Fits(L, n),
                         !.writtenPages = L.writtenPages + Fits(L, n)]
    PROVE  K \in Request /\ Counted(K, n)
<1> DEFINE f == Fits(L, n)
           base == L.i * n
<1>1. /\ L.i \in Nat /\ L.offset \in Nat /\ L.count \in Nat /\ L.blockOffset \in Nat /\ L.endBlock \in Nat
      /\ L.remainingPages \in Nat /\ L.writtenPages \in Nat
  BY DEF Request
<1>2. base \in Nat /\ (L.i + 1) * n = base + n /\ L.endBlock * n \in Nat
  BY <1>1, BlockArith
<1>3. /\ f \in Nat /\ f <= L.remainingPages /\ f <= n - L.blockOffset
      /\ f = L.remainingPages \/ f = n - L.blockOffset
  BY <1>1 DEF Fits, Counted
<1>4. /\ K.i = L.i + 1 /\ K.blockOffset = 0 /\ K.remainingPages = L.remainingPages - f
      /\ K.writtenPages = L.writtenPages + f
      /\ K.offset = L.offset /\ K.count = L.count /\ K.endBlock = L.endBlock
  BY DEF Request
<1>5. /\ L.writtenPages + L.remainingPages = L.count /\ L.blockOffset < n
      /\ L.remainingPages > 0 => base + L.blockOffset = L.offset + L.writtenPages
      /\ L.count > 0 =>
          /\ L.remainingPages = 0 => L.offset + L.count <= base
          /\ L.offset < base + n
          /\ L.endBlock * n < L.offset + L.count /\ L.offset + L.count <= L.endBlock * n + n
  BY DEF Counted
<1> HIDE DEF f, base
<1>6. K \in Request
  <2>1. L.remainingPages - f \in Nat /\ L.writtenPages + f \in Nat /\ L.i + 1 \in Nat
    BY <1>1, <1>3
  <2> QED BY <2>1 DEF Request, f
<1>7. K.writtenPages + K.remainingPages = K.count
  BY <1>1, <1>3, <1>4, <1>5
<1>8. K.remainingPages > 0 => (L.i + 1) * n + K.blockOffset = K.offset + K.writtenPages
  BY <1>1, <1>2, <1>3, <1>4, <1>5
<1>9. K.count > 0 /\ K.remainingPages = 0 => K.offset + K.count <= (L.i + 1) * n
  BY <1>1, <1>2, <1>3, <1>4, <1>5
<1>10. K.count > 0 => K.offset < (L.i + 1) * n + n
  BY <1>1, <1>2, <1>4, <1>5
<1> QED BY <1>4, <1>5, <1>6, <1>7, <1>8, <1>9, <1>10 DEF Counted

\* The locals that mcman_pwrite begins with, in block i at r.
FirstLocals(port, offset, count, id, i, e, r) ==
    [op |-> "write", port |-> port, offset |-> offset, count |-> count, id |-> id,
     i |-> i, endBlock |-> e, blockOffset |-> r,
     remainingPages |-> count, writtenPages |-> 0, j |-> 0, data |-> <<>>, result |-> 0]

\* The counters are in step when a write begins with the block of its first page.
LEMMA FirstCounts ==
    ASSUME NEW n \in Nat \ {0}, NEW offset \in Nat, NEW count \in Nat, NEW id \in Nat,
           NEW port \in Ports, NEW i \in Nat, NEW r \in Nat, NEW e \in Nat,
           r < n, offset = i * n + r,
           count > 0 => e * n < offset + count /\ offset + count <= e * n + n
    PROVE  /\ FirstLocals(port, offset, count, id, i, e, r) \in Request
           /\ Counted(FirstLocals(port, offset, count, id, i, e, r), n)
<1> DEFINE K == FirstLocals(port, offset, count, id, i, e, r)
           nil == <<>>
<1>1. nil \in Seq(Content)
  OBVIOUS
<1> HIDE DEF nil
<1>2. K = [op |-> "write", port |-> port, offset |-> offset, count |-> count, id |-> id,
           i |-> i, endBlock |-> e, blockOffset |-> r,
           remainingPages |-> count, writtenPages |-> 0, j |-> 0, data |-> nil, result |-> 0]
  BY DEF FirstLocals, nil
<1> HIDE DEF K
<1>3. K \in Request
  BY <1>1, <1>2 DEF Request
<1>4. /\ K.i = i /\ K.blockOffset = r /\ K.offset = offset /\ K.writtenPages = 0
      /\ K.remainingPages = count /\ K.count = count /\ K.endBlock = e
  BY <1>2
<1>5. i * n \in Nat
  BY BlockArith
<1>6. i * n + r = offset + 0 /\ offset < i * n + n
  BY <1>5
<1>7. Counted(K, n)
  BY <1>4, <1>5, <1>6 DEF Counted
<1> QED BY <1>3, <1>7 DEF K

\* The numbers of blocks that mcman_pwrite computes are those of the first and the last page.
LEMMA StartCounts ==
    ASSUME NEW n \in Nat \ {0}, NEW offset \in Nat, NEW count \in Nat, NEW id \in Nat,
           NEW port \in Ports, n = pagesPerBlock,
           offset + count <= Card[port].pages
    PROVE  LET K == FirstLocals(port, offset, count, id, offset \div n, EndBlock(offset, count),
                                offset % n)
           IN  K \in Request /\ Counted(K, n)
<1> DEFINE last == offset + count - 1
           e == EndBlock(offset, count)
<1>1. /\ Card[port].pages \in Nat /\ Card[port].pages <= Narrow /\ Narrow \in Nat \ {0}
      /\ Wide \in Nat \ {0} /\ Narrow <= Wide
  BY WidthAssumption, CardAssumption
<1>3. /\ offset \div n \in Nat /\ offset % n \in 0 .. n - 1 /\ offset = (offset \div n) * n + (offset % n)
      /\ offset < (offset \div n) * n + n
  BY BlockOfPage
<1>4. e \in Nat
  <2>1. last % Wide \in Nat
    BY <1>1, WidthArith
  <2>2. (last % Wide) \div n \in Nat
    BY <2>1, BlockOfPage
  <2> QED BY <1>1, <2>2, WidthArith DEF EndBlock
<1>5. ASSUME count > 0 PROVE e * n < offset + count /\ offset + count <= e * n + n
  <2>1. last \in Nat /\ last < Narrow
    BY <1>1, <1>5
  <2>8. last + 1 = offset + count
    OBVIOUS
  <2> HIDE DEF last
  <2>2. last % Wide = last
    BY <1>1, <2>1, WidthArith
  <2>3. last \div n \in Nat /\ (last \div n) * n <= last /\ last < (last \div n) * n + n
    BY <2>1, BlockOfPage
  <2>4. last \div n <= (last \div n) * n
    BY <2>3
  <2>5. last \div n < Narrow
    BY <1>1, <2>1, <2>3, <2>4
  <2>6. e = last \div n
    <3>1. e = ((last % Wide) \div n) % Narrow
      BY DEF EndBlock, last
    <3>2. (last \div n) % Narrow = last \div n
      BY <1>1, <2>3, <2>5, WidthArith
    <3> QED BY <2>2, <3>1, <3>2, Zenon
  <2> HIDE DEF e
  <2> QED BY <2>1, <2>3, <2>6, <2>8
<1> HIDE DEF e
<1> DEFINE i == offset \div n
           r == offset % n
<1>6. i \in Nat /\ r \in Nat /\ r < n /\ offset = i * n + r
  BY <1>3
<1> HIDE DEF i, r
<1>7. /\ FirstLocals(port, offset, count, id, i, e, r) \in Request
      /\ Counted(FirstLocals(port, offset, count, id, i, e, r), n)
  BY <1>4, <1>5, <1>6, FirstCounts
<1> QED BY <1>7 DEF i, r, e

\* The block a write is at is one of those it covers.
LEMMA InBlocks ==
    ASSUME NEW L \in Request, NEW n \in Nat \ {0}, Counted(L, n), L.i <= L.endBlock, L.count > 0
    PROVE  L.i \in Blocks(L, n)
<1> DEFINE base == L.i * n
           p == IF L.offset >= base THEN L.offset ELSE base
<1>1. L.i \in Nat /\ L.offset \in Nat /\ L.count \in Nat /\ L.endBlock \in Nat
  BY DEF Request
<1>2. base \in Nat /\ L.endBlock * n \in Nat /\ base <= L.endBlock * n
  BY <1>1, BlockArith
<1>3. L.offset < base + n /\ L.endBlock * n < L.offset + L.count
  BY DEF Counted
<1> HIDE DEF base
<1>4. p \in Nat /\ p \in L.offset .. L.offset + L.count - 1 /\ base <= p /\ p < base + n
  BY <1>1, <1>2, <1>3
<1> HIDE DEF p
<1>5. p \div n = L.i
  BY <1>1, <1>4, BlockOfPage DEF base
<1> QED BY <1>4, <1>5 DEF Blocks


-----------------------------------------------------------------------------
(* The card and the buffer under a write.                                    *)

SameRequest(K, L) ==
    K.op = L.op /\ K.port = L.port /\ K.offset = L.offset /\ K.count = L.count /\ K.id = L.id

LEMMA SameWant == ASSUME NEW K, NEW L, SameRequest(K, L), NEW old, NEW p
                  PROVE  Want(K, old, p) = Want(L, old, p)
  BY DEF SameRequest, Want

LEMMA PageNats == ASSUME NEW port \in Ports
                  PROVE  /\ Card[port].ppb \in Nat \ {0} /\ Card[port].pages \in Nat
                         /\ \A p \in Pages(port) : p \in Nat
<1>1. Card[port].ppb \in Nat \ {0} /\ Card[port].pages \in Nat
  BY CardAssumption
<1> QED BY <1>1 DEF Pages

\* Before the first block every page is as it was.
LEMMA PagesStart ==
    ASSUME NEW L \in Request, NEW n \in Nat \ {0}, Counted(L, n), L.writtenPages = 0,
           L.port \in Ports, NEW c
    PROVE  PagesInv(L, "block", n, c, c)
<1> SUFFICES ASSUME NEW p \in Pages(L.port), p < L.i * n PROVE c[p] = Want(L, c, p)
  BY DEF PagesInv
<1>1. /\ L.i \in Nat /\ L.offset \in Nat /\ L.count \in Nat /\ L.blockOffset \in Nat
      /\ L.remainingPages \in Nat
  BY DEF Request
<1>2. p \in Nat /\ L.i * n \in Nat
  BY <1>1, PageNats, BlockArith
<1>3. L.count > 0 => L.i * n + L.blockOffset = L.offset
  BY <1>1 DEF Counted
<1>4. p \notin L.offset .. L.offset + L.count - 1
  BY <1>1, <1>2, <1>3
<1> QED BY <1>4 DEF Want

\* Between two calls that leave the card alone.
LEMMA PagesStay ==
    ASSUME NEW L, NEW K, SameRequest(K, L), K.i = L.i, NEW n, NEW c, NEW old,
           NEW a \in {"block", "load", "inject", "erase"}, PagesInv(L, a, n, c, old),
           NEW z \in {"load", "inject", "erase", "done"}
    PROVE  PagesInv(K, z, n, c, old)
<1>1. \A p : Want(K, old, p) = Want(L, old, p)
  BY SameWant
<1> QED BY <1>1 DEF PagesInv, SameRequest

\* A call failed: the block under way may be lost, no other one is.
LEMMA PagesFail ==
    ASSUME NEW L, NEW K, SameRequest(K, L), K.i = L.i, K.result = -1, NEW n, NEW c, NEW d, NEW old,
           NEW a, PagesInv(L, a, n, c, old),
           \A p \in Pages(L.port) : p < L.i * n \/ p >= L.i * n + n => d[p] = c[p]
    PROVE  PagesInv(K, "done", n, d, old)
<1>1. \A p : Want(K, old, p) = Want(L, old, p)
  BY SameWant
<1> QED BY <1>1 DEF PagesInv, SameRequest

\* Erasing the block at hand changes no page of another.
LEMMA PagesErase ==
    ASSUME NEW L \in Request, NEW n \in Nat \ {0}, NEW c, NEW d, NEW old, PagesInv(L, "erase", n, c, old),
           L.port \in Ports, L.j = 0,
           \A p \in Pages(L.port) :
              d[p] = IF p >= L.i * n /\ p < L.i * n + n THEN Erased ELSE c[p]
    PROVE  PagesInv(L, "program", n, d, old)
<1> DEFINE base == L.i * n
<1>1. base \in Nat
  BY BlockArith DEF Request
<1> HIDE DEF base
<1>2. ASSUME NEW p \in Pages(L.port)
      PROVE  /\ p < base => d[p] = Want(L, old, p)
             /\ p >= base + n => d[p] = old[p]
             /\ p >= base /\ p < base + n =>
                   d[p] = IF p < base + L.j THEN Want(L, old, p) ELSE Erased
  <2>1. p \in Nat
    BY PageNats
  <2>2. (p < base => c[p] = Want(L, old, p)) /\ (p >= base + n => c[p] = old[p])
    BY DEF PagesInv, base
  <2>3. d[p] = IF p >= base /\ p < base + n THEN Erased ELSE c[p]
    BY DEF base
  <2> QED BY <1>1, <2>1, <2>2, <2>3
<1> QED BY <1>2 DEF PagesInv, base

LEMMA NextPage ==
    ASSUME NEW p \in Nat, NEW b \in Nat, NEW j \in Nat, p # b + j
    PROVE  p < b + (j + 1) <=> p < b + j
  OBVIOUS

\* A page of the block is programmed, and the block is done with the last one.
LEMMA PagesProgram ==
    ASSUME NEW L \in Request, NEW K, SameRequest(K, L), NEW n \in Nat \ {0}, NEW c, NEW d, NEW old,
           PagesInv(L, "program", n, c, old), L.port \in Ports, L.j < n,
           \A p \in Pages(L.port) :
              d[p] = IF p = L.i * n + L.j THEN Want(L, old, p) ELSE c[p]
    PROVE  /\ K.i = L.i /\ K.j = L.j + 1 => PagesInv(K, "program", n, d, old)
           /\ K.i = L.i + 1 /\ L.j + 1 = n => PagesInv(K, "block", n, d, old)
<1> DEFINE base == L.i * n
<1>1. base \in Nat /\ L.j \in Nat /\ L.i \in Nat /\ (L.i + 1) * n = base + n
  BY BlockArith DEF Request
<1>2. \A p : Want(K, old, p) = Want(L, old, p)
  BY SameWant
<1>3. ASSUME NEW p \in Pages(L.port)
      PROVE  /\ p < base => d[p] = Want(L, old, p)
             /\ p >= base + n => d[p] = old[p]
             /\ p >= base /\ p < base + n =>
                   d[p] = IF p < base + (L.j + 1) THEN Want(L, old, p) ELSE Erased
  <2>1. p \in Nat
    BY PageNats
  <2>2. /\ p < base => c[p] = Want(L, old, p)
        /\ p >= base + n => c[p] = old[p]
        /\ p >= base /\ p < base + n =>
                   c[p] = IF p < base + L.j THEN Want(L, old, p) ELSE Erased
    BY DEF PagesInv
  <2>3. d[p] = IF p = base + L.j THEN Want(L, old, p) ELSE c[p]
    OBVIOUS
  <2> HIDE DEF base
  <2>4. CASE p = base + L.j
    BY <1>1, <2>1, <2>3, <2>4
  <2>5. CASE p # base + L.j
    <3>1. p < base + (L.j + 1) <=> p < base + L.j
      BY <1>1, <2>1, <2>5, NextPage
    <3> QED BY <2>2, <2>3, <2>5, <3>1
  <2> QED BY <2>4, <2>5
<1>4. ASSUME K.i = L.i, K.j = L.j + 1 PROVE PagesInv(K, "program", n, d, old)
  BY <1>2, <1>3, <1>4 DEF PagesInv, SameRequest
<1>5. ASSUME K.i = L.i + 1, L.j + 1 = n PROVE PagesInv(K, "block", n, d, old)
  <2>1. K.i * n = base + n
    BY <1>1, <1>5
  <2> HIDE DEF base
  <2>2. ASSUME NEW p \in Pages(L.port)
        PROVE  (p < base + n => d[p] = Want(L, old, p)) /\ (p >= base + n => d[p] = old[p])
    <3>1. p \in Nat
      BY PageNats
    <3> QED BY <1>1, <1>3, <1>5, <3>1
  <2>3. ASSUME NEW p \in Pages(L.port) PROVE p >= base + n + n => p >= base + n
    <3>1. p \in Nat
      BY PageNats
    <3> QED BY <1>1, <3>1
  <2> QED BY <1>2, <2>1, <2>2, <2>3 DEF PagesInv, SameRequest
<1> QED BY <1>4, <1>5


LEMMA BufferStart ==
    ASSUME NEW L, NEW n \in Nat \ {0}, NEW b, NEW old,
           NEW a \in {"block", "load", "inject", "done"},
           a = "load" => L.j = 0, a = "inject" => L.blockOffset = 0 /\ Fits(L, n) = n
    PROVE  BufferInv(L, a, n, b, old)
  BY DEF BufferInv

\* A page of the block is read.
LEMMA BufferLoad ==
    ASSUME NEW L \in Request, NEW K, SameRequest(K, L), K.i = L.i, NEW n \in Nat \ {0}, NEW b, NEW d,
           NEW old, L.j < n, BufferInv(L, "load", n, b, old),
           \A k \in 0 .. n - 1 : d[k] = IF k = L.j THEN old[L.i * n + L.j] ELSE b[k]
    PROVE  /\ K.j = L.j + 1 => BufferInv(K, "load", n, d, old)
           /\ L.j + 1 = n => BufferInv(K, "inject", n, d, old)
<1>1. L.j \in Nat
  BY DEF Request
<1>2. ASSUME NEW k \in 0 .. n - 1, k < L.j + 1 PROVE d[k] = old[L.i * n + k]
  <2>1. k < L.j \/ k = L.j
    BY <1>1, <1>2
  <2>2. CASE k = L.j
    BY <2>2
  <2>3. CASE k < L.j
    <3>1. b[k] = old[L.i * n + k]
      BY <2>3 DEF BufferInv
    <3> QED BY <1>1, <2>3, <3>1
  <2> QED BY <2>1, <2>2, <2>3
<1> QED BY <1>1, <1>2 DEF BufferInv

\* The pages of the request are put in, and the block in the buffer is as wanted.
LEMMA BufferInject ==
    ASSUME NEW L \in Request, NEW n \in Nat \ {0}, Counted(L, n), NEW b, NEW d, NEW old,
           BufferInv(L, "inject", n, b, old),
           \A k \in 0 .. n - 1 :
              d[k] = IF k \in L.blockOffset .. L.blockOffset + Fits(L, n) - 1
                     THEN New(L.id, L.writtenPages + k - L.blockOffset) ELSE b[k]
    PROVE  BufferInv(L, "erase", n, d, old)
<1> DEFINE base == L.i * n
           f == Fits(L, n)
<1>1. /\ L.i \in Nat /\ L.offset \in Nat /\ L.count \in Nat /\ L.blockOffset \in Nat
      /\ L.remainingPages \in Nat /\ L.writtenPages \in Nat
  BY DEF Request
<1>2. base \in Nat
  BY <1>1, BlockArith
<1>3. /\ f \in Nat /\ f <= L.remainingPages
      /\ f = L.remainingPages \/ f = n - L.blockOffset
  BY <1>1 DEF Fits, Counted
<1>4. /\ L.writtenPages + L.remainingPages = L.count /\ L.blockOffset < n
      /\ L.blockOffset > 0 => L.writtenPages = 0
      /\ L.remainingPages > 0 => base + L.blockOffset = L.offset + L.writtenPages
      /\ L.count > 0 /\ L.remainingPages = 0 => L.offset + L.count <= base
  BY DEF Counted
<1>5. \A k \in 0 .. n - 1 : (L.blockOffset = 0 /\ f = n) \/ b[k] = old[base + k]
  BY DEF BufferInv
<1>6. ASSUME NEW k \in 0 .. n - 1 PROVE d[k] = Want(L, old, base + k)
  <2>1. d[k] = IF k \in L.blockOffset .. L.blockOffset + f - 1
               THEN New(L.id, L.writtenPages + k - L.blockOffset) ELSE b[k]
    OBVIOUS
  <2> HIDE DEF base, f
  <2>2. CASE k \in L.blockOffset .. L.blockOffset + f - 1
    <3>1. L.remainingPages > 0
      BY <1>1, <1>3, <2>2
    <3>2. base + k \in L.offset .. L.offset + L.count - 1
      BY <1>1, <1>2, <1>3, <1>4, <2>2, <3>1
    <3>3. L.writtenPages + k - L.blockOffset = base + k - L.offset
      BY <1>1, <1>2, <1>4, <3>1
    <3>4. d[k] = New(L.id, L.writtenPages + k - L.blockOffset)
      BY <2>1, <2>2
    <3>5. Want(L, old, base + k) = New(L.id, base + k - L.offset)
      BY <1>1, <1>2, <3>2 DEF Want
    <3> QED BY <3>3, <3>4, <3>5
  <2>3. CASE k \notin L.blockOffset .. L.blockOffset + f - 1
    <3>1. ~(L.blockOffset = 0 /\ f = n)
      BY <1>1, <2>3
    <3>2. base + k \notin L.offset .. L.offset + L.count - 1
      <4>1. k < L.blockOffset \/ k >= L.blockOffset + f
        BY <1>1, <1>3, <2>3
      <4>2. CASE L.remainingPages = 0
        BY <1>1, <1>2, <1>4, <4>2
      <4>3. CASE L.remainingPages > 0 /\ k < L.blockOffset
        BY <1>1, <1>2, <1>4, <4>3
      <4>4. CASE L.remainingPages > 0 /\ k >= L.blockOffset + f
        <5>1. f = L.remainingPages
          BY <1>1, <1>3, <1>4, <4>4
        <5> QED BY <1>1, <1>2, <1>4, <4>4, <5>1
      <4> QED BY <1>1, <4>1, <4>2, <4>3, <4>4
    <3>3. d[k] = old[base + k]
      BY <1>5, <2>1, <2>3, <3>1
    <3> QED BY <3>2, <3>3 DEF Want
  <2> QED BY <2>2, <2>3
<1> QED BY <1>6 DEF BufferInv

LEMMA BufferStays ==
    ASSUME NEW L, NEW K, SameRequest(K, L), K.i = L.i, NEW n, NEW b, NEW old,
           NEW a \in {"erase", "program"}, BufferInv(L, a, n, b, old)
    PROVE  BufferInv(K, "program", n, b, old)
<1>1. \A p : Want(K, old, p) = Want(L, old, p)
  BY SameWant
<1> QED BY <1>1 DEF BufferInv


-----------------------------------------------------------------------------
(* The steps.                                                                *)

\* What a thread with a request under way can rely on.
LEMMA InRequest ==
    ASSUME CardInv, NEW t \in Threads, local[t].op # "none"
    PROVE  /\ local[t] \in Request /\ at[t] \in Places /\ at[t] # "idle" /\ detected = Ports
           /\ local[t].port \in ready /\ local[t].port \in Ports
           /\ pagesPerBlock \in Nat \ {0} /\ bbuffer \in [0 .. pagesPerBlock - 1 -> Content]
           /\ card[local[t].port] \in [Pages(local[t].port) -> Content]
           /\ Shape(local[t], at[t], pagesPerBlock, ready)
<1>1. CardType /\ SetupInv /\ RequestInv(t)
  BY DEF CardInv
<1>2. local[t] \in Request /\ at[t] \in Places
  BY <1>1 DEF CardType
<1>3. Shape(local[t], at[t], pagesPerBlock, ready)
  BY <1>1 DEF RequestInv
<1>4. local[t].port \in ready /\ at[t] # "idle"
  BY <1>3 DEF Shape
<1>5. detected = Ports /\ ready \subseteq Ports
  BY <1>1, <1>4 DEF SetupInv
<1>6. card[local[t].port] \in [Pages(local[t].port) -> Content]
  BY <1>1, <1>4, <1>5 DEF CardType
<1>7. bbuffer \in [0 .. pagesPerBlock - 1 -> Content]
  BY <1>1, <1>4 DEF SetupInv
<1>8. pagesPerBlock \in Nat \ {0}
  <2>1. PICK p \in ready : pagesPerBlock = Card[p].ppb
    BY <1>1, <1>4 DEF SetupInv
  <2> QED BY <1>5, <2>1, PageNats
<1> QED BY <1>2, <1>3, <1>4, <1>5, <1>6, <1>7, <1>8

\* What a thread relies on is its own, and of the rest only what no other may touch.
LEMMA OtherThread ==
    ASSUME NEW u \in Threads, RequestInv(u), UNCHANGED <<ready, pagesPerBlock>>,
           local'[u] = local[u], at'[u] = at[u], prior'[u] = prior[u], erased'[u] = erased[u],
           u \in mixed => u \in mixed',
           u \notin mixed' /\ local[u].op # "none" => card'[local[u].port] = card[local[u].port],
           u \notin mixed' /\ local[u].op = "write" => bbuffer' = bbuffer
    PROVE  RequestInv(u)'
  BY DEF RequestInv

\* A step of one thread's request keeps the invariant if it keeps that of the request.
LEMMA MoveInv ==
    ASSUME CardInv, NEW t \in Threads, local[t].op # "none",
           NEW l \in Request, NEW a \in Places \ {"idle"}, NEW e,
           local' = [local EXCEPT ![t] = l], at' = [at EXCEPT ![t] = a],
           erased' = [erased EXCEPT ![t] = e], SameRequest(l, local[t]),
           UNCHANGED <<detected, ready, pagesPerBlock, prior, mixed, requests>>,
           NEW c \in [Pages(local[t].port) -> Content], card' = [card EXCEPT ![local[t].port] = c],
           bbuffer' \in [0 .. pagesPerBlock - 1 -> Content],
           local[t].op = "read" => c = card[local[t].port] /\ bbuffer' = bbuffer,
           RequestInv(t)'
    PROVE  CardInv'
<1>1. /\ CardType /\ SetupInv /\ MixedInv /\ local[t].port \in Ports /\ at[t] # "idle"
      /\ detected = Ports /\ local[t].op \in {"read", "write"}
  BY InRequest DEF CardInv, Request
<1>2. /\ local'[t] = l /\ at'[t] = a
      /\ \A u \in Threads \ {t} : local'[u] = local[u] /\ at'[u] = at[u] /\ erased'[u] = erased[u]
      /\ card'[local[t].port] = c
      /\ \A port \in Ports \ {local[t].port} : card'[port] = card[port]
  BY <1>1 DEF CardType
<1>3. CardType'
  <2>1. local' \in [Threads -> Request] /\ at' \in [Threads -> Places]
    BY <1>1 DEF CardType
  <2>2. \A port \in Ports : card'[port] \in [Pages(port) -> Content]
    BY <1>1, <1>2 DEF CardType
  <2>3. /\ erased' = [u \in Threads |-> erased'[u]] /\ prior' = [u \in Threads |-> prior'[u]]
        /\ card' = [port \in Ports |-> card'[port]] /\ requests' \in Nat
    BY <1>1 DEF CardType
  <2> QED BY <2>1, <2>2, <2>3 DEF CardType
<1>4. SetupInv'
  BY <1>1 DEF SetupInv
<1>5. \A u \in Threads : local'[u].op = local[u].op /\ local'[u].port = local[u].port
  BY <1>2 DEF SameRequest
<1>6. MixedInv'
  BY <1>1, <1>5 DEF MixedInv
<1>7. ASSUME NEW u \in Threads \ {t} PROVE RequestInv(u)'
  <2>1. RequestInv(u) /\ (local[u].op # "none" => local[u].port \in Ports)
    BY InRequest DEF CardInv
  <2>2. u \notin mixed /\ local[u].op = "write" => local[t].op = "read"
    BY <1>1 DEF MixedInv
  <2>3. u \notin mixed /\ local[u].op = "read" /\ local[t].op = "write" => local[u].port # local[t].port
    BY <1>1 DEF MixedInv
  <2>4. local[u].op \in {"none", "read", "write"}
    BY <1>1 DEF CardType, Request
  <2>5. u \notin mixed /\ local[u].op # "none" => card'[local[u].port] = card[local[u].port]
    BY <1>1, <1>2, <2>1, <2>2, <2>3, <2>4
  <2> QED BY <1>1, <1>2, <2>1, <2>2, <2>5, OtherThread
<1> QED BY <1>3, <1>4, <1>6, <1>7 DEF CardInv


\* Where a write is, and how far.
Stands(l, a, n) ==
    /\ a # "done" => l.result = 0
    /\ a \in InBlock => l.i <= l.endBlock
    /\ a = "done" /\ l.result = 0 => l.i > l.endBlock
    /\ a \in {"load", "program"} => l.j < n
    /\ a \in {"inject", "erase"} => l.j = 0

\* The same for a write, whose pages and buffer have to be in order.
LEMMA WriteMove ==
    ASSUME CardInv, NEW t \in Threads, local[t].op = "write",
           NEW l \in Request, NEW a \in {"block", "done"} \cup InBlock, NEW e,
           local' = [local EXCEPT ![t] = l], at' = [at EXCEPT ![t] = a],
           erased' = [erased EXCEPT ![t] = e], SameRequest(l, local[t]),
           UNCHANGED <<detected, ready, pagesPerBlock, prior, mixed, requests>>,
           NEW c \in [Pages(local[t].port) -> Content], card' = [card EXCEPT ![local[t].port] = c],
           bbuffer' \in [0 .. pagesPerBlock - 1 -> Content],
           Counted(l, pagesPerBlock), Stands(l, a, pagesPerBlock),
           l.count > 0 => e \subseteq Blocks(l, pagesPerBlock),
           t \notin mixed /\ Card[l.port].ppb = pagesPerBlock =>
              /\ PagesInv(l, a, pagesPerBlock, c, prior[t])
              /\ BufferInv(l, a, pagesPerBlock, bbuffer', prior[t])
    PROVE  CardInv'
<1>1. /\ CardType /\ Shape(local[t], at[t], pagesPerBlock, ready) /\ local[t].port \in Ports
  BY InRequest DEF CardInv
<1>2. local'[t] = l /\ at'[t] = a /\ erased'[t] = e /\ card'[l.port] = c
  BY <1>1 DEF CardType, SameRequest
<1>3. Shape(l, a, pagesPerBlock, ready)
  <2>1. l.op = "write" /\ l.port \in ready /\ l.offset + l.count <= Card[l.port].pages
    BY <1>1 DEF Shape, SameRequest
  <2>2. a # "idle" /\ a # "pread"
    BY DEF InBlock
  <2> QED BY <2>1, <2>2 DEF Shape, Stands
<1>4. RequestInv(t)'
  <2>1. l.op = "write" /\ l.op # "read"
    BY DEF SameRequest
  <2> QED BY <1>2, <1>3, <2>1 DEF RequestInv
<1>5. a \in Places \ {"idle"}
  BY DEF Places, InBlock
<1> QED BY <1>4, <1>5, MoveInv

\* What a write has at its disposal.
LEMMA InWrite ==
    ASSUME CardInv, NEW t \in Threads, local[t].op = "write"
    PROVE  /\ local[t] \in Request /\ at[t] \in Places
           /\ local[t].port \in ready /\ local[t].port \in Ports
           /\ pagesPerBlock \in Nat \ {0} /\ bbuffer \in [0 .. pagesPerBlock - 1 -> Content]
           /\ card[local[t].port] \in [Pages(local[t].port) -> Content]
           /\ card = [card EXCEPT ![local[t].port] = card[local[t].port]]
           /\ erased = [erased EXCEPT ![t] = erased[t]]
           /\ Counted(local[t], pagesPerBlock) /\ Stands(local[t], at[t], pagesPerBlock)
           /\ local[t].count > 0 => erased[t] \subseteq Blocks(local[t], pagesPerBlock)
           /\ t \notin mixed /\ Card[local[t].port].ppb = pagesPerBlock =>
                 /\ PagesInv(local[t], at[t], pagesPerBlock, card[local[t].port], prior[t])
                 /\ BufferInv(local[t], at[t], pagesPerBlock, bbuffer, prior[t])
<1>1. local[t].op # "none"
  OBVIOUS
<1>2. CardType /\ RequestInv(t)
  BY DEF CardInv
<1>3. /\ card = [card EXCEPT ![local[t].port] = card[local[t].port]]
      /\ erased = [erased EXCEPT ![t] = erased[t]]
  BY <1>1, <1>2, InRequest DEF CardType
<1>4. Counted(local[t], pagesPerBlock) /\ Stands(local[t], at[t], pagesPerBlock)
  BY <1>1, InRequest DEF Shape, Stands
<1> QED BY <1>1, <1>2, <1>3, <1>4, InRequest DEF RequestInv

LEMMA BlocksSame == ASSUME NEW K, NEW L, SameRequest(K, L), NEW n PROVE Blocks(K, n) = Blocks(L, n)
  BY DEF Blocks, SameRequest

\* A call of a write failed.
LEMMA FailInv ==
    ASSUME CardInv, NEW t \in Threads, local[t].op = "write", Fail(t),
           UNCHANGED <<detected, ready, pagesPerBlock, bbuffer, prior, mixed, requests>>, NEW e,
           erased' = [erased EXCEPT ![t] = e],
           local[t].count > 0 => e \subseteq Blocks(local[t], pagesPerBlock),
           NEW c \in [Pages(local[t].port) -> Content], card' = [card EXCEPT ![local[t].port] = c],
           Card[local[t].port].ppb = pagesPerBlock =>
              \A p \in Pages(local[t].port) :
                 p < local[t].i * pagesPerBlock \/ p >= local[t].i * pagesPerBlock + pagesPerBlock
                    => c[p] = card[local[t].port][p]
    PROVE  CardInv'
<1> DEFINE L == local[t]
           l == [L EXCEPT !.result = -1]
           n == pagesPerBlock
<1>1. local' = [local EXCEPT ![t] = l] /\ at' = [at EXCEPT ![t] = "done"]
  BY DEF Fail, MoveTo, CardInv, CardType
<1>2. L \in Request /\ Counted(L, n) /\ n \in Nat \ {0} /\ bbuffer \in [0 .. n - 1 -> Content]
  BY InWrite
<1>3. /\ l \in Request /\ SameRequest(l, L) /\ l.i = L.i /\ l.result = -1 /\ l.endBlock = L.endBlock
      /\ l.blockOffset = L.blockOffset /\ l.remainingPages = L.remainingPages
      /\ l.writtenPages = L.writtenPages
  BY <1>2 DEF Request, SameRequest
<1> HIDE DEF l
<1>4. Counted(l, n)
  BY <1>2, <1>3 DEF Counted, SameRequest
<1>5. Stands(l, "done", n)
  BY <1>3 DEF Stands, InBlock
<1>6. l.count > 0 => e \subseteq Blocks(l, n)
  BY <1>3, BlocksSame DEF SameRequest
<1>7. ASSUME t \notin mixed, Card[l.port].ppb = n
      PROVE  PagesInv(l, "done", n, c, prior[t]) /\ BufferInv(l, "done", n, bbuffer, prior[t])
  <2>1. Card[L.port].ppb = n
    BY <1>3, <1>7 DEF SameRequest
  <2>2. PagesInv(L, at[t], n, card[L.port], prior[t])
    BY <1>7, <2>1, InWrite
  <2>3. PagesInv(l, "done", n, c, prior[t])
    BY <1>3, <2>1, <2>2, PagesFail
  <2> QED BY <1>2, <2>3, BufferStart
<1> HIDE DEF L, n
<1> QED BY <1>1, <1>2, <1>3, <1>4, <1>5, <1>6, <1>7, WriteMove DEF L, n


\* A step to label a with locals l that stay in block i.
StaysInBlock(l, L) ==
    /\ SameRequest(l, L) /\ l.i = L.i /\ l.endBlock = L.endBlock /\ l.result = L.result
    /\ l.blockOffset = L.blockOffset /\ l.remainingPages = L.remainingPages
    /\ l.writtenPages = L.writtenPages

LEMMA StaysCounted == ASSUME NEW l, NEW L, StaysInBlock(l, L), NEW n, Counted(L, n) PROVE Counted(l, n)
  BY DEF StaysInBlock, SameRequest, Counted

LEMMA SetJ ==
    ASSUME NEW L \in Request, NEW j \in Nat
    PROVE  /\ [L EXCEPT !.j = j] \in Request /\ StaysInBlock([L EXCEPT !.j = j], L)
           /\ [L EXCEPT !.j = j].j = j
  BY DEF Request, StaysInBlock, SameRequest

LEMMA SameCard ==
    ASSUME CardInv, NEW t \in Threads, local[t].op = "write"
    PROVE  /\ card' = card => card' = [card EXCEPT ![local[t].port] = card[local[t].port]]
           /\ erased' = erased => erased' = [erased EXCEPT ![t] = erased[t]]
  BY InWrite

LEMMA BlockInv ==
    ASSUME CardInv, NEW t \in Threads, Block(t) PROVE CardInv'
<1> DEFINE L == local[t]
           l == [L EXCEPT !.j = 0]
           n == pagesPerBlock
           c == card[L.port]
<1>1. at[t] = "block" /\ CardType
  BY DEF Block, At, CardInv
<1>2. L.op = "write"
  <2>1. RequestInv(t)
    BY DEF CardInv
  <2> QED BY <1>1, <2>1 DEF RequestInv, Shape
<1>3. /\ L \in Request /\ Counted(L, n) /\ n \in Nat \ {0} /\ bbuffer \in [0 .. n - 1 -> Content]
      /\ Stands(L, at[t], n) /\ c \in [Pages(L.port) -> Content]
      /\ L.count > 0 => erased[t] \subseteq Blocks(L, n)
  BY <1>2, InWrite
<1>4. /\ local' = [local EXCEPT ![t] = l] /\ card' = card /\ erased' = erased /\ bbuffer' = bbuffer
      /\ UNCHANGED <<detected, ready, pagesPerBlock, prior, mixed, requests>>
  BY <1>1 DEF Block, setup, history, CardType
<1>5. l \in Request /\ StaysInBlock(l, L) /\ l.j = 0
  BY <1>3, SetJ
<1>6. Fits(l, n) = Fits(L, n) /\ Fits(L, n) = NPages(t)
  BY <1>5 DEF Fits, NPages, StaysInBlock
<1> HIDE DEF l
<1>7. PICK a \in {"done", "load", "inject"} :
         /\ at' = [at EXCEPT ![t] = a]
         /\ a = "done" <=> L.i > L.endBlock
         /\ a = "inject" => L.blockOffset = 0 /\ Fits(L, n) = n
  <2>1. L.i \in Nat /\ L.endBlock \in Nat
    BY <1>3 DEF Request
  <2>2. CASE L.i > L.endBlock /\ MoveTo(t, "done")
    BY <2>2 DEF MoveTo
  <2>3. CASE /\ L.i <= L.endBlock
             /\ MoveTo(t, IF L.blockOffset # 0 \/ NPages(t) # n THEN "load" ELSE "inject")
    <3>1. CASE L.blockOffset # 0 \/ NPages(t) # n
      <4>1. at' = [at EXCEPT ![t] = "load"]
        BY <2>3, <3>1, Zenon DEF MoveTo
      <4>2. ~(L.i > L.endBlock)
        BY <2>1, <2>3
      <4> QED BY <4>1, <4>2
    <3>2. CASE L.blockOffset = 0 /\ NPages(t) = n
      BY <1>6, <2>1, <2>3, <3>2 DEF MoveTo
    <3> QED BY <3>1, <3>2
  <2> QED BY <2>2, <2>3 DEF Block
<1>8. Counted(l, n) /\ SameRequest(l, L)
  BY <1>3, <1>5, StaysCounted DEF StaysInBlock
<1>9. Stands(l, a, n)
  <2>1. L.i \in Nat /\ L.endBlock \in Nat
    BY <1>3 DEF Request
  <2>2. L.result = 0
    BY <1>1, <1>3 DEF Stands
  <2> QED BY <1>3, <1>5, <1>7, <2>1, <2>2 DEF Stands, StaysInBlock, InBlock
<1>10. l.count > 0 => erased[t] \subseteq Blocks(l, n)
  BY <1>3, <1>8, BlocksSame DEF SameRequest
<1>11. ASSUME t \notin mixed, Card[l.port].ppb = n
       PROVE  PagesInv(l, a, n, c, prior[t]) /\ BufferInv(l, a, n, bbuffer, prior[t])
  <2>1. Card[L.port].ppb = n
    BY <1>8, <1>11 DEF SameRequest
  <2>2. PagesInv(L, "block", n, c, prior[t])
    BY <1>1, <1>2, <1>11, <2>1, InWrite
  <2>3. PagesInv(l, a, n, c, prior[t])
    BY <1>5, <1>7, <1>8, <2>2, PagesStay DEF StaysInBlock
  <2>4. a = "inject" => l.blockOffset = 0 /\ Fits(l, n) = n
    BY <1>5, <1>6, <1>7 DEF StaysInBlock
  <2>5. a \in {"block", "load", "inject", "done"} /\ (a = "load" => l.j = 0)
    BY <1>5, <1>7
  <2>6. BufferInv(l, a, n, bbuffer, prior[t])
    <3>1. n \in Nat \ {0}
      BY <1>3
    <3>2. CASE a = "done"
      BY <3>1, <3>2, BufferStart
    <3>3. CASE a = "load"
      BY <2>5, <3>1, <3>3, BufferStart
    <3>4. CASE a = "inject"
      BY <2>4, <3>1, <3>4, BufferStart
    <3> QED BY <1>7, <3>2, <3>3, <3>4
  <2> QED BY <2>3, <2>6
<1>12. a \in {"block", "done"} \cup InBlock
  BY <1>7 DEF InBlock
<1>13. card' = [card EXCEPT ![L.port] = c] /\ erased' = [erased EXCEPT ![t] = erased[t]]
  BY <1>2, <1>4, SameCard
<1>14. at' = [at EXCEPT ![t] = a] /\ bbuffer' \in [0 .. n - 1 -> Content]
  BY <1>3, <1>4, <1>7
<1>15. t \notin mixed /\ Card[l.port].ppb = n =>
          PagesInv(l, a, n, c, prior[t]) /\ BufferInv(l, a, n, bbuffer', prior[t])
  BY <1>4, <1>11
<1> HIDE DEF L, n, c
<1> QED BY <1>2, <1>3, <1>4, <1>5, <1>8, <1>9, <1>10, <1>12, <1>13, <1>14, <1>15, WriteMove DEF L, n, c


\* The thread of a write is in a block.
LEMMA WriterAt ==
    ASSUME CardInv, NEW t \in Threads, at[t] \in {"block"} \cup InBlock
    PROVE  local[t].op = "write"
<1>1. RequestInv(t)
  BY DEF CardInv
<1> QED BY <1>1 DEF RequestInv, Shape

LEMMA LoadInv ==
    ASSUME CardInv, NEW t \in Threads, McReadPage(t) PROVE CardInv'
<1> DEFINE L == local[t]
           n == pagesPerBlock
           c == card[L.port]
<1>1. at[t] = "load" /\ CardType
  BY DEF McReadPage, At, CardInv
<1>2. L.op = "write"
  BY <1>1, WriterAt DEF InBlock
<1>3. /\ L \in Request /\ Counted(L, n) /\ n \in Nat \ {0} /\ bbuffer \in [0 .. n - 1 -> Content]
      /\ Stands(L, at[t], n) /\ c \in [Pages(L.port) -> Content]
      /\ L.count > 0 => erased[t] \subseteq Blocks(L, n)
  BY <1>2, InWrite
<1>4. /\ card' = card /\ erased' = erased
      /\ UNCHANGED <<detected, ready, pagesPerBlock, prior, mixed, requests>>
  BY DEF McReadPage, setup, history
<1>5. card' = [card EXCEPT ![L.port] = c] /\ erased' = [erased EXCEPT ![t] = erased[t]]
  BY <1>2, <1>4, SameCard
<1>6. CASE Fail(t) /\ UNCHANGED bbuffer
  BY <1>2, <1>3, <1>4, <1>5, <1>6, FailInv
<1>7. CASE /\ Page(t) \in Pages(L.port)
           /\ bbuffer' = [bbuffer EXCEPT ![L.j] = c[Page(t)]]
           /\ local' = [local EXCEPT ![t].j = IF LastPage(t) THEN 0 ELSE @ + 1]
           /\ MoveTo(t, IF LastPage(t) THEN "inject" ELSE "load")
  <2> DEFINE j == IF L.j + 1 = n THEN 0 ELSE L.j + 1
             l == [L EXCEPT !.j = j]
             a == IF L.j + 1 = n THEN "inject" ELSE "load"
             base == L.i * n
  <2>1. L.j \in Nat /\ L.j < n /\ L.result = 0 /\ L.i <= L.endBlock
    BY <1>1, <1>3 DEF Request, Stands, InBlock
  <2>2. j \in Nat
    BY <2>1
  <2>3. local' = [local EXCEPT ![t] = l]
    BY <1>1, <1>7 DEF LastPage, CardType
  <2>4. at' = [at EXCEPT ![t] = a]
    BY <1>7, Zenon DEF LastPage, MoveTo
  <2>5. l \in Request /\ StaysInBlock(l, L) /\ l.j = j
    BY <1>3, <2>2, SetJ
  <2>6. base + L.j \in Pages(L.port) /\ c[base + L.j] \in Content
    BY <1>3, <1>7 DEF Page
  <2>7. /\ bbuffer' \in [0 .. n - 1 -> Content]
        /\ \A k \in 0 .. n - 1 : bbuffer'[k] = IF k = L.j THEN c[base + L.j] ELSE bbuffer[k]
    BY <1>3, <1>7, <2>1, <2>6 DEF Page
  <2> HIDE DEF l, base
  <2>8. Counted(l, n) /\ SameRequest(l, L) /\ l.i = L.i
    BY <1>3, <2>5, StaysCounted DEF StaysInBlock
  <2>9. Stands(l, a, n)
    <3>1. l.result = 0 /\ l.i <= l.endBlock /\ l.j = j
      BY <2>1, <2>5 DEF StaysInBlock
    <3>2. j < n
      BY <1>3, <2>1
    <3>3. CASE L.j + 1 = n
      BY <3>1, <3>3 DEF Stands, InBlock
    <3>4. CASE L.j + 1 # n
      BY <3>1, <3>2, <3>4 DEF Stands, InBlock
    <3> QED BY <3>3, <3>4
  <2>10. l.count > 0 => erased[t] \subseteq Blocks(l, n)
    BY <1>3, <2>8, BlocksSame DEF SameRequest
  <2>11. ASSUME t \notin mixed, Card[l.port].ppb = n
         PROVE  PagesInv(l, a, n, c, prior[t]) /\ BufferInv(l, a, n, bbuffer', prior[t])
    <3>1. Card[L.port].ppb = n
      BY <2>8, <2>11 DEF SameRequest
    <3>2. PagesInv(L, "load", n, c, prior[t]) /\ BufferInv(L, "load", n, bbuffer, prior[t])
      BY <1>1, <1>2, <2>11, <3>1, InWrite
    <3>3. PagesInv(l, "inject", n, c, prior[t]) /\ PagesInv(l, "load", n, c, prior[t])
      BY <2>8, <3>2, PagesStay
    <3>4. c[base + L.j] = prior[t][base + L.j]
      <4>1. base \in Nat /\ base + L.j >= base
        <5>1. L.i \in Nat
          BY <1>3 DEF Request
        <5>2. base \in Nat
          BY <1>3, <5>1, BlockArith DEF base
        <5> QED BY <2>1, <5>2
      <4> QED BY <2>6, <3>2, <4>1 DEF PagesInv, base
    <3>5. \A k \in 0 .. n - 1 : bbuffer'[k] = IF k = L.j THEN prior[t][L.i * n + L.j] ELSE bbuffer[k]
      BY <2>7, <3>4 DEF base
    <3>6. /\ l.j = L.j + 1 => BufferInv(l, "load", n, bbuffer', prior[t])
          /\ L.j + 1 = n => BufferInv(l, "inject", n, bbuffer', prior[t])
      <4> HIDE DEF n, L
      <4> QED BY <1>3, <2>1, <2>8, <3>2, <3>5, BufferLoad
    <3> QED BY <2>5, <3>3, <3>6
  <2>12. a \in {"block", "done"} \cup InBlock
    BY DEF InBlock
  <2>13. l \in Request /\ bbuffer' \in [0 .. n - 1 -> Content]
    BY <2>5, <2>7
  <2> HIDE DEF L, n, c, a
  <2>14. t \notin mixed /\ Card[l.port].ppb = n =>
            PagesInv(l, a, n, c, prior[t]) /\ BufferInv(l, a, n, bbuffer', prior[t])
    BY <2>11
  <2> QED BY <1>2, <1>3, <1>4, <1>5, <2>3, <2>4, <2>8, <2>9, <2>10, <2>12, <2>13, <2>14, WriteMove
          DEF L, n, c
<1> QED BY <1>6, <1>7 DEF McReadPage

LEMMA InjectInv ==
    ASSUME CardInv, NEW t \in Threads, Inject(t) PROVE CardInv'
<1> DEFINE L == local[t]
           n == pagesPerBlock
           c == card[L.port]
<1>1. at[t] = "inject" /\ CardType
  BY DEF Inject, At, CardInv
<1>2. L.op = "write"
  BY <1>1, WriterAt DEF InBlock
<1>3. /\ L \in Request /\ Counted(L, n) /\ n \in Nat \ {0} /\ bbuffer \in [0 .. n - 1 -> Content]
      /\ Stands(L, at[t], n) /\ c \in [Pages(L.port) -> Content]
      /\ L.count > 0 => erased[t] \subseteq Blocks(L, n)
  BY <1>2, InWrite
<1>4. /\ card' = card /\ erased' = erased /\ local' = local /\ at' = [at EXCEPT ![t] = "erase"]
      /\ UNCHANGED <<detected, ready, pagesPerBlock, prior, mixed, requests>>
      /\ bbuffer' = [k \in DOMAIN bbuffer |->
            IF k \in L.blockOffset .. L.blockOffset + NPages(t) - 1
            THEN New(L.id, L.writtenPages + k - L.blockOffset) ELSE bbuffer[k]]
  BY DEF Inject, setup, history, MoveTo
<1>5. card' = [card EXCEPT ![L.port] = c] /\ erased' = [erased EXCEPT ![t] = erased[t]]
  BY <1>2, <1>4, SameCard
<1>6. local' = [local EXCEPT ![t] = L] /\ SameRequest(L, L)
  BY <1>1, <1>4 DEF CardType, SameRequest
<1>7. Fits(L, n) = NPages(t)
  BY DEF Fits, NPages
<1>8. \A k \in 0 .. n - 1 :
         bbuffer'[k] = IF k \in L.blockOffset .. L.blockOffset + Fits(L, n) - 1
                       THEN New(L.id, L.writtenPages + k - L.blockOffset) ELSE bbuffer[k]
  BY <1>3, <1>4, <1>7
<1>9. bbuffer' \in [0 .. n - 1 -> Content]
  <2>1. \A k \in 0 .. n - 1 : bbuffer'[k] \in Content
    <3>1. ASSUME NEW k \in 0 .. n - 1 PROVE New(L.id, L.writtenPages + k - L.blockOffset) \in Content
      <4>1. L.id \in Int /\ L.writtenPages + k - L.blockOffset \in Int
        BY <1>3 DEF Request
      <4> QED BY <4>1 DEF New, Content
    <3>2. \A k \in 0 .. n - 1 : bbuffer[k] \in Content
      BY <1>3
    <3> QED BY <1>8, <3>1, <3>2
  <2>2. DOMAIN bbuffer' = 0 .. n - 1 /\ bbuffer' = [k \in DOMAIN bbuffer' |-> bbuffer'[k]]
    BY <1>3, <1>4
  <2> QED BY <2>1, <2>2
<1>10. Stands(L, "erase", n)
  BY <1>1, <1>3 DEF Stands, InBlock
<1>11. ASSUME t \notin mixed, Card[L.port].ppb = n
       PROVE  PagesInv(L, "erase", n, c, prior[t]) /\ BufferInv(L, "erase", n, bbuffer', prior[t])
  <2>1. PagesInv(L, "inject", n, c, prior[t]) /\ BufferInv(L, "inject", n, bbuffer, prior[t])
    BY <1>1, <1>2, <1>11, InWrite
  <2>2. PagesInv(L, "erase", n, c, prior[t])
    BY <1>6, <2>1, PagesStay
  <2> HIDE DEF L, n
  <2>3. BufferInv(L, "erase", n, bbuffer', prior[t])
    BY <1>3, <1>8, <2>1, BufferInject
  <2> QED BY <2>2, <2>3
<1>12. "erase" \in {"block", "done"} \cup InBlock
  BY DEF InBlock
<1> HIDE DEF L, n, c
<1> QED BY <1>2, <1>3, <1>4, <1>5, <1>6, <1>9, <1>10, <1>11, <1>12, WriteMove DEF L, n, c


LEMMA EraseInv ==
    ASSUME CardInv, NEW t \in Threads, McEraseBlock2(t) PROVE CardInv'
<1> DEFINE L == local[t]
           n == pagesPerBlock
           c == card[L.port]
           block == BlockOf(L.port, L.i)
           d == [p \in Pages(L.port) |-> IF p \in block THEN Erased ELSE c[p]]
           e == erased[t] \cup {L.i}
<1>1. at[t] = "erase" /\ CardType
  BY DEF McEraseBlock2, At, CardInv
<1>2. L.op = "write"
  BY <1>1, WriterAt DEF InBlock
<1>3. /\ L \in Request /\ Counted(L, n) /\ n \in Nat \ {0} /\ bbuffer \in [0 .. n - 1 -> Content]
      /\ Stands(L, at[t], n) /\ c \in [Pages(L.port) -> Content] /\ L.port \in Ports
      /\ L.count > 0 => erased[t] \subseteq Blocks(L, n)
  BY <1>2, InWrite
<1>4. bbuffer' = bbuffer /\ UNCHANGED <<detected, ready, pagesPerBlock, prior, mixed, requests>>
  BY DEF McEraseBlock2, setup
<1>5. CASE Fail(t) /\ UNCHANGED <<card, erased>>
  <2>1. card' = [card EXCEPT ![L.port] = c] /\ erased' = [erased EXCEPT ![t] = erased[t]]
    BY <1>2, <1>5, SameCard
  <2> QED BY <1>2, <1>3, <1>4, <1>5, <2>1, FailInv
<1>6. CASE /\ card' = [card EXCEPT ![L.port] =
                         [p \in Pages(L.port) |-> IF p \in block THEN Erased ELSE @[p]]]
           /\ erased' = [erased EXCEPT ![t] = @ \cup {L.i}]
           /\ (MoveTo(t, "program") /\ UNCHANGED local) \/ Fail(t)
  <2>1. card' = [card EXCEPT ![L.port] = d] /\ erased' = [erased EXCEPT ![t] = e]
    BY <1>1, <1>3, <1>6 DEF CardType
  <2>2. L.i \in Nat /\ L.j = 0 /\ L.i <= L.endBlock /\ L.result = 0
    BY <1>1, <1>3 DEF Request, Stands, InBlock
  <2>3. L.count > 0 => e \subseteq Blocks(L, n)
    <3>1. L.count > 0 => L.i \in Blocks(L, n)
      BY <1>3, <2>2, InBlocks
    <3> QED BY <1>3, <3>1
  <2>4. d \in [Pages(L.port) -> Content]
    <3>1. Erased \in Content
      BY DEF Erased, Content
    <3> QED BY <1>3, <3>1
  <2>5. ASSUME Card[L.port].ppb = n
        PROVE  \A p \in Pages(L.port) :
                  d[p] = IF p >= L.i * n /\ p < L.i * n + n THEN Erased ELSE c[p]
    <3>1. ASSUME NEW p \in Pages(L.port) PROVE p \in block <=> p >= L.i * n /\ p < L.i * n + n
      <4>1. p \in Nat
        BY <1>3, PageNats
      <4>2. p \div n = L.i <=> L.i * n <= p /\ p < L.i * n + n
        <5> HIDE DEF n, L
        <5> QED BY <1>3, <2>2, <4>1, BlockOfPage
      <4>3. L.i * n \in Nat
        BY <1>3, <2>2, BlockArith
      <4>4. p \in block <=> p \div n = L.i
        BY <2>5, Zenon DEF BlockOf
      <4> HIDE DEF block
      <4> QED BY <4>1, <4>2, <4>3, <4>4
    <3> HIDE DEF block
    <3> QED BY <3>1
  <2> HIDE DEF d, e, block
  <2>6. CASE Fail(t)
    <3>1. ASSUME Card[L.port].ppb = n, NEW p \in Pages(L.port),
                 p < L.i * n \/ p >= L.i * n + n
          PROVE  d[p] = c[p]
      <4>1. p \in Nat /\ L.i * n \in Nat
        BY <1>3, <2>2, PageNats, BlockArith
      <4>2. ~(p >= L.i * n /\ p < L.i * n + n)
        BY <1>3, <3>1, <4>1
      <4> QED BY <2>5, <3>1, <4>2
    <3> HIDE DEF L, n, c
    <3> QED BY <1>2, <1>3, <1>4, <2>1, <2>3, <2>4, <2>6, <3>1, FailInv DEF L, n, c
  <2>7. CASE MoveTo(t, "program") /\ UNCHANGED local
    <3>1. /\ at' = [at EXCEPT ![t] = "program"] /\ local' = [local EXCEPT ![t] = L]
          /\ SameRequest(L, L) /\ bbuffer' \in [0 .. n - 1 -> Content]
      BY <1>1, <1>3, <1>4, <2>7 DEF MoveTo, CardType, SameRequest
    <3>2. Stands(L, "program", n)
      BY <1>3, <2>2 DEF Stands, InBlock
    <3>3. ASSUME t \notin mixed, Card[L.port].ppb = n
          PROVE  PagesInv(L, "program", n, d, prior[t]) /\ BufferInv(L, "program", n, bbuffer', prior[t])
      <4>1. PagesInv(L, "erase", n, c, prior[t]) /\ BufferInv(L, "erase", n, bbuffer, prior[t])
        BY <1>1, <1>2, <3>3, InWrite
      <4>2. BufferInv(L, "program", n, bbuffer', prior[t])
        BY <1>4, <3>1, <4>1, BufferStays
      <4>3. \A p \in Pages(L.port) :
               d[p] = IF p >= L.i * n /\ p < L.i * n + n THEN Erased ELSE c[p]
        BY <2>5, <3>3
      <4> HIDE DEF L, n, c
      <4>4. PagesInv(L, "program", n, d, prior[t])
        BY <1>3, <2>2, <4>1, <4>3, PagesErase
      <4> QED BY <4>2, <4>4
    <3>4. "program" \in {"block", "done"} \cup InBlock
      BY DEF InBlock
    <3> HIDE DEF L, n, c
    <3>5. t \notin mixed /\ Card[L.port].ppb = n =>
             PagesInv(L, "program", n, d, prior[t]) /\ BufferInv(L, "program", n, bbuffer', prior[t])
      BY <3>3
    <3> QED BY <1>2, <1>3, <1>4, <2>1, <2>3, <2>4, <3>1, <3>2, <3>4, <3>5, WriteMove DEF L, n, c
  <2> QED BY <1>6, <2>6, <2>7
<1> QED BY <1>5, <1>6 DEF McEraseBlock2

LEMMA ProgramInv ==
    ASSUME CardInv, NEW t \in Threads, McWritePage(t) PROVE CardInv'
<1> DEFINE L == local[t]
           n == pagesPerBlock
           c == card[L.port]
           Put(content) == card' = [card EXCEPT ![L.port][Page(t)] = content]
           base == L.i * n
           page == base + L.j
<1>1. at[t] = "program" /\ CardType
  BY DEF McWritePage, At, CardInv
<1>2. L.op = "write"
  BY <1>1, WriterAt DEF InBlock
<1>3. /\ L \in Request /\ Counted(L, n) /\ n \in Nat \ {0} /\ bbuffer \in [0 .. n - 1 -> Content]
      /\ Stands(L, at[t], n) /\ c \in [Pages(L.port) -> Content] /\ L.port \in Ports
      /\ L.count > 0 => erased[t] \subseteq Blocks(L, n)
  BY <1>2, InWrite
<1>4. /\ bbuffer' = bbuffer /\ erased' = erased
      /\ UNCHANGED <<detected, ready, pagesPerBlock, prior, mixed, requests>>
  BY DEF McWritePage, setup, history
<1>5. /\ L.i \in Nat /\ L.j \in Nat /\ L.j < n /\ L.i <= L.endBlock /\ L.result = 0
  BY <1>1, <1>3 DEF Request, Stands, InBlock
<1>6. base \in Nat
  BY <1>3, <1>5, BlockArith
<1>7. erased' = [erased EXCEPT ![t] = erased[t]]
  BY <1>2, <1>4, SameCard
<1>8. Page(t) = page /\ Junk \in Content
  BY DEF Page, Junk, Content
<1>9. CASE Fail(t) /\ UNCHANGED card
  <2>1. card' = [card EXCEPT ![L.port] = c]
    BY <1>2, <1>9, SameCard
  <2> QED BY <1>2, <1>3, <1>4, <1>7, <1>9, <2>1, FailInv
<1>10. ASSUME NEW x \in Content, Put(x), page \in Pages(L.port)
       PROVE  LET d == [c EXCEPT ![page] = x]
              IN  /\ card' = [card EXCEPT ![L.port] = d] /\ d \in [Pages(L.port) -> Content]
                  /\ \A p \in Pages(L.port) : d[p] = IF p = page THEN x ELSE c[p]
  <2> DEFINE d == [c EXCEPT ![page] = x]
  <2>1. card' = [card EXCEPT ![L.port] = d]
    BY <1>1, <1>3, <1>8, <1>10 DEF CardType
  <2> HIDE DEF page
  <2>2. d \in [Pages(L.port) -> Content] /\ \A p \in Pages(L.port) : d[p] = IF p = page THEN x ELSE c[p]
    BY <1>3, <1>10
  <2> QED BY <2>1, <2>2
<1>11. CASE page \in Pages(L.port) /\ Put(Junk) /\ Fail(t)
  <2> DEFINE d == [c EXCEPT ![page] = Junk]
  <2>1. /\ card' = [card EXCEPT ![L.port] = d] /\ d \in [Pages(L.port) -> Content]
        /\ \A p \in Pages(L.port) : d[p] = IF p = page THEN Junk ELSE c[p]
    BY <1>8, <1>10, <1>11
  <2> HIDE DEF d
  <2>2. ASSUME NEW p \in Pages(L.port), p < base \/ p >= base + n PROVE d[p] = c[p]
    <3>1. p \in Nat
      BY <1>3, PageNats
    <3>2. p # page
      <4> HIDE DEF base
      <4> QED BY <1>5, <1>6, <2>2, <3>1, <1>3
    <3> QED BY <2>1, <3>2
  <2> HIDE DEF L, n, c
  <2> QED BY <1>2, <1>3, <1>4, <1>7, <1>11, <2>1, <2>2, FailInv DEF L, n, c, base
<1>12. ASSUME page \in Pages(L.port), NEW l \in Request, NEW a \in {"block", "program"},
              Put(IF c[page] = Erased THEN bbuffer[L.j] ELSE Junk),
              local' = [local EXCEPT ![t] = l], at' = [at EXCEPT ![t] = a],
              SameRequest(l, L), Counted(l, n), Stands(l, a, n),
              a = "program" => l.i = L.i /\ l.j = L.j + 1,
              a = "block" => l.i = L.i + 1 /\ L.j + 1 = n
       PROVE  CardInv'
  <2> DEFINE x == IF c[page] = Erased THEN bbuffer[L.j] ELSE Junk
             d == [c EXCEPT ![page] = x]
  <2>1. x \in Content
    BY <1>3, <1>5, <1>8
  <2> HIDE DEF x
  <2>2. Put(x)
    BY <1>12 DEF x
  <2>3. /\ card' = [card EXCEPT ![L.port] = d] /\ d \in [Pages(L.port) -> Content]
        /\ \A p \in Pages(L.port) : d[p] = IF p = page THEN x ELSE c[p]
    BY <1>10, <1>12, <2>1, <2>2
  <2> HIDE DEF d
  <2>4. l.count > 0 => erased[t] \subseteq Blocks(l, n)
    BY <1>3, <1>12, BlocksSame DEF SameRequest
  <2>5. ASSUME t \notin mixed, Card[l.port].ppb = n
        PROVE  PagesInv(l, a, n, d, prior[t]) /\ BufferInv(l, a, n, bbuffer', prior[t])
    <3>1. Card[L.port].ppb = n
      BY <1>12, <2>5 DEF SameRequest
    <3>2. PagesInv(L, "program", n, c, prior[t]) /\ BufferInv(L, "program", n, bbuffer, prior[t])
      BY <1>1, <1>2, <2>5, <3>1, InWrite
    <3>3. x = Want(L, prior[t], page)
      <4>1. c[page] = Erased
        <5>1. page >= base /\ page < base + n /\ ~(page < base + L.j)
          <6> HIDE DEF base
          <6> QED BY <1>3, <1>5, <1>6
        <5> QED BY <1>12, <3>2, <5>1 DEF PagesInv
      <4>2. bbuffer[L.j] = Want(L, prior[t], page)
        BY <1>3, <1>5, <3>2 DEF BufferInv
      <4> QED BY <4>1, <4>2 DEF x
    <3>4. \A p \in Pages(L.port) : d[p] = IF p = L.i * n + L.j THEN Want(L, prior[t], p) ELSE c[p]
      BY <2>3, <3>3
    <3>5. /\ l.i = L.i /\ l.j = L.j + 1 => PagesInv(l, "program", n, d, prior[t])
          /\ l.i = L.i + 1 /\ L.j + 1 = n => PagesInv(l, "block", n, d, prior[t])
      <4> HIDE DEF L, n, c
      <4> QED BY <1>3, <1>5, <1>12, <3>2, <3>4, PagesProgram
    <3>6. PagesInv(l, a, n, d, prior[t])
      BY <1>12, <3>5
    <3>7. CASE a = "block"
      <4>1. BufferInv(l, "block", n, bbuffer', prior[t])
        BY <1>3, BufferStart
      <4> QED BY <3>6, <3>7, <4>1
    <3>8. CASE a = "program"
      <4>1. BufferInv(l, "program", n, bbuffer', prior[t])
        BY <1>4, <1>12, <3>2, <3>8, BufferStays
      <4> QED BY <3>6, <3>8, <4>1
    <3> QED BY <3>7, <3>8
  <2>6. a \in {"block", "done"} \cup InBlock /\ bbuffer' \in [0 .. n - 1 -> Content]
    BY <1>3, <1>4 DEF InBlock
  <2> HIDE DEF L, n, c
  <2>7. t \notin mixed /\ Card[l.port].ppb = n =>
           PagesInv(l, a, n, d, prior[t]) /\ BufferInv(l, a, n, bbuffer', prior[t])
    BY <2>5
  <2> QED BY <1>2, <1>4, <1>7, <1>12, <2>3, <2>4, <2>6, <2>7, WriteMove DEF L, n, c
<1>13. CASE /\ page \in Pages(L.port)
            /\ Put(IF c[page] = Erased THEN bbuffer[L.j] ELSE Junk)
            /\ IF LastPage(t) THEN NextBlock(t) /\ MoveTo(t, "block")
               ELSE local' = [local EXCEPT ![t].j = @ + 1] /\ UNCHANGED at
  <2>1. CASE L.j + 1 # n
    <3> DEFINE l == [L EXCEPT !.j = L.j + 1]
    <3>1. local' = [local EXCEPT ![t] = l] /\ at' = [at EXCEPT ![t] = "program"]
      BY <1>1, <1>13, <2>1 DEF LastPage, CardType
    <3>2. l \in Request /\ StaysInBlock(l, L) /\ l.j = L.j + 1
      <4>1. L.j + 1 \in Nat
        BY <1>5
      <4> QED BY <1>3, <4>1, SetJ
    <3> HIDE DEF l
    <3>3. Counted(l, n) /\ SameRequest(l, L) /\ l.i = L.i
      BY <1>3, <3>2, StaysCounted DEF StaysInBlock
    <3>4. Stands(l, "program", n)
      <4>1. l.result = 0 /\ l.i <= l.endBlock /\ l.j < n
        BY <1>3, <1>5, <2>1, <3>2 DEF StaysInBlock
      <4> QED BY <4>1 DEF Stands, InBlock
    <3> HIDE DEF Put
    <3> QED BY <1>12, <1>13, <3>1, <3>2, <3>3, <3>4
  <2>2. CASE L.j + 1 = n
    <3> DEFINE l == [L EXCEPT !.i = L.i + 1, !.blockOffset = 0, !.j = 0,
                              !.remainingPages = L.remainingPages - Fits(L, n),
                              !.writtenPages = L.writtenPages + Fits(L, n)]
    <3>1. Fits(L, n) = NPages(t)
      BY DEF Fits, NPages
    <3>2. local' = [local EXCEPT ![t] = l] /\ at' = [at EXCEPT ![t] = "block"]
      <4>1. NextBlock(t) /\ MoveTo(t, "block")
        <5> HIDE DEF Put, page, c
        <5> QED BY <1>13, <2>2 DEF LastPage
      <4>2. at' = [at EXCEPT ![t] = "block"]
        BY <4>1 DEF MoveTo
      <4>3. t \in DOMAIN local
        BY <1>1 DEF CardType
      <4>4. local' = [local EXCEPT ![t] = l]
        BY <3>1, <4>1, <4>3, Zenon DEF NextBlock
      <4> QED BY <4>2, <4>4
    <3>3. l \in Request /\ Counted(l, n)
      BY <1>3, NextBlockCounts
    <3>4. SameRequest(l, L) /\ l.i = L.i + 1 /\ l.result = 0
      BY <1>3, <1>5 DEF Request, SameRequest
    <3>5. Stands(l, "block", n)
      BY <3>4 DEF Stands, InBlock
    <3> HIDE DEF l, Put
    <3> QED BY <1>12, <1>13, <2>2, <3>2, <3>3, <3>4, <3>5
  <2> QED BY <2>1, <2>2
<1> QED BY <1>8, <1>9, <1>11, <1>13 DEF McWritePage


\* A page is read, or the read ends.
LEMMA ReadMove ==
    ASSUME CardInv, NEW t \in Threads, local[t].op = "read",
           NEW l \in Request, NEW a \in {"pread", "done"},
           local' = [local EXCEPT ![t] = l], at' = [at EXCEPT ![t] = a],
           SameRequest(l, local[t]),
           UNCHANGED <<detected, ready, pagesPerBlock, bbuffer, card, prior, erased, mixed, requests>>,
           a # "done" => l.result = 0,
           l.j <= l.count, a = "done" /\ l.result = 0 => l.j = l.count,
           t \notin mixed => l.data = [k \in 1 .. l.j |-> prior[t][l.offset + k - 1]]
    PROVE  CardInv'
<1>1. /\ CardType /\ Shape(local[t], at[t], pagesPerBlock, ready) /\ local[t].port \in Ports
      /\ RequestInv(t) /\ bbuffer \in [0 .. pagesPerBlock - 1 -> Content]
      /\ card[local[t].port] \in [Pages(local[t].port) -> Content]
  BY InRequest DEF CardInv
<1>2. local'[t] = l /\ at'[t] = a
  BY <1>1 DEF CardType
<1>3. l.op = "read" /\ l.port = local[t].port
  BY DEF SameRequest
<1>4. Shape(l, a, pagesPerBlock, ready)
  <2>1. l.port \in ready /\ l.offset + l.count <= Card[l.port].pages
    BY <1>1, <1>3 DEF Shape, SameRequest
  <2> QED BY <1>3, <2>1 DEF Shape, InBlock
<1>5. erased[t] = {} /\ (t \notin mixed => card[l.port] = prior[t])
  BY <1>1, <1>3 DEF RequestInv
<1>6. RequestInv(t)'
  BY <1>2, <1>3, <1>4, <1>5 DEF RequestInv
<1>7. a \in Places \ {"idle"}
  BY DEF Places
<1>8. /\ card' = [card EXCEPT ![local[t].port] = card[local[t].port]]
      /\ erased' = [erased EXCEPT ![t] = erased[t]]
  BY <1>1 DEF CardType
<1> QED BY <1>1, <1>6, <1>7, <1>8, MoveInv

LEMMA AppendPage ==
    ASSUME NEW S, NEW s \in Seq(S), NEW j \in Nat, NEW f, s = [k \in 1 .. j |-> f[k]], f[j + 1] \in S
    PROVE  Append(s, f[j + 1]) = [k \in 1 .. j + 1 |-> f[k]]
<1> DEFINE r == Append(s, f[j + 1])
<1>1. Len(s) = j
  OBVIOUS
<1>2. r \in Seq(S) /\ Len(r) = j + 1 /\ r[j + 1] = f[j + 1] /\ \A k \in 1 .. j : r[k] = s[k]
  BY <1>1
<1> HIDE DEF r
<1>3. \A k \in 1 .. j : s[k] = f[k]
  OBVIOUS
<1>4. DOMAIN r = 1 .. j + 1
  BY <1>2
<1>5. \A k \in 1 .. j + 1 : r[k] = f[k]
  <2>1. \A k \in 1 .. j + 1 : k \in 1 .. j \/ k = j + 1
    OBVIOUS
  <2> QED BY <1>2, <1>3, <2>1
<1>6. r = [k \in 1 .. Len(r) |-> r[k]]
  BY <1>2
<1>7. r = [k \in 1 .. j + 1 |-> f[k]]
  BY <1>2, <1>5, <1>6
<1> QED BY <1>7 DEF r

LEMMA PreadInv ==
    ASSUME CardInv, NEW t \in Threads, mcman_pread(t) PROVE CardInv'
<1> DEFINE L == local[t]
           c == card[L.port]
           page == L.offset + L.j
<1>1. at[t] = "pread" /\ CardType /\ RequestInv(t)
  BY DEF mcman_pread, At, CardInv
<1>2. L.op = "read"
  BY <1>1 DEF RequestInv, Shape
<1>3. /\ L \in Request /\ c \in [Pages(L.port) -> Content] /\ L.port \in Ports
      /\ Shape(L, at[t], pagesPerBlock, ready)
  BY <1>2, InRequest
<1>4. UNCHANGED <<detected, ready, pagesPerBlock, bbuffer, card, prior, erased, mixed, requests>>
  BY DEF mcman_pread, setup, history
<1>5. /\ L.j \in Nat /\ L.count \in Nat /\ L.offset \in Nat /\ L.data \in Seq(Content)
      /\ L.result = 0 /\ L.j <= L.count /\ L.offset + L.count <= Card[L.port].pages
  BY <1>1, <1>2, <1>3 DEF Request, Shape
<1>6. t \notin mixed => c = prior[t] /\ L.data = [k \in 1 .. L.j |-> prior[t][L.offset + k - 1]]
  BY <1>1, <1>2 DEF RequestInv
<1>7. CASE L.j = L.count /\ MoveTo(t, "done") /\ UNCHANGED local
  <2>1. local' = [local EXCEPT ![t] = L] /\ at' = [at EXCEPT ![t] = "done"] /\ SameRequest(L, L)
    BY <1>1, <1>7 DEF CardType, MoveTo, SameRequest
  <2> HIDE DEF L
  <2> QED BY <1>2, <1>3, <1>4, <1>5, <1>6, <1>7, <2>1, ReadMove DEF L
<1>8. CASE L.j < L.count /\ Fail(t)
  <2> DEFINE l == [L EXCEPT !.result = -1]
  <2>1. local' = [local EXCEPT ![t] = l] /\ at' = [at EXCEPT ![t] = "done"]
    BY <1>1, <1>8 DEF CardType, MoveTo, Fail
  <2>2. /\ l \in Request /\ SameRequest(l, L) /\ l.j = L.j /\ l.count = L.count /\ l.offset = L.offset
        /\ l.data = L.data /\ l.result = -1
    BY <1>3 DEF Request, SameRequest
  <2> HIDE DEF L, l
  <2>3. l.j <= l.count /\ l.result # 0
    BY <1>5, <2>2
  <2>4. t \notin mixed => l.data = [k \in 1 .. l.j |-> prior[t][l.offset + k - 1]]
    BY <1>6, <2>2
  <2> QED BY <1>2, <1>4, <2>1, <2>2, <2>3, <2>4, ReadMove DEF L
<1>9. CASE /\ L.j < L.count
           /\ local' = [local EXCEPT ![t].j = @ + 1, ![t].data = Append(@, c[page])]
           /\ UNCHANGED at
  <2> DEFINE data == Append(L.data, c[page])
             l == [L EXCEPT !.j = L.j + 1, !.data = data]
  <2>1. local' = [local EXCEPT ![t] = l] /\ at' = [at EXCEPT ![t] = "pread"]
    BY <1>1, <1>9 DEF CardType
  <2>2. page \in Pages(L.port)
    <3>1. Card[L.port].pages \in Nat
      BY <1>3, PageNats
    <3>2. L.j < L.count
      BY <1>9
    <3>3. page \in 0 .. Card[L.port].pages - 1
      <4> HIDE DEF L
      <4> QED BY <1>5, <3>1, <3>2
    <3> QED BY <3>3 DEF Pages
  <2>3. c[page] \in Content
    BY <1>3, <2>2
  <2>4. data \in Seq(Content)
    BY <1>5, <2>3
  <2>5. ASSUME t \notin mixed PROVE data = [k \in 1 .. L.j + 1 |-> prior[t][L.offset + k - 1]]
    <3> DEFINE f == [k \in 1 .. L.j + 1 |-> c[L.offset + k - 1]]
    <3>1. L.data = [k \in 1 .. L.j |-> f[k]]
      <4>1. L.data = [k \in 1 .. L.j |-> c[L.offset + k - 1]]
        BY <1>6, <2>5
      <4>2. \A k \in 1 .. L.j : f[k] = c[L.offset + k - 1]
        BY <1>5
      <4> HIDE DEF f
      <4> QED BY <4>1, <4>2
    <3>2. f[L.j + 1] = c[page]
      <4>1. L.j + 1 \in 1 .. L.j + 1 /\ L.offset + (L.j + 1) - 1 = page
        BY <1>5
      <4> HIDE DEF page
      <4> QED BY <4>1
    <3>3. [k \in 1 .. L.j + 1 |-> f[k]] = f
      OBVIOUS
    <3>4. c = prior[t]
      BY <1>6, <2>5
    <3> HIDE DEF f, c, page
    <3>5. data = [k \in 1 .. L.j + 1 |-> f[k]]
      BY <1>5, <2>3, <3>1, <3>2, AppendPage
    <3> QED BY <3>3, <3>4, <3>5 DEF f
  <2> HIDE DEF data
  <2>6. /\ l \in Request /\ SameRequest(l, L) /\ l.j = L.j + 1 /\ l.count = L.count
        /\ l.offset = L.offset /\ l.data = data /\ l.result = 0
    <3>1. L.j + 1 \in Nat
      BY <1>5
    <3>2. l \in Request
      BY <1>3, <2>4, <3>1 DEF Request
    <3> QED BY <1>3, <1>5, <3>2 DEF Request, SameRequest
  <2> HIDE DEF l
  <2>7. l.j <= l.count
    BY <1>5, <1>9, <2>6
  <2>8. t \notin mixed => l.data = [k \in 1 .. l.j |-> prior[t][l.offset + k - 1]]
    BY <2>5, <2>6
  <2> HIDE DEF L
  <2> QED BY <1>2, <1>4, <2>1, <2>6, <2>7, <2>8, ReadMove DEF L
<1> QED BY <1>7, <1>8, <1>9 DEF mcman_pread

LEMMA NoRequestIs ==
    /\ NoRequest \in Request
    /\ NoRequest.op = "none" /\ NoRequest.port = -1 /\ NoRequest.count = 0
    /\ NoRequest.result = 0
<1> DEFINE nil == <<>>
<1>1. nil \in Seq(Content)
  OBVIOUS
<1>2. NoRequest = [op |-> "none", port |-> -1, offset |-> 0, count |-> 0, id |-> 0, i |-> 0,
          endBlock |-> 0, blockOffset |-> 0, remainingPages |-> 0, writtenPages |-> 0,
          j |-> 0, data |-> nil, result |-> 0]
  BY DEF NoRequest
<1> HIDE DEF nil
<1>3. NoRequest \in Request
  BY <1>1, <1>2 DEF Request
<1> QED BY <1>2, <1>3

LEMMA ReturnInv ==
    ASSUME CardInv, NEW t \in Threads, Return(t) PROVE CardInv'
<1>1. /\ CardType /\ SetupInv /\ MixedInv /\ at[t] = "done" /\ at' = [at EXCEPT ![t] = "idle"]
      /\ local' = [local EXCEPT ![t] = NoRequest] /\ erased' = [erased EXCEPT ![t] = {}]
      /\ prior' = [prior EXCEPT ![t] = <<>>] /\ mixed' = mixed \ {t}
      /\ UNCHANGED <<detected, ready, pagesPerBlock, bbuffer, card, requests>>
  BY DEF Return, At, MoveTo, setup, CardInv
<1>2. NoRequest.op = "none" /\ NoRequest.port = -1 /\ NoRequest.count = 0 /\ NoRequest.result = 0
  BY NoRequestIs
<1>3. NoRequest \in Request
  BY NoRequestIs
<1>4. /\ local'[t] = NoRequest /\ at'[t] = "idle" /\ erased'[t] = {}
      /\ \A u \in Threads \ {t} : /\ local'[u] = local[u] /\ at'[u] = at[u]
                                    /\ erased'[u] = erased[u] /\ prior'[u] = prior[u]
  BY <1>1 DEF CardType
<1>5. CardType'
  BY <1>1, <1>3 DEF CardType, Places
<1>6. detected = Ports
  BY <1>1 DEF SetupInv
<1>7. SetupInv'
  BY <1>1, <1>6 DEF SetupInv
<1>8. MixedInv'
  BY <1>1, <1>2, <1>4 DEF MixedInv
<1>9. RequestInv(t)'
  <2>1. Shape(NoRequest, "idle", pagesPerBlock', ready')
    BY <1>2 DEF Shape, InBlock
  <2>2. ~(NoRequest.count > 0)
    BY <1>2
  <2> QED BY <1>2, <1>4, <2>1, <2>2 DEF RequestInv
<1>10. ASSUME NEW u \in Threads \ {t} PROVE RequestInv(u)'
  <2>1. RequestInv(u)
    BY DEF CardInv
  <2> QED BY <1>1, <1>4, <2>1, OtherThread
<1> QED BY <1>5, <1>7, <1>8, <1>9, <1>10 DEF CardInv


\* A request begins: what it and the others rely on, given what is new of the request.
LEMMA StartInv ==
    ASSUME CardInv, NEW t \in Threads, at[t] = "idle", detected = Ports,
           NEW K \in Request, NEW a \in {"block", "pread"},
           K.op = IF a = "block" THEN "write" ELSE "read", K.port \in ready,
           K.offset + K.count <= Card[K.port].pages, K.result = 0, K.j = 0,
           local' = [local EXCEPT ![t] = K], at' = [at EXCEPT ![t] = a],
           prior' = [prior EXCEPT ![t] = card[K.port]], requests' \in Nat,
           UNCHANGED <<detected, ready, pagesPerBlock, bbuffer, card, erased>>,
           mixed \subseteq mixed',
           \A u \in Threads \ {t} :
              /\ a = "block" /\ (local[u].op = "write" \/ local[u].port = K.port) => u \in mixed'
              /\ local[u].op = "write" /\ (a = "block" \/ local[u].port = K.port) => t \in mixed',
           K.op = "write" => Counted(K, pagesPerBlock) /\ K.writtenPages = 0,
           K.op = "read" => K.data = <<>>
    PROVE  CardInv'
<1>1. CardType /\ SetupInv /\ MixedInv /\ RequestInv(t)
  BY DEF CardInv
<1>2. /\ local'[t] = K /\ at'[t] = a /\ prior'[t] = card[K.port]
      /\ \A u \in Threads \ {t} : local'[u] = local[u] /\ at'[u] = at[u] /\ prior'[u] = prior[u]
  BY <1>1 DEF CardType
<1>3. CardType'
  <2>1. a \in Places
    BY DEF Places, InBlock
  <2> QED BY <1>1, <2>1 DEF CardType
<1>4. SetupInv'
  BY <1>1 DEF SetupInv
<1>5. MixedInv'
  <2> SUFFICES ASSUME NEW u \in Threads \ mixed', NEW v \in Threads \ {u}
               PROVE  /\ local'[u].op = "write" => local'[v].op # "write"
                      /\ local'[u].op = "read" =>
                            ~(local'[v].op = "write" /\ local'[v].port = local'[u].port)
    BY DEF MixedInv
  <2>1. CASE u = t
    BY <1>2, <2>1
  <2>2. CASE v = t
    BY <1>2, <2>2
  <2>3. CASE u # t /\ v # t
    <3>1. u \in Threads \ mixed
      OBVIOUS
    <3> QED BY <1>1, <1>2, <2>3, <3>1 DEF MixedInv
  <2> QED BY <2>1, <2>2, <2>3
<1>6. ASSUME NEW u \in Threads \ {t} PROVE RequestInv(u)'
  <2>1. RequestInv(u)
    BY DEF CardInv
  <2> QED BY <1>2, <2>1, OtherThread
<1>7. RequestInv(t)'
  <2>1. local[t].op = "none" /\ erased[t] = {}
    BY <1>1 DEF RequestInv, Shape
  <2>2. K.port \in Ports /\ pagesPerBlock \in Nat \ {0}
    <3>1. ready \subseteq Ports
      BY <1>1 DEF SetupInv
    <3>2. PICK p \in ready : pagesPerBlock = Card[p].ppb
      BY <1>1 DEF SetupInv
    <3> QED BY <3>1, <3>2, PageNats
  <2>3. K.count \in Nat /\ K.j <= K.count
    BY DEF Request
  <2>4. Shape(K, a, pagesPerBlock, ready)
    BY <2>3 DEF Shape, InBlock
  <2>5. K.op = "write" => PagesInv(K, "block", pagesPerBlock, card[K.port], card[K.port])
    BY <2>2, PagesStart
  <2>6. BufferInv(K, "block", pagesPerBlock, bbuffer, card[K.port])
    BY <2>2, BufferStart
  <2>7. K.op = "read" => K.data = [k \in 1 .. K.j |-> card[K.port][K.offset + k - 1]]
    <3>1. [k \in 1 .. K.j |-> card[K.port][K.offset + k - 1]] = <<>>
      OBVIOUS
    <3> QED BY <3>1
  <2> QED BY <1>2, <2>1, <2>4, <2>5, <2>6, <2>7 DEF RequestInv
<1> QED BY <1>3, <1>4, <1>5, <1>6, <1>7 DEF CardInv

LEMMA StartWriteInv ==
    ASSUME CardInv, NEW t \in Threads, NEW port \in Ports,
           NEW offset \in Nat, NEW count \in Nat, StartWrite(t, port, offset, count)
    PROVE  CardInv'
<1> DEFINE n == pagesPerBlock
           K == FirstLocals(port, offset, count, requests', offset \div n,
                            EndBlock(offset, count), offset % n)
           others == {u \in Threads \ {t} : Writing(u) \/ local[u].port = port}
<1>1. /\ at[t] = "idle" /\ detected = Ports /\ port \in ready
      /\ offset + count <= Card[port].pages /\ requests' = requests + 1
      /\ prior' = [prior EXCEPT ![t] = card[port]] /\ at' = [at EXCEPT ![t] = "block"]
      /\ UNCHANGED <<detected, ready, pagesPerBlock, bbuffer, card, erased>>
  BY DEF StartWrite, StartRequest, At, MoveTo, setup
<1>2. CardType /\ SetupInv
  BY DEF CardInv
<1>3. requests' \in Nat
  BY <1>1, <1>2 DEF CardType
<1>4. n \in Nat \ {0}
  <2>1. ready \subseteq Ports
    BY <1>2 DEF SetupInv
  <2>2. PICK p \in ready : pagesPerBlock = Card[p].ppb
    BY <1>1, <1>2 DEF SetupInv
  <2> QED BY <2>1, <2>2, PageNats
<1>5. local' = [local EXCEPT ![t] = K]
  <2>1. PICK k : /\ local' = [local EXCEPT ![t] = k]
                 /\ k = [NoRequest EXCEPT !.op = "write", !.port = port, !.offset = offset,
                           !.count = count, !.id = requests', !.i = offset \div n,
                           !.endBlock = EndBlock(offset, count), !.blockOffset = offset % n,
                           !.remainingPages = count]
    BY Zenon DEF StartWrite
  <2>2. k = K
    <3> DEFINE i == offset \div n
               e == EndBlock(offset, count)
               r == offset % n
               id == requests'
    <3>1. k = [NoRequest EXCEPT !.op = "write", !.port = port, !.offset = offset,
                 !.count = count, !.id = id, !.i = i, !.endBlock = e, !.blockOffset = r,
                 !.remainingPages = count]
      BY <2>1, Zenon
    <3> HIDE DEF i, e, r, id
    <3>2. k = FirstLocals(port, offset, count, id, i, e, r)
      BY <3>1 DEF NoRequest, FirstLocals
    <3> QED BY <3>2, Zenon DEF i, e, r, id
  <2> QED BY <2>1, <2>2
<1>6. K \in Request /\ Counted(K, n)
  <2> DEFINE id == requests'
  <2> HIDE DEF n, id
  <2>1. id \in Nat /\ n = pagesPerBlock
    BY <1>3 DEF id, n
  <2>2. ASSUME NEW i \in Nat PROVE
           LET k == FirstLocals(port, offset, count, i, offset \div n, EndBlock(offset, count), offset % n)
           IN  k \in Request /\ Counted(k, n)
    BY <1>1, <1>4, <2>1, StartCounts
  <2> QED BY <2>1, <2>2 DEF id
<1>7. /\ K.op = "write" /\ K.port = port /\ K.offset = offset /\ K.count = count
      /\ K.result = 0 /\ K.j = 0 /\ K.writtenPages = 0
  BY DEF FirstLocals
<1> HIDE DEF K
<1>8. mixed' = mixed \cup others \cup (IF \E u \in others : Writing(u) THEN {t} ELSE {})
  BY DEF StartWrite
<1>9. \A u \in Threads \ {t} :
         /\ local[u].op = "write" \/ local[u].port = port => u \in mixed'
         /\ local[u].op = "write" => t \in mixed'
  BY <1>8 DEF Writing
<1>10. mixed \subseteq mixed'
  BY <1>8
<1> HIDE DEF n, others
<1> QED BY <1>1, <1>3, <1>5, <1>6, <1>7, <1>9, <1>10, StartInv DEF n

LEMMA StartReadInv ==
    ASSUME CardInv, NEW t \in Threads, NEW port \in Ports,
           NEW offset \in Nat, NEW count \in Nat, StartRead(t, port, offset, count)
    PROVE  CardInv'
<1> DEFINE K == [NoRequest EXCEPT !.op = "read", !.port = port, !.offset = offset, !.count = count]
<1>1. /\ at[t] = "idle" /\ detected = Ports /\ port \in ready
      /\ offset + count <= Card[port].pages /\ requests' = requests + 1
      /\ prior' = [prior EXCEPT ![t] = card[port]] /\ at' = [at EXCEPT ![t] = "pread"]
      /\ UNCHANGED <<detected, ready, pagesPerBlock, bbuffer, card, erased>>
      /\ local' = [local EXCEPT ![t] = K]
  BY DEF StartRead, StartRequest, At, MoveTo, setup
<1>2. requests' \in Nat
  BY <1>1 DEF CardInv, CardType
<1>3. K \in Request
  BY NoRequestIs DEF Request
<1>4. /\ K.op = "read" /\ K.port = port /\ K.offset = offset /\ K.count = count
      /\ K.result = 0 /\ K.j = 0 /\ K.data = <<>>
  BY DEF NoRequest
<1> HIDE DEF K
<1>5. /\ mixed \subseteq mixed'
      /\ \A u \in Threads \ {t} : local[u].op = "write" /\ local[u].port = port => t \in mixed'
  BY DEF StartRead, Writing
<1> QED BY <1>1, <1>2, <1>3, <1>4, <1>5, StartInv

LEMMA CtorInv ==
    ASSUME CardInv, NEW port \in Ports, mcman_ctor(port) PROVE CardInv'
<1>1. CardType /\ SetupInv /\ MixedInv
  BY DEF CardInv
<1>2. /\ port \notin detected /\ detected' = detected \cup {port}
      /\ \A p \in Ports : p < port => p \in detected
      /\ UNCHANGED <<card, at, local, requests, prior, erased, mixed>>
      /\ \/ /\ ready' = ready \cup {port} /\ pagesPerBlock' = Card[port].ppb
            /\ bbuffer' = [k \in 0 .. Card[port].ppb - 1 |-> Stale]
         \/ UNCHANGED <<ready, pagesPerBlock, bbuffer>>
  BY DEF mcman_ctor, history
<1>3. \A t \in Threads : at[t] = "idle"
  BY <1>1, <1>2 DEF SetupInv
<1>4. CardType' /\ MixedInv'
  BY <1>1, <1>2 DEF CardType, MixedInv
<1>5. ASSUME NEW t \in Threads PROVE RequestInv(t)'
  <2>1. RequestInv(t) /\ at[t] = "idle"
    BY <1>3 DEF CardInv
  <2>2. /\ local[t].op = "none" /\ local[t].port = -1 /\ local[t].count = 0 /\ erased[t] = {}
        /\ local[t].result = 0
    BY <2>1 DEF RequestInv, Shape
  <2>3. Shape(local[t], at[t], pagesPerBlock', ready')
    BY <2>1, <2>2 DEF Shape, InBlock
  <2> QED BY <1>2, <2>2, <2>3 DEF RequestInv
<1>6. SetupInv'
  <2>1. \A q \in Ports : q \in Int
    BY CardAssumption DEF Ports
  <2>2. detected \subseteq Ports /\ ready \subseteq detected
    BY <1>1 DEF SetupInv
  <2>3. \A q \in ready : q <= port
    <3>1. SUFFICES ASSUME NEW q \in ready, q > port PROVE FALSE
      BY <2>1, <2>2
    <3>2. port < q /\ q \in detected
      BY <2>1, <2>2, <3>1
    <3> QED BY <1>1, <1>2, <3>2 DEF SetupInv
  <2>4. \A p \in detected' : \A q \in Ports : q < p => q \in detected'
    BY <1>1, <1>2 DEF SetupInv
  <2>5. CASE UNCHANGED <<ready, pagesPerBlock, bbuffer>>
    BY <1>1, <1>2, <1>3, <2>2, <2>4, <2>5 DEF SetupInv
  <2>6. CASE /\ ready' = ready \cup {port} /\ pagesPerBlock' = Card[port].ppb
             /\ bbuffer' = [k \in 0 .. Card[port].ppb - 1 |-> Stale]
    <3>1. Stale \in Content
      BY DEF Stale, Content
    <3>2. bbuffer' \in [0 .. pagesPerBlock' - 1 -> Content]
      BY <2>6, <3>1
    <3>3. port \in ready' /\ \A q \in ready' : q <= port
      BY <2>1, <2>3, <2>6
    <3>4. detected' \subseteq Ports /\ ready' \subseteq detected'
      BY <1>2, <2>2, <2>6
    <3> QED BY <1>2, <1>3, <2>4, <2>6, <3>2, <3>3, <3>4 DEF SetupInv
  <2> QED BY <1>2, <2>5, <2>6
<1> QED BY <1>4, <1>5, <1>6 DEF CardInv

LEMMA CardInit == ASSUME McmanInit PROVE CardInv
<1>1. CardType
  <2>1. \A port \in Ports : \A p \in Pages(port) : Old(port, p) \in Content
    <3>1. ASSUME NEW port \in Ports, NEW p \in Pages(port) PROVE Old(port, p) \in Content
      <4>1. port \in Int /\ p \in Int
        BY PageNats, CardAssumption DEF Ports
      <4> QED BY <4>1 DEF Old, Content
    <3> QED BY <3>1
  <2>2. \A port \in Ports : card[port] \in [Pages(port) -> Content]
    BY <2>1 DEF McmanInit
  <2>3. local \in [Threads -> Request] /\ at \in [Threads -> Places]
    BY NoRequestIs DEF McmanInit, Places
  <2>4. /\ erased = [t \in Threads |-> erased[t]] /\ prior = [t \in Threads |-> prior[t]]
        /\ card = [port \in Ports |-> card[port]] /\ requests \in Nat
    BY DEF McmanInit
  <2> QED BY <2>2, <2>3, <2>4 DEF CardType
<1>2. SetupInv
  BY DEF McmanInit, SetupInv
<1>3. \A t \in Threads : local[t] = NoRequest /\ at[t] = "idle" /\ erased[t] = {}
  BY DEF McmanInit
<1>4. MixedInv
  BY <1>3, NoRequestIs DEF MixedInv
<1>5. ASSUME NEW t \in Threads PROVE RequestInv(t)
  <2>1. Shape(NoRequest, "idle", pagesPerBlock, ready)
    BY NoRequestIs DEF Shape, InBlock
  <2> QED BY <1>3, <2>1, NoRequestIs DEF RequestInv
<1> QED BY <1>1, <1>2, <1>4, <1>5 DEF CardInv

LEMMA CardStep ==
    ASSUME CardInv, [McmanNext]_mcmanVars
    PROVE  CardInv'
<1>1. ASSUME NEW port \in Ports, mcman_ctor(port) PROVE CardInv'
  BY <1>1, CtorInv
<1>2. ASSUME NEW t \in Writers, NEW port \in Ports, NEW r \in Ranges, StartWrite(t, port, r[1], r[2])
      PROVE  CardInv'
  <2>1. r[1] \in Nat /\ r[2] \in Nat /\ t \in Threads
    BY RequestsAssumption DEF Threads
  <2> QED BY <1>2, <2>1, StartWriteInv
<1>3. ASSUME NEW t \in Readers, NEW port \in Ports, NEW r \in Ranges, StartRead(t, port, r[1], r[2])
      PROVE  CardInv'
  <2>1. r[1] \in Nat /\ r[2] \in Nat /\ t \in Threads
    BY RequestsAssumption DEF Threads
  <2> QED BY <1>3, <2>1, StartReadInv
<1>4. ASSUME NEW t \in Threads, Step(t) PROVE CardInv'
  BY <1>4, BlockInv, LoadInv, InjectInv, EraseInv, ProgramInv, PreadInv, ReturnInv DEF Step
<1>5. ASSUME UNCHANGED mcmanVars PROVE CardInv'
  BY <1>5 DEF mcmanVars, CardInv, CardType, SetupInv, MixedInv, RequestInv
<1> QED BY <1>1, <1>2, <1>3, <1>4, <1>5 DEF McmanNext, Quiet


\* A read of any number of pages gives the pages asked for, and a write puts every page in
\* its place and leaves every other page of the card as it was, those of the blocks it
\* erases included, or has lost at most the block it was in, whatever calls fail, for
\* cards and requests of all sizes and any number of client threads, under the
\* conditions that TransferExact names (mcman_d.c 109-127, 139-148, 163-187).
THEOREM CardTransfersExact == McmanSpec => []TransferExact
<1>1. ASSUME CardInv, NEW t \in Threads, Ended(t, "read", 0)
      PROVE  local[t].data = [k \in 1 .. local[t].count |-> prior[t][local[t].offset + k - 1]]
  <2>1. RequestInv(t) /\ at[t] = "done" /\ local[t].op = "read" /\ local[t].result = 0 /\ t \notin mixed
    BY <1>1 DEF CardInv, Ended, At
  <2>2. local[t].j = local[t].count
    BY <2>1 DEF RequestInv, Shape
  <2> QED BY <2>1, <2>2 DEF RequestInv
<1>2. ASSUME CardInv, NEW t \in Threads, NEW r, Ended(t, "write", r), LastOfItsKind(t)
      PROVE  /\ PagesInv(local[t], "done", pagesPerBlock, card[local[t].port], prior[t])
             /\ at[t] = "done" /\ local[t].op = "write" /\ local[t].result = r
  <2>1. at[t] = "done" /\ local[t].op = "write" /\ local[t].result = r /\ t \notin mixed
    BY <1>2 DEF Ended, At
  <2>2. SetupInv /\ local[t].port \in ready /\ local[t].port \in Ports
    BY <1>2, <2>1, InWrite DEF CardInv
  <2>3. PICK p \in ready : (\A q \in ready : q <= p) /\ pagesPerBlock = Card[p].ppb
    BY <2>2 DEF SetupInv
  <2>4. p = local[t].port \/ p > local[t].port
    <3>1. p \in Ports
      BY <2>2, <2>3 DEF SetupInv
    <3>2. p \in Int /\ local[t].port \in Int
      BY <2>2, <3>1, CardAssumption DEF Ports
    <3> QED BY <2>2, <2>3, <3>2
  <2>5. Card[local[t].port].ppb = pagesPerBlock
    BY <1>2, <2>3, <2>4 DEF LastOfItsKind
  <2> QED BY <1>2, <2>1, <2>5, InWrite
<1>3. ASSUME CardInv, NEW t \in Threads, Ended(t, "write", 0), LastOfItsKind(t) PROVE Exact(t)
  <2> DEFINE L == local[t]
             n == pagesPerBlock
             base == L.i * n
  <2>1. PagesInv(L, "done", n, card[L.port], prior[t]) /\ at[t] = "done" /\ L.op = "write" /\ L.result = 0
    BY <1>2, <1>3
  <2>2. L \in Request /\ Counted(L, n) /\ n \in Nat \ {0} /\ Stands(L, "done", n) /\ L.port \in Ports
    BY <1>3, <2>1, InWrite
  <2>3. /\ L.i \in Nat /\ L.endBlock \in Nat /\ L.offset \in Nat /\ L.count \in Nat
        /\ L.i > L.endBlock
    BY <2>1, <2>2 DEF Request, Stands
  <2>4. base \in Nat /\ L.endBlock * n \in Nat /\ base >= L.endBlock * n + n
    BY <2>2, <2>3, BlockArith
  <2>5. L.count > 0 => L.offset + L.count <= L.endBlock * n + n
    BY <2>2 DEF Counted
  <2>6. L.count > 0 => L.offset + L.count <= base
    <3> HIDE DEF base, L
    <3> QED BY <2>2, <2>3, <2>4, <2>5
  <2>7. ASSUME NEW p \in Pages(L.port) PROVE card[L.port][p] = Want(L, prior[t], p)
    <3>1. p \in Nat
      BY <2>2, PageNats
    <3>2. CASE p < base
      BY <2>1, <3>2 DEF PagesInv
    <3>3. CASE p >= base
      <4>1. card[L.port][p] = prior[t][p]
        BY <2>1, <3>3 DEF PagesInv
      <4>2. p \notin L.offset .. L.offset + L.count - 1
        <5> HIDE DEF base, L
        <5> QED BY <2>3, <2>4, <2>6, <3>1, <3>3
      <4> QED BY <4>1, <4>2 DEF Want
    <3> QED BY <2>4, <3>1, <3>2, <3>3
  <2> QED BY <2>7 DEF Exact, Wanted, Want
<1>4. ASSUME CardInv, NEW t \in Threads, Ended(t, "write", -1), LastOfItsKind(t),
             NEW p \in Pages(local[t].port)
      PROVE  /\ p \div pagesPerBlock < local[t].i => card[local[t].port][p] = Wanted(t, p)
             /\ p \div pagesPerBlock > local[t].i => card[local[t].port][p] = prior[t][p]
  <2> DEFINE L == local[t]
             n == pagesPerBlock
  <2>1. PagesInv(L, "done", n, card[L.port], prior[t]) /\ L.op = "write"
    BY <1>2, <1>4
  <2>2. L \in Request /\ n \in Nat \ {0} /\ L.port \in Ports
    BY <1>4, <2>1, InWrite
  <2>3. L.i \in Nat /\ p \in Nat
    BY <1>4, <2>2, PageNats DEF Request
  <2>4. (p \div n < L.i <=> p < L.i * n) /\ (p \div n > L.i <=> p >= L.i * n + n)
    <3> HIDE DEF L, n
    <3> QED BY <2>2, <2>3, BlockOfPage
  <2>5. /\ p < L.i * n => card[L.port][p] = Want(L, prior[t], p)
        /\ p >= L.i * n + n => card[L.port][p] = prior[t][p]
    BY <1>4, <2>1 DEF PagesInv
  <2>6. Wanted(t, p) = Want(L, prior[t], p)
    BY DEF Wanted, Want
  <2> HIDE DEF L, n
  <2> QED BY <2>4, <2>5, <2>6 DEF L, n
<1>5. ASSUME CardInv, NEW t \in Threads, local[t].count > 0 PROVE erased[t] \subseteq Involved(t)
  BY <1>5 DEF CardInv, RequestInv, Blocks, Involved
<1>6. CardInv => TransferExact
  BY <1>1, <1>3, <1>4, <1>5 DEF TransferExact
<1>7. McmanInit => CardInv
  BY CardInit
<1>8. CardInv /\ [McmanNext]_mcmanVars => CardInv'
  BY CardStep
<1> QED BY <1>6, <1>7, <1>8, PTL DEF McmanSpec
=============================================================================
