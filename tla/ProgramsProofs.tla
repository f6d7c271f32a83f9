--------------------------- MODULE ProgramsProofs ---------------------------
(***************************************************************************)
(* Proofs about the plugin table and the pool of contexts, as the programs *)
(* of the repository and an application that makes any calls fill them,    *)
(* for every size of both tables, every set of plugins, every way their    *)
(* constructors fail, and any files named on a command line; about the     *)
(* parser of URIs, for strings of any length; about why a program crashes; *)
(* and about the answers of the shell, for any lines typed into it.        *)
(***************************************************************************)
EXTENDS Programs, SequenceTheorems, FiniteSetTheorems, WellFoundedInduction, TLAPS

-----------------------------------------------------------------------------
(* The invariant.                                                             *)

Status == {"FREE", "CREATED"}

\* The tables.  A slot of plugins is in use when it has a plugin, which can read; a
\* context in use has its plugin, unless its constructor has failed.
TablesType ==
    /\ plugins \in [Slot -> Drivers \cup {NoDriver}] /\ plugins_status \in [Slot -> Status]
    /\ DOMAIN contexts = Index /\ contexts_status \in [Index -> Status]
    /\ failed \subseteq Index /\ devices \in [Drivers -> Nat]
PluginsInv ==
    /\ Packed(plugins_status, MaxPlugins)
    /\ \A s \in Slot :
          IF plugins_status[s] = "FREE" THEN plugins[s] = NoDriver
          ELSE plugins[s] \in Drivers /\ Struct[plugins[s]].pread
ContextsInv ==
    /\ NoHole
    /\ \A i \in failed : contexts_status[i] = "CREATED" /\ contexts[i].p = NoDriver
    /\ \A i \in Index : contexts_status[i] = "CREATED" /\ i \notin failed =>
          \E s \in Slot : plugins_status[s] = "CREATED" /\ contexts[i].p = plugins[s]
TablesInv == TablesType /\ PluginsInv /\ ContextsInv

\* An export stays where it was made.
MadeInv ==
    \A m \in made :
        /\ m.at \in Index /\ contexts_status[m.at] = "CREATED"
        /\ contexts[m.at] = [name |-> m.name, p |-> m.d]

\* The variable of a plugin keeps a handle of that plugin, an error, or what it held
\* before it was set; and a program sets it before it makes an export with it.
Bound(d, handle, table) == handle[d] = ERR \/ (handle[d] \in Slot /\ table[handle[d]] = d)
HandlesInv ==
    /\ DOMAIN h = Drivers
    /\ \A d \in Drivers : h[d] # 0 => Bound(d, h, plugins)

\* The names of exports, and what is looked up.
Fixed == {"", "motd", "test", "hdd0", "hdd1", "mc0", "mc1", "ram", "bios", "speakers"}
ExportNames == Fixed \cup {basename(path) : path \in Paths}
Variables == {"file", "sink", "none"}
Lookups == Uris \cup Paths \cup {<<"api", "?", "wc">>, <<"test", "?", "memcpy", "=", "Example">>}

CallType ==
    [op : {"init", "init if NULL"}, d : Drivers]
    \cup [op : {"new"}, d : Drivers, name : ExportNames]
    \cup [op : {"get"}, uri : Lookups, var : Variables]
Sets(call, d) == call.op \in {"init", "init if NULL"} /\ call.d = d
IsOrdered(calls) ==
    \A k \in 1 .. Len(calls) : calls[k].op = "new" =>
        \E j \in 1 .. k - 1 : Sets(calls[j], calls[k].d)
TodoInv ==
    /\ todo \in Seq(CallType)
    /\ \A k \in 1 .. Len(todo) : todo[k].op = "new" =>
          Bound(todo[k].d, h, plugins) \/ \E j \in 1 .. k - 1 : Sets(todo[j], todo[k].d)

Inv == TablesInv /\ MadeInv /\ HandlesInv /\ TodoInv


-----------------------------------------------------------------------------
(* The scans for a free slot, and the lookup.                                 *)

\* The least-number principle, for the loops that stop at the first slot they want.
LEMMA LeastNat ==
    ASSUME NEW S \in SUBSET Nat, S # {}
    PROVE  \E m \in S : \A n \in S : m <= n
<1> DEFINE R == OpToRel(<, Nat)
<1>1. \A x, y \in Nat : x < y => <<x, y>> \in R
  BY DEF OpToRel
<1>2. IsWellFoundedOn(R, Nat)
  BY NatLessThanWellFounded
<1> HIDE DEF R
<1>3. PICK m \in S : \A n \in S : ~(<<n, m>> \in R)
  BY <1>2, WFMin
<1>4. \A n \in S : ~(n < m)
  BY <1>1, <1>3, Zenon
<1> QED BY <1>4

LEMMA FirstFreeProps ==
    ASSUME NEW n \in Nat, NEW status
    PROVE  LET i == FirstFree(status, n)
           IN  /\ i \in 0 .. n
               /\ i < n => status[i] = "FREE"
               /\ \A j \in 0 .. n - 1 : j < i => status[j] # "FREE"
<1> DEFINE T == {i \in 0 .. n : i < n => status[i] = "FREE"}
<1>1. n \in T /\ T \in SUBSET Nat
  OBVIOUS
<1>2. PICK m \in T : \A i \in T : m <= i
  BY <1>1, LeastNat
<1>3. ASSUME NEW j \in 0 .. n - 1, j < m PROVE status[j] # "FREE"
  <2> SUFFICES ASSUME status[j] = "FREE" PROVE FALSE
    OBVIOUS
  <2>1. j \in T
    OBVIOUS
  <2> QED BY <1>2, <1>3, <2>1
<1>4. m \in 0 .. n /\ (m < n => status[m] = "FREE")
  BY <1>2
<1> QED BY <1>3, <1>4 DEF FirstFree

\* To take the first free slot leaves no hole.
LEMMA StaysPacked ==
    ASSUME NEW n \in Nat, NEW status \in [0 .. n - 1 -> Status], Packed(status, n),
           FirstFree(status, n) # n
    PROVE  /\ FirstFree(status, n) \in 0 .. n - 1
           /\ status[FirstFree(status, n)] = "FREE"
           /\ Packed([status EXCEPT ![FirstFree(status, n)] = "CREATED"], n)
<1> DEFINE f == FirstFree(status, n)
<1>1. f \in 0 .. n /\ (f < n => status[f] = "FREE")
      /\ \A j \in 0 .. n - 1 : j < f => status[j] # "FREE"
  BY FirstFreeProps
<1> HIDE DEF f
<1>2. f \in 0 .. n - 1 /\ status[f] = "FREE"
  BY <1>1 DEF f
<1>3. Packed([status EXCEPT ![f] = "CREATED"], n)
  BY <1>1, <1>2 DEF Packed, Status
<1> QED BY <1>2, <1>3 DEF f

\* The lookup gives a context no later than any of that name that is in use.
LEMMA LookupBefore ==
    ASSUME TablesInv, NEW name, NEW i \in Index, contexts_status[i] = "CREATED",
           contexts[i].name = name
    PROVE  lwnbd_get_context_string(name) \in 0 .. i
<1> DEFINE n == lwnbd_contexts_count
           M == Matches(name)
<1>1. n \in 0 .. MaxContexts /\ (n < MaxContexts => contexts_status[n] = "FREE")
  BY MaxContextsAssumption, FirstFreeProps DEF lwnbd_contexts_count
<1>2. i < n
  <2> SUFFICES ASSUME ~(i < n) PROVE FALSE
    OBVIOUS
  <2> HIDE DEF n
  <2>1. n \in Index /\ n <= i /\ i \in Nat
    BY <1>1, MaxContextsAssumption DEF Index
  <2>2. contexts_status[n] = "FREE"
    BY <1>1, <2>1, MaxContextsAssumption DEF Index
  <2>3. n # i
    BY <2>2
  <2>4. n < i
    BY <2>1, <2>3 DEF Index
  <2> QED BY <2>1, <2>2, <2>4 DEF TablesInv, ContextsInv, NoHole, Packed, Index
<1>3. i \in M /\ M \in SUBSET Nat
  BY <1>2, MaxContextsAssumption DEF Matches, Index
<1>4. \E m \in M : \A k \in M : m <= k
  BY <1>3, LeastNat
<1>5. lwnbd_get_context_string(name) = CHOOSE m \in M : \A k \in M : m <= k
  BY <1>3 DEF lwnbd_get_context_string
<1> HIDE DEF M
<1>6. lwnbd_get_context_string(name) \in M /\ lwnbd_get_context_string(name) <= i
  BY <1>3, <1>4, <1>5
<1>7. lwnbd_get_context_string(name) \in Nat
  BY <1>3, <1>6, Zenon
<1> QED BY <1>6, <1>7, MaxContextsAssumption DEF Index

-----------------------------------------------------------------------------
(* What the calls do to the tables.                                           *)

\* What is in use stays as it is.
DevicesGrow == \A d \in Drivers : devices[d] <= devices'[d]
Growth ==
    /\ \A s \in Slot : plugins_status[s] = "CREATED" =>
          plugins_status'[s] = "CREATED" /\ plugins'[s] = plugins[s]
    /\ \A i \in Index : contexts_status[i] = "CREATED" =>
          contexts_status'[i] = "CREATED" /\ contexts'[i] = contexts[i]
    /\ DevicesGrow

LEMMA SameDevices == ASSUME TablesInv, UNCHANGED devices PROVE DevicesGrow
<1>1. \A d \in Drivers : devices[d] \in Nat
  BY DEF TablesInv, TablesType
<1> QED BY <1>1 DEF DevicesGrow

LEMMA TablesGrow ==
    ASSUME TablesInv, Growth, TablesType', PluginsInv', NoHole', failed \subseteq failed',
           \A i \in failed' \ failed : contexts_status'[i] = "CREATED" /\ contexts'[i].p = NoDriver,
           \A i \in Index \ failed' :
              contexts_status[i] # "CREATED" /\ contexts_status'[i] = "CREATED" =>
              \E s \in Slot : plugins_status'[s] = "CREATED" /\ contexts'[i].p = plugins'[s]
    PROVE  TablesInv'
<1>1. ASSUME NEW i \in failed' PROVE contexts_status'[i] = "CREATED" /\ contexts'[i].p = NoDriver
  <2>1. CASE i \in failed
    <3>1. i \in Index /\ contexts_status[i] = "CREATED" /\ contexts[i].p = NoDriver
      BY <2>1 DEF TablesInv, TablesType, ContextsInv
    <3> QED BY <3>1 DEF Growth
  <2> QED BY <2>1
<1>2. ASSUME NEW i \in Index, contexts_status'[i] = "CREATED", i \notin failed'
      PROVE  \E s \in Slot : plugins_status'[s] = "CREATED" /\ contexts'[i].p = plugins'[s]
  <2>1. CASE contexts_status[i] = "CREATED"
    <3>1. PICK s \in Slot : plugins_status[s] = "CREATED" /\ contexts[i].p = plugins[s]
      BY <1>2, <2>1 DEF TablesInv, ContextsInv
    <3> QED BY <2>1, <3>1 DEF Growth
  <2> QED BY <1>2, <2>1
<1> QED BY <1>1, <1>2 DEF TablesInv, ContextsInv

LEMMA SameTables == ASSUME TablesInv, UNCHANGED tables PROVE TablesInv' /\ Growth
  BY SameDevices DEF tables, TablesInv, TablesType, PluginsInv, ContextsInv, NoHole, Growth

\* A context is taken.
LEMMA TakeProps ==
    ASSUME TablesInv, ~PoolFull, NEW c, Take(lwnbd_contexts_count, c)
    PROVE  LET n == lwnbd_contexts_count
           IN  /\ n \in Index /\ contexts_status[n] = "FREE" /\ contexts_status'[n] = "CREATED"
               /\ contexts'[n] = c /\ DOMAIN contexts' = Index
               /\ contexts_status' \in [Index -> Status] /\ NoHole'
               /\ \A i \in Index : i # n => /\ contexts_status'[i] = contexts_status[i]
                                            /\ contexts'[i] = contexts[i]
<1> DEFINE n == lwnbd_contexts_count
<1>1. contexts_status \in [0 .. MaxContexts - 1 -> Status] /\ DOMAIN contexts = Index
  BY DEF TablesInv, TablesType, Index
<1>2. /\ n \in Index /\ contexts_status[n] = "FREE"
      /\ Packed([contexts_status EXCEPT ![n] = "CREATED"], MaxContexts)
  BY <1>1, MaxContextsAssumption, StaysPacked
     DEF TablesInv, ContextsInv, NoHole, PoolFull, lwnbd_contexts_count, Index
<1> HIDE DEF n
<1>3. /\ contexts_status' = [contexts_status EXCEPT ![n] = "CREATED"]
      /\ contexts' = [contexts EXCEPT ![n] = c]
  BY DEF Take, n
<1>4. NoHole'
  BY <1>2, <1>3 DEF NoHole
<1>5. contexts_status' \in [Index -> Status]
  BY <1>1, <1>3 DEF Status, Index
<1> QED BY <1>1, <1>2, <1>3, <1>4, <1>5 DEF n, Index

\* A plugin is registered.
LEMMA RegisterProps ==
    ASSUME TablesInv, NEW d \in Drivers, ~Refused(d), Register(d)
    PROVE  /\ FreeSlot \in Slot /\ plugins_status[FreeSlot] = "FREE"
           /\ plugins_status'[FreeSlot] = "CREATED" /\ plugins'[FreeSlot] = d
           /\ plugins' \in [Slot -> Drivers \cup {NoDriver}]
           /\ plugins_status' \in [Slot -> Status] /\ PluginsInv'
           /\ \A s \in Slot : plugins_status[s] = "CREATED" =>
                 plugins_status'[s] = "CREATED" /\ plugins'[s] = plugins[s]
<1> DEFINE n == FreeSlot
<1>1. /\ plugins_status \in [Slot -> Status] /\ plugins \in [Slot -> Drivers \cup {NoDriver}]
      /\ plugins_status \in [0 .. MaxPlugins - 1 -> Status]
  BY DEF TablesInv, TablesType, Slot
<1>2. /\ n \in Slot /\ plugins_status[n] = "FREE"
      /\ Packed([plugins_status EXCEPT ![n] = "CREATED"], MaxPlugins)
  BY <1>1, MaxPluginsAssumption, StaysPacked
     DEF TablesInv, PluginsInv, Refused, FreeSlot, Slot
<1> HIDE DEF n
<1>3. /\ plugins_status' = [plugins_status EXCEPT ![n] = "CREATED"]
      /\ plugins' = [plugins EXCEPT ![n] = d] /\ Struct[d].pread
  BY DEF Register, Refused, n
<1>4. \A s \in Slot : IF s = n THEN plugins_status'[s] = "CREATED" /\ plugins'[s] = d
                      ELSE plugins_status'[s] = plugins_status[s] /\ plugins'[s] = plugins[s]
  BY <1>1, <1>3
<1>5. plugins_status' \in [Slot -> Status] /\ plugins' \in [Slot -> Drivers \cup {NoDriver}]
  BY <1>1, <1>3 DEF Status
<1>6. PluginsInv'
  <2>1. Packed(plugins_status', MaxPlugins)
    BY <1>2, <1>3
  <2>2. ASSUME NEW s \in Slot
        PROVE  IF plugins_status'[s] = "FREE" THEN plugins'[s] = NoDriver
               ELSE plugins'[s] \in Drivers /\ Struct[plugins'[s]].pread
    BY <1>3, <1>4 DEF TablesInv, PluginsInv
  <2> QED BY <2>1, <2>2 DEF PluginsInv
<1> QED BY <1>2, <1>4, <1>5, <1>6 DEF n


LEMMA InitCall ==
    ASSUME TablesInv, NEW d \in Drivers, lwnbd_plugin_init(d)
    PROVE  TablesInv' /\ Growth /\ (ret' = ERR \/ (ret' \in Slot /\ plugins'[ret'] = d))
<1>1. CASE InitRefused(d)
  BY <1>1, SameTables DEF InitRefused
<1>2. ASSUME ~Refused(d), Register(d), UNCHANGED <<contexts, contexts_status, failed, devices>>
      PROVE  TablesInv' /\ Growth
  <2>1. Growth
    BY <1>2, RegisterProps, SameDevices DEF Growth
  <2>2. TablesType' /\ PluginsInv' /\ NoHole'
    BY <1>2, RegisterProps DEF TablesInv, TablesType, ContextsInv, NoHole
  <2> QED BY <1>2, <2>1, <2>2, TablesGrow
<1>3. CASE InitCrashes(d)
  BY <1>2, <1>3 DEF InitCrashes, Crash
<1>4. CASE InitRegisters(d)
  <2>1. ~Refused(d) /\ Register(d) /\ ret' = FreeSlot /\ UNCHANGED <<failed, devices>>
    BY <1>4 DEF InitRegisters
  <2>2. ret' \in Slot /\ plugins'[ret'] = d
    BY <2>1, RegisterProps
  <2>3. CASE UNCHANGED <<contexts, contexts_status>>
    BY <1>2, <2>1, <2>2, <2>3
  <2>4. CASE ~PoolFull /\ Take(lwnbd_contexts_count, [name |-> "api", p |-> d])
    <3> DEFINE n == lwnbd_contexts_count
    <3>1. /\ n \in Index /\ contexts_status[n] = "FREE" /\ contexts'[n] = [name |-> "api", p |-> d]
          /\ DOMAIN contexts' = Index /\ contexts_status' \in [Index -> Status] /\ NoHole'
          /\ \A i \in Index : i # n => /\ contexts_status'[i] = contexts_status[i]
                                       /\ contexts'[i] = contexts[i]
      BY <2>4, TakeProps
    <3> HIDE DEF n
    <3>2. Growth
      BY <2>1, <3>1, RegisterProps, SameDevices DEF Growth
    <3>3. TablesType' /\ PluginsInv'
      BY <2>1, <3>1, RegisterProps DEF TablesInv, TablesType
    <3>4. ASSUME NEW i \in Index, contexts_status[i] # "CREATED", contexts_status'[i] = "CREATED"
          PROVE  \E s \in Slot : plugins_status'[s] = "CREATED" /\ contexts'[i].p = plugins'[s]
      <4>1. i = n
        BY <3>1, <3>4
      <4>2. contexts'[i].p = d
        BY <3>1, <4>1
      <4> QED BY <2>1, <4>2, RegisterProps
    <3> QED BY <2>1, <2>2, <3>1, <3>2, <3>3, <3>4, TablesGrow
  <2> QED BY <1>4, <2>3, <2>4 DEF InitRegisters
<1> QED BY <1>1, <1>3, <1>4 DEF lwnbd_plugin_init

LEMMA DeviceTaken ==
    ASSUME NEW d, devices \in [Drivers -> Nat], TakeDevice(d)
    PROVE  /\ devices' \in [Drivers -> Nat]
           /\ \A e \in Drivers : devices'[e] = IF e = d THEN devices[e] + 1 ELSE devices[e]
           /\ DevicesGrow
<1>1. devices' = [e \in Drivers |-> IF e = d THEN devices[e] + 1 ELSE devices[e]]
  BY DEF TakeDevice
<1>2. \A e \in Drivers : devices[e] \in Nat
  OBVIOUS
<1>3. \A e \in Drivers : devices'[e] = IF e = d THEN devices[e] + 1 ELSE devices[e]
  BY <1>1
<1>4. \A e \in Drivers : devices'[e] \in Nat
  BY <1>2, <1>3
<1>5. devices' = [e \in Drivers |-> devices'[e]]
  BY <1>1
<1>6. DevicesGrow
  BY <1>2, <1>3 DEF DevicesGrow
<1> QED BY <1>3, <1>4, <1>5, <1>6

LEMMA NewCall ==
    ASSUME TablesInv, NEW g, NEW name, lwnbd_plugin_new(g, name)
    PROVE  /\ TablesInv' /\ Growth /\ UNCHANGED <<plugins, plugins_status>>
           /\ ret' = 0 /\ alive' /\ contexts' # contexts =>
                 /\ Valid(g) /\ lwnbd_contexts_count \in Index
                 /\ contexts_status'[lwnbd_contexts_count] = "CREATED"
                 /\ contexts'[lwnbd_contexts_count] = [name |-> name, p |-> plugins[g]]
<1> DEFINE n == lwnbd_contexts_count
<1>1. CASE UNCHANGED tables
  <2>1. UNCHANGED <<contexts, plugins, plugins_status>>
    BY <1>1 DEF tables
  <2> QED BY <1>1, <2>1, SameTables
<1>2. ASSUME Valid(g), ~PoolFull, UNCHANGED <<plugins, plugins_status>>, NEW c,
             Take(lwnbd_contexts_count, c), TakeDevice(plugins[g]),
             \/ c.p = plugins[g] /\ failed' = failed
             \/ c.p = NoDriver /\ failed' = failed \cup {n}
      PROVE  /\ TablesInv' /\ Growth /\ n \in Index
             /\ contexts_status'[n] = "CREATED" /\ contexts'[n] = c
  <2>1. /\ n \in Index /\ contexts_status[n] = "FREE" /\ contexts_status'[n] = "CREATED"
        /\ contexts'[n] = c
        /\ DOMAIN contexts' = Index /\ contexts_status' \in [Index -> Status] /\ NoHole'
        /\ \A i \in Index : i # n => /\ contexts_status'[i] = contexts_status[i]
                                     /\ contexts'[i] = contexts[i]
    BY <1>2, TakeProps
  <2> HIDE DEF n
  <2>9. DevicesGrow
    BY <1>2, DeviceTaken DEF TablesInv, TablesType
  <2>2. Growth
    BY <1>2, <2>1, <2>9 DEF Growth
  <2>8. devices' \in [Drivers -> Nat]
    BY <1>2, DeviceTaken DEF TablesInv, TablesType
  <2>3. TablesType' /\ PluginsInv'
    BY <1>2, <2>1, <2>8 DEF TablesInv, TablesType, PluginsInv
  <2>4. ASSUME NEW i \in Index \ failed', contexts_status[i] # "CREATED",
               contexts_status'[i] = "CREATED"
        PROVE  \E s \in Slot : plugins_status'[s] = "CREATED" /\ contexts'[i].p = plugins'[s]
    <3>1. i = n
      BY <2>1, <2>4
    <3>2. contexts'[i].p = plugins[g]
      BY <1>2, <2>1, <2>4, <3>1
    <3>3. g \in Slot /\ plugins_status[g] = "CREATED"
      BY <1>2 DEF Valid, TablesInv, TablesType, PluginsInv, Status
    <3> QED BY <1>2, <3>2, <3>3
  <2>5. \A i \in failed' \ failed : contexts_status'[i] = "CREATED" /\ contexts'[i].p = NoDriver
    BY <1>2, <2>1
  <2>6. failed \subseteq failed'
    BY <1>2
  <2>7. TablesInv'
    BY <2>1, <2>2, <2>3, <2>4, <2>5, <2>6, TablesGrow
  <2> QED BY <2>1, <2>2, <2>7
<1>3. CASE Valid(g) /\ NewContext(plugins[g], name)
  <2>1. CASE ~PoolFull /\ Take(n, [name |-> name, p |-> plugins[g]]) /\ TakeDevice(plugins[g])
             /\ UNCHANGED <<plugins, plugins_status, failed>>
    BY <1>2, <1>3, <2>1
  <2>3. CASE /\ TakeDevice(plugins[g]) /\ ret' = ERR
             /\ UNCHANGED <<contexts, contexts_status, plugins, plugins_status, failed>>
    <3>1. devices' \in [Drivers -> Nat] /\ DevicesGrow
      BY <2>3, DeviceTaken DEF TablesInv, TablesType
    <3> QED BY <2>3, <3>1 DEF TablesInv, TablesType, PluginsInv, ContextsInv, NoHole, Growth
  <2>2. CASE /\ ~PoolFull /\ TakeDevice(plugins[g])
             /\ \E how \in Struct[plugins[g]].fails :
                   Take(n, [name |-> NameAtFailure(how, name), p |-> NoDriver])
             /\ ret' = ERR /\ failed' = failed \cup {n}
             /\ UNCHANGED <<plugins, plugins_status>>
    <3>1. PICK how : Take(n, [name |-> NameAtFailure(how, name), p |-> NoDriver])
      BY <2>2
    <3>2. ret' # 0
      BY <2>2 DEF ERR
    <3> QED BY <1>2, <1>3, <2>2, <3>1, <3>2
  <2> QED BY <1>1, <1>3, <2>1, <2>2, <2>3 DEF NewContext, Crash
<1> QED BY <1>1, <1>3 DEF lwnbd_plugin_new

\* Every other call leaves the tables as they are.
LEMMA GetTables ==
    ASSUME TablesInv, NEW name, NEW asked, lwnbd_get_context(name, asked)
    PROVE  TablesInv' /\ Growth
  BY SameTables DEF lwnbd_get_context

LEMMA AnyCallTables == ASSUME TablesInv, AnyCall PROVE TablesInv' /\ Growth
<1>1. ASSUME NEW g, NEW withKey, lwnbd_plugin_config(g, withKey) PROVE TablesInv' /\ Growth
  BY <1>1, SameTables DEF lwnbd_plugin_config
<1> QED BY <1>1, InitCall, NewCall DEF AnyCall


-----------------------------------------------------------------------------
(* The lists of calls: a variable is set before it is used.                   *)

WellOrdered(calls) == calls \in Seq(CallType) /\ IsOrdered(calls)

LEMMA ConcatOrdered ==
    ASSUME NEW s, NEW t, WellOrdered(s), WellOrdered(t) PROVE WellOrdered(s \o t)
<1> DEFINE m == Len(s)
           n == Len(t)
           u == s \o t
<1>1. s \in Seq(CallType) /\ t \in Seq(CallType) /\ m \in Nat /\ n \in Nat
  BY DEF WellOrdered
<1>2. u \in Seq(CallType) /\ Len(u) = m + n
      /\ \A k \in 1 .. m + n : u[k] = IF k <= m THEN s[k] ELSE t[k - m]
  BY <1>1, ConcatProperties
<1> HIDE DEF u
<1>3. ASSUME NEW k \in 1 .. m + n, u[k].op = "new"
      PROVE  \E j \in 1 .. k - 1 : Sets(u[j], u[k].d)
  <2>1. CASE k <= m
    <3>1. k \in 1 .. m /\ u[k] = s[k]
      BY <1>1, <1>2, <2>1
    <3>2. PICK j \in 1 .. k - 1 : Sets(s[j], s[k].d)
      BY <1>3, <3>1 DEF WellOrdered, IsOrdered
    <3>3. j \in 1 .. m + n /\ j <= m
      BY <1>1, <2>1, <3>1
    <3>4. u[j] = s[j]
      BY <1>2, <3>3
    <3> QED BY <3>1, <3>2, <3>4
  <2>2. CASE ~(k <= m)
    <3> DEFINE i == k - m
    <3>1. i \in 1 .. n /\ u[k] = t[i]
      BY <1>1, <1>2, <2>2
    <3>2. PICK j \in 1 .. i - 1 : Sets(t[j], t[i].d)
      BY <1>3, <3>1 DEF WellOrdered, IsOrdered
    <3>3. j + m \in 1 .. m + n /\ ~(j + m <= m) /\ (j + m) - m = j /\ j + m \in 1 .. k - 1
      BY <1>1, <3>1, <3>2
    <3>4. u[j + m] = t[(j + m) - m]
      BY <1>2, <3>3
    <3> QED BY <3>1, <3>2, <3>3, <3>4
  <2> QED BY <2>1, <2>2
<1> QED BY <1>2, <1>3 DEF WellOrdered, IsOrdered, u

LEMMA PairOrdered ==
    ASSUME NEW d \in Drivers, NEW m \in ExportNames PROVE WellOrdered(<<Load(d), New(d, m)>>)
<1> DEFINE s == <<Load(d), New(d, m)>>
<1>1. Load(d) \in CallType /\ Load(d).op = "init" /\ Load(d).d = d
      /\ New(d, m) \in CallType /\ New(d, m).op = "new" /\ New(d, m).d = d
  BY DEF Load, New, CallType
<1>2. s \in Seq(CallType) /\ Len(s) = 2 /\ s[1] = Load(d) /\ s[2] = New(d, m)
  BY <1>1
<1> HIDE DEF s
<1>3. 1 \in 1 .. 2 - 1 /\ Sets(s[1], s[2].d)
  <2>1. s[2].d = d /\ s[1].op = "init" /\ s[1].d = d
    BY <1>1, <1>2
  <2> QED BY <2>1 DEF Sets
<1>4. \A k \in 1 .. 2 : s[k].op = "new" => k = 2
  BY <1>1, <1>2
<1>5. WellOrdered(s)
  BY <1>2, <1>3, <1>4 DEF WellOrdered, IsOrdered
<1> QED BY <1>5 DEF s

LEMMA TripleOrdered ==
    ASSUME NEW d \in Drivers, NEW m \in ExportNames, NEW c \in CallType,
           c.op = "new" => c.d = d
    PROVE  WellOrdered(<<Load(d), New(d, m), c>>)
<1> DEFINE s == <<Load(d), New(d, m), c>>
<1>1. Load(d) \in CallType /\ Load(d).op = "init" /\ Load(d).d = d
      /\ New(d, m) \in CallType /\ New(d, m).op = "new" /\ New(d, m).d = d
  BY DEF Load, New, CallType
<1>2. s \in Seq(CallType) /\ Len(s) = 3 /\ s[1] = Load(d) /\ s[2] = New(d, m) /\ s[3] = c
  BY <1>1
<1> HIDE DEF s
<1>3. 1 \in 1 .. 2 - 1 /\ 1 \in 1 .. 3 - 1
  OBVIOUS
<1>4. \A k \in 1 .. 3 : s[k].op = "new" => (k = 2 \/ k = 3) /\ s[k].d = d
  BY <1>1, <1>2
<1>5. Sets(s[1], d)
  BY <1>1, <1>2 DEF Sets
<1>6. WellOrdered(s)
  BY <1>2, <1>3, <1>4, <1>5 DEF WellOrdered, IsOrdered
<1> QED BY <1>6 DEF s

LEMMA EmptyOrdered == WellOrdered(<<>>)
<1>1. <<>> \in Seq(CallType) /\ Len(<<>>) = 0
  OBVIOUS
<1> QED BY <1>1 DEF WellOrdered, IsOrdered

LEMMA ServerOrdered ==
    ASSUME NEW n \in Nat, NEW files \in [1 .. n -> Paths]
    PROVE  WellOrdered(ServerOptions(files))
<1> DEFINE s == ServerOptions(files)
<1>0. "file" \in Drivers
  BY LinkedAssumption
<1>1. Len(files) = n
  OBVIOUS
<1>2. s = [k \in 1 .. 2 * n |->
              IF k % 2 = 1 THEN LoadIfNull("file") ELSE New("file", basename(files[k \div 2]))]
  BY <1>1 DEF ServerOptions
<1>3. ASSUME NEW k \in 1 .. 2 * n, k % 2 # 1
      PROVE  k - 1 \in 1 .. k - 1 /\ (k - 1) % 2 = 1 /\ (k \div 2) \in 1 .. n
  BY <1>3
<1>4. LoadIfNull("file") \in CallType /\ LoadIfNull("file").op = "init if NULL"
      /\ LoadIfNull("file").d = "file"
  BY <1>0 DEF LoadIfNull, CallType
<1>5. ASSUME NEW k \in 1 .. 2 * n, k % 2 # 1
      PROVE  s[k] \in CallType /\ s[k].op = "new" /\ s[k].d = "file"
  <2>1. files[k \div 2] \in Paths
    BY <1>3, <1>5
  <2>2. s[k] = New("file", basename(files[k \div 2]))
    BY <1>2, <1>5
  <2>3. basename(files[k \div 2]) \in {basename(path) : path \in Paths}
    BY <2>1
  <2> DEFINE b == basename(files[k \div 2])
  <2>4. b \in ExportNames
    BY <2>3 DEF ExportNames
  <2> HIDE DEF b
  <2>5. New("file", b) \in CallType /\ New("file", b).op = "new" /\ New("file", b).d = "file"
    BY <1>0, <2>4 DEF New, CallType
  <2> QED BY <2>2, <2>5 DEF b
<1>6. ASSUME NEW k \in 1 .. 2 * n, k % 2 = 1 PROVE s[k] = LoadIfNull("file")
  BY <1>2, <1>6
<1>7. 2 * n \in Nat
  OBVIOUS
<1>8. \A k \in 1 .. 2 * n : s[k] \in CallType
  BY <1>4, <1>5, <1>6
<1>9. s \in Seq(CallType) /\ Len(s) = 2 * n
  BY <1>2, <1>7, <1>8
<1> HIDE DEF s
<1>10. ASSUME NEW k \in 1 .. 2 * n, s[k].op = "new" PROVE \E j \in 1 .. k - 1 : Sets(s[j], s[k].d)
  <2>1. k % 2 # 1
    BY <1>4, <1>6, <1>10
  <2>2. k - 1 \in 1 .. k - 1 /\ (k - 1) % 2 = 1
    BY <1>3, <2>1
  <2>3. k - 1 \in 1 .. 2 * n
    BY <1>7, <2>2
  <2>4. s[k - 1] = LoadIfNull("file")
    BY <1>6, <2>2, <2>3
  <2>5. Sets(s[k - 1], s[k].d)
    BY <1>4, <1>5, <2>1, <2>4 DEF Sets
  <2> QED BY <2>2, <2>5
<1> QED BY <1>9, <1>10 DEF WellOrdered, IsOrdered, s


LEMMA GetOrdered == ASSUME NEW u \in Lookups, NEW v \in Variables PROVE WellOrdered(<<Get(u, v)>>)
<1> DEFINE s == <<Get(u, v)>>
<1>1. Get(u, v) \in CallType /\ Get(u, v).op = "get"
  BY DEF Get, CallType
<1>2. s \in Seq(CallType) /\ Len(s) = 1 /\ s[1] = Get(u, v)
  BY <1>1
<1> HIDE DEF s
<1>3. \A k \in 1 .. 1 : s[k].op # "new"
  BY <1>1, <1>2
<1>4. WellOrdered(s)
  BY <1>2, <1>3 DEF WellOrdered, IsOrdered
<1> QED BY <1>4 DEF s

LEMMA FourCalls ==
    ASSUME NEW a \in CallType, NEW b \in CallType, NEW c \in CallType, NEW d \in CallType
    PROVE  LET s == <<a, b, c, d>>
           IN s \in Seq(CallType) /\ Len(s) = 4 /\ s[1] = a /\ s[2] = b /\ s[3] = c /\ s[4] = d
  OBVIOUS

LEMMA FiveCalls ==
    ASSUME NEW a \in CallType, NEW b \in CallType, NEW c \in CallType, NEW d \in CallType,
           NEW e \in CallType
    PROVE  LET s == <<a, b, c, d, e>>
           IN /\ s \in Seq(CallType) /\ Len(s) = 5 /\ s[1] = a /\ s[2] = b /\ s[3] = c
              /\ s[4] = d /\ s[5] = e
  OBVIOUS

LEMMA ContentOrdered == WellOrdered(ServerContent)
<1> DEFINE s == ServerContent
<1>1. "memory" \in Drivers /\ "command" \in Drivers /\ "motd" \in ExportNames /\ "" \in ExportNames
  BY LinkedAssumption DEF ExportNames, Fixed
<1>2. /\ Load("memory") \in CallType /\ Load("memory").op = "init" /\ Load("memory").d = "memory"
      /\ New("memory", "motd") \in CallType /\ New("memory", "motd").d = "memory"
      /\ Load("command") \in CallType /\ Load("command").op = "init" /\ Load("command").d = "command"
      /\ New("command", "") \in CallType /\ New("command", "").d = "command"
  BY <1>1 DEF Load, New, CallType
<1>3. /\ s \in Seq(CallType) /\ Len(s) = 4 /\ s[1] = Load("memory") /\ s[2] = New("memory", "motd")
      /\ s[3] = Load("command") /\ s[4] = New("command", "")
  BY <1>2, FourCalls DEF ServerContent
<1> HIDE DEF s
<1>4. Sets(s[1], "memory") /\ Sets(s[3], "command")
  BY <1>2, <1>3 DEF Sets
<1>5. s[1].op # "new" /\ s[3].op # "new" /\ s[2].d = "memory" /\ s[4].d = "command"
  BY <1>2, <1>3
<1>6. \A k \in 1 .. 4 : k = 1 \/ k = 2 \/ k = 3 \/ k = 4
  OBVIOUS
<1>7. 1 \in 1 .. 2 - 1 /\ 3 \in 1 .. 4 - 1
  OBVIOUS
<1>8. WellOrdered(s)
  BY <1>3, <1>4, <1>5, <1>6, <1>7 DEF WellOrdered, IsOrdered
<1> QED BY <1>8 DEF s

LEMMA ReaderOrdered == ASSUME NEW path \in Paths PROVE WellOrdered(ReaderCalls(path))
<1>1. "file" \in Drivers /\ basename(path) \in ExportNames /\ path \in Lookups /\ "file" \in Variables
  BY LinkedAssumption DEF ExportNames, Fixed, Lookups, Variables
<1>2. Get(path, "file") \in CallType /\ Get(path, "file").op = "get"
  BY <1>1 DEF Get, CallType
<1> QED BY <1>1, <1>2, TripleOrdered DEF ReaderCalls

LEMMA WcOrdered == ASSUME NEW path \in Paths PROVE WellOrdered(WcCalls(path))
<1> DEFINE u == <<"api", "?", "wc">>
<1>1. "command" \in Drivers /\ "" \in ExportNames /\ u \in Lookups /\ "sink" \in Variables
  BY LinkedAssumption DEF ExportNames, Fixed, Lookups, Variables
<1>2. Get(u, "sink") \in CallType /\ Get(u, "sink").op = "get"
  BY <1>1 DEF Get, CallType
<1>3. WellOrdered(<<Load("command"), New("command", ""), Get(u, "sink")>>)
  BY <1>1, <1>2, TripleOrdered
<1> QED BY <1>3, ReaderOrdered, ConcatOrdered DEF WcCalls

LEMMA ShellOrdered == WellOrdered(ShellCalls)
<1> DEFINE u == <<"test", "?", "memcpy", "=", "Example">>
           s == ShellCalls
<1>1. /\ "memory" \in Drivers /\ "command" \in Drivers /\ "" \in ExportNames
      /\ "test" \in ExportNames /\ u \in Lookups /\ "none" \in Variables
  BY LinkedAssumption DEF ExportNames, Fixed, Lookups, Variables
<1>2. s = <<Load("memory"), New("memory", "test"), Get(u, "none"), Load("command"), New("command", "")>>
  BY DEF ShellCalls
<1> HIDE DEF u, s
<1>3. /\ Load("memory") \in CallType /\ Load("memory").op = "init" /\ Load("memory").d = "memory"
      /\ New("memory", "test") \in CallType /\ New("memory", "test").d = "memory"
      /\ Load("command") \in CallType /\ Load("command").op = "init" /\ Load("command").d = "command"
      /\ New("command", "") \in CallType /\ New("command", "").d = "command"
      /\ Get(u, "none") \in CallType /\ Get(u, "none").op = "get"
  BY <1>1 DEF Load, New, Get, CallType
<1>4. /\ s \in Seq(CallType) /\ Len(s) = 5 /\ s[1] = Load("memory") /\ s[2] = New("memory", "test")
      /\ s[3] = Get(u, "none") /\ s[4] = Load("command") /\ s[5] = New("command", "")
  BY <1>2, <1>3, FiveCalls
<1>5. Sets(s[1], "memory") /\ Sets(s[4], "command")
  BY <1>3, <1>4 DEF Sets
<1>6. /\ s[1].op # "new" /\ s[3].op # "new" /\ s[4].op # "new"
      /\ s[2].d = "memory" /\ s[5].d = "command"
  BY <1>3, <1>4
<1>7. \A k \in 1 .. 5 : k = 1 \/ k = 2 \/ k = 3 \/ k = 4 \/ k = 5
  OBVIOUS
<1>8. 1 \in 1 .. 2 - 1 /\ 4 \in 1 .. 5 - 1
  OBVIOUS
<1>9. WellOrdered(s)
  BY <1>4, <1>5, <1>6, <1>7, <1>8 DEF WellOrdered, IsOrdered
<1> QED BY <1>9 DEF s

\* A plugin is loaded, and then exports are made with it.
LEMMA LoadFirst ==
    ASSUME NEW d \in Drivers, NEW t \in Seq(CallType), \A k \in 1 .. Len(t) : t[k].d = d
    PROVE  WellOrdered(<<Load(d)>> \o t)
<1> DEFINE s == <<Load(d)>>
           u == s \o t
<1>1. Load(d) \in CallType /\ Sets(Load(d), d) /\ Load(d).op # "new"
  BY DEF Load, CallType, Sets
<1>2. s \in Seq(CallType) /\ Len(s) = 1 /\ s[1] = Load(d) /\ Len(t) \in Nat
  BY <1>1
<1> HIDE DEF s
<1>3. u \in Seq(CallType) /\ Len(u) = 1 + Len(t)
      /\ \A k \in 1 .. 1 + Len(t) : u[k] = IF k <= 1 THEN s[k] ELSE t[k - 1]
  <2>1. u \in Seq(CallType) /\ Len(u) = Len(s) + Len(t)
        /\ \A k \in 1 .. Len(s) + Len(t) : u[k] = IF k <= Len(s) THEN s[k] ELSE t[k - Len(s)]
    BY <1>2, ConcatProperties
  <2> HIDE DEF u
  <2> QED BY <1>2, <2>1
<1> HIDE DEF u
<1>4. u[1] = Load(d)
  BY <1>2, <1>3
<1>5. ASSUME NEW k \in 1 .. 1 + Len(t), u[k].op = "new"
      PROVE  1 \in 1 .. k - 1 /\ u[k].d = d
  <2>1. k # 1
    BY <1>1, <1>4, <1>5
  <2>2. k - 1 \in 1 .. Len(t) /\ ~(k <= 1) /\ 1 \in 1 .. k - 1
    BY <1>2, <2>1
  <2>3. u[k] = t[k - 1]
    BY <1>3, <2>2
  <2> QED BY <2>2, <2>3
<1>6. WellOrdered(u)
  BY <1>1, <1>3, <1>4, <1>5 DEF WellOrdered, IsOrdered
<1> QED BY <1>6 DEF u, s

LEMMA IrxOrdered == ASSUME NEW builtIn PROVE WellOrdered(irx_config(builtIn))
<1> DEFINE block(d, calls) == IF d \in builtIn THEN <<Load(d)>> \o calls ELSE <<>>
<1>1. ASSUME NEW d \in Drivers, NEW m \in Fixed, NEW n \in Fixed
      PROVE  WellOrdered(block(d, <<New(d, m), New(d, n)>>)) /\ WellOrdered(block(d, <<New(d, m)>>))
  <2> DEFINE s == <<New(d, m), New(d, n)>>
             t == <<New(d, m)>>
  <2>1. New(d, m) \in CallType /\ New(d, m).d = d /\ New(d, n) \in CallType /\ New(d, n).d = d
    BY DEF New, CallType, ExportNames
  <2>2. s \in Seq(CallType) /\ \A k \in 1 .. Len(s) : s[k].d = d
    BY <2>1
  <2>3. t \in Seq(CallType) /\ \A k \in 1 .. Len(t) : t[k].d = d
    BY <2>1
  <2> HIDE DEF s, t
  <2>4. WellOrdered(<<Load(d)>> \o s) /\ WellOrdered(<<Load(d)>> \o t)
    BY <2>2, <2>3, LoadFirst
  <2>5. WellOrdered(block(d, s)) /\ WellOrdered(block(d, t))
    BY <2>4, EmptyOrdered
  <2> QED BY <2>5 DEF s, t
<1> DEFINE a == block("atad", <<New("atad", "hdd0"), New("atad", "hdd1")>>)
           b == block("mcman", <<New("mcman", "mc0"), New("mcman", "mc1")>>)
           c == block("memory", <<New("memory", "ram"), New("memory", "bios")>>)
           e == block("pcmstream", <<New("pcmstream", "speakers")>>)
<1>2. "atad" \in Drivers /\ "mcman" \in Drivers /\ "memory" \in Drivers /\ "pcmstream" \in Drivers
  BY LinkedAssumption
<1>3. "hdd0" \in Fixed /\ "hdd1" \in Fixed /\ "mc0" \in Fixed /\ "mc1" \in Fixed
      /\ "ram" \in Fixed /\ "bios" \in Fixed /\ "speakers" \in Fixed
  BY DEF Fixed
<1>4. irx_config(builtIn) = ((a \o b) \o c) \o e
  BY DEF irx_config
<1> HIDE DEF block
<1>5. WellOrdered(a) /\ WellOrdered(b) /\ WellOrdered(c) /\ WellOrdered(e)
  BY <1>1, <1>2, <1>3
<1> HIDE DEF a, b, c, e
<1>6. WellOrdered(a \o b)
  BY <1>5, ConcatOrdered
<1>7. WellOrdered((a \o b) \o c)
  BY <1>5, <1>6, ConcatOrdered
<1>8. WellOrdered(((a \o b) \o c) \o e)
  BY <1>5, <1>7, ConcatOrdered
<1> QED BY <1>4, <1>8

LEMMA CallsOrdered ==
    ASSUME NEW p \in Programs, NEW path, p \in {"reader", "wc"} => path \in Paths,
           NEW calls \in Calls(p, path)
    PROVE  WellOrdered(calls)
<1>1. CASE p = "server"
  <2>1. PICK files \in UNION {[1 .. n -> Paths] : n \in 0 .. MaxFiles} :
           calls = ServerOptions(files) \o ServerContent
    BY <1>1 DEF Calls
  <2>2. PICK n \in 0 .. MaxFiles : files \in [1 .. n -> Paths]
    BY <2>1
  <2>3. n \in Nat
    BY <2>2
  <2>4. WellOrdered(ServerOptions(files))
    BY <2>2, <2>3, ServerOrdered
  <2> QED BY <2>1, <2>4, ContentOrdered, ConcatOrdered
<1>2. CASE p = "irx"
  BY <1>2, IrxOrdered DEF Calls
<1>3. CASE p = "reader"
  BY <1>3, ReaderOrdered DEF Calls
<1>4. CASE p = "wc"
  BY <1>4, WcOrdered DEF Calls
<1>5. CASE p = "shell"
  BY <1>5, ShellOrdered DEF Calls
<1>6. CASE p = "any"
  BY <1>6, ContentOrdered DEF Calls
<1>7. CASE p = "uri"
  <2>1. PICK u \in Uris : calls = <<Get(u, "none")>>
    BY <1>7 DEF Calls
  <2> QED BY <2>1, GetOrdered DEF Lookups, Variables
<1> QED BY <1>1, <1>2, <1>3, <1>4, <1>5, <1>6, <1>7 DEF Programs


LEMMA InitInv == Init => Inv
<1> SUFFICES ASSUME Init PROVE Inv
  OBVIOUS
<1>1. TablesInv
  <2>1. /\ plugins = [i \in Slot |-> NoDriver] /\ plugins_status = [i \in Slot |-> "FREE"]
        /\ contexts = [i \in Index |-> Blank] /\ contexts_status = [i \in Index |-> "FREE"]
        /\ failed = {} /\ devices = [d \in Drivers |-> 0]
    BY DEF Init, PluginsInit, ContextsInit
  <2>2. TablesType
    BY <2>1 DEF TablesType, Status
  <2>3. PluginsInv
    BY <2>1 DEF PluginsInv, Packed, Slot
  <2>4. ContextsInv
    BY <2>1 DEF ContextsInv, NoHole, Packed, Index
  <2> QED BY <2>2, <2>3, <2>4 DEF TablesInv
<1>2. MadeInv
  BY DEF Init, MadeInv
<1>3. HandlesInv
  <2>1. PICK v \in {0, ERR} : h = [d \in Drivers |-> v]
    BY DEF Init
  <2> QED BY <2>1 DEF HandlesInv, Bound
<1>4. TodoInv
  <2>1. WellOrdered(todo)
    BY CallsOrdered DEF Init
  <2> QED BY <2>1 DEF TodoInv, WellOrdered, IsOrdered
<1> QED BY <1>1, <1>2, <1>3, <1>4 DEF Inv

-----------------------------------------------------------------------------
(* Steps.                                                                     *)

LEMMA BoundStays ==
    ASSUME TablesInv, Growth, NEW d \in Drivers, Bound(d, h, plugins), h'[d] = h[d] PROVE Bound(d, h', plugins')
<1>1. CASE h[d] \in Slot /\ plugins[h[d]] = d
  <2>1. plugins_status[h[d]] = "CREATED"
    BY <1>1, NoDriverAssumption DEF TablesInv, TablesType, PluginsInv, Status
  <2> QED BY <1>1, <2>1 DEF Growth, Bound
<1> QED BY <1>1 DEF Bound

LEMMA MadeStays == ASSUME MadeInv, Growth, UNCHANGED made PROVE MadeInv'
  BY DEF MadeInv, Growth

\* The next call is made, and has set its variable if it is one that does.
LEMMA NextCall ==
    ASSUME TodoInv, todo # <<>>, todo' = Tail(todo),
           \A d \in Drivers : Bound(d, h, plugins) \/ Sets(Call, d) => Bound(d, h', plugins')
    PROVE  TodoInv'
<1> DEFINE n == Len(todo)
<1>1. todo \in Seq(CallType) /\ n \in Nat /\ n # 0 /\ Call = todo[1]
  BY DEF TodoInv, Call
<1>2. todo' \in Seq(CallType) /\ Len(todo') = n - 1 /\ \A k \in 1 .. n - 1 : todo'[k] = todo[k + 1]
  BY <1>1
<1> HIDE DEF n
<1>3. ASSUME NEW k \in 1 .. n - 1, todo'[k].op = "new"
      PROVE  Bound(todo'[k].d, h', plugins') \/ \E j \in 1 .. k - 1 : Sets(todo'[j], todo'[k].d)
  <2> DEFINE c == todo[k + 1]
  <2>1. k + 1 \in 1 .. n /\ todo'[k] = c /\ c.op = "new"
    BY <1>1, <1>2, <1>3
  <2>2. c \in CallType
    BY <1>1, <2>1 DEF n
  <2>3. c.d \in Drivers
    BY <2>1, <2>2 DEF CallType
  <2>4. CASE Bound(c.d, h, plugins)
    BY <2>1, <2>3, <2>4
  <2>5. ASSUME NEW i \in 1 .. (k + 1) - 1, Sets(todo[i], c.d)
        PROVE  Bound(todo'[k].d, h', plugins') \/ \E j \in 1 .. k - 1 : Sets(todo'[j], todo'[k].d)
    <3>1. CASE i = 1
      BY <1>1, <2>1, <2>3, <2>5, <3>1
    <3>2. CASE i # 1
      <4>1. i - 1 \in 1 .. k - 1 /\ i - 1 \in 1 .. n - 1 /\ (i - 1) + 1 = i
        BY <1>1, <3>2
      <4>2. todo'[i - 1] = todo[(i - 1) + 1]
        BY <1>2, <4>1
      <4>3. todo'[i - 1] = todo[i]
        BY <4>1, <4>2
      <4> QED BY <2>1, <2>5, <4>1, <4>3
    <3> QED BY <3>1, <3>2
  <2> QED BY <2>1, <2>4, <2>5 DEF TodoInv, n
<1> QED BY <1>2, <1>3 DEF TodoInv

\* A step that calls nothing of its list.
LEMMA StaysWithCalls ==
    ASSUME Inv, TablesInv', Growth, UNCHANGED <<made, h, todo>> PROVE Inv'
<1>1. \A d \in Drivers : Bound(d, h, plugins) => Bound(d, h', plugins')
  BY BoundStays DEF Inv
<1>2. HandlesInv'
  BY <1>1 DEF Inv, HandlesInv
<1>3. TodoInv'
  <2>1. \A k \in 1 .. Len(todo) : todo[k].op = "new" => todo[k].d \in Drivers
    <3> SUFFICES ASSUME NEW k \in 1 .. Len(todo), todo[k].op = "new" PROVE todo[k].d \in Drivers
      OBVIOUS
    <3>1. todo[k] \in CallType
      BY DEF Inv, TodoInv
    <3> QED BY <3>1 DEF CallType
  <2> QED BY <1>1, <2>1 DEF Inv, TodoInv
<1> QED BY <1>2, <1>3, MadeStays DEF Inv

\* A step that makes a call which leaves handles alone.
LEMMA CallInv ==
    ASSUME Inv, TablesInv', Growth, MadeInv', UNCHANGED h, todo # <<>>, todo' = Tail(todo),
           \A d \in Drivers : Sets(Call, d) => Bound(d, h, plugins)
    PROVE  Inv'
<1>1. \A d \in Drivers : Bound(d, h, plugins) => Bound(d, h', plugins')
  BY BoundStays DEF Inv
<1>2. HandlesInv'
  BY <1>1 DEF Inv, HandlesInv
<1>3. TodoInv'
  BY <1>1, NextCall DEF Inv
<1> QED BY <1>2, <1>3 DEF Inv

LEMMA CallHasType == ASSUME Inv, todo # <<>> PROVE Call \in CallType /\ Call = todo[1] /\ 1 \in 1 .. Len(todo)
  BY DEF Inv, TodoInv, Call

LEMMA LoadsInv == ASSUME Inv, Loads PROVE Inv'
<1> DEFINE d == Call.d
<1>1. /\ todo # <<>> /\ Call.op \in {"init", "init if NULL"} /\ lwnbd_plugin_init(d)
      /\ h' = [h EXCEPT ![d] = ret'] /\ todo' = Tail(todo) /\ UNCHANGED made
  BY DEF Loads, At
<1>2. d \in Drivers
  BY <1>1, CallHasType DEF CallType
<1>3. TablesInv' /\ Growth /\ (ret' = ERR \/ (ret' \in Slot /\ plugins'[ret'] = d))
  BY <1>1, <1>2, InitCall DEF Inv
<1>4. DOMAIN h' = Drivers /\ h'[d] = ret' /\ \A e \in Drivers \ {d} : h'[e] = h[e]
  BY <1>1, <1>2 DEF Inv, HandlesInv
<1>5. Bound(d, h', plugins')
  BY <1>3, <1>4 DEF Bound
<1>6. \A e \in Drivers : Bound(e, h, plugins) => Bound(e, h', plugins')
  BY <1>3, <1>4, <1>5, BoundStays DEF Inv
<1>7. HandlesInv'
  BY <1>4, <1>5, <1>6 DEF Inv, HandlesInv
<1>8. \A e : Sets(Call, e) => e = d
  BY DEF Sets
<1>9. TodoInv'
  BY <1>1, <1>5, <1>6, <1>8, NextCall DEF Inv
<1> QED BY <1>1, <1>3, <1>7, <1>9, MadeStays DEF Inv

LEMMA LoadedInv == ASSUME Inv, Loaded PROVE Inv'
<1>1. /\ todo # <<>> /\ Call.op = "init if NULL" /\ h[Call.d] # 0 /\ todo' = Tail(todo)
      /\ UNCHANGED <<vars, h, made>>
  BY DEF Loaded, At
<1>2. UNCHANGED tables
  BY <1>1 DEF vars
<1>3. TablesInv' /\ Growth
  BY <1>2, SameTables DEF Inv
<1>4. \A e \in Drivers : Sets(Call, e) => Bound(e, h, plugins)
  BY <1>1 DEF Sets, Inv, HandlesInv
<1> QED BY <1>1, <1>3, <1>4, MadeStays, CallInv DEF Inv

\* The export is made with the plugin whose variable is used.
LEMMA MakesInv == ASSUME Inv, Makes PROVE Inv'
<1> DEFINE d == Call.d
           n == lwnbd_contexts_count
<1>1. /\ todo # <<>> /\ Call.op = "new" /\ lwnbd_plugin_new(h[d], Call.name)
      /\ made' = IF ret' = 0 /\ alive' /\ contexts' # contexts
                 THEN made \cup {[name |-> Call.name, d |-> d, at |-> n]} ELSE made
      /\ todo' = Tail(todo) /\ UNCHANGED h
  BY DEF Makes, At
<1>2. d \in Drivers
  BY <1>1, CallHasType DEF CallType
<1>3. Bound(d, h, plugins)
  <2>1. Call = todo[1] /\ 1 \in 1 .. Len(todo)
    BY <1>1, CallHasType
  <2>2. ~ \E j \in 1 .. 1 - 1 : Sets(todo[j], todo[1].d)
    OBVIOUS
  <2> QED BY <1>1, <2>1, <2>2 DEF Inv, TodoInv
<1>4. /\ TablesInv' /\ Growth
      /\ ret' = 0 /\ alive' /\ contexts' # contexts =>
            /\ Valid(h[d]) /\ n \in Index /\ contexts_status'[n] = "CREATED"
            /\ contexts'[n] = [name |-> Call.name, p |-> plugins[h[d]]]
  BY <1>1, NewCall DEF Inv
<1>5. MadeInv'
  <2>1. CASE UNCHANGED made
    BY <1>4, <2>1, MadeStays DEF Inv
  <2>2. CASE ret' = 0 /\ alive' /\ contexts' # contexts
    <3>1. h[d] # ERR
      BY <1>4, <2>2, MaxPluginsAssumption DEF Valid, Slot, ERR
    <3>2. plugins[h[d]] = d
      BY <1>3, <3>1 DEF Bound
    <3> DEFINE m == [name |-> Call.name, d |-> d, at |-> n]
    <3>3. made' = made \cup {m}
      BY <1>1, <2>2
    <3>4. m.at \in Index /\ contexts_status'[m.at] = "CREATED"
          /\ contexts'[m.at] = [name |-> m.name, p |-> m.d]
      BY <1>4, <2>2, <3>2
    <3> HIDE DEF m
    <3>5. \A x \in made : /\ x.at \in Index /\ contexts_status'[x.at] = "CREATED"
                          /\ contexts'[x.at] = [name |-> x.name, p |-> x.d]
      BY <1>4 DEF Inv, MadeInv, Growth
    <3> QED BY <3>3, <3>4, <3>5 DEF MadeInv
  <2> QED BY <1>1, <2>1, <2>2
<1>6. \A e \in Drivers : Sets(Call, e) => Bound(e, h, plugins)
  BY <1>1 DEF Sets
<1> QED BY <1>1, <1>4, <1>5, <1>6, CallInv

LEMMA GetsInv == ASSUME Inv, Gets PROVE Inv'
<1>1. /\ todo # <<>> /\ Call.op = "get" /\ todo' = Tail(todo) /\ UNCHANGED <<h, made>>
      /\ lwnbd_get_context(Request(Call.uri).name, Request(Call.uri).params # <<>>)
  BY DEF Gets, At, Query
<1>2. UNCHANGED tables
  BY <1>1 DEF lwnbd_get_context
<1>3. TablesInv' /\ Growth
  BY <1>2, SameTables DEF Inv
<1>4. \A e \in Drivers : Sets(Call, e) => Bound(e, h, plugins)
  BY <1>1 DEF Sets
<1> QED BY <1>1, <1>3, <1>4, MadeStays, CallInv DEF Inv

LEMMA LoopsKeepTables ==
    ASSUME ReaderTurn \/ WcTurn \/ ShellLoop \/ ShellExits \/ UNCHANGED allVars
    PROVE  UNCHANGED <<tables, made, h, todo>>
<1>1. ASSUME NEW c, FollowsNull(c) PROVE UNCHANGED <<tables, made, h, todo>>
  BY <1>1 DEF FollowsNull, own
<1>2. CASE ReaderTurn
  BY <1>1, <1>2 DEF ReaderTurn, vars
<1>3. CASE WcTurn
  BY <1>1, <1>3 DEF WcTurn, vars
<1>4. CASE ShellExits
  BY <1>4 DEF ShellExits, vars
<1>5. CASE UNCHANGED allVars
  BY <1>5 DEF allVars, vars, own
<1>6. CASE ShellLoop
  <2>1. PICK line \in Lines : ShellTurn(line)
    BY <1>6 DEF ShellLoop
  <2>2. UNCHANGED tables
    BY <2>1 DEF ShellTurn, CommandTurn, Query, lwnbd_get_context
  <2> QED BY <1>6, <2>2 DEF ShellLoop, own
<1> QED BY <1>2, <1>3, <1>4, <1>5, <1>6

LEMMA StepInv == Inv /\ [Next]_allVars => Inv'
<1> SUFFICES ASSUME Inv, [Next]_allVars PROVE Inv'
  OBVIOUS
<1>1. CASE ReaderTurn \/ WcTurn \/ ShellLoop \/ ShellExits \/ UNCHANGED allVars
  <2>1. UNCHANGED <<tables, made, h, todo>>
    BY <1>1, LoopsKeepTables
  <2>2. TablesInv' /\ Growth
    BY <2>1, SameTables DEF Inv
  <2> QED BY <2>1, <2>2, StaysWithCalls
<1>2. CASE Anything
  <2>1. UNCHANGED <<made, h, todo>>
    BY <1>2 DEF Anything, own
  <2>2. TablesInv' /\ Growth
    BY <1>2, AnyCallTables, GetTables DEF Anything, Inv
  <2> QED BY <2>1, <2>2, StaysWithCalls
<1>3. CASE Finished
  BY <1>1, <1>3 DEF Finished
<1> QED BY <1>1, <1>2, <1>3, LoadsInv, LoadedInv, MakesInv, GetsInv DEF Next

LEMMA AlwaysInv == Spec => []Inv
  BY InitInv, StepInv, PTL DEF Spec

-----------------------------------------------------------------------------
(* The byte counter and the reader.                                           *)

ReaderInv ==
    program = "reader" =>
        /\ size \in Nat /\ offset \in Nat
        /\ IF done THEN count = size + 1 ELSE count = offset /\ offset <= size

\* The counter has the last Len(todo) of its calls before it.
ListInv ==
    /\ Len(todo) <= 6
    /\ \A k \in 1 .. Len(todo) : todo[k] = WcCalls(arg)[6 - Len(todo) + k]

\* What it looks up first is an export of the file, as there is no other yet, and all of
\* these have one name; what it looks up last has the name of the commands.
FileExport == IF Struct["file"].single THEN "api" ELSE basename(arg)
LookupsInv ==
    /\ \A s \in Slot : \/ plugins[s] \in {NoDriver, "file"}
                       \/ Len(todo) < 3 /\ plugins[s] = "command"
    /\ \A i \in Index : contexts_status[i] = "CREATED" /\ contexts[i].p = "file" =>
          contexts[i].name = FileExport
    /\ file # NULL =>
          file \in Index /\ contexts_status[file] = "CREATED" /\ contexts[file].p = "file"
    /\ sink # NULL =>
          /\ sink \in Index /\ contexts_status[sink] = "CREATED"
          /\ contexts[sink].name = "api" /\ contexts[sink].p \in {"file", "command"}

\* The bytes that were read have gone to the command, or to the file.
Passed == IF done THEN size ELSE offset
TurnsInv ==
    /\ size \in Nat /\ offset \in Nat /\ (done \/ offset <= size)
    /\ \/ ~done /\ offset = 0 /\ count = 0 /\ spoilt = 0
       \/ todo = <<>> /\ file # NULL /\ sink # NULL
    /\ sink # NULL /\ contexts[sink].p = "command" => count = Passed /\ spoilt = 0
    /\ sink # NULL /\ contexts[sink].p = "file" => count = 0 /\ spoilt = Passed

WcInv == program = "wc" => ListInv /\ LookupsInv /\ TurnsInv

\* What the calls put into the tables.
LEMMA InitNames ==
    ASSUME TablesInv, NEW d \in Drivers, lwnbd_plugin_init(d)
    PROVE  /\ \A s \in Slot : plugins'[s] = plugins[s] \/ plugins'[s] = d
           /\ \A i \in Index :
                 \/ contexts'[i] = contexts[i] /\ contexts_status'[i] = contexts_status[i]
                 \/ contexts'[i] = [name |-> "api", p |-> d] /\ Struct[d].single
<1>1. CASE InitRefused(d)
  BY <1>1 DEF InitRefused, tables
<1>2. CASE Register(d)
  <2>1. plugins' = [plugins EXCEPT ![FreeSlot] = d]
    BY <1>2 DEF Register
  <2>2. \A s \in Slot : plugins'[s] = plugins[s] \/ plugins'[s] = d
    BY <2>1 DEF TablesInv, TablesType
  <2>3. CASE UNCHANGED <<contexts, contexts_status>>
    BY <2>2, <2>3
  <2>4. CASE /\ Struct[d].single /\ ~PoolFull
             /\ Take(lwnbd_contexts_count, [name |-> "api", p |-> d])
    BY <2>2, <2>4, TakeProps
  <2> QED BY <1>1, <2>3, <2>4 DEF lwnbd_plugin_init, InitRegisters, InitCrashes
<1> QED BY <1>1, <1>2 DEF lwnbd_plugin_init, InitRegisters, InitCrashes

LEMMA NewNames ==
    ASSUME TablesInv, NEW g, NEW name, lwnbd_plugin_new(g, name), NEW i \in Index
    PROVE  \/ contexts'[i] = contexts[i] /\ contexts_status'[i] = contexts_status[i]
           \/ /\ Valid(g) /\ ~Struct[plugins[g]].single
              /\ contexts'[i] = [name |-> name, p |-> plugins[g]]
           \/ contexts'[i].p = NoDriver
<1>1. CASE UNCHANGED tables
  BY <1>1 DEF tables
<1>2. ASSUME NEW c, ~PoolFull, Take(lwnbd_contexts_count, c)
      PROVE  \/ contexts'[i] = contexts[i] /\ contexts_status'[i] = contexts_status[i]
             \/ contexts'[i] = c
  BY <1>2, TakeProps
<1>3. CASE Valid(g) /\ ~Struct[plugins[g]].single /\ NewContext(plugins[g], name)
  <2>1. CASE ~PoolFull /\ Take(lwnbd_contexts_count, [name |-> name, p |-> plugins[g]])
    BY <1>2, <1>3, <2>1
  <2>2. CASE ~PoolFull /\ \E how \in Struct[plugins[g]].fails :
                Take(lwnbd_contexts_count, [name |-> NameAtFailure(how, name), p |-> NoDriver])
    <3>1. PICK how : Take(lwnbd_contexts_count, [name |-> NameAtFailure(how, name), p |-> NoDriver])
      BY <2>2
    <3>2. \/ contexts'[i] = contexts[i] /\ contexts_status'[i] = contexts_status[i]
          \/ contexts'[i] = [name |-> NameAtFailure(how, name), p |-> NoDriver]
      BY <1>2, <2>2, <3>1
    <3> QED BY <3>2
  <2>3. CASE UNCHANGED <<contexts, contexts_status>>
    BY <2>3
  <2> QED BY <1>1, <1>3, <2>1, <2>2, <2>3 DEF NewContext
<1> QED BY <1>1, <1>3 DEF lwnbd_plugin_new

\* A lookup gives NULL, or a context of that name whose plugin is registered.
LEMMA GetCall ==
    ASSUME TablesInv, NEW name, NEW asked, lwnbd_get_context(name, asked), ret' # NULL
    PROVE  /\ ret' \in Index /\ contexts_status[ret'] = "CREATED" /\ contexts[ret'].name = name
           /\ \E s \in Slot : contexts[ret'].p = plugins[s] /\ plugins[s] # NoDriver
<1> DEFINE c == lwnbd_get_context_string(name)
<1>1. ret' = c /\ c # NULL /\ contexts[c].p # NoDriver
  BY DEF lwnbd_get_context, Found, Crash, ERR, NULL
<1>2. c \in Matches(name)
  <2>1. Matches(name) # {} /\ Matches(name) \in SUBSET Nat
    BY <1>1, MaxContextsAssumption DEF lwnbd_get_context_string, Matches, Index
  <2>2. \E m \in Matches(name) : \A k \in Matches(name) : m <= k
    BY <2>1, LeastNat
  <2> QED BY <2>1, <2>2 DEF lwnbd_get_context_string
<1> HIDE DEF c
<1>3. c \in Index /\ c < lwnbd_contexts_count /\ contexts[c].name = name
  BY <1>2 DEF Matches
<1>4. contexts_status[c] = "CREATED"
  <2>1. \A j \in 0 .. MaxContexts - 1 : j < lwnbd_contexts_count => contexts_status[j] # "FREE"
    BY MaxContextsAssumption, FirstFreeProps DEF lwnbd_contexts_count
  <2>2. contexts_status[c] # "FREE"
    BY <1>3, <2>1 DEF Index
  <2> QED BY <1>3, <2>2 DEF TablesInv, TablesType, Status
<1>5. c \notin failed
  BY <1>1 DEF TablesInv, ContextsInv
<1>6. \E s \in Slot : contexts[c].p = plugins[s]
  BY <1>3, <1>4, <1>5 DEF TablesInv, ContextsInv
<1> QED BY <1>1, <1>3, <1>4, <1>6

LEMMA ApiName == Request(<<"api", "?", "wc">>).name = "api"
<1> DEFINE u == <<"api", "?", "wc">>
           v == <<"api">>
<1>1. DOMAIN u = 1 .. 3 /\ u[1] = "api" /\ u[2] = "?" /\ u[3] = "wc"
  OBVIOUS
<1>2. strchr(u, "#") = 0
  BY <1>1 DEF strchr
<1>3. find_fragment(u).left = u
  BY <1>2 DEF find_fragment, find_and_terminate
<1>4. strchr(u, "?") = 2
  <2>1. \A i \in DOMAIN u : (u[i] = "?" /\ \A j \in 1 .. i - 1 : u[j] # "?") <=> i = 2
    BY <1>1
  <2>2. 2 \in DOMAIN u /\ u[2] = "?"
    BY <1>1
  <2> HIDE DEF u
  <2> QED BY <2>1, <2>2 DEF strchr
<1>5. find_query(u).left = SubSeq(u, 1, 1)
  BY <1>4 DEF find_query, find_and_terminate
<1>6. SubSeq(u, 1, 1) = v
  <2> DEFINE q == SubSeq(u, 1, 1)
             S == {"api"}
  <2>1. \A i \in 1 .. 1 : u[i] \in S
    BY <1>1
  <2> HIDE DEF u
  <2>2. /\ q \in Seq(S) /\ Len(q) = (IF 1 <= 1 THEN 1 - 1 + 1 ELSE 0)
        /\ \A i \in 1 .. 1 - 1 + 1 : q[i] = u[1 + i - 1]
    BY <2>1, SubSeqProperties
  <2>3. Len(q) = 1 /\ 1 \in 1 .. 1 - 1 + 1 /\ 1 + 1 - 1 = 1
    BY <2>2
  <2>4. q[1] = u[1]
    BY <2>2, <2>3
  <2>5. v \in Seq(S) /\ Len(v) = 1 /\ v[1] = "api"
    OBVIOUS
  <2> HIDE DEF q, v, S
  <2>6. \A i \in 1 .. 1 : q[i] = v[i]
    BY <1>1, <2>4, <2>5
  <2>7. q = v
    BY <2>2, <2>3, <2>5, <2>6, SeqEqual
  <2> QED BY <2>7 DEF q
<1>7. strchr(v, "/") = 0
  BY DEF strchr
<1>8. find_path(v) = v
  BY <1>7 DEF find_path, find_and_terminate
<1>9. yuarel_parse(u).path = v
  BY <1>3, <1>5, <1>6, <1>8 DEF yuarel_parse
<1>10. NameOf(v) = "api"
  BY DEF NameOf
<1> QED BY <1>9, <1>10 DEF Request

LEMMA WcList ==
    ASSUME NEW path
    PROVE  LET w == WcCalls(path)
           IN  /\ Len(w) = 6
               /\ w[1] = Load("file") /\ w[2] = New("file", basename(path))
               /\ w[3] = Get(path, "file") /\ w[4] = Load("command")
               /\ w[5] = New("command", "") /\ w[6] = Get(<<"api", "?", "wc">>, "sink")
<1> DEFINE a == Load("file")
           b == New("file", basename(path))
           c == Get(path, "file")
           d == Load("command")
           e == New("command", "")
           f == Get(<<"api", "?", "wc">>, "sink")
           S == {a, b, c, d, e, f}
<1>1. WcCalls(path) = <<a, b, c>> \o <<d, e, f>>
  BY DEF WcCalls, ReaderCalls
<1> HIDE DEF a, b, c, d, e, f
<1> DEFINE s == <<a, b, c>>
           t == <<d, e, f>>
<1>2. s \in Seq(S) /\ Len(s) = 3 /\ s[1] = a /\ s[2] = b /\ s[3] = c
  OBVIOUS
<1>3. t \in Seq(S) /\ Len(t) = 3 /\ t[1] = d /\ t[2] = e /\ t[3] = f
  OBVIOUS
<1> HIDE DEF s, t, S
<1> DEFINE w == s \o t
<1>4. \A k \in 1 .. Len(s) + Len(t) : w[k] = IF k <= Len(s) THEN s[k] ELSE t[k - Len(s)]
  BY <1>2, <1>3, ConcatProperties
<1>5. w = WcCalls(path)
  BY <1>1 DEF s, t
<1> HIDE DEF w
<1>6. \A k \in 1 .. 6 : w[k] = IF k <= 3 THEN s[k] ELSE t[k - 3]
  <2>1. Len(s) + Len(t) = 6 /\ Len(s) = 3
    BY <1>2, <1>3
  <2> QED BY <1>4, <2>1
<1>7. w[1] = s[1] /\ w[2] = s[2] /\ w[3] = s[3] /\ w[4] = t[4 - 3] /\ w[5] = t[5 - 3] /\ w[6] = t[6 - 3]
  BY <1>6
<1>8. t[4 - 3] = t[1] /\ t[5 - 3] = t[2] /\ t[6 - 3] = t[3]
  OBVIOUS
<1>9. w[1] = a /\ w[2] = b /\ w[3] = c /\ w[4] = d /\ w[5] = e /\ w[6] = f
  BY <1>2, <1>3, <1>7, <1>8
<1>10. Len(w) = 6
  <2>1. Len(w) = Len(s) + Len(t)
    BY <1>2, <1>3, ConcatProperties DEF w
  <2> QED BY <1>2, <1>3, <2>1
<1> QED BY <1>5, <1>9, <1>10 DEF a, b, c, d, e, f

\* The call that comes next, and the list behind it.
LEMMA WcCall ==
    ASSUME Inv, ListInv, todo # <<>>
    PROVE  LET n == Len(todo)
           IN  \/ n = 6 /\ Call.op = "init" /\ Call.d = "file"
               \/ n = 5 /\ Call.op = "new" /\ Call.d = "file" /\ Call.name = basename(arg)
               \/ n = 4 /\ Call.op = "get" /\ Call.var = "file"
               \/ n = 3 /\ Call.op = "init" /\ Call.d = "command"
               \/ n = 2 /\ Call.op = "new" /\ Call.d = "command"
               \/ n = 1 /\ Call.op = "get" /\ Call.var = "sink" /\ Call.uri = <<"api", "?", "wc">>
<1> DEFINE n == Len(todo)
           w == WcCalls(arg)
<1>1. Call = todo[1] /\ 1 \in 1 .. n
  BY CallHasType
<1>2. n \in Nat /\ n <= 6
  BY DEF Inv, TodoInv, ListInv
<1>3. Call = w[6 - n + 1]
  BY <1>1 DEF ListInv
<1> HIDE DEF n
<1>4. n = 6 \/ n = 5 \/ n = 4 \/ n = 3 \/ n = 2 \/ n = 1
  BY <1>1, <1>2
<1>5. /\ w[1].op = "init" /\ w[1].d = "file"
      /\ w[2].op = "new" /\ w[2].d = "file" /\ w[2].name = basename(arg)
      /\ w[3].op = "get" /\ w[3].var = "file"
      /\ w[4].op = "init" /\ w[4].d = "command"
      /\ w[5].op = "new" /\ w[5].d = "command"
      /\ w[6].op = "get" /\ w[6].var = "sink" /\ w[6].uri = <<"api", "?", "wc">>
  <2> DEFINE u == <<"api", "?", "wc">>
  <2>1. /\ w[1] = Load("file") /\ w[2] = New("file", basename(arg)) /\ w[3] = Get(arg, "file")
        /\ w[4] = Load("command") /\ w[5] = New("command", "") /\ w[6] = Get(u, "sink")
    BY WcList
  <2> HIDE DEF u, w
  <2>2. Get(u, "sink").op = "get" /\ Get(u, "sink").var = "sink" /\ Get(u, "sink").uri = u
    BY DEF Get
  <2>3. Get(arg, "file").op = "get" /\ Get(arg, "file").var = "file"
    BY DEF Get
  <2>4. \A d : Load(d).op = "init" /\ Load(d).d = d
    BY DEF Load
  <2>5. w[1].op = "init" /\ w[1].d = "file" /\ w[4].op = "init" /\ w[4].d = "command"
    BY <2>1, <2>4
  <2>6. /\ w[2].op = "new" /\ w[2].d = "file" /\ w[2].name = basename(arg)
        /\ w[5].op = "new" /\ w[5].d = "command"
    <3> DEFINE b == basename(arg)
    <3>1. w[2] = New("file", b) /\ w[5] = New("command", "")
      BY <2>1
    <3> HIDE DEF b
    <3>2. \A d, m : New(d, m).op = "new" /\ New(d, m).d = d /\ New(d, m).name = m
      BY DEF New
    <3>3. /\ New("file", b).op = "new" /\ New("file", b).d = "file" /\ New("file", b).name = b
          /\ New("command", "").op = "new" /\ New("command", "").d = "command"
      BY <3>2
    <3>4. w[2].op = "new" /\ w[2].d = "file" /\ w[2].name = b
      BY <3>1, <3>3
    <3>5. w[5].op = "new" /\ w[5].d = "command"
      BY <3>1, <3>3
    <3> QED BY <3>4, <3>5 DEF b
  <2>7. w[3].op = "get" /\ w[3].var = "file"
    BY <2>1, <2>3
  <2>8. w[6].op = "get" /\ w[6].var = "sink" /\ w[6].uri = u
    BY <2>1, <2>2
  <2>9. w[6].uri = <<"api", "?", "wc">>
    BY <2>8 DEF u
  <2> QED BY <2>5, <2>6, <2>7, <2>8, <2>9, Zenon
<1> HIDE DEF w
<1>6. CASE n = 6
  <2>1. 6 - n + 1 = 1
    BY <1>6
  <2> QED BY <1>3, <1>5, <1>6, <2>1 DEF n
<1>7. CASE n = 5
  <2>1. 6 - n + 1 = 2
    BY <1>7
  <2> QED BY <1>3, <1>5, <1>7, <2>1 DEF n
<1>8. CASE n = 4
  <2>1. 6 - n + 1 = 3
    BY <1>8
  <2> QED BY <1>3, <1>5, <1>8, <2>1 DEF n
<1>9. CASE n = 3
  <2>1. 6 - n + 1 = 4
    BY <1>9
  <2> QED BY <1>3, <1>5, <1>9, <2>1 DEF n
<1>10. CASE n = 2
  <2>1. 6 - n + 1 = 5
    BY <1>10
  <2> QED BY <1>3, <1>5, <1>10, <2>1 DEF n
<1>11. CASE n = 1
  <2>1. 6 - n + 1 = 6
    BY <1>11
  <2> QED BY <1>3, <1>5, <1>11, <2>1 DEF n
<1> QED BY <1>4, <1>6, <1>7, <1>8, <1>9, <1>10, <1>11

LEMMA ListTail ==
    ASSUME Inv, ListInv, todo # <<>>, todo' = Tail(todo), arg' = arg
    PROVE  ListInv' /\ Len(todo') = Len(todo) - 1
<1> DEFINE n == Len(todo)
<1>1. todo \in Seq(CallType) /\ n \in Nat /\ n # 0
  BY DEF Inv, TodoInv
<1>2. Len(todo') = n - 1 /\ \A k \in 1 .. n - 1 : todo'[k] = todo[k + 1]
  BY <1>1
<1>3. n <= 6 /\ \A k \in 1 .. n : todo[k] = WcCalls(arg)[6 - n + k]
  BY DEF ListInv
<1> HIDE DEF n
<1>4. ASSUME NEW k \in 1 .. n - 1 PROVE todo'[k] = WcCalls(arg)[6 - (n - 1) + k]
  <2>1. k + 1 \in 1 .. n /\ 6 - n + (k + 1) = 6 - (n - 1) + k
    BY <1>1
  <2>2. todo'[k] = todo[k + 1] /\ todo[k + 1] = WcCalls(arg)[6 - n + (k + 1)]
    BY <1>2, <1>3, <2>1
  <2> QED BY <2>1, <2>2
<1>5. Len(todo') <= 6
  BY <1>1, <1>2, <1>3
<1>6. WcCalls(arg)' = WcCalls(arg)
  BY DEF WcCalls, ReaderCalls
<1> QED BY <1>2, <1>4, <1>5, <1>6 DEF ListInv, n

LEMMA LookupsStay ==
    ASSUME Inv, LookupsInv, Growth, UNCHANGED <<file, sink, arg>>,
           \A s \in Slot : \/ plugins'[s] \in {NoDriver, "file"}
                           \/ Len(todo') < 3 /\ plugins'[s] = "command",
           \A i \in Index :
              \/ contexts'[i] = contexts[i] /\ contexts_status'[i] = contexts_status[i]
              \/ contexts'[i].p = "file" => contexts'[i].name = FileExport
    PROVE  LookupsInv'
<1>1. FileExport' = FileExport
  BY DEF FileExport
<1>2. \A i \in Index : contexts_status'[i] = "CREATED" /\ contexts'[i].p = "file" =>
          contexts'[i].name = FileExport
  BY DEF LookupsInv
<1>3. file' # NULL =>
          file' \in Index /\ contexts_status'[file'] = "CREATED" /\ contexts'[file'].p = "file"
  BY DEF LookupsInv, Growth
<1>4. sink' # NULL =>
          /\ sink' \in Index /\ contexts_status'[sink'] = "CREATED"
          /\ contexts'[sink'].name = "api" /\ contexts'[sink'].p \in {"file", "command"}
  BY DEF LookupsInv, Growth
<1> QED BY <1>1, <1>2, <1>3, <1>4 DEF LookupsInv

LEMMA WcCalled ==
    ASSUME Inv, WcInv, program = "wc", UNCHANGED <<fixed, offset, count, done, spoilt>>,
           todo # <<>>, todo' = Tail(todo), LookupsInv'
    PROVE  WcInv'
<1>1. UNCHANGED <<program, arg, size>>
  BY DEF fixed
<1>2. ListInv'
  BY <1>1, ListTail DEF WcInv
<1>3. size \in Nat /\ offset \in Nat /\ ~done /\ offset = 0 /\ count = 0 /\ spoilt = 0
  BY DEF WcInv, TurnsInv
<1>4. TurnsInv'
  BY <1>1, <1>3 DEF TurnsInv, Passed
<1> QED BY <1>2, <1>4 DEF WcInv

LEMMA LoadsWc == ASSUME Inv, WcInv, Loads, program = "wc" PROVE WcInv'
<1> DEFINE d == Call.d
           n == Len(todo)
<1>1. /\ todo # <<>> /\ Call.op \in {"init", "init if NULL"} /\ lwnbd_plugin_init(d)
      /\ todo' = Tail(todo)
      /\ UNCHANGED <<fixed, file, sink, offset, count, done, spoilt>>
  BY DEF Loads, At
<1>2. d \in Drivers
  BY <1>1, CallHasType DEF CallType
<1>3. ListInv /\ LookupsInv /\ arg' = arg
  BY <1>1 DEF WcInv, fixed
<1>4. (n = 6 /\ d = "file") \/ (n = 3 /\ d = "command")
  <2>1. Call.op # "new" /\ Call.op # "get"
    BY <1>1
  <2> QED BY <1>1, <1>3, <2>1, WcCall
<1>5. Len(todo') = n - 1
  BY <1>1, <1>3, ListTail
<1>6. TablesInv' /\ Growth
  BY <1>1, <1>2, InitCall DEF Inv
<1>7. /\ \A s \in Slot : plugins'[s] = plugins[s] \/ plugins'[s] = d
      /\ \A i \in Index :
            \/ contexts'[i] = contexts[i] /\ contexts_status'[i] = contexts_status[i]
            \/ contexts'[i] = [name |-> "api", p |-> d] /\ Struct[d].single
  BY <1>1, <1>2, InitNames DEF Inv
<1>8. \A s \in Slot : \/ plugins'[s] \in {NoDriver, "file"}
                      \/ Len(todo') < 3 /\ plugins'[s] = "command"
  <2>1. \A s \in Slot : plugins[s] \in {NoDriver, "file"} \/ n < 3
    BY <1>3 DEF LookupsInv
  <2>2. CASE n = 6 /\ d = "file"
    BY <1>7, <2>1, <2>2
  <2>3. CASE n = 3 /\ d = "command"
    <3>1. Len(todo') < 3
      BY <1>5, <2>3
    <3> QED BY <1>7, <2>1, <2>3, <3>1
  <2> QED BY <1>4, <2>2, <2>3
<1>9. ASSUME NEW i \in Index
      PROVE  \/ contexts'[i] = contexts[i] /\ contexts_status'[i] = contexts_status[i]
             \/ contexts'[i].p = "file" => contexts'[i].name = FileExport
  <2>1. CASE contexts'[i] = [name |-> "api", p |-> d] /\ Struct[d].single
    <3>1. contexts'[i].p = d /\ contexts'[i].name = "api"
      BY <2>1
    <3> QED BY <2>1, <3>1 DEF FileExport
  <2> QED BY <1>7, <2>1
<1>10. LookupsInv'
  BY <1>1, <1>3, <1>6, <1>8, <1>9, LookupsStay
<1> QED BY <1>1, <1>10, WcCalled

LEMMA MakesWc == ASSUME Inv, WcInv, Makes, program = "wc" PROVE WcInv'
<1> DEFINE d == Call.d
           n == Len(todo)
<1>1. /\ todo # <<>> /\ Call.op = "new" /\ lwnbd_plugin_new(h[d], Call.name)
      /\ todo' = Tail(todo)
      /\ UNCHANGED <<fixed, h, file, sink, offset, count, done, spoilt>>
  BY DEF Makes, At
<1>2. ListInv /\ LookupsInv /\ arg' = arg
  BY <1>1 DEF WcInv, fixed
<1>3. (n = 5 /\ d = "file" /\ Call.name = basename(arg)) \/ (n = 2 /\ d = "command")
  <2>1. Call.op # "init" /\ Call.op # "get"
    BY <1>1
  <2> QED BY <1>1, <1>2, <2>1, WcCall
<1>4. Len(todo') = n - 1
  BY <1>1, <1>2, ListTail
<1>5. Growth /\ UNCHANGED plugins
  BY <1>1, NewCall DEF Inv
<1>6. \A s \in Slot : \/ plugins'[s] \in {NoDriver, "file"}
                      \/ Len(todo') < 3 /\ plugins'[s] = "command"
  <2>1. n < 3 => Len(todo') < 3
    BY <1>3, <1>4
  <2> QED BY <1>2, <1>5, <2>1 DEF LookupsInv
<1>7. Bound(d, h, plugins)
  <2>1. Call = todo[1] /\ 1 \in 1 .. Len(todo)
    BY <1>1, CallHasType
  <2>2. ~ \E j \in 1 .. 1 - 1 : Sets(todo[j], todo[1].d)
    OBVIOUS
  <2> QED BY <1>1, <2>1, <2>2 DEF Inv, TodoInv
<1>8. ASSUME NEW i \in Index
      PROVE  \/ contexts'[i] = contexts[i] /\ contexts_status'[i] = contexts_status[i]
             \/ contexts'[i].p = "file" => contexts'[i].name = FileExport
  <2>1. CASE /\ Valid(h[d]) /\ ~Struct[plugins[h[d]]].single
             /\ contexts'[i] = [name |-> Call.name, p |-> plugins[h[d]]]
    <3>1. h[d] # ERR
      BY <2>1, MaxPluginsAssumption DEF Valid, Slot, ERR
    <3>2. plugins[h[d]] = d
      BY <1>7, <3>1 DEF Bound
    <3>3. contexts'[i].p = d /\ contexts'[i].name = Call.name
      BY <2>1, <3>2
    <3> QED BY <1>3, <2>1, <3>2, <3>3 DEF FileExport
  <2>2. CASE contexts'[i].p = NoDriver
    <3>1. NoDriver # "file"
      BY NoDriverAssumption, LinkedAssumption
    <3> QED BY <2>2, <3>1
  <2> QED BY <1>1, <2>1, <2>2, NewNames DEF Inv
<1>9. LookupsInv'
  BY <1>1, <1>2, <1>5, <1>6, <1>8, LookupsStay
<1> QED BY <1>1, <1>9, WcCalled

LEMMA GetsWc == ASSUME Inv, WcInv, Gets, program = "wc" PROVE WcInv'
<1> DEFINE n == Len(todo)
           name == Request(Call.uri).name
<1>1. /\ todo # <<>> /\ Call.op = "get" /\ todo' = Tail(todo)
      /\ lwnbd_get_context(name, Request(Call.uri).params # <<>>)
      /\ file' = IF Call.var = "file" THEN ret' ELSE file
      /\ sink' = IF Call.var = "sink" THEN ret' ELSE sink
      /\ UNCHANGED <<fixed, offset, count, done, spoilt>>
  BY DEF Gets, At
<1>2. ListInv /\ LookupsInv /\ arg' = arg
  BY <1>1 DEF WcInv, fixed
<1>3. UNCHANGED <<contexts, contexts_status, plugins>>
  BY <1>1 DEF lwnbd_get_context, tables
<1>4. (n = 4 /\ Call.var = "file") \/ (n = 1 /\ Call.var = "sink" /\ name = "api")
  <2>1. Call.op # "init" /\ Call.op # "new"
    BY <1>1
  <2>2. \/ n = 4 /\ Call.var = "file"
        \/ n = 1 /\ Call.var = "sink" /\ Call.uri = <<"api", "?", "wc">>
    BY <1>1, <1>2, <2>1, WcCall
  <2> QED BY <2>2, ApiName
<1>5. Len(todo') = n - 1
  BY <1>1, <1>2, ListTail
<1>6. ret' # NULL =>
          /\ ret' \in Index /\ contexts_status[ret'] = "CREATED" /\ contexts[ret'].name = name
          /\ \E s \in Slot : contexts[ret'].p = plugins[s] /\ plugins[s] # NoDriver
  BY <1>1, GetCall DEF Inv
<1> HIDE DEF name
<1>7. ret' # NULL => contexts[ret'].p = "file" \/ (n < 3 /\ contexts[ret'].p = "command")
  BY <1>2, <1>6 DEF LookupsInv
<1>8. \A s \in Slot : \/ plugins'[s] \in {NoDriver, "file"}
                      \/ Len(todo') < 3 /\ plugins'[s] = "command"
  <2>1. n < 3 => Len(todo') < 3
    BY <1>4, <1>5
  <2> QED BY <1>2, <1>3, <2>1 DEF LookupsInv
<1>9. FileExport' = FileExport
  BY <1>2 DEF FileExport
<1>10. CASE n = 4 /\ Call.var = "file"
  <2>1. file' = ret' /\ sink' = sink /\ ~(n < 3)
    BY <1>1, <1>10
  <2>2. LookupsInv'
    BY <1>2, <1>3, <1>6, <1>7, <1>8, <1>9, <2>1 DEF LookupsInv
  <2> QED BY <1>1, <2>2, WcCalled
<1>11. CASE n = 1 /\ Call.var = "sink" /\ name = "api"
  <2>1. sink' = ret' /\ file' = file
    BY <1>1, <1>11
  <2>2. LookupsInv'
    BY <1>2, <1>3, <1>6, <1>7, <1>8, <1>9, <1>11, <2>1 DEF LookupsInv
  <2> QED BY <1>1, <2>2, WcCalled
<1> QED BY <1>4, <1>10, <1>11

LEMMA WcUnchanged ==
    ASSUME WcInv, UNCHANGED own, UNCHANGED <<contexts, contexts_status, plugins>>
    PROVE  WcInv'
<1>1. UNCHANGED <<program, arg, size, todo, file, sink, offset, count, done, spoilt>>
  BY DEF own, fixed
<1>2. SUFFICES ASSUME program = "wc", ListInv, LookupsInv, TurnsInv
               PROVE  ListInv' /\ LookupsInv' /\ TurnsInv'
  BY <1>1 DEF WcInv
<1>3. ListInv'
  <2>1. WcCalls(arg)' = WcCalls(arg)
    BY <1>1 DEF WcCalls, ReaderCalls
  <2> QED BY <1>1, <1>2, <2>1 DEF ListInv
<1>4. LookupsInv'
  BY <1>1, <1>2 DEF LookupsInv, FileExport
<1>5. TurnsInv'
  BY <1>1, <1>2 DEF TurnsInv, Passed
<1> QED BY <1>3, <1>4, <1>5

LEMMA TurnsWc == ASSUME Inv, WcInv, WcTurn PROVE WcInv'
<1>1. program = "wc" /\ todo = <<>> /\ ~done
  BY DEF WcTurn, Looping
<1>2. ListInv /\ LookupsInv /\ TurnsInv
  BY <1>1 DEF WcInv
<1>3. CASE FollowsNull(file)
  BY <1>3, WcUnchanged DEF FollowsNull, tables
<1>4. CASE ~FollowsNull(file)
  <2>1. /\ file # NULL /\ sink # NULL
        /\ offset' = offset + 1
        /\ count' = IF offset < size /\ contexts[sink].p = "command" THEN count + 1 ELSE count
        /\ spoilt' = IF offset < size /\ contexts[sink].p = "file" THEN spoilt + 1 ELSE spoilt
        /\ done' = (offset >= size)
        /\ UNCHANGED <<vars, fixed, todo, file, sink>>
    BY <1>4 DEF WcTurn, CountsAfter
  <2>2. UNCHANGED <<program, arg, size, contexts, contexts_status, plugins>>
    BY <2>1 DEF vars, tables, fixed
  <2>3. ListInv'
    <3>1. WcCalls(arg)' = WcCalls(arg)
      BY <2>2 DEF WcCalls, ReaderCalls
    <3> QED BY <1>2, <2>1, <2>2, <3>1 DEF ListInv
  <2>4. LookupsInv'
    BY <1>2, <2>1, <2>2 DEF LookupsInv, FileExport
  <2>5. size \in Nat /\ offset \in Nat /\ offset <= size
    BY <1>1, <1>2 DEF TurnsInv
  <2>6. /\ contexts[sink].p = "command" => count = offset /\ spoilt = 0
        /\ contexts[sink].p = "file" => count = 0 /\ spoilt = offset
    BY <1>1, <1>2, <2>1 DEF TurnsInv, Passed
  <2>7. CASE offset < size
    <3>1. ~done' /\ offset' \in Nat /\ offset' <= size
      <4>1. ~(offset >= size)
        BY <2>5, <2>7
      <4>2. ~done'
        BY <2>1, <4>1, Zenon
      <4>3. offset' \in Nat /\ offset' <= size
        BY <2>5, <2>7, <2>1
      <4> QED BY <4>2, <4>3
    <3>2. contexts[sink].p = "command" => count' = offset' /\ spoilt' = 0
      BY <2>1, <2>6, <2>7
    <3>3. contexts[sink].p = "file" => count' = 0 /\ spoilt' = offset'
      BY <2>1, <2>6, <2>7
    <3> QED BY <1>1, <2>1, <2>2, <2>3, <2>4, <2>5, <3>1, <3>2, <3>3 DEF WcInv, TurnsInv, Passed
  <2>8. CASE ~(offset < size)
    <3>1. done' /\ offset = size /\ offset' \in Nat
      <4>1. offset >= size
        BY <2>5, <2>8
      <4>2. done'
        BY <2>1, <4>1, Zenon
      <4>3. offset = size /\ offset' \in Nat
        BY <2>5, <2>8, <2>1
      <4> QED BY <4>2, <4>3
    <3>2. count' = count /\ spoilt' = spoilt
      BY <2>1, <2>8
    <3> QED BY <1>1, <2>1, <2>2, <2>3, <2>4, <2>5, <2>6, <3>1, <3>2 DEF WcInv, TurnsInv, Passed
  <2> QED BY <2>7, <2>8
<1> QED BY <1>3, <1>4

LEMMA TurnsReader == ASSUME ReaderInv, ReaderTurn PROVE ReaderInv'
<1>1. program = "reader" /\ ~done /\ size \in Nat /\ offset \in Nat /\ count = offset /\ offset <= size
  BY DEF ReaderTurn, Looping, ReaderInv
<1>2. CASE FollowsNull(file)
  BY <1>2 DEF FollowsNull, own, fixed, ReaderInv
<1>3. CASE ~FollowsNull(file)
  <2>1. /\ offset' = offset + 1 /\ count' = count + 1 /\ done' = (offset >= size)
        /\ size' = size
    BY <1>3 DEF ReaderTurn, fixed
  <2>2. CASE offset < size
    <3>1. ~done' /\ count' = offset' /\ offset' <= size /\ offset' \in Nat
      <4>1. ~(offset >= size)
        BY <1>1, <2>2
      <4>2. ~done'
        BY <2>1, <4>1, Zenon
      <4>3. count' = offset' /\ offset' <= size /\ offset' \in Nat
        BY <1>1, <2>2, <2>1
      <4> QED BY <4>2, <4>3
    <3> QED BY <1>1, <2>1, <3>1 DEF ReaderInv
  <2>3. CASE ~(offset < size)
    <3>1. done' /\ count' = size + 1 /\ offset' \in Nat
      <4>1. offset >= size
        BY <1>1, <2>3
      <4>2. done'
        BY <2>1, <4>1, Zenon
      <4>3. count' = size + 1 /\ offset' \in Nat
        BY <1>1, <2>3, <2>1
      <4> QED BY <4>2, <4>3
    <3> QED BY <1>1, <2>1, <3>1 DEF ReaderInv
  <2> QED BY <2>2, <2>3
<1> QED BY <1>2, <1>3

LEMMA InitCounts == ASSUME Init PROVE ReaderInv /\ WcInv
<1>1. offset = 0 /\ count = 0 /\ ~done /\ spoilt = 0 /\ file = NULL /\ sink = NULL
  BY DEF Init
<1>2. program \in {"reader", "wc"} => size \in Nat
  BY SizesAssumption DEF Init
<1>3. ReaderInv
  BY <1>1, <1>2 DEF ReaderInv
<1>4. ASSUME program = "wc" PROVE ListInv /\ LookupsInv /\ TurnsInv
  <2>1. todo = WcCalls(arg)
    BY <1>4 DEF Init, Calls
  <2>2. Len(todo) = 6
    BY <2>1, WcList
  <2>3. ListInv
    <3>1. \A k \in 1 .. 6 : 6 - 6 + k = k
      OBVIOUS
    <3> QED BY <2>1, <2>2, <3>1 DEF ListInv
  <2>4. /\ \A s \in Slot : plugins[s] = NoDriver
        /\ \A i \in Index : contexts_status[i] # "CREATED"
    BY DEF Init, PluginsInit, ContextsInit
  <2>5. LookupsInv
    BY <1>1, <2>4 DEF LookupsInv
  <2>6. TurnsInv
    BY <1>1, <1>2, <1>4 DEF TurnsInv
  <2> QED BY <2>3, <2>5, <2>6
<1> QED BY <1>3, <1>4 DEF WcInv

\* Loads, Makes and Gets leave the counts alone; the other programs have their own loops.
LEMMA StepCounts ==
    ASSUME Inv, ReaderInv, WcInv, [Next]_allVars
    PROVE  ReaderInv' /\ WcInv'
<1>1. ASSUME UNCHANGED <<fixed, offset, count, done>> PROVE ReaderInv'
  BY <1>1 DEF ReaderInv, fixed
<1>2. ASSUME program' = program, program # "wc" PROVE WcInv'
  BY <1>2 DEF WcInv
<1>3. ASSUME program' = program, program # "reader" PROVE ReaderInv'
  BY <1>3 DEF ReaderInv
<1>4. CASE Loads
  <2>1. UNCHANGED <<fixed, offset, count, done>> /\ program' = program
    BY <1>4 DEF Loads, fixed
  <2> QED BY <1>1, <1>2, <1>4, <2>1, LoadsWc
<1>5. CASE Loaded
  <2>1. UNCHANGED <<fixed, offset, count, done>> /\ program' = program
    BY <1>5 DEF Loaded, fixed
  <2>2. program # "wc"
    <3>1. todo # <<>> /\ Call.op = "init if NULL"
      BY <1>5 DEF Loaded, At
    <3>2. ASSUME program = "wc" PROVE Call.op \in {"init", "new", "get"}
      <4>1. ListInv
        BY <3>2 DEF WcInv
      <4> QED BY <3>1, <4>1, WcCall
    <3> QED BY <3>1, <3>2
  <2> QED BY <1>1, <1>2, <2>1, <2>2
<1>6. CASE Makes
  <2>1. UNCHANGED <<fixed, offset, count, done>> /\ program' = program
    BY <1>6 DEF Makes, fixed
  <2> QED BY <1>1, <1>2, <1>6, <2>1, MakesWc
<1>7. CASE Gets
  <2>1. UNCHANGED <<fixed, offset, count, done>> /\ program' = program
    BY <1>7 DEF Gets, fixed
  <2> QED BY <1>1, <1>2, <1>7, <2>1, GetsWc
<1>8. CASE ReaderTurn
  <2>1. program' = program /\ program # "wc"
    BY <1>8 DEF ReaderTurn, Looping, FollowsNull, own, fixed
  <2> QED BY <1>2, <1>8, <2>1, TurnsReader
<1>9. CASE WcTurn
  <2>1. program' = program /\ program # "reader"
    BY <1>9 DEF WcTurn, Looping, FollowsNull, own, fixed
  <2> QED BY <1>3, <1>9, <2>1, TurnsWc
<1>10. CASE ShellLoop \/ ShellExits \/ Anything
  <2>1. program' = program /\ program \in {"shell", "any"}
    BY <1>10 DEF ShellLoop, ShellExits, Anything, Looping, own, fixed
  <2> QED BY <1>2, <1>3, <2>1
<1>11. CASE Finished \/ UNCHANGED allVars
  <2>1. UNCHANGED own /\ UNCHANGED <<contexts, contexts_status, plugins>>
    BY <1>11 DEF Finished, allVars, vars, tables
  <2>2. UNCHANGED <<fixed, offset, count, done>>
    BY <2>1 DEF own
  <2> QED BY <1>1, <2>1, <2>2, WcUnchanged
<1> QED BY <1>4, <1>5, <1>6, <1>7, <1>8, <1>9, <1>10, <1>11 DEF Next

LEMMA AlwaysCounts == Spec => []ReaderInv /\ []WcInv
<1>1. Init => ReaderInv /\ WcInv
  BY InitCounts
<1>2. Inv /\ ReaderInv /\ WcInv /\ [Next]_allVars => ReaderInv' /\ WcInv'
  BY StepCounts
<1> QED BY <1>1, <1>2, AlwaysInv, PTL DEF Spec

-----------------------------------------------------------------------------
(* The parser of URIs.                                                        *)

Lacks(s, c) == \A i \in DOMAIN s : s[i] # c
Nothing == <<>>

\* The tokens of strings.
Alphabet(T) == "NULL" \notin T /\ {"/", "?", "#", "&", "="} \subseteq T

LEMMA NullProps ==
    /\ Len(NullString) = 1 /\ NullString[1] = "NULL" /\ DOMAIN NullString = {1}
    /\ \A T : "NULL" \in T => NullString \in Seq(T)
<1> DEFINE x == "NULL"
<1>1. NullString = <<x>>
  BY DEF NullString
<1> HIDE DEF x
<1>2. Len(<<x>>) = 1 /\ <<x>>[1] = x /\ DOMAIN <<x>> = {1}
  OBVIOUS
<1>3. ASSUME NEW T, x \in T PROVE <<x>> \in Seq(T)
  BY <1>3
<1> QED BY <1>1, <1>2, <1>3 DEF x

LEMMA NothingProps ==
    ASSUME NEW T
    PROVE  /\ Nothing \in Seq(T) /\ Len(Nothing) = 0
           /\ \A s \in Seq(T) : s \o Nothing = s /\ Nothing \o s = s
           /\ \A s \in Seq(T) : Len(s) = 0 <=> s = Nothing
           /\ \A c : Preceded(c, NullString) = Nothing
<1>1. Nothing \in Seq(T) /\ Len(Nothing) = 0
  BY DEF Nothing
<1>2. \A s \in Seq(T) : s \o Nothing = s /\ Nothing \o s = s
  BY ConcatEmptySeq DEF Nothing
<1>3. \A c : Preceded(c, NullString) = Nothing
  BY DEF Preceded, Nothing
<1>4. \A s \in Seq(T) : Len(s) = 0 <=> s = Nothing
  BY <1>1, SeqEqual
<1> QED BY <1>1, <1>2, <1>3, <1>4

\* A NULL pointer is no string of the alphabet, and no separator occurs in it.
LEMMA NullLacks ==
    ASSUME NEW T, Alphabet(T)
    PROVE  NullString \notin Seq(T) /\ \A c \in T : Lacks(NullString, c)
<1>1. ASSUME NullString \in Seq(T) PROVE FALSE
  <2>1. NullString[1] \in T
    <3> DEFINE z == NullString
    <3>1. z \in Seq(T) /\ Len(z) = 1
      BY <1>1, NullProps
    <3> HIDE DEF z
    <3>2. z[1] \in T
      BY <3>1
    <3> QED BY <3>2 DEF z
  <2> QED BY <2>1, NullProps DEF Alphabet
<1>2. \A c \in T : c # "NULL"
  BY DEF Alphabet
<1> QED BY <1>1, <1>2, NullProps DEF Lacks

\* strchr gives the first place of a character, or 0.
LEMMA StrchrProps ==
    ASSUME NEW S, NEW s \in Seq(S), NEW c
    PROVE  /\ strchr(s, c) \in 0 .. Len(s)
           /\ strchr(s, c) = 0 <=> Lacks(s, c)
           /\ strchr(s, c) # 0 => /\ s[strchr(s, c)] = c
                                  /\ \A j \in 1 .. strchr(s, c) - 1 : s[j] # c
<1>1. CASE Lacks(s, c)
  BY <1>1 DEF Lacks, strchr
<1>2. CASE ~Lacks(s, c)
  <2> DEFINE P == {i \in DOMAIN s : s[i] = c}
  <2>1. P \in SUBSET Nat /\ P # {}
    BY <1>2 DEF Lacks
  <2>2. PICK m \in P : \A n \in P : m <= n
    BY <2>1, LeastNat
  <2>3. m \in DOMAIN s /\ s[m] = c /\ \A j \in 1 .. m - 1 : s[j] # c
    BY <2>2
  <2>4. strchr(s, c) = CHOOSE i \in DOMAIN s : s[i] = c /\ \A j \in 1 .. i - 1 : s[j] # c
    BY <2>3 DEF strchr
  <2>5. /\ strchr(s, c) \in DOMAIN s /\ s[strchr(s, c)] = c
        /\ \A j \in 1 .. strchr(s, c) - 1 : s[j] # c
    BY <2>3, <2>4
  <2> QED BY <1>2, <2>5
<1> QED BY <1>1, <1>2

\* A string is what the '\0' leaves of it, the separator, and what is behind it.
IsCut(T, s, c, left, next) ==
    /\ left \in Seq(T) /\ Lacks(left, c)
    /\ next \in Seq(T) \cup {NullString}
    /\ s = left \o Preceded(c, next)
    /\ Preceded(c, next) \in Seq(T)
    /\ next = NullString <=> Lacks(s, c)
    /\ next = NullString => left = s
    /\ \A d : Lacks(s, d) => Lacks(left, d) /\ (next # NullString => Lacks(next, d))

\* find_and_terminate cuts at the first occurrence of the separator, or not at all.
LEMMA CutProps ==
    ASSUME NEW T, Alphabet(T), NEW s \in Seq(T), NEW c \in T
    PROVE  IsCut(T, s, c, find_and_terminate(s, c).left, find_and_terminate(s, c).next)
<1> DEFINE i == strchr(s, c)
<1>1. i \in 0 .. Len(s) /\ (i = 0 <=> Lacks(s, c))
      /\ (i # 0 => s[i] = c /\ \A j \in 1 .. i - 1 : s[j] # c)
  BY StrchrProps
<1>2. CASE i = 0
  <2>1. find_and_terminate(s, c) = [left |-> s, next |-> NullString]
    BY <1>2 DEF find_and_terminate
  <2>2. Preceded(c, NullString) = Nothing /\ s \o Nothing = s /\ Nothing \in Seq(T)
    BY NothingProps
  <2>3. Lacks(s, c)
    BY <1>1, <1>2
  <2> QED BY <2>1, <2>2, <2>3 DEF IsCut
<1>3. CASE i # 0
  <2> DEFINE l == SubSeq(s, 1, i - 1)
             n == SubSeq(s, i + 1, Len(s))
  <2>1. find_and_terminate(s, c) = [left |-> l, next |-> n]
    BY <1>3 DEF find_and_terminate
  <2> HIDE DEF i
  <2>2. l \in Seq(T) /\ Len(l) = i - 1 /\ \A j \in 1 .. i - 1 : l[j] = s[j]
    BY <1>1, <1>3
  <2>3. n \in Seq(T) /\ Len(n) = Len(s) - i /\ \A j \in 1 .. Len(s) - i : n[j] = s[i + j]
    BY <1>1, <1>3
  <2>4. n # NullString
    BY <2>3, NullLacks
  <2> HIDE DEF l, n
  <2>5. Preceded(c, n) = <<c>> \o n
    BY <2>4 DEF Preceded
  <2>6. <<c>> \o n \in Seq(T) /\ Len(<<c>> \o n) = 1 + Len(n)
        /\ \A j \in 1 .. 1 + Len(n) : (<<c>> \o n)[j] = IF j = 1 THEN c ELSE n[j - 1]
    BY <2>3
  <2> DEFINE t == <<c>> \o n
  <2> HIDE DEF t
  <2>6a. t \in Seq(T) /\ Len(t) = 1 + Len(n)
        /\ \A j \in 1 .. 1 + Len(n) : t[j] = IF j = 1 THEN c ELSE n[j - 1]
    BY <2>6 DEF t
  <2>7. s = l \o t
    <3>1. l \o t \in Seq(T) /\ Len(l \o t) = Len(s)
      <4>1. Len(l) \in Nat /\ Len(n) \in Nat /\ Len(l) + Len(t) = Len(s)
        BY <2>2, <2>3, <2>6a, <1>1
      <4> QED BY <4>1, <2>2, <2>6a, ConcatProperties
    <3>2. ASSUME NEW j \in 1 .. Len(s) PROVE (l \o t)[j] = s[j]
      <4>1. CASE j <= i - 1
        BY <4>1, <2>2, <2>6a, <1>1
      <4>2. CASE j = i
        <5>1. Len(n) \in Nat /\ Len(l) = i - 1 /\ i \in Nat /\ l \in Seq(T)
          BY <2>2, <2>3, <1>1
        <5>2. (l \o t)[j] = t[1]
          BY <4>2, <5>1, <2>6a
        <5>3. t[1] = c
          BY <5>1, <2>6a
        <5> QED BY <4>2, <5>2, <5>3, <1>1, <1>3
      <4>3. CASE j > i
        <5>1. j - i \in 1 .. Len(s) - i
          BY <4>3, <1>1
        <5>2. (l \o t)[j] = t[j - (i - 1)]
          BY <4>3, <2>2, <2>3, <2>6a, <1>1
        <5>3. t[j - (i - 1)] = n[j - i]
          BY <5>1, <2>3, <2>6a, <1>1
        <5>4. n[j - i] = s[i + (j - i)]
          BY <5>1, <2>3
        <5> QED BY <5>2, <5>3, <5>4, <1>1
      <4>4. i \in Int /\ j \in Int
        BY <1>1
      <4>5. j <= i - 1 \/ j = i \/ j > i
        BY <4>4
      <4> QED BY <4>1, <4>2, <4>3, <4>5, Zenon
    <3> QED BY <3>1, <3>2, SeqEqual
  <2>8. Lacks(l, c) /\ ~Lacks(s, c)
    BY <1>1, <1>3, <2>2 DEF Lacks
  <2>9. ASSUME NEW d, Lacks(s, d) PROVE Lacks(l, d) /\ Lacks(n, d)
    <3>1. Lacks(l, d)
      BY <1>1, <2>2, <2>9 DEF Lacks
    <3>2. ASSUME NEW j \in DOMAIN n PROVE n[j] # d
      <4>1. j \in 1 .. Len(s) - i /\ i + j \in DOMAIN s
        BY <1>1, <2>3
      <4> QED BY <4>1, <2>3, <2>9 DEF Lacks
    <3> QED BY <3>1, <3>2 DEF Lacks
  <2>10. Preceded(c, n) = t
    BY <2>5 DEF t
  <2> HIDE DEF t
  <2>11. \A d : Lacks(s, d) => Lacks(l, d) /\ Lacks(n, d)
    BY <2>9
  <2>12. find_and_terminate(s, c).left = l /\ find_and_terminate(s, c).next = n
    BY <2>1
  <2> QED BY <2>12, <2>2, <2>3, <2>4, <2>6a, <2>7, <2>8, <2>10, <2>11 DEF IsCut
<1> QED BY <1>2, <1>3

IsRest(f, query, delimiter, n) ==
    f = [i \in 0 .. n |->
            IF i = 0 THEN query
            ELSE IF f[i - 1] = NullString THEN NullString
            ELSE find_and_terminate(f[i - 1], delimiter).next]
PieceCount(f, n) == Cardinality({i \in 0 .. n - 1 : f[i] # NullString})
Piece(f, delimiter, n, i) ==
    IF i = PieceCount(f, n) THEN f[i - 1] ELSE find_and_terminate(f[i - 1], delimiter).left

\* What is left after each delimiter is well defined.
LEMMA RestExists ==
    ASSUME NEW query, NEW delimiter, NEW n \in Nat
    PROVE  \E f : IsRest(f, query, delimiter, n)
<1> DEFINE Bad == {m \in Nat : ~\E f : IsRest(f, query, delimiter, m)}
<1> SUFFICES ASSUME Bad # {} PROVE FALSE
  OBVIOUS
<1>1. PICK m \in Bad : \A k \in Bad : m <= k
  BY LeastNat
<1>2. m # 0
  <2> DEFINE f == [i \in 0 .. 0 |-> query]
  <2>1. IsRest(f, query, delimiter, 0)
    BY DEF IsRest
  <2> QED BY <1>1, <2>1
<1>3. m - 1 \in Nat /\ m - 1 \notin Bad
  BY <1>1, <1>2
<1>4. PICK f : IsRest(f, query, delimiter, m - 1)
  BY <1>3
<1> DEFINE last == IF f[m - 1] = NullString THEN NullString
                   ELSE find_and_terminate(f[m - 1], delimiter).next
           g == [i \in 0 .. m |-> IF i = m THEN last ELSE f[i]]
<1>5. \A i \in 0 .. m - 1 : f[i] = IF i = 0 THEN query
                                   ELSE IF f[i - 1] = NullString THEN NullString
                                   ELSE find_and_terminate(f[i - 1], delimiter).next
  BY <1>4 DEF IsRest
<1>6. ASSUME NEW i \in 0 .. m
      PROVE  g[i] = IF i = 0 THEN query
                    ELSE IF g[i - 1] = NullString THEN NullString
                    ELSE find_and_terminate(g[i - 1], delimiter).next
  <2>1. CASE i = m
    BY <1>2, <1>3, <2>1
  <2>2. CASE i = 0
    BY <1>2, <1>5, <2>2
  <2>3. CASE i # 0 /\ i # m
    <3>1. i \in 0 .. m - 1 /\ i - 1 \in 0 .. m - 1
      BY <2>3, <1>3
    <3>2. g[i] = f[i] /\ g[i - 1] = f[i - 1]
      BY <3>1, <2>3
    <3> QED BY <3>1, <3>2, <2>3, <1>5
  <2> QED BY <2>1, <2>2, <2>3
<1>7. IsRest(g, query, delimiter, m)
  BY <1>6 DEF IsRest
<1> QED BY <1>1, <1>7

\* The parameters are the pieces that the delimiters leave.
LEMMA QueryUnfolds ==
    ASSUME NEW query, NEW delimiter, NEW n \in Nat, query # NullString, query # Nothing
    PROVE  \E f : /\ IsRest(f, query, delimiter, n)
                  /\ yuarel_parse_query(query, delimiter, n) =
                        [i \in 1 .. PieceCount(f, n) |-> Param(Piece(f, delimiter, n, i))]
<1> DEFINE rest == CHOOSE f : f = [i \in 0 .. n |->
            IF i = 0 THEN query
            ELSE IF f[i - 1] = NullString THEN NullString
            ELSE find_and_terminate(f[i - 1], delimiter).next]
<1>0. \E f : IsRest(f, query, delimiter, n)
  BY RestExists
<1>1. IsRest(rest, query, delimiter, n)
  BY <1>0 DEF IsRest
<1>2. query # <<>>
  BY DEF Nothing
<1>3. yuarel_parse_query(query, delimiter, n) =
                        [i \in 1 .. PieceCount(rest, n) |-> Param(Piece(rest, delimiter, n, i))]
  BY <1>2 DEF yuarel_parse_query, PieceCount, Piece
<1> QED BY <1>1, <1>3

\* What is left ends in NULL for good, and the pieces are counted up to there.
LEMMA RestProps ==
    ASSUME NEW T, Alphabet(T), NEW query \in Seq(T), NEW delimiter \in T,
           NEW n \in Nat \ {0}, NEW f, IsRest(f, query, delimiter, n)
    PROVE  LET k == PieceCount(f, n)
           IN  /\ k \in 1 .. n /\ f[0] = query
               /\ \A i \in 0 .. k - 1 : f[i] \in Seq(T)
               /\ \A i \in 1 .. k - 1 : f[i] = find_and_terminate(f[i - 1], delimiter).next
               /\ k < n => find_and_terminate(f[k - 1], delimiter).next = NullString
<1>1. \A i \in 0 .. n : f[i] = IF i = 0 THEN query
                               ELSE IF f[i - 1] = NullString THEN NullString
                               ELSE find_and_terminate(f[i - 1], delimiter).next
  BY DEF IsRest
<1> DEFINE Ends == {i \in 0 .. n : i = n \/ f[i] = NullString}
<1>2. n \in Ends /\ Ends \in SUBSET Nat
  OBVIOUS
<1>3. PICK k \in Ends : \A i \in Ends : k <= i
  BY <1>2, LeastNat
<1>4. \A i \in 0 .. k - 1 : f[i] # NullString
  BY <1>3
<1>5. k \in 0 .. n /\ (k < n => f[k] = NullString)
  BY <1>3
<1>6. f[0] = query /\ query # NullString
  BY <1>1, NullLacks
<1>7. k # 0
  BY <1>5, <1>6
<1> HIDE DEF Ends
<1>8. \A i \in 0 .. k - 1 : f[i] \in Seq(T)
  <2> DEFINE Bad == {i \in 0 .. k - 1 : f[i] \notin Seq(T)}
  <2> SUFFICES ASSUME Bad # {} PROVE FALSE
    OBVIOUS
  <2>1. PICK m \in Bad : \A i \in Bad : m <= i
    <3>1. Bad \in SUBSET Nat
      BY <1>5
    <3> HIDE DEF Bad
    <3> QED BY <3>1, LeastNat
  <2>2. m # 0
    BY <1>6, <2>1
  <2>3. m - 1 \in 0 .. k - 1 /\ m \in 0 .. k - 1 /\ m \in 0 .. n
    BY <1>5, <2>1, <2>2
  <2>4. f[m - 1] \in Seq(T) /\ f[m - 1] # NullString /\ f[m] # NullString /\ f[m] \notin Seq(T)
    BY <1>4, <2>1, <2>3
  <2>5. f[m] = find_and_terminate(f[m - 1], delimiter).next
    BY <1>1, <2>2, <2>3, <2>4
  <2>6. find_and_terminate(f[m - 1], delimiter).next \in Seq(T) \cup {NullString}
    BY <2>4, CutProps DEF IsCut
  <2> QED BY <2>4, <2>5, <2>6
<1>9. \A i \in k .. n - 1 : f[i] = NullString
  <2> DEFINE Bad == {i \in k .. n - 1 : f[i] # NullString}
  <2> SUFFICES ASSUME Bad # {} PROVE FALSE
    OBVIOUS
  <2>1. PICK m \in Bad : \A i \in Bad : m <= i
    <3>1. Bad \in SUBSET Nat
      BY <1>5
    <3> HIDE DEF Bad
    <3> QED BY <3>1, LeastNat
  <2>2. m # k
    BY <1>5, <2>1
  <2>3. m - 1 \in k .. n - 1 /\ m \in 0 .. n /\ m # 0
    BY <1>5, <2>1, <2>2
  <2>4. f[m - 1] = NullString /\ f[m] # NullString
    BY <2>1, <2>3
  <2> QED BY <1>1, <2>3, <2>4
<1>10. {i \in 0 .. n - 1 : f[i] # NullString} = 0 .. k - 1
  BY <1>4, <1>5, <1>9
<1>11. Cardinality(0 .. k - 1) = k
  BY <1>5, <1>7, FS_Interval
<1>12. PieceCount(f, n) = k
  BY <1>10, <1>11 DEF PieceCount
<1>13. \A i \in 1 .. k - 1 : f[i] = find_and_terminate(f[i - 1], delimiter).next
  <2> TAKE i \in 1 .. k - 1
  <2>1. i \in 0 .. n /\ i - 1 \in 0 .. k - 1 /\ i # 0
    BY <1>5
  <2> QED BY <1>1, <1>4, <2>1
<1>14. k < n => find_and_terminate(f[k - 1], delimiter).next = NullString
  <2> HAVE k < n
  <2>1. k \in 0 .. n /\ k - 1 \in 0 .. k - 1
    BY <1>5, <1>7
  <2> QED BY <1>1, <1>4, <1>5, <1>7, <2>1
<1>15. k \in 1 .. n
  BY <1>5, <1>7
<1> QED BY <1>6, <1>8, <1>12, <1>13, <1>14, <1>15

\* A parameter is its key, and what follows the '='.
LEMMA ParamProps ==
    ASSUME NEW T, Alphabet(T), NEW s \in Seq(T)
    PROVE  /\ Param(s).key \in Seq(T) /\ Preceded("=", Param(s).val) \in Seq(T)
           /\ Param(s).val \in Seq(T) \cup {NullString}
           /\ Param(s).key \o Preceded("=", Param(s).val) = s
           /\ strchr(Param(s).key, "=") = 0
           /\ \A d \in T : Lacks(s, d) => strchr(Param(s).key \o Param(s).val, d) = 0
<1> DEFINE cut == find_and_terminate(s, "=")
<1>1. Param(s).key = cut.left /\ Param(s).val = cut.next
  BY DEF Param
<1>2. "=" \in T
  BY DEF Alphabet
<1>3. /\ cut.left \in Seq(T) /\ Lacks(cut.left, "=")
      /\ cut.next \in Seq(T) \cup {NullString}
      /\ s = cut.left \o Preceded("=", cut.next)
      /\ Preceded("=", cut.next) \in Seq(T)
      /\ \A d : Lacks(s, d) => Lacks(cut.left, d) /\ (cut.next # NullString => Lacks(cut.next, d))
  <2>1. IsCut(T, s, "=", cut.left, cut.next)
    BY <1>2, CutProps
  <2> HIDE DEF cut
  <2> QED BY <2>1 DEF IsCut
<1> HIDE DEF cut
<1>4. strchr(cut.left, "=") = 0
  BY <1>3, StrchrProps
<1>5. ASSUME NEW d \in T, Lacks(s, d) PROVE strchr(cut.left \o cut.next, d) = 0
  <2> DEFINE S == T \cup {"NULL"}
             l == cut.left
             v == cut.next
  <2>1. v \in Seq(S)
    <3>1. CASE v = NullString
      BY <3>1, NullProps
    <3>2. CASE v \in Seq(T)
      BY <3>2
    <3> QED BY <1>3, <3>1, <3>2
  <2>2. l \in Seq(S)
    BY <1>3
  <2>3. Lacks(l, d) /\ Lacks(v, d)
    BY <1>3, <1>5, NullLacks
  <2> HIDE DEF l, v, S
  <2>4. l \o v \in Seq(S) /\ Len(l \o v) = Len(l) + Len(v)
        /\ \A i \in 1 .. Len(l) + Len(v) : (l \o v)[i] = IF i <= Len(l) THEN l[i] ELSE v[i - Len(l)]
    BY <2>1, <2>2, ConcatProperties
  <2>5. Lacks(l \o v, d)
    <3>1. ASSUME NEW i \in 1 .. Len(l) + Len(v) PROVE (l \o v)[i] # d
      <4>1. CASE i <= Len(l)
        BY <2>2, <2>3, <2>4, <4>1 DEF Lacks
      <4>2. CASE ~(i <= Len(l))
        <5>1. i - Len(l) \in DOMAIN v
          BY <2>1, <2>2, <4>2
        <5> QED BY <2>3, <2>4, <4>2, <5>1 DEF Lacks
      <4> QED BY <4>1, <4>2
    <3>2. DOMAIN (l \o v) = 1 .. Len(l) + Len(v)
      BY <2>4
    <3> QED BY <3>1, <3>2 DEF Lacks
  <2>6. strchr(l \o v, d) = 0
    BY <2>4, <2>5, StrchrProps
  <2> QED BY <2>6 DEF l, v
<1> QED BY <1>1, <1>3, <1>4, <1>5

\* The pieces: each is what precedes the next delimiter, and the last is all that is left.
IsPiece(T, f, delimiter, n, i, p) ==
    /\ p \in Seq(T)
    /\ i < n => Lacks(p, delimiter)
    /\ IF i = PieceCount(f, n) THEN f[i - 1] = p
       ELSE f[i] \in Seq(T) /\ f[i - 1] = p \o (<<delimiter>> \o f[i])

\* What a parameter of a query is: the text up to the next delimiter, or the whole
\* rest when the table is full.
LEMMA PieceProps ==
    ASSUME NEW T, Alphabet(T), NEW query \in Seq(T), NEW delimiter \in T,
           NEW n \in Nat \ {0}, NEW f, IsRest(f, query, delimiter, n),
           NEW i \in 1 .. PieceCount(f, n)
    PROVE  IsPiece(T, f, delimiter, n, i, Piece(f, delimiter, n, i))
<1> DEFINE k == PieceCount(f, n)
           cut == find_and_terminate(f[i - 1], delimiter)
<1>1. /\ k \in 1 .. n
      /\ \A j \in 0 .. k - 1 : f[j] \in Seq(T)
      /\ \A j \in 1 .. k - 1 : f[j] = find_and_terminate(f[j - 1], delimiter).next
      /\ k < n => find_and_terminate(f[k - 1], delimiter).next = NullString
  BY RestProps
<1> HIDE DEF k
<1>2. i \in 1 .. k /\ i - 1 \in 0 .. k - 1 /\ f[i - 1] \in Seq(T)
  BY <1>1 DEF k
<1>3. IsCut(T, f[i - 1], delimiter, cut.left, cut.next)
  BY <1>2, CutProps
<1>4. CASE i = k
  <2>1. Piece(f, delimiter, n, i) = f[i - 1]
    BY <1>4 DEF Piece, k
  <2>2. i < n => cut.next = NullString
    BY <1>1, <1>4
  <2> HIDE DEF cut
  <2>3. i < n => Lacks(f[i - 1], delimiter)
    BY <1>3, <2>2 DEF IsCut
  <2> QED BY <1>2, <1>4, <2>1, <2>3 DEF k, IsPiece
<1>5. CASE i # k
  <2>1. Piece(f, delimiter, n, i) = cut.left
    BY <1>5 DEF Piece, k
  <2>2. i \in 1 .. k - 1 /\ i \in 0 .. k - 1
    BY <1>1, <1>2, <1>5
  <2>3. f[i] = cut.next /\ f[i] \in Seq(T)
    BY <1>1, <2>2
  <2> HIDE DEF cut
  <2>4. f[i] # NullString
    BY <2>3, NullLacks
  <2>5. Preceded(delimiter, f[i]) = <<delimiter>> \o f[i]
    BY <2>4 DEF Preceded
  <2> QED BY <1>3, <1>5, <2>1, <2>3, <2>5 DEF k, IsCut, IsPiece
<1> QED BY <1>4, <1>5

\* The parameters up to the i-th put together again, from those before it.
Sep(delimiter, i) == IF i = 1 THEN Nothing ELSE <<delimiter>>
Extended(params, delimiter, before, i) ==
    before \o Sep(delimiter, i) \o params[i].key \o Preceded("=", params[i].val)
IsJoin(g, params, delimiter, n) ==
    g = [i \in 0 .. n |-> IF i = 0 THEN Nothing ELSE Extended(params, delimiter, g[i - 1], i)]

\* The recursive function that puts parameters together exists, for any number of them.
LEMMA JoinExists ==
    ASSUME NEW params, NEW delimiter, NEW n \in Nat
    PROVE  \E g : IsJoin(g, params, delimiter, n)
<1> DEFINE Bad == {m \in Nat : ~\E g : IsJoin(g, params, delimiter, m)}
<1> SUFFICES ASSUME Bad # {} PROVE FALSE
  OBVIOUS
<1>1. PICK m \in Bad : \A k \in Bad : m <= k
  BY LeastNat
<1>2. m # 0
  <2> DEFINE g == [i \in 0 .. 0 |-> Nothing]
  <2>1. IsJoin(g, params, delimiter, 0)
    BY DEF IsJoin
  <2> QED BY <1>1, <2>1
<1>3. m - 1 \in Nat /\ m - 1 \notin Bad
  BY <1>1, <1>2
<1>4. PICK f : IsJoin(f, params, delimiter, m - 1)
  BY <1>3
<1> DEFINE last == Extended(params, delimiter, f[m - 1], m)
           g == [i \in 0 .. m |-> IF i = m THEN last ELSE f[i]]
<1>5. \A i \in 0 .. m - 1 :
          f[i] = IF i = 0 THEN Nothing ELSE Extended(params, delimiter, f[i - 1], i)
  BY <1>4 DEF IsJoin
<1>6. ASSUME NEW i \in 0 .. m
      PROVE  g[i] = IF i = 0 THEN Nothing ELSE Extended(params, delimiter, g[i - 1], i)
  <2>1. CASE i = m
    BY <1>2, <1>3, <2>1
  <2>2. CASE i = 0
    BY <1>2, <1>5, <2>2
  <2>3. CASE i # 0 /\ i # m
    <3>1. i \in 0 .. m - 1 /\ i - 1 \in 0 .. m - 1
      BY <2>3, <1>3
    <3>2. g[i] = f[i] /\ g[i - 1] = f[i - 1]
      BY <3>1, <2>3
    <3> QED BY <3>1, <3>2, <2>3, <1>5
  <2> QED BY <2>1, <2>2, <2>3
<1>7. IsJoin(g, params, delimiter, m)
  BY <1>6 DEF IsJoin
<1> QED BY <1>1, <1>7

\* Joined is what that function gives for all of them.
LEMMA JoinUnfolds ==
    ASSUME NEW params, NEW delimiter, Len(params) \in Nat
    PROVE  \E g : /\ IsJoin(g, params, delimiter, Len(params))
                  /\ Joined(params, delimiter) = g[Len(params)]
<1> DEFINE join == CHOOSE g : g = [i \in 0 .. Len(params) |->
            IF i = 0 THEN <<>>
            ELSE g[i - 1] \o (IF i = 1 THEN <<>> ELSE <<delimiter>>)
                 \o params[i].key \o Preceded("=", params[i].val)]
<1>1. \E g : IsJoin(g, params, delimiter, Len(params))
  BY JoinExists
<1>2. IsJoin(join, params, delimiter, Len(params))
  BY <1>1 DEF IsJoin, Extended, Sep, Nothing
<1>3. Joined(params, delimiter) = join[Len(params)]
  BY DEF Joined
<1> QED BY <1>2, <1>3

LEMMA ConcatMoves ==
    ASSUME NEW T, NEW a \in Seq(T), NEW b \in Seq(T), NEW c \in Seq(T)
    PROVE  (a \o b) \o c = a \o (b \o c)
  OBVIOUS

\* The parameters put together again are the query.
LEMMA QueryParses ==
    ASSUME NEW T, Alphabet(T), NEW query \in Seq(T), NEW delimiter \in T, NEW n \in Nat \ {0}
    PROVE  LET params == yuarel_parse_query(query, delimiter, n)
           IN  /\ Joined(params, delimiter) = query
               /\ Len(params) <= n
               /\ \A i \in DOMAIN params :
                     /\ strchr(params[i].key, "=") = 0
                     /\ i < n => strchr(params[i].key \o params[i].val, delimiter) = 0
<1>1. query # NullString
  BY NullLacks
<1>2. CASE query = Nothing
  <2> DEFINE params == yuarel_parse_query(query, delimiter, n)
  <2>1. params = Nothing
    BY <1>2 DEF yuarel_parse_query, Nothing
  <2> HIDE DEF params
  <2>2. Len(params) = 0 /\ DOMAIN params = {}
    BY <2>1 DEF Nothing
  <2>3. PICK g : IsJoin(g, params, delimiter, Len(params)) /\ Joined(params, delimiter) = g[Len(params)]
    BY <2>2, JoinUnfolds
  <2>4. g[0] = Nothing
    BY <2>2, <2>3 DEF IsJoin
  <2> QED BY <1>2, <2>2, <2>3, <2>4 DEF params
<1>3. CASE query # Nothing
  <2> DEFINE params == yuarel_parse_query(query, delimiter, n)
  <2>1. PICK f : /\ IsRest(f, query, delimiter, n)
                 /\ params = [i \in 1 .. PieceCount(f, n) |-> Param(Piece(f, delimiter, n, i))]
    BY <1>1, <1>3, QueryUnfolds
  <2> DEFINE k == PieceCount(f, n)
             p(i) == Piece(f, delimiter, n, i)
             D == <<delimiter>>
  <2>2. k \in 1 .. n /\ f[0] = query
    BY <2>1, RestProps
  <2>3. ASSUME NEW i \in 1 .. k
        PROVE  /\ p(i) \in Seq(T)
               /\ i < n => Lacks(p(i), delimiter)
               /\ IF i = k THEN f[i - 1] = p(i)
                  ELSE f[i] \in Seq(T) /\ f[i - 1] = p(i) \o (D \o f[i])
    <3>1. IsPiece(T, f, delimiter, n, i, p(i))
      BY <2>1, PieceProps
    <3> HIDE DEF p
    <3> QED BY <3>1 DEF IsPiece
  <2> HIDE DEF params, k
  <2>4. params = [i \in 1 .. k |-> Param(p(i))]
    BY <2>1 DEF k
  <2> HIDE DEF p, D
  <2>5. Len(params) = k /\ DOMAIN params = 1 .. k /\ \A i \in 1 .. k : params[i] = Param(p(i))
    <3> DEFINE R == {Param(p(i)) : i \in 1 .. k}
    <3>1. params \in [1 .. k -> R]
      BY <2>4
    <3>2. DOMAIN params = 1 .. k /\ \A i \in 1 .. k : params[i] = Param(p(i))
      BY <2>4
    <3> HIDE DEF R
    <3> QED BY <2>2, <3>1, <3>2
  <2>6. ASSUME NEW i \in 1 .. k
        PROVE  /\ params[i].key \in Seq(T) /\ Preceded("=", params[i].val) \in Seq(T)
               /\ params[i].key \o Preceded("=", params[i].val) = p(i)
               /\ strchr(params[i].key, "=") = 0
               /\ i < n => strchr(params[i].key \o params[i].val, delimiter) = 0
    <3>1. p(i) \in Seq(T) /\ (i < n => Lacks(p(i), delimiter)) /\ params[i] = Param(p(i))
      BY <2>3, <2>5
    <3>2. /\ Param(p(i)).key \in Seq(T) /\ Preceded("=", Param(p(i)).val) \in Seq(T)
          /\ Param(p(i)).key \o Preceded("=", Param(p(i)).val) = p(i)
          /\ strchr(Param(p(i)).key, "=") = 0
          /\ \A d \in T : Lacks(p(i), d) => strchr(Param(p(i)).key \o Param(p(i)).val, d) = 0
      BY <3>1, ParamProps, Zenon
    <3> QED BY <3>1, <3>2
  <2>7. PICK g : IsJoin(g, params, delimiter, k) /\ Joined(params, delimiter) = g[k]
    BY <2>2, <2>5, JoinUnfolds
  <2>8. /\ g[0] = Nothing
        /\ \A i \in 1 .. k : g[i] = Extended(params, delimiter, g[i - 1], i)
    BY <2>2, <2>7 DEF IsJoin
  <2> DEFINE Done(i) == /\ g[i] \in Seq(T)
                        /\ IF i = k THEN g[i] = query ELSE g[i] \o D \o f[i] = query
  <2>9. D \in Seq(T)
    BY DEF D
  <2>10. Done(1)
    <3>1. 1 \in 1 .. k
      BY <2>2
    <3>2. g[1] = Nothing \o Nothing \o params[1].key \o Preceded("=", params[1].val)
      <4>1. g[1] = Extended(params, delimiter, g[1 - 1], 1)
        BY <2>8, <3>1
      <4>2. g[1] = Extended(params, delimiter, Nothing, 1)
        BY <2>8, <4>1
      <4>3. Sep(delimiter, 1) = Nothing
        BY DEF Sep
      <4> QED BY <4>2, <4>3, Zenon DEF Extended
    <3>3. g[1] = p(1)
      <4>1. Nothing \o Nothing = Nothing /\ Nothing \o params[1].key = params[1].key
        BY <2>6, <3>1, NothingProps
      <4> QED BY <2>6, <3>1, <3>2, <4>1
    <3>4. p(1) \in Seq(T) /\ IF 1 = k THEN query = p(1)
                             ELSE f[1] \in Seq(T) /\ query = p(1) \o (D \o f[1])
      BY <2>2, <2>3, <3>1
    <3>5. CASE k = 1
      BY <3>3, <3>4, <3>5
    <3>6. CASE k # 1
      <4>1. p(1) \o D \o f[1] = p(1) \o (D \o f[1])
        <5>1. f[1] \in Seq(T)
          BY <3>4, <3>6
        <5> DEFINE x == p(1)
                   y == f[1]
        <5>2. x \in Seq(T) /\ y \in Seq(T)
          BY <3>4, <5>1
        <5> HIDE DEF x, y
        <5>3. x \o D \o y = x \o (D \o y)
          BY <2>9, <5>2, ConcatMoves
        <5> QED BY <5>3 DEF x, y
      <4> QED BY <3>3, <3>4, <3>6, <4>1
    <3> QED BY <3>5, <3>6
  <2>11. ASSUME NEW i \in 1 .. k - 1, Done(i) PROVE Done(i + 1)
    <3> DEFINE j == i + 1
    <3>1. j \in 1 .. k /\ i \in 1 .. k /\ j # 1 /\ j - 1 = i /\ i # k
      BY <2>2
    <3> HIDE DEF j
    <3>2. g[i] \in Seq(T) /\ g[i] \o D \o f[i] = query
      BY <2>11, <3>1
    <3>3. g[j] = g[i] \o D \o params[j].key \o Preceded("=", params[j].val)
      BY <2>8, <3>1 DEF Extended, Sep, D
    <3>4. g[j] = g[i] \o D \o p(j)
      <4> DEFINE x == params[j].key
                 y == Preceded("=", params[j].val)
      <4>1. x \in Seq(T) /\ y \in Seq(T) /\ x \o y = p(j)
        BY <2>6, <3>1
      <4>2. g[j] = g[i] \o D \o x \o y
        BY <3>3
      <4> HIDE DEF x, y
      <4>3. g[i] \o D \o x \o y = g[i] \o D \o (x \o y)
        <5> DEFINE w == g[i] \o D
        <5>1. w \in Seq(T)
          BY <2>9, <3>2, ConcatProperties
        <5> HIDE DEF w
        <5>1a. x \in Seq(T) /\ y \in Seq(T)
          BY <4>1
        <5>2. w \o x \o y = w \o (x \o y)
          BY <5>1, <5>1a, ConcatMoves
        <5> QED BY <5>2 DEF w
      <4> QED BY <4>1, <4>2, <4>3, Zenon
    <3>5. p(j) \in Seq(T) /\ IF j = k THEN f[i] = p(j)
                             ELSE f[j] \in Seq(T) /\ f[i] = p(j) \o (D \o f[j])
      BY <2>3, <3>1
    <3>6. g[i] \o D \in Seq(T)
      BY <2>9, <3>2, ConcatProperties
    <3>7. g[j] \in Seq(T)
      BY <3>4, <3>5, <3>6, ConcatProperties
    <3>8. CASE j = k
      BY <3>2, <3>4, <3>5, <3>7, <3>8 DEF j
    <3>9. CASE j # k
      <4>1. f[j] \in Seq(T) /\ f[i] = p(j) \o (D \o f[j])
        BY <3>5, <3>9
      <4> DEFINE a == g[i] \o D
      <4>2. a \in Seq(T) /\ g[j] = a \o p(j) /\ a \o f[i] = query
        BY <3>2, <3>4, <3>6
      <4> HIDE DEF a
      <4> DEFINE x == p(j)
                 y == f[j]
      <4>3. x \in Seq(T) /\ y \in Seq(T) /\ D \o y \in Seq(T)
        BY <2>9, <3>5, <4>1, ConcatProperties
      <4> HIDE DEF x, y
      <4>4. a \o x \o D \o y = a \o (x \o (D \o y))
        <5>1. a \o x \o D \o y = a \o x \o (D \o y)
          <6> DEFINE w == a \o x
          <6>1. w \in Seq(T)
            BY <4>2, <4>3, ConcatProperties
          <6> HIDE DEF w
          <6>2. w \o D \o y = w \o (D \o y)
            BY <2>9, <4>3, <6>1, ConcatMoves
          <6> QED BY <6>2 DEF w
        <5> DEFINE z == D \o y
        <5>2. z \in Seq(T)
          BY <4>3
        <5> HIDE DEF z
        <5>3. a \o x \o z = a \o (x \o z)
          <6>1. a \in Seq(T) /\ x \in Seq(T)
            BY <4>2, <4>3
          <6> QED BY <5>2, <6>1, ConcatMoves
        <5> QED BY <5>1, <5>3 DEF z
      <4>5. g[j] \o D \o f[j] = query
        BY <4>1, <4>2, <4>4, Zenon DEF x, y
      <4> QED BY <3>7, <3>9, <4>5 DEF j
    <3> QED BY <3>8, <3>9
  <2>11a. Done(k) => g[k] = query
    OBVIOUS
  <2> HIDE DEF Done
  <2>12. \A i \in 1 .. k : Done(i)
    <3> DEFINE Bad == {i \in 1 .. k : ~Done(i)}
    <3> SUFFICES ASSUME Bad # {} PROVE FALSE
      OBVIOUS
    <3>1. PICK m \in Bad : \A i \in Bad : m <= i
      <4>1. Bad \in SUBSET Nat
        BY <2>2
      <4> HIDE DEF Bad
      <4> QED BY <4>1, LeastNat
    <3>2. m # 1
      BY <2>10, <3>1
    <3>3. m - 1 \in 1 .. k - 1 /\ (m - 1) + 1 = m
      BY <2>2, <3>1, <3>2
    <3>4. Done(m - 1)
      BY <2>2, <3>1, <3>3
    <3>5. Done((m - 1) + 1)
      BY <2>11, <3>3, <3>4
    <3> QED BY <3>1, <3>3, <3>5
  <2>13. g[k] = query
    BY <2>2, <2>11a, <2>12
  <2>14. Joined(params, delimiter) = query /\ Len(params) <= n
    BY <2>2, <2>5, <2>7, <2>13
  <2> QED BY <2>5, <2>6, <2>14 DEF params
<1> QED BY <1>2, <1>3

\* Only what precedes the first slash, and the slash, is dropped from a path.
IsPath(T, s, dropped, path) ==
    /\ dropped \in Seq(T) /\ path \in Seq(T) /\ s = dropped \o path
    /\ dropped # Nothing => strchr(dropped, "/") = Len(dropped)
    /\ \A d : Lacks(s, d) => Lacks(path, d)

\* find_path drops the host and its slash, if there is one, and keeps the rest.
LEMMA PathProps ==
    ASSUME NEW T, Alphabet(T), NEW s \in Seq(T)
    PROVE  \E dropped : IsPath(T, s, dropped, find_path(s))
<1> DEFINE c == "/"
           cut == find_and_terminate(s, "/")
<1>1. c \in T
  BY DEF Alphabet
<1>2. IsCut(T, s, c, cut.left, cut.next)
  BY <1>1, CutProps
<1>3. find_path(s) = IF cut.next = NullString THEN s ELSE cut.next
  BY DEF find_path
<1> HIDE DEF c, cut
<1>4. CASE cut.next = NullString
  <2>1. Nothing \in Seq(T) /\ Nothing \o s = s
    BY NothingProps
  <2> QED BY <1>3, <1>4, <2>1 DEF IsPath
<1>5. CASE cut.next # NullString
  <2> DEFINE l == cut.left
             n == cut.next
             d == l \o <<c>>
  <2>1. l \in Seq(T) /\ Lacks(l, c) /\ n \in Seq(T) /\ s = l \o Preceded(c, n)
        /\ \A e : Lacks(s, e) => Lacks(n, e)
    BY <1>2, <1>5 DEF IsCut
  <2>2. Preceded(c, n) = <<c>> \o n
    BY <1>5 DEF Preceded
  <2> HIDE DEF l, n
  <2>3. d \in Seq(T) /\ Len(d) = Len(l) + 1 /\ d[Len(l) + 1] = c
        /\ \A i \in 1 .. Len(l) : d[i] = l[i]
    BY <1>1, <2>1
  <2>4. s = d \o n
    <3> DEFINE C == <<c>>
    <3>1. C \in Seq(T)
      BY <1>1
    <3>2. s = l \o (C \o n)
      BY <2>1, <2>2
    <3> HIDE DEF C
    <3>3. (l \o C) \o n = l \o (C \o n)
      <4>1. l \in Seq(T) /\ n \in Seq(T)
        BY <2>1
      <4> QED BY <3>1, <4>1, ConcatMoves
    <3> QED BY <3>2, <3>3 DEF C
  <2> HIDE DEF d
  <2>5. strchr(d, c) = Len(d)
    <3> DEFINE i == strchr(d, c)
    <3>1. i \in 0 .. Len(d) /\ (i = 0 <=> Lacks(d, c)) /\ (i # 0 => d[i] = c)
      BY <2>3, StrchrProps
    <3> HIDE DEF i
    <3>2. ~Lacks(d, c)
      BY <2>1, <2>3 DEF Lacks
    <3>3. \A j \in 1 .. Len(l) : d[j] # c
      BY <2>1, <2>3 DEF Lacks
    <3>4. i = Len(d)
      BY <2>1, <2>3, <3>1, <3>2, <3>3
    <3> QED BY <3>4 DEF i
  <2>6. find_path(s) = n
    BY <1>3, <1>5 DEF n
  <2>7. IsPath(T, s, d, n)
    BY <2>1, <2>3, <2>4, <2>5 DEF IsPath, c
  <2> QED BY <2>6, <2>7
<1> QED BY <1>4, <1>5

\* What the parser returns of a URI.
IsParse(T, u, dropped, url) ==
    /\ dropped \in Seq(T) /\ url.path \in Seq(T)
    /\ Preceded("?", url.query) \in Seq(T) /\ Preceded("#", url.fragment) \in Seq(T)
    /\ url.query \in Seq(T) \cup {NullString}
    /\ u = dropped \o url.path \o Preceded("?", url.query) \o Preceded("#", url.fragment)
    /\ dropped # Nothing => strchr(dropped, "/") = Len(dropped)
    /\ Lacks(url.path, "?") /\ Lacks(url.path, "#") /\ Lacks(url.query, "#")

\* The parts that yuarel_parse gives, put together again with what it dropped, are the URI.
LEMMA ParseProps ==
    ASSUME NEW T, Alphabet(T), NEW u \in Seq(T)
    PROVE  \E dropped : IsParse(T, u, dropped, yuarel_parse(u))
<1> DEFINE f == find_and_terminate(u, "#")
           q == find_and_terminate(f.left, "?")
           path == find_path(q.left)
           url == yuarel_parse(u)
<1>1. "#" \in T /\ "?" \in T
  BY DEF Alphabet
<1>2. IsCut(T, u, "#", f.left, f.next)
  BY <1>1, CutProps
<1>3. url.path = path /\ url.query = q.next /\ url.fragment = f.next
  BY DEF yuarel_parse, find_fragment, find_query
<1> HIDE DEF f, url
<1>4. /\ f.left \in Seq(T) /\ Lacks(f.left, "#") /\ u = f.left \o Preceded("#", f.next)
      /\ Preceded("#", f.next) \in Seq(T)
  BY <1>2 DEF IsCut
<1>5. IsCut(T, f.left, "?", q.left, q.next)
  BY <1>1, <1>4, CutProps
<1> HIDE DEF q
<1>6. /\ q.left \in Seq(T) /\ Lacks(q.left, "?") /\ f.left = q.left \o Preceded("?", q.next)
      /\ Preceded("?", q.next) \in Seq(T) /\ q.next \in Seq(T) \cup {NullString}
      /\ Lacks(q.left, "#") /\ (q.next # NullString => Lacks(q.next, "#"))
  BY <1>4, <1>5 DEF IsCut
<1>7. Lacks(q.next, "#")
  BY <1>1, <1>6, NullLacks
<1>8. PICK d : IsPath(T, q.left, d, path)
  BY <1>6, PathProps
<1> HIDE DEF path
<1>9. IsParse(T, u, d, url)
  BY <1>3, <1>4, <1>6, <1>7, <1>8, Zenon DEF IsParse, IsPath
<1> QED BY <1>9 DEF url

\* The first part of a string in two, and in four parts.
LEMMA FirstOfTwo ==
    ASSUME NEW T, NEW a \in Seq(T), NEW b \in Seq(T)
    PROVE  /\ a \o b \in Seq(T) /\ Len(a \o b) = Len(a) + Len(b)
           /\ \A i \in 1 .. Len(a) : (a \o b)[i] = a[i]
  OBVIOUS

Remainder(u, b, c, d) == SubSeq(u, 1, Len(u) - Len(b \o c \o d))

\* What is left of a URI in front of its last three parts is the first.
LEMMA FirstPart ==
    ASSUME NEW T, NEW a \in Seq(T), NEW b \in Seq(T), NEW c \in Seq(T), NEW d \in Seq(T)
    PROVE  Remainder(a \o b \o c \o d, b, c, d) = a
<1> DEFINE u == a \o b \o c \o d
           x == a \o b
           y == x \o c
           v == b \o c
           w == v \o d
<1>1. /\ x \in Seq(T) /\ Len(x) = Len(a) + Len(b)
      /\ \A i \in 1 .. Len(a) : x[i] = a[i]
  BY ConcatProperties
<1>2. v \in Seq(T) /\ Len(v) = Len(b) + Len(c)
  BY ConcatProperties
<1> HIDE DEF x, v
<1>3. /\ y \in Seq(T) /\ Len(y) = Len(x) + Len(c)
      /\ \A i \in 1 .. Len(x) : y[i] = x[i]
  <2>1. x \in Seq(T)
    BY <1>1
  <2> QED BY <2>1, FirstOfTwo
<1>4. Len(w) = Len(v) + Len(d)
  BY <1>2, ConcatProperties
<1> HIDE DEF y, w
<1>5. u = y \o d
  BY DEF x, y
<1> HIDE DEF u
<1>6. /\ u \in Seq(T) /\ Len(u) = Len(y) + Len(d)
      /\ \A i \in 1 .. Len(y) : u[i] = y[i]
  <2>1. y \in Seq(T)
    BY <1>3
  <2>2. /\ y \o d \in Seq(T) /\ Len(y \o d) = Len(y) + Len(d)
        /\ \A i \in 1 .. Len(y) : (y \o d)[i] = y[i]
    BY <2>1, FirstOfTwo
  <2> QED BY <1>5, <2>2, Zenon
<1>7. Len(a) \in Nat /\ Len(b) \in Nat /\ Len(c) \in Nat /\ Len(d) \in Nat
  OBVIOUS
<1>8. Len(u) - Len(w) = Len(a) /\ Len(a) <= Len(x) /\ Len(x) <= Len(y) /\ Len(y) <= Len(u)
  BY <1>1, <1>2, <1>3, <1>4, <1>6, <1>7
<1>9. \A i \in 1 .. Len(a) : u[i] = a[i]
  BY <1>1, <1>3, <1>6, <1>7, <1>8
<1> DEFINE z == SubSeq(u, 1, Len(a))
<1>10. z \in Seq(T) /\ Len(z) = Len(a) /\ \A i \in 1 .. Len(a) : z[i] = u[i]
  BY <1>6, <1>7, <1>8
<1> HIDE DEF z
<1>11. z = a
  BY <1>9, <1>10, SeqEqual
<1> QED BY <1>8, <1>11 DEF z, w, v, u, Remainder

\* Every string is taken apart into what its author wrote.
LEMMA ParsesEveryString ==
    ASSUME NEW T, Alphabet(T), NEW u \in Seq(T), NEW delimiter \in T, NEW n \in Nat \ {0}
    PROVE  ParsesExactly(u, delimiter, n)
<1> DEFINE url == yuarel_parse(u)
           Q == Preceded("?", url.query)
           F == Preceded("#", url.fragment)
           params == yuarel_parse_query(url.query, delimiter, n)
<1>1. PICK d : IsParse(T, u, d, url)
  BY ParseProps
<1> HIDE DEF url
<1>2. /\ d \in Seq(T) /\ url.path \in Seq(T) /\ Q \in Seq(T) /\ F \in Seq(T)
      /\ url.query \in Seq(T) \cup {NullString}
      /\ u = d \o url.path \o Q \o F
      /\ d # Nothing => strchr(d, "/") = Len(d)
      /\ Lacks(url.path, "?") /\ Lacks(url.path, "#") /\ Lacks(url.query, "#")
  BY <1>1 DEF IsParse
<1> HIDE DEF Q, F
<1>3. SubSeq(u, 1, Len(u) - Len(url.path \o Q \o F)) = d
  <2> DEFINE path == url.path
  <2>1. path \in Seq(T) /\ u = d \o path \o Q \o F
    BY <1>2
  <2> HIDE DEF path
  <2>2. Remainder(d \o path \o Q \o F, path, Q, F) = d
    <3>1. d \in Seq(T) /\ path \in Seq(T) /\ Q \in Seq(T) /\ F \in Seq(T)
      BY <1>2, <2>1
    <3> QED BY <3>1, FirstPart
  <2>3. Remainder(u, path, Q, F) = d
    BY <2>1, <2>2, Zenon
  <2> QED BY <2>3, Zenon DEF path, Remainder
<1>4. strchr(url.path, "?") = 0 /\ strchr(url.path, "#") = 0
  BY <1>2, StrchrProps
<1>5. strchr(url.query, "#") = 0
  <2>1. CASE url.query = NullString
    <3>1. NullString \in Seq({"NULL"}) /\ Lacks(NullString, "#")
      BY <1>2, <2>1, NullProps
    <3> QED BY <2>1, <3>1, StrchrProps
  <2>2. CASE url.query \in Seq(T)
    BY <1>2, <2>2, StrchrProps
  <2> QED BY <1>2, <2>1, <2>2
<1>6. /\ url.query # NullString => Joined(params, delimiter) = url.query
      /\ Len(params) <= n
      /\ \A i \in DOMAIN params :
            /\ strchr(params[i].key, "=") = 0
            /\ i < n => strchr(params[i].key \o params[i].val, delimiter) = 0
  <2>1. CASE url.query = NullString
    <3>1. params = Nothing
      BY <2>1 DEF yuarel_parse_query, Nothing
    <3> HIDE DEF params
    <3>2. Len(params) = 0 /\ DOMAIN params = {}
      BY <3>1 DEF Nothing
    <3> QED BY <2>1, <3>2
  <2>2. CASE url.query \in Seq(T)
    BY <2>2, QueryParses
  <2> QED BY <1>2, <2>1, <2>2
<1> HIDE DEF params
<1>7. d # <<>> => strchr(d, "/") = Len(d)
  BY <1>2, Zenon DEF Nothing
<1> DEFINE dropped == SubSeq(u, 1, Len(u) - Len(url.path \o Q \o F))
<1>8. dropped = d
  BY <1>3
<1> HIDE DEF dropped
<1>9. /\ dropped \o url.path \o Q \o F = u
      /\ dropped # <<>> => strchr(dropped, "/") = Len(dropped)
  BY <1>2, <1>7, <1>8, Zenon
<1> QED BY <1>4, <1>5, <1>6, <1>9, Zenon DEF ParsesExactly, url, params, dropped, Q, F

-----------------------------------------------------------------------------
(* What the programs look up.                                                 *)

UriInv == uri = Nothing \/ uri \in Lookups \cup AnyUris

\* Every string is taken apart exactly, whatever its tokens are.
LEMMA StringParses ==
    ASSUME NEW s, IsString(s)
    PROVE  ParsesExactly(s, "&", MAX_QUERY)
<1> DEFINE R == {s[i] : i \in DOMAIN s} \ {"NULL"}
           T == R \cup {"/", "?", "#", "&", "="}
<1>1. s \in Seq(R)
  BY DEF IsString
<1>2. "NULL" \notin R
  OBVIOUS
<1> HIDE DEF R
<1>3. s \in Seq(T)
  BY <1>1
<1>4. Alphabet(T) /\ "&" \in T
  BY <1>2 DEF Alphabet
<1> HIDE DEF T
<1> QED BY <1>3, <1>4, QueryAssumption, ParsesEveryString

LEMMA LookupsAreStrings == \A u \in Lookups \cup AnyUris \cup {Nothing} : IsString(u)
<1>1. \A u \in Uris \cup AnyUris \cup Paths : IsString(u)
  BY StringsAssumption
<1>2. IsString(<<"api", "?", "wc">>)
  BY DEF IsString
<1>3. IsString(<<"test", "?", "memcpy", "=", "Example">>)
  BY DEF IsString
<1>4. IsString(Nothing)
  BY DEF IsString, Nothing
<1> QED BY <1>1, <1>2, <1>3, <1>4, Zenon DEF Lookups

LEMMA StepUri == ASSUME Inv, UriInv, [Next]_allVars PROVE UriInv'
<1>1. CASE Gets
  <2>1. todo # <<>> /\ Call.op = "get" /\ uri' = Call.uri
    BY <1>1 DEF Gets, At
  <2>2. Call \in CallType
    BY <2>1, CallHasType
  <2>3. Call.uri \in Lookups
    BY <2>1, <2>2 DEF CallType
  <2> QED BY <2>1, <2>3 DEF UriInv
<1>3. CASE Anything
  BY <1>3 DEF Anything, own, UriInv
<1>2. CASE ~Gets /\ ~Anything
  <2>1. uri' = uri
    <3>1. ASSUME NEW c, FollowsNull(c) PROVE uri' = uri
      BY <3>1 DEF FollowsNull, own
    <3>2. ASSUME Loads \/ Loaded \/ Makes \/ ShellExits PROVE uri' = uri
      BY <3>2 DEF Loads, Loaded, Makes, ShellExits
    <3>3. ASSUME ReaderTurn \/ WcTurn PROVE uri' = uri
      BY <3>1, <3>3 DEF ReaderTurn, WcTurn
    <3>4. ASSUME ShellLoop \/ Finished \/ UNCHANGED allVars PROVE uri' = uri
      BY <3>4 DEF ShellLoop, Finished, own, allVars
    <3> QED BY <1>2, <3>2, <3>3, <3>4 DEF Next
  <2> QED BY <2>1 DEF UriInv
<1> QED BY <1>1, <1>2, <1>3

-----------------------------------------------------------------------------
(* Cutting strings that were put together.                                    *)

\* strchr finds the first place of a character.
LEMMA StrchrIs ==
    ASSUME NEW S, NEW s \in Seq(S), NEW c, NEW i \in 1 .. Len(s), s[i] = c,
           \A j \in 1 .. i - 1 : s[j] # c
    PROVE  strchr(s, c) = i
<1> DEFINE k == strchr(s, c)
<1>1. k \in 0 .. Len(s) /\ (k = 0 <=> Lacks(s, c))
      /\ (k # 0 => s[k] = c /\ \A j \in 1 .. k - 1 : s[j] # c)
  BY StrchrProps
<1> HIDE DEF k
<1>2. ~Lacks(s, c)
  BY DEF Lacks
<1>3. k \in 1 .. Len(s) /\ s[k] = c /\ \A j \in 1 .. k - 1 : s[j] # c
  BY <1>1, <1>2
<1>4. ~(k < i) /\ ~(i < k)
  BY <1>3
<1>5. k = i
  BY <1>3, <1>4
<1> QED BY <1>5 DEF k

LEMMA ConcatAt ==
    ASSUME NEW T, NEW a \in Seq(T), NEW b \in Seq(T)
    PROVE  /\ a \o b \in Seq(T) /\ Len(a \o b) = Len(a) + Len(b)
           /\ \A i \in 1 .. Len(a) : (a \o b)[i] = a[i]
           /\ \A i \in 1 .. Len(b) : (a \o b)[Len(a) + i] = b[i]
  OBVIOUS

\* Where find_and_terminate cuts a string that has the separator.
LEMMA CutAt ==
    ASSUME NEW s, NEW c, strchr(s, c) # 0
    PROVE  /\ find_and_terminate(s, c).left = SubSeq(s, 1, strchr(s, c) - 1)
           /\ find_and_terminate(s, c).next = SubSeq(s, strchr(s, c) + 1, Len(s))
<1> DEFINE l == SubSeq(s, 1, strchr(s, c) - 1)
           n == SubSeq(s, strchr(s, c) + 1, Len(s))
<1>1. find_and_terminate(s, c) = [left |-> l, next |-> n]
  BY DEF find_and_terminate
<1> HIDE DEF l, n
<1>2. find_and_terminate(s, c).left = l /\ find_and_terminate(s, c).next = n
  BY <1>1
<1> QED BY <1>2 DEF l, n

\* The cut is in the first of two strings that has the separator.
LEMMA CutFirst ==
    ASSUME NEW T, NEW a \in Seq(T), NEW b \in Seq(T), NEW c \in T, ~Lacks(a, c)
    PROVE  /\ find_and_terminate(a \o b, c).left = find_and_terminate(a, c).left
           /\ find_and_terminate(a \o b, c).next = find_and_terminate(a, c).next \o b
<1> DEFINE s == a \o b
           i == strchr(a, c)
<1>1. s \in Seq(T) /\ Len(s) = Len(a) + Len(b)
      /\ (\A j \in 1 .. Len(a) : s[j] = a[j]) /\ (\A j \in 1 .. Len(b) : s[Len(a) + j] = b[j])
  BY ConcatAt
<1>2. i \in 1 .. Len(a) /\ a[i] = c /\ \A j \in 1 .. i - 1 : a[j] # c
  BY StrchrProps
<1> HIDE DEF s, i
<1>3. i \in 1 .. Len(s) /\ s[i] = c /\ \A j \in 1 .. i - 1 : s[j] # c
  <2>1. Len(a) \in Nat /\ Len(b) \in Nat /\ i \in 1 .. Len(s)
    BY <1>1, <1>2
  <2>2. ASSUME NEW j \in 1 .. i - 1 PROVE s[j] # c
    <3>1. j \in 1 .. Len(a)
      BY <1>2, <2>1
    <3> QED BY <1>1, <1>2, <3>1
  <2> QED BY <1>1, <1>2, <2>1, <2>2
<1>4. strchr(s, c) = i
  BY <1>1, <1>3, StrchrIs
<1>5. /\ find_and_terminate(s, c).left = SubSeq(s, 1, i - 1)
      /\ find_and_terminate(s, c).next = SubSeq(s, i + 1, Len(s))
  <2>1. strchr(s, c) # 0
    BY <1>2, <1>4
  <2> QED BY <1>4, <2>1, CutAt, Zenon
<1>6. /\ find_and_terminate(a, c).left = SubSeq(a, 1, i - 1)
      /\ find_and_terminate(a, c).next = SubSeq(a, i + 1, Len(a))
  BY <1>2, CutAt DEF i
<1>7. SubSeq(s, 1, i - 1) = SubSeq(a, 1, i - 1)
  <2> DEFINE x == SubSeq(s, 1, i - 1)
             y == SubSeq(a, 1, i - 1)
  <2>1. x \in Seq(T) /\ Len(x) = i - 1 /\ \A k \in 1 .. i - 1 : x[k] = s[k]
    BY <1>1, <1>3
  <2>2. y \in Seq(T) /\ Len(y) = i - 1 /\ \A k \in 1 .. i - 1 : y[k] = a[k]
    BY <1>2
  <2> HIDE DEF x, y
  <2>3. \A k \in 1 .. Len(x) : x[k] = y[k]
    BY <1>1, <1>2, <2>1, <2>2
  <2>4. x = y
    BY <2>1, <2>2, <2>3, SeqEqual
  <2> QED BY <2>4 DEF x, y
<1>8. SubSeq(s, i + 1, Len(s)) = SubSeq(a, i + 1, Len(a)) \o b
  <2> DEFINE x == SubSeq(s, i + 1, Len(s))
             y == SubSeq(a, i + 1, Len(a))
             z == y \o b
  <2>1. x \in Seq(T) /\ Len(x) = Len(s) - i /\ \A k \in 1 .. Len(s) - i : x[k] = s[i + k]
    BY <1>1, <1>3
  <2>2. y \in Seq(T) /\ Len(y) = Len(a) - i /\ \A k \in 1 .. Len(a) - i : y[k] = a[i + k]
    BY <1>2
  <2> HIDE DEF x, y
  <2>3. z \in Seq(T) /\ Len(z) = Len(y) + Len(b)
        /\ (\A j \in 1 .. Len(y) : z[j] = y[j]) /\ (\A j \in 1 .. Len(b) : z[Len(y) + j] = b[j])
    <3>1. y \in Seq(T)
      BY <2>2
    <3> QED BY <3>1, ConcatAt
  <2> HIDE DEF z
  <2>4. Len(x) = Len(z) /\ Len(a) \in Nat /\ Len(b) \in Nat
    BY <1>1, <1>2, <2>1, <2>2, <2>3
  <2>5. ASSUME NEW k \in 1 .. Len(x) PROVE x[k] = z[k]
    <3>1. CASE k <= Len(a) - i
      <4>1. k \in 1 .. Len(y) /\ i + k \in 1 .. Len(a) /\ k \in 1 .. Len(s) - i
        BY <1>1, <1>2, <2>1, <2>2, <2>4, <3>1
      <4>2. x[k] = s[i + k] /\ s[i + k] = a[i + k] /\ y[k] = a[i + k] /\ z[k] = y[k]
        BY <1>1, <2>1, <2>2, <2>3, <4>1
      <4> QED BY <4>2
    <3>2. CASE k > Len(a) - i
      <4> DEFINE j == k - (Len(a) - i)
      <4>1. j \in 1 .. Len(b) /\ Len(y) + j = k /\ Len(a) + j = i + k /\ k \in 1 .. Len(s) - i
        BY <1>1, <1>2, <2>1, <2>2, <2>4, <3>2
      <4> HIDE DEF j
      <4>2. x[k] = s[i + k] /\ s[Len(a) + j] = b[j] /\ z[Len(y) + j] = b[j]
        BY <1>1, <2>1, <2>3, <4>1
      <4> QED BY <4>1, <4>2
    <3>3. k \in Int /\ Len(a) - i \in Int
      BY <1>2, <2>4
    <3>4. k <= Len(a) - i \/ k > Len(a) - i
      BY <3>3
    <3> QED BY <3>1, <3>2, <3>4, Zenon
  <2>6. x = z
    BY <2>1, <2>3, <2>4, <2>5, SeqEqual
  <2> QED BY <2>6 DEF x, y, z
<1> QED BY <1>5, <1>6, <1>7, <1>8, Zenon DEF s

\* With no separator in the first of two strings, the cut is in the second.
LEMMA CutSecond ==
    ASSUME NEW T, NEW a \in Seq(T), NEW b \in Seq(T), NEW c \in T, Lacks(a, c)
    PROVE  /\ find_and_terminate(a \o b, c).left = a \o find_and_terminate(b, c).left
           /\ find_and_terminate(a \o b, c).next = find_and_terminate(b, c).next
<1> DEFINE s == a \o b
           i == strchr(b, c)
           n == Len(a)
<1>1. s \in Seq(T) /\ Len(s) = n + Len(b) /\ n \in Nat
      /\ (\A j \in 1 .. n : s[j] = a[j]) /\ (\A j \in 1 .. Len(b) : s[n + j] = b[j])
  BY ConcatAt
<1>2. i \in 0 .. Len(b) /\ (i = 0 <=> Lacks(b, c))
      /\ (i # 0 => b[i] = c /\ \A j \in 1 .. i - 1 : b[j] # c)
  BY StrchrProps
<1>3. \A j \in 1 .. n : a[j] # c
  BY DEF Lacks
<1> HIDE DEF i, n
<1>4. ASSUME NEW k \in 1 .. Len(s), k > n PROVE k - n \in 1 .. Len(b) /\ s[k] = b[k - n]
  <2>1. k - n \in 1 .. Len(b) /\ n + (k - n) = k
    BY <1>1, <1>4
  <2> QED BY <1>1, <2>1
<1> HIDE DEF s
<1>5. CASE i = 0
  <2>1. \A j \in 1 .. Len(b) : b[j] # c
    BY <1>2, <1>5 DEF Lacks
  <2>2. Lacks(s, c)
    <3>1. ASSUME NEW k \in 1 .. Len(s) PROVE s[k] # c
      <4>1. CASE k <= n
        BY <1>1, <1>3, <4>1
      <4>2. CASE k > n
        BY <1>4, <2>1, <4>2
      <4>3. k <= n \/ k > n
        BY <1>1
      <4> QED BY <4>1, <4>2, <4>3, Zenon
    <3> QED BY <1>1, <3>1 DEF Lacks
  <2>3. strchr(s, c) = 0
    BY <1>1, <2>2, StrchrProps
  <2>4. find_and_terminate(s, c) = [left |-> s, next |-> NullString]
    BY <2>3 DEF find_and_terminate
  <2>5. find_and_terminate(b, c) = [left |-> b, next |-> NullString]
    BY <1>5 DEF find_and_terminate, i
  <2> QED BY <2>4, <2>5 DEF s
<1>6. CASE i # 0
  <2>1. i \in 1 .. Len(b) /\ b[i] = c /\ \A j \in 1 .. i - 1 : b[j] # c
    BY <1>2, <1>6
  <2>2. n + i \in 1 .. Len(s) /\ s[n + i] = c
    BY <1>1, <2>1
  <2>3. ASSUME NEW k \in 1 .. n + i - 1 PROVE s[k] # c
    <3>1. CASE k <= n
      BY <1>1, <1>3, <3>1
    <3>2. CASE k > n
      <4>1. k \in 1 .. Len(s) /\ k - n \in 1 .. i - 1
        BY <1>1, <2>1, <3>2
      <4> QED BY <1>4, <2>1, <3>2, <4>1
    <3>3. k <= n \/ k > n
      BY <1>1
    <3> QED BY <3>1, <3>2, <3>3, Zenon
  <2> DEFINE m == n + i
  <2>4. strchr(s, c) = m
    <3>1. m \in 1 .. Len(s) /\ s[m] = c
      BY <2>2
    <3>2. \A k \in 1 .. m - 1 : s[k] # c
      <4>1. m - 1 = n + i - 1
        BY <1>1, <2>1
      <4>2. \A k \in 1 .. n + i - 1 : s[k] # c
        BY <2>3
      <4> QED BY <4>1, <4>2, Zenon
    <3>3. s \in Seq(T)
      BY <1>1
    <3> HIDE DEF m
    <3> QED BY <3>1, <3>2, <3>3, StrchrIs
  <2>5. m # 0
    BY <1>1, <2>1
  <2>6. /\ find_and_terminate(s, c).left = SubSeq(s, 1, m - 1)
        /\ find_and_terminate(s, c).next = SubSeq(s, m + 1, Len(s))
    BY <2>4, <2>5, CutAt
  <2>7. /\ find_and_terminate(b, c).left = SubSeq(b, 1, i - 1)
        /\ find_and_terminate(b, c).next = SubSeq(b, i + 1, Len(b))
    BY <1>6, CutAt DEF i
  <2>8. SubSeq(s, m + 1, Len(s)) = SubSeq(b, i + 1, Len(b))
    <3> DEFINE x == SubSeq(s, m + 1, Len(s))
               y == SubSeq(b, i + 1, Len(b))
    <3>1. x \in Seq(T) /\ Len(x) = Len(s) - m /\ \A k \in 1 .. Len(s) - m : x[k] = s[m + k]
      BY <1>1, <2>1, <2>2
    <3>2. y \in Seq(T) /\ Len(y) = Len(b) - i /\ \A k \in 1 .. Len(b) - i : y[k] = b[i + k]
      BY <2>1
    <3> HIDE DEF x, y
    <3>3. ASSUME NEW k \in 1 .. Len(x) PROVE x[k] = y[k]
      <4>1. /\ k \in 1 .. Len(s) - m /\ k \in 1 .. Len(b) - i /\ i + k \in 1 .. Len(b)
            /\ n + (i + k) = m + k
        BY <1>1, <2>1, <3>1
      <4> QED BY <1>1, <3>1, <3>2, <4>1
    <3>4. Len(x) = Len(y)
      BY <1>1, <2>1, <3>1, <3>2
    <3>5. x = y
      BY <3>1, <3>2, <3>3, <3>4, SeqEqual
    <3> QED BY <3>5 DEF x, y
  <2>9. SubSeq(s, 1, m - 1) = a \o SubSeq(b, 1, i - 1)
    <3> DEFINE x == SubSeq(s, 1, m - 1)
               y == SubSeq(b, 1, i - 1)
               z == a \o y
    <3>1. x \in Seq(T) /\ Len(x) = m - 1 /\ \A k \in 1 .. m - 1 : x[k] = s[k]
      BY <1>1, <2>1, <2>2
    <3>2. y \in Seq(T) /\ Len(y) = i - 1 /\ \A k \in 1 .. i - 1 : y[k] = b[k]
      BY <2>1
    <3> HIDE DEF x, y
    <3>3. z \in Seq(T) /\ Len(z) = n + Len(y)
          /\ (\A j \in 1 .. n : z[j] = a[j]) /\ (\A j \in 1 .. Len(y) : z[n + j] = y[j])
      <4>1. y \in Seq(T)
        BY <3>2
      <4> QED BY <4>1, ConcatAt DEF n
    <3> HIDE DEF z
    <3>4. Len(x) = Len(z)
      BY <1>1, <2>1, <3>1, <3>2, <3>3
    <3>5. ASSUME NEW k \in 1 .. Len(x) PROVE x[k] = z[k]
      <4>1. CASE k <= n
        <5>1. k \in 1 .. n /\ k \in 1 .. m - 1
          BY <1>1, <2>1, <3>1, <4>1
        <5> QED BY <1>1, <3>1, <3>3, <5>1
      <4>2. CASE k > n
        <5>1. k - n \in 1 .. i - 1 /\ n + (k - n) = k /\ k \in 1 .. m - 1 /\ k \in 1 .. Len(s)
          BY <1>1, <2>1, <3>1, <4>2
        <5>2. s[k] = b[k - n] /\ x[k] = s[k]
          BY <1>4, <3>1, <4>2, <5>1
        <5>3. y[k - n] = b[k - n] /\ z[n + (k - n)] = y[k - n]
          BY <3>2, <3>3, <5>1
        <5> QED BY <5>1, <5>2, <5>3
      <4>3. k <= n \/ k > n
        BY <1>1
      <4> QED BY <4>1, <4>2, <4>3, Zenon
    <3>6. x = z
      BY <3>1, <3>3, <3>4, <3>5, SeqEqual
    <3> QED BY <3>6 DEF x, y, z
  <2> QED BY <2>6, <2>7, <2>8, <2>9, Zenon DEF s
<1> QED BY <1>5, <1>6

LEMMA LacksConcat ==
    ASSUME NEW T, NEW a \in Seq(T), NEW b \in Seq(T), NEW d
    PROVE  Lacks(a \o b, d) <=> Lacks(a, d) /\ Lacks(b, d)
<1> DEFINE s == a \o b
<1>1. s \in Seq(T) /\ Len(s) = Len(a) + Len(b)
      /\ (\A j \in 1 .. Len(a) : s[j] = a[j]) /\ (\A j \in 1 .. Len(b) : s[Len(a) + j] = b[j])
  BY ConcatAt
<1> HIDE DEF s
<1>2. ASSUME NEW k \in 1 .. Len(s), k > Len(a) PROVE k - Len(a) \in 1 .. Len(b) /\ s[k] = b[k - Len(a)]
  <2>1. k - Len(a) \in 1 .. Len(b) /\ Len(a) + (k - Len(a)) = k
    BY <1>1, <1>2
  <2> QED BY <1>1, <2>1
<1>3. Len(a) \in Nat /\ Len(b) \in Nat /\ DOMAIN a = 1 .. Len(a) /\ DOMAIN b = 1 .. Len(b)
      /\ DOMAIN s = 1 .. Len(s)
  BY <1>1
<1>4. ASSUME Lacks(a, d), Lacks(b, d) PROVE Lacks(s, d)
  <2> SUFFICES ASSUME NEW k \in 1 .. Len(s) PROVE s[k] # d
    BY <1>3 DEF Lacks
  <2>1. CASE k <= Len(a)
    BY <1>1, <1>3, <1>4, <2>1 DEF Lacks
  <2>2. CASE k > Len(a)
    BY <1>2, <1>3, <1>4, <2>2 DEF Lacks
  <2>3. k <= Len(a) \/ k > Len(a)
    BY <1>3
  <2> QED BY <2>1, <2>2, <2>3, Zenon
<1>5. ASSUME Lacks(s, d) PROVE Lacks(a, d) /\ Lacks(b, d)
  <2>1. ASSUME NEW k \in 1 .. Len(a) PROVE a[k] # d
    <3>1. k \in 1 .. Len(s)
      BY <1>1, <1>3
    <3> QED BY <1>1, <1>3, <1>5, <3>1 DEF Lacks
  <2>2. ASSUME NEW k \in 1 .. Len(b) PROVE b[k] # d
    <3>1. Len(a) + k \in 1 .. Len(s)
      BY <1>1, <1>3
    <3> QED BY <1>1, <1>3, <1>5, <3>1 DEF Lacks
  <2> QED BY <1>3, <2>1, <2>2 DEF Lacks
<1> QED BY <1>4, <1>5 DEF s

-----------------------------------------------------------------------------
(* The file a local program is given.                                         *)

\* Two members of a set with at most one are the same.
LEMMA AtMostOne ==
    ASSUME NEW n \in Nat, NEW S \in SUBSET (1 .. n), ~(Cardinality(S) > 1),
           NEW i \in S, NEW j \in S
    PROVE  i = j
<1> SUFFICES ASSUME i # j PROVE FALSE
  OBVIOUS
<1>1. IsFiniteSet(1 .. n)
  BY FS_Interval
<1>2. IsFiniteSet(S) /\ Cardinality(S) \in Nat
  BY <1>1, FS_Subset, FS_CardinalityType
<1>3. IsFiniteSet({i}) /\ Cardinality({i}) = 1 /\ j \notin {i}
  BY FS_Singleton
<1>4. Cardinality({i} \cup {j}) = 2
  BY <1>3, FS_AddElement
<1>5. {i} \cup {j} \in SUBSET S
  OBVIOUS
<1>6. Cardinality({i} \cup {j}) <= Cardinality(S)
  BY <1>2, <1>5, FS_Subset
<1> QED BY <1>2, <1>4, <1>6

\* The set of tokens that the strings of the programs are made of.
StringTokens(s) == {s[i] : i \in DOMAIN s} \ {"NULL"}
Separators == {"/", "?", "#", "&", "="}

\* A string is a sequence over its own tokens and the separators.
LEMMA HasAlphabet ==
    ASSUME NEW s, IsString(s)
    PROVE  Alphabet(StringTokens(s) \cup Separators) /\ s \in Seq(StringTokens(s) \cup Separators)
<1>1. s \in Seq(StringTokens(s)) /\ "NULL" \notin StringTokens(s)
  BY DEF IsString, StringTokens
<1>2. s \in Seq(StringTokens(s) \cup Separators)
  BY <1>1
<1>3. Alphabet(StringTokens(s) \cup Separators)
  BY <1>1 DEF Alphabet, Separators
<1> QED BY <1>2, <1>3

\* A path with at most one slash is looked up by the name its export has.
LEMMA PathName ==
    ASSUME NEW path \in Paths, ~(Cardinality({i \in DOMAIN path : path[i] = "/"}) > 1)
    PROVE  Request(path).name = basename(path)
<1> DEFINE T == StringTokens(path) \cup Separators
           n == Len(path)
           S == {i \in DOMAIN path : path[i] = "/"}
<1>1. Alphabet(T) /\ path \in Seq(T)
  BY StringsAssumption, HasAlphabet
<1>2. "#" \in T /\ "?" \in T /\ "/" \in T
  BY DEF Separators
<1> HIDE DEF T
<1>3. /\ path # Nothing /\ path[n] # "/"
      /\ \A i \in DOMAIN path : path[i] \notin {"?", "#"}
      /\ \A i \in 1 .. n - 1 : path[i] = "/" \/ path[i + 1] = "/"
  BY PathsAssumption DEF Nothing
<1>4. n \in Nat /\ n # 0 /\ DOMAIN path = 1 .. n
  BY <1>1, <1>3, NothingProps
<1>5. Lacks(path, "#") /\ Lacks(path, "?")
  BY <1>3 DEF Lacks
<1>6. yuarel_parse(path).path = find_path(path)
  <2> DEFINE f == find_and_terminate(path, "#")
             q == find_and_terminate(path, "?")
  <2>1. IsCut(T, path, "#", f.left, f.next) /\ IsCut(T, path, "?", q.left, q.next)
    BY <1>1, <1>2, CutProps
  <2> HIDE DEF f, q
  <2>2. f.left = path /\ q.left = path
    BY <1>5, <2>1 DEF IsCut
  <2>3. yuarel_parse(path).path = find_path(find_and_terminate(f.left, "?").left)
    BY DEF yuarel_parse, find_fragment, find_query, f
  <2> QED BY <2>2, <2>3 DEF q
<1>7. Request(path).name = NameOf(find_path(path))
  BY <1>6 DEF Request
<1> DEFINE cut == find_and_terminate(path, "/")
<1>8. IsCut(T, path, "/", cut.left, cut.next)
  BY <1>1, <1>2, CutProps
<1>9. find_path(path) = IF cut.next = NullString THEN path ELSE cut.next
  BY DEF find_path
<1>10. ASSUME NEW s, Len(s) = 1, s[1] = path[n], s # Nothing PROVE NameOf(s) = basename(path)
  BY <1>10 DEF NameOf, basename, Nothing
<1>11. CASE cut.next = NullString
  <2>1. Lacks(path, "/")
    <3> HIDE DEF cut
    <3> QED BY <1>8, <1>11 DEF IsCut
  <2>2. n = 1
    <3> SUFFICES ASSUME n # 1 PROVE FALSE
      OBVIOUS
    <3>1. 1 \in 1 .. n - 1 /\ 1 \in 1 .. n /\ 1 + 1 \in 1 .. n
      BY <1>4
    <3> QED BY <1>3, <1>4, <2>1, <3>1 DEF Lacks
  <2> QED BY <1>3, <1>7, <1>9, <1>10, <1>11, <2>2
<1>12. CASE cut.next # NullString
  <2> DEFINE i == strchr(path, "/")
  <2>1. ~Lacks(path, "/")
    <3> HIDE DEF cut
    <3> QED BY <1>8, <1>12 DEF IsCut
  <2>2. i \in 0 .. n /\ i # 0 /\ path[i] = "/"
    BY <1>1, <2>1, StrchrProps
  <2>3. cut.next = SubSeq(path, i + 1, n)
    BY <2>2, CutAt
  <2> HIDE DEF i, cut
  <2>4. i # n
    BY <1>3, <2>2
  <2>5. S \in SUBSET (1 .. n) /\ i \in S
    BY <1>4, <2>2
  <2> HIDE DEF n
  <2>6. n = i + 1
    <3> SUFFICES ASSUME n # i + 1 PROVE FALSE
      OBVIOUS
    <3>1. i + 1 \in 1 .. n - 1 /\ i + 1 \in 1 .. n /\ (i + 1) + 1 \in 1 .. n
      BY <1>4, <2>2, <2>4
    <3>2. path[i + 1] = "/" \/ path[(i + 1) + 1] = "/"
      BY <1>3, <3>1
    <3>3. \E j \in S : j # i
      <4>1. CASE path[i + 1] = "/"
        <5>1. i + 1 \in S /\ i + 1 # i
          BY <1>4, <2>2, <3>1, <4>1
        <5> QED BY <5>1
      <4>2. CASE path[(i + 1) + 1] = "/"
        <5>1. (i + 1) + 1 \in S /\ (i + 1) + 1 # i
          BY <1>4, <2>2, <3>1, <4>2
        <5> QED BY <5>1
      <4> QED BY <3>2, <4>1, <4>2
    <3> HIDE DEF S
    <3> QED BY <1>4, <2>5, <3>3, AtMostOne DEF S
  <2> DEFINE s == SubSeq(path, i + 1, n)
  <2>7. s \in Seq(T) /\ Len(s) = 1 /\ s[1] = path[n]
    BY <1>1, <1>4, <2>2, <2>6 DEF n
  <2> HIDE DEF s
  <2>8. s # Nothing
    <3>1. Len(Nothing) = 0
      BY NothingProps
    <3>2. Len(s) # 0
      BY <2>7
    <3> QED BY <3>1, <3>2, Zenon
  <2>9. NameOf(s) = basename(path)
    BY <1>10, <2>7, <2>8
  <2> QED BY <1>7, <1>9, <1>12, <2>3, <2>9 DEF s
<1> QED BY <1>11, <1>12

-----------------------------------------------------------------------------
(* What a line becomes.                                                       *)

LEMMA QuestionMark ==
    ASSUME NEW T, Alphabet(T)
    PROVE  /\ <<"?">> \in Seq(T) /\ ~Lacks(<<"?">>, "?") /\ Lacks(<<"?">>, "#")
           /\ \A d : d # "?" => Lacks(<<"?">>, d)
           /\ find_and_terminate(<<"?">>, "?").next = Nothing
<1> DEFINE x == "?"
           s == <<x>>
<1>1. x \in T /\ x # "#"
  BY DEF Alphabet
<1> HIDE DEF x
<1>2. s \in Seq(T) /\ Len(s) = 1 /\ s[1] = x /\ DOMAIN s = {1}
  BY <1>1
<1> HIDE DEF s
<1>3. ~Lacks(s, x) /\ \A d : d # x => Lacks(s, d)
  BY <1>2 DEF Lacks
<1>4. strchr(s, x) = 1
  <2> DEFINE i == 1
  <2>1. i \in 1 .. Len(s) /\ s[i] = x /\ \A j \in 1 .. i - 1 : s[j] # x
    BY <1>2
  <2> HIDE DEF i
  <2>2. strchr(s, x) = i
    BY <1>2, <2>1, StrchrIs
  <2> QED BY <2>2 DEF i
<1>5. find_and_terminate(s, x).next = SubSeq(s, 2, 1)
  <2>1. strchr(s, x) # 0 /\ strchr(s, x) + 1 = 2
    BY <1>4
  <2>2. find_and_terminate(s, x).next = SubSeq(s, strchr(s, x) + 1, Len(s))
    BY <2>1, CutAt, Zenon
  <2> QED BY <1>2, <2>1, <2>2, Zenon
<1>6. SubSeq(s, 2, 1) \in Seq(T) /\ Len(SubSeq(s, 2, 1)) = 0
  BY <1>2
<1>7. SubSeq(s, 2, 1) = Nothing
  BY <1>6, NothingProps
<1> QED BY <1>1, <1>2, <1>3, <1>5, <1>7 DEF s, x

\* A query that begins in the name.
BeginsIn(T, e, query) ==
    \E a \in Seq(T), b \in Seq(T) :
        query = a \o b /\ ~Lacks(a, "?") /\ (Lacks(e, "&") => Lacks(a, "&"))

\* What a line becomes when it is put behind the name of an export: its own query,
\* unless the name has one.
LEMMA LineQuery ==
    ASSUME NEW T, Alphabet(T), NEW e \in Seq(T), Lacks(e, "#"), NEW line \in Seq(T)
    PROVE  LET u == e \o <<"?">> \o line
               query == yuarel_parse(u).query
           IN  /\ query \in Seq(T) /\ (~Lacks(e, "?") => query # Nothing)
               /\ \A d : d # "?" /\ Lacks(e, d) /\ Lacks(line, d) => Lacks(query, d)
               /\ Lacks(query, "#")
               /\ Lacks(e, "?") => query = find_fragment(line).left
               /\ ~Lacks(e, "?") => BeginsIn(T, e, query)
<1> DEFINE Q == <<"?">>
           a == e \o Q
           u == a \o line
           w == find_and_terminate(line, "#").left
           f == find_and_terminate(u, "#")
           r == find_and_terminate(a, "?").next
           query == yuarel_parse(u).query
<1>1. Q \in Seq(T) /\ ~Lacks(Q, "?") /\ Lacks(Q, "#") /\ find_and_terminate(Q, "?").next = Nothing
      /\ \A d : d # "?" => Lacks(Q, d)
  BY QuestionMark
<1>2. "#" \in T /\ "?" \in T
  BY DEF Alphabet
<1> HIDE DEF Q
<1>3. a \in Seq(T) /\ Lacks(a, "#") /\ ~Lacks(a, "?")
  <2>1. a \in Seq(T)
    BY <1>1, ConcatProperties
  <2> QED BY <1>1, <2>1, LacksConcat
<1>4. IsCut(T, line, "#", w, find_and_terminate(line, "#").next)
  BY <1>2, CutProps
<1>5. w \in Seq(T) /\ Lacks(w, "#") /\ \A d : Lacks(line, d) => Lacks(w, d)
  BY <1>4 DEF IsCut, find_fragment
<1>6. IsCut(T, a, "?", find_and_terminate(a, "?").left, r)
  BY <1>2, <1>3, CutProps
<1>7. r \in Seq(T) /\ \A d : Lacks(a, d) => Lacks(r, d)
  BY <1>3, <1>6 DEF IsCut
<1>8. Lacks(e, "?") => r = Nothing
  BY <1>1, <1>2, CutSecond
<1>18. ASSUME ~Lacks(e, "?") PROVE ~Lacks(r, "?")
  <2> DEFINE x == find_and_terminate(e, "?").next
  <2>1. r = x \o Q
    BY <1>1, <1>2, <1>18, CutFirst
  <2>2. x \in Seq(T)
    <3>1. IsCut(T, e, "?", find_and_terminate(e, "?").left, x)
      BY <1>2, CutProps
    <3> HIDE DEF x
    <3> QED BY <1>18, <3>1 DEF IsCut
  <2> HIDE DEF x, r
  <2>3. ~Lacks(x \o Q, "?")
    BY <1>1, <2>2, LacksConcat
  <2> QED BY <2>1, <2>3
<1> HIDE DEF a, r
<1>9. f.left = a \o w
  BY <1>2, <1>3, CutSecond
<1>10. query = find_and_terminate(f.left, "?").next
  BY DEF yuarel_parse, find_fragment, find_query
<1> HIDE DEF w, query, f
<1>11. find_and_terminate(a \o w, "?").next = r \o w
  BY <1>2, <1>3, <1>5, CutFirst DEF r
<1>12. query = r \o w
  BY <1>9, <1>10, <1>11, Zenon
<1>13. r \o w \in Seq(T)
  <2>1. r \in Seq(T) /\ w \in Seq(T)
    BY <1>5, <1>7
  <2> QED BY <2>1, ConcatProperties
<1>14. query \in Seq(T) /\ (~Lacks(e, "?") => query # Nothing)
  <2>1. query \in Seq(T)
    BY <1>12, <1>13
  <2>2. ASSUME ~Lacks(e, "?") PROVE ~Lacks(r \o w, "?")
    BY <1>5, <1>7, <1>18, <2>2, LacksConcat
  <2>3. Lacks(Nothing, "?")
    BY DEF Lacks, Nothing
  <2> QED BY <1>12, <2>1, <2>2, <2>3
<1>15. ASSUME NEW d, d # "?", Lacks(e, d), Lacks(line, d) PROVE Lacks(query, d)
  <2>1. Lacks(a, d)
    BY <1>1, <1>15, LacksConcat DEF a
  <2>2. Lacks(r, d) /\ Lacks(w, d)
    BY <1>5, <1>7, <1>15, <2>1
  <2> QED BY <1>5, <1>7, <1>12, <2>2, LacksConcat
<1>16. Lacks(query, "#")
  <2>1. Lacks(r, "#") /\ Lacks(w, "#")
    BY <1>3, <1>5, <1>7
  <2> QED BY <1>5, <1>7, <1>12, <2>1, LacksConcat
<1>17. ASSUME Lacks(e, "?") PROVE query = w
  <2>1. r = Nothing /\ Nothing \o w = w
    BY <1>5, <1>8, <1>17, NothingProps
  <2> QED BY <1>12, <2>1, Zenon
<1>19. ASSUME ~Lacks(e, "?") PROVE BeginsIn(T, e, query)
  <2>1. Lacks(e, "&") => Lacks(a, "&")
    BY <1>1, LacksConcat DEF a
  <2>2. Lacks(e, "&") => Lacks(r, "&")
    BY <1>7, <2>1
  <2> QED BY <1>5, <1>7, <1>12, <1>18, <1>19, <2>2 DEF BeginsIn
<1> QED BY <1>14, <1>15, <1>16, <1>17, <1>19 DEF query, u, a, Q, w, find_fragment

\* The first parameter is cut from the beginning of the query.
LEMMA FirstPiece ==
    ASSUME NEW T, Alphabet(T), NEW query \in Seq(T), query # Nothing, NEW delimiter \in T,
           NEW n \in Nat \ {0}
    PROVE  \E p \in Seq(T) :
              /\ p = query \/ (n # 1 /\ p = find_and_terminate(query, delimiter).left)
              /\ n = 1 \/ Lacks(p, delimiter)
              /\ yuarel_parse_query(query, delimiter, n)[1] = Param(p)
<1> DEFINE params == yuarel_parse_query(query, delimiter, n)
<1>1. query # NullString /\ n \in Nat
  BY NullLacks
<1>2. PICK f : /\ IsRest(f, query, delimiter, n)
               /\ params = [i \in 1 .. PieceCount(f, n) |-> Param(Piece(f, delimiter, n, i))]
  BY <1>1, QueryUnfolds
<1> DEFINE p == Piece(f, delimiter, n, 1)
<1>3. PieceCount(f, n) \in 1 .. n /\ f[0] = query
  BY <1>2, RestProps
<1>4. 1 \in 1 .. PieceCount(f, n) /\ (n = 1 => PieceCount(f, n) = 1)
  BY <1>3
<1>5. params[1] = Param(p)
  BY <1>2, <1>4
<1>6. IsPiece(T, f, delimiter, n, 1, p)
  BY <1>2, <1>4, PieceProps
<1>7. p \in Seq(T) /\ (n = 1 \/ Lacks(p, delimiter))
  <2>1. n = 1 \/ 1 < n
    OBVIOUS
  <2> HIDE DEF p
  <2> QED BY <1>6, <2>1 DEF IsPiece
<1>8. p = query \/ (n # 1 /\ p = find_and_terminate(query, delimiter).left)
  BY <1>3, <1>4 DEF Piece
<1> HIDE DEF p, params
<1> QED BY <1>5, <1>7, <1>8 DEF params

\* The value of the first parameter has no character that the query has not.
LEMMA FirstParam ==
    ASSUME NEW T, Alphabet(T), NEW query \in Seq(T), query # Nothing, NEW delimiter \in T,
           NEW n \in Nat \ {0}
    PROVE  LET param == yuarel_parse_query(query, delimiter, n)[1]
           IN  /\ param.val \in Seq(T) \cup {NullString}
               /\ \A d \in T : Lacks(query, d) => Lacks(param.val, d)
<1> DEFINE params == yuarel_parse_query(query, delimiter, n)
<1>5. PICK p \in Seq(T) : /\ p = query \/ p = find_and_terminate(query, delimiter).left
                          /\ params[1] = Param(p)
  BY FirstPiece
<1>7. IsCut(T, query, delimiter, find_and_terminate(query, delimiter).left,
            find_and_terminate(query, delimiter).next)
  BY CutProps
<1>8. p \in Seq(T) /\ \A d : Lacks(query, d) => Lacks(p, d)
  BY <1>5, <1>7 DEF IsCut
<1> HIDE DEF params
<1> DEFINE cut == find_and_terminate(p, "=")
<1>9. "=" \in T
  BY DEF Alphabet
<1>10. IsCut(T, p, "=", cut.left, cut.next)
  BY <1>8, <1>9, CutProps
<1>11. params[1].val = cut.next
  BY <1>5 DEF Param
<1> HIDE DEF cut
<1>12. cut.next \in Seq(T) \cup {NullString}
       /\ \A d \in T : Lacks(query, d) => Lacks(cut.next, d)
  BY <1>8, <1>10, NullLacks DEF IsCut
<1> QED BY <1>11, <1>12 DEF params

-----------------------------------------------------------------------------
(* Why a program crashes.                                                     *)

Causes == failed # {} \/ PoolFull \/ ERR \in handles \/ TooMany
LongPath == Cardinality({i \in DOMAIN arg : arg[i] = "/"}) > 1

\* A handle is that of a plugin, or an error.
HandlesKnown == \A g \in handles : g = ERR \/ Valid(g)

\* A program that reads a file makes its calls in order; as long as nothing has failed,
\* only the file's plugin is there when the file is looked up, and it has an export.
FileCalls == IF program = "wc" THEN WcCalls(arg) ELSE ReaderCalls(arg)
FileTotal == IF program = "wc" THEN 6 ELSE 3
Called == FileTotal - Len(todo)
FileList ==
    /\ arg \in Paths /\ Len(todo) <= FileTotal
    /\ \A k \in 1 .. Len(todo) : todo[k] = FileCalls[Called + k]
FileReached ==
    /\ Called < 3 => \A s \in Slot : plugins[s] \in {NoDriver, "file"}
    /\ Called >= 1 => h["file"] \in Slot /\ plugins[h["file"]] = "file"
    /\ Called >= 2 => \E i \in Index : /\ contexts_status[i] = "CREATED"
                                       /\ contexts[i].name = basename(arg)
    /\ Called >= 3 => file # NULL \/ LongPath
FileInv ==
    program \in {"reader", "wc"} => FileList /\ (alive /\ ~Causes => FileReached)

\* The name before every line is a string that has no fragment.
Letters == {"api", "test", "memcpy", "Example", "$"} \cup Separators \cup UNION {StringTokens(line) : line \in Lines}
NameInv == exportname \in Seq(Letters) /\ Lacks(exportname, "#")

\* An answer has a line.
AnswerInv ==
    \E line, from, n, room, text :
        answer = [line |-> line, from |-> from, size |-> n, room |-> room, text |-> text]

CauseInv == HandlesKnown /\ FileInv /\ NameInv /\ AnswerInv /\ CrashHasCause

LEMMA LettersProps ==
    /\ Alphabet(Letters) /\ "$" \in Letters /\ "&" \in Letters
    /\ \A line \in Lines : line \in Seq(Letters) /\ line # Nothing
<1>1. "NULL" \notin Letters
  BY DEF Letters, Separators, StringTokens
<1>2. Alphabet(Letters) /\ "$" \in Letters /\ "&" \in Letters
  BY <1>1 DEF Alphabet, Letters, Separators
<1>3. ASSUME NEW line \in Lines PROVE line \in Seq(Letters) /\ line # Nothing
  <2>1. IsString(line) /\ line # Nothing
    BY LinesAssumption DEF Nothing
  <2>2. line \in Seq(StringTokens(line))
    BY <2>1 DEF IsString, StringTokens
  <2>3. StringTokens(line) \subseteq Letters
    BY DEF Letters
  <2> HIDE DEF StringTokens
  <2>4. line \in Seq(Letters)
    BY <2>2, <2>3
  <2> QED BY <2>1, <2>4
<1> QED BY <1>2, <1>3

LEMMA TableSizes == \A d \in Drivers : Struct[d].table \in Nat
  BY StructAssumption DEF Fields

\* What has been a cause stays one.
LEMMA CausesStay ==
    ASSUME TablesInv, TablesType', Growth, failed \subseteq failed', handles \subseteq handles', Causes
    PROVE  Causes'
<1>1. CASE PoolFull
  <2>1. \A j \in 0 .. MaxContexts - 1 : j < MaxContexts => contexts_status[j] # "FREE"
    BY <1>1, MaxContextsAssumption, FirstFreeProps DEF PoolFull, lwnbd_contexts_count
  <2>2. \A j \in Index : contexts_status[j] = "CREATED"
    BY <2>1, MaxContextsAssumption DEF TablesInv, TablesType, Status, Index
  <2>3. \A j \in Index : contexts_status'[j] = "CREATED"
    BY <2>2 DEF Growth
  <2> DEFINE n == FirstFree(contexts_status', MaxContexts)
  <2>4. n \in 0 .. MaxContexts /\ (n < MaxContexts => contexts_status'[n] = "FREE")
    BY MaxContextsAssumption, FirstFreeProps
  <2> HIDE DEF n
  <2>5. n = MaxContexts
    BY <2>3, <2>4, MaxContextsAssumption DEF Index
  <2>6. PoolFull'
    BY <2>5 DEF PoolFull, lwnbd_contexts_count, n
  <2> QED BY <2>6 DEF Causes
<1>2. CASE failed # {} \/ ERR \in handles
  <2>1. failed' # {} \/ (ERR \in handles)'
    BY <1>2 DEF ERR
  <2> QED BY <2>1 DEF Causes
<1>3. CASE TooMany
  <2>1. PICK d \in Drivers : Struct[d].table # 0 /\ devices[d] > Struct[d].table
    BY <1>3 DEF TooMany
  <2>2. devices[d] \in Nat /\ devices'[d] \in Nat /\ devices[d] <= devices'[d]
    BY DEF TablesInv, TablesType, Growth, DevicesGrow
  <2>3. Struct[d].table \in Nat
    BY TableSizes
  <2>4. devices'[d] > Struct[d].table
    BY <2>1, <2>2, <2>3
  <2>5. TooMany'
    BY <2>1, <2>4 DEF TooMany
  <2> QED BY <2>5 DEF Causes
<1> QED BY <1>1, <1>2, <1>3 DEF Causes

\* A bad pointer followed in a call.
LEMMA InitCause ==
    ASSUME TablesInv, NEW d \in Drivers, lwnbd_plugin_init(d), HandlesKnown
    PROVE  /\ HandlesKnown' /\ handles \subseteq handles' /\ failed \subseteq failed'
           /\ ~alive' => PoolFull'
           /\ alive' => ret' \in handles'
<1>1. TablesInv' /\ Growth
  BY InitCall
<1>2. \A g \in handles : g = ERR \/ (Valid(g))'
  <2> SUFFICES ASSUME NEW g \in handles, g # ERR PROVE (Valid(g))'
    OBVIOUS
  <2>1. g \in Slot /\ plugins[g] # NoDriver
    BY DEF HandlesKnown, Valid
  <2>2. plugins_status[g] = "CREATED"
    BY <2>1 DEF TablesInv, TablesType, PluginsInv, Status
  <2>3. plugins'[g] = plugins[g]
    BY <1>1, <2>1, <2>2 DEF Growth
  <2> QED BY <2>1, <2>3 DEF Valid
<1>3. CASE InitRefused(d)
  BY <1>2, <1>3 DEF InitRefused, tables, HandlesKnown
<1>4. CASE InitRegisters(d)
  <2>1. Register(d) /\ ~Refused(d)
    BY <1>4 DEF InitRegisters
  <2>2. FreeSlot \in Slot /\ plugins'[FreeSlot] = d
    BY <2>1, RegisterProps
  <2>3. ret' = FreeSlot /\ handles' = handles \cup {FreeSlot} /\ UNCHANGED <<alive, failed>> /\ alive
    BY <1>4 DEF InitRegisters
  <2>4. d # NoDriver
    BY NoDriverAssumption
  <2> DEFINE f == FreeSlot
  <2>6. f \in Slot /\ plugins'[f] # NoDriver
    BY <2>2, <2>4
  <2> HIDE DEF f
  <2>7. HandlesKnown'
    BY <1>2, <2>3, <2>6 DEF HandlesKnown, Valid, f
  <2> QED BY <2>3, <2>7
<1>5. CASE InitCrashes(d)
  BY <1>2, <1>5 DEF InitCrashes, HandlesKnown, PoolFull, lwnbd_contexts_count, Crash
<1> QED BY <1>3, <1>4, <1>5 DEF lwnbd_plugin_init

\* lwnbd_plugin_new crashes for one of the causes, and takes none away.
LEMMA NewCause ==
    ASSUME TablesInv, NEW g, NEW name, lwnbd_plugin_new(g, name), HandlesKnown
    PROVE  /\ HandlesKnown' /\ handles' = handles /\ failed \subseteq failed'
           /\ ~alive' => Causes'
<1>1. UNCHANGED <<plugins, plugins_status>> /\ handles' = handles /\ alive
  BY NewCall DEF lwnbd_plugin_new
<1>2. HandlesKnown'
  BY <1>1 DEF HandlesKnown, Valid
<1>3. failed \subseteq failed'
  BY DEF lwnbd_plugin_new, NewContext, tables
<1>4. ASSUME ~alive' PROVE Causes'
  <2>1. CASE ~Valid(g)
    <3>1. ERR \in handles
      BY <2>1 DEF lwnbd_plugin_new, HandlesKnown
    <3>2. (ERR \in handles)'
      BY <1>1, <3>1 DEF ERR
    <3> QED BY <3>2 DEF Causes
  <2>2. CASE Valid(g) /\ PoolFull /\ UNCHANGED tables
    <3>2. PoolFull'
      BY <2>2 DEF PoolFull, lwnbd_contexts_count, tables
    <3> QED BY <3>2 DEF Causes
  <2>3. CASE Valid(g) /\ TakeDevice(plugins[g]) /\ Full(plugins[g])
    <3> DEFINE d == plugins[g]
    <3>1. d \in Drivers
      BY <2>3 DEF Valid, TablesInv, TablesType
    <3>2. devices[d] \in Nat /\ devices'[d] = devices[d] + 1
      BY <2>3, <3>1, DeviceTaken DEF TablesInv, TablesType
    <3>3. Struct[d].table \in Nat /\ Struct[d].table # 0 /\ devices[d] >= Struct[d].table
      BY <2>3, <3>1, TableSizes DEF Full
    <3> HIDE DEF d
    <3>4. devices'[d] > Struct[d].table
      BY <3>2, <3>3
    <3>5. TooMany'
      BY <3>1, <3>3, <3>4 DEF TooMany
    <3> QED BY <3>5 DEF Causes
  <2>4. CASE Valid(g)
    <3>1. \/ PoolFull /\ UNCHANGED tables
          \/ TakeDevice(plugins[g]) /\ Full(plugins[g])
      BY <1>1, <1>4, <2>4 DEF lwnbd_plugin_new, NewContext
    <3> QED BY <2>2, <2>3, <2>4, <3>1
  <2> QED BY <2>1, <2>4
<1> QED BY <1>1, <1>2, <1>3, <1>4

\* The same of lwnbd_plugin_config.
LEMMA ConfigCause ==
    ASSUME NEW g, NEW withKey, lwnbd_plugin_config(g, withKey), HandlesKnown
    PROVE  HandlesKnown' /\ UNCHANGED <<tables, handles>> /\ (~alive' => Causes')
<1>1. UNCHANGED <<tables, handles>> /\ alive
  BY DEF lwnbd_plugin_config
<1>2. HandlesKnown'
  BY <1>1 DEF HandlesKnown, Valid, tables
<1>3. ASSUME ~alive' PROVE Causes'
  <2>1. ~Valid(g) /\ g \in handles
    BY <1>1, <1>3 DEF lwnbd_plugin_config
  <2>2. ERR \in handles
    BY <2>1 DEF HandlesKnown
  <2>3. (ERR \in handles)'
    BY <1>1, <2>2 DEF ERR
  <2> QED BY <2>3 DEF Causes
<1> QED BY <1>1, <1>2, <1>3

\* The same of the lookup of a context, which may be one that has to be asked something.
Ignored(name, asked) ==
    LET c == lwnbd_get_context_string(name)
    IN ~asked /\ c # NULL /\ contexts[c].p # NoDriver /\ Struct[contexts[c].p].refuses
LEMMA GetCause ==
    ASSUME TablesInv, NEW name, NEW asked, lwnbd_get_context(name, asked), HandlesKnown
    PROVE  /\ HandlesKnown' /\ UNCHANGED <<tables, handles>>
           /\ ~alive' => Causes' \/ Ignored(name, asked)
<1>1. UNCHANGED <<tables, handles>> /\ alive
  BY DEF lwnbd_get_context
<1>2. HandlesKnown'
  BY <1>1 DEF HandlesKnown, Valid, tables
<1> DEFINE c == lwnbd_get_context_string(name)
<1>3. ASSUME ~alive', ~Ignored(name, asked) PROVE Causes'
  <2>1. c # NULL /\ contexts[c].p = NoDriver
    BY <1>1, <1>3 DEF lwnbd_get_context, Found, Ignored
  <2>2. c \in Matches(name)
    <3>1. Matches(name) # {} /\ Matches(name) \in SUBSET Nat
      BY <2>1, MaxContextsAssumption DEF lwnbd_get_context_string, Matches, Index
    <3>2. \E m \in Matches(name) : \A k \in Matches(name) : m <= k
      BY <3>1, LeastNat
    <3> QED BY <3>1, <3>2 DEF lwnbd_get_context_string
  <2> HIDE DEF c
  <2>3. c \in Index /\ c < lwnbd_contexts_count
    BY <2>2 DEF Matches
  <2>4. contexts_status[c] = "CREATED"
    <3>1. \A j \in 0 .. MaxContexts - 1 : j < lwnbd_contexts_count => contexts_status[j] # "FREE"
      BY MaxContextsAssumption, FirstFreeProps DEF lwnbd_contexts_count
    <3>2. contexts_status[c] # "FREE"
      BY <2>3, <3>1 DEF Index
    <3> QED BY <2>3, <3>2 DEF TablesInv, TablesType, Status
  <2>5. c \in failed
    <3> SUFFICES ASSUME c \notin failed PROVE FALSE
      OBVIOUS
    <3>1. PICK s \in Slot : plugins_status[s] = "CREATED" /\ contexts[c].p = plugins[s]
      BY <2>3, <2>4 DEF TablesInv, ContextsInv
    <3>2. plugins[s] \in Drivers
      BY <3>1 DEF TablesInv, PluginsInv
    <3> QED BY <2>1, <3>1, <3>2, NoDriverAssumption
  <2> QED BY <1>1, <2>5 DEF Causes, tables
<1> QED BY <1>1, <1>2, <1>3

\* What a request becomes depends on the contexts only.
LEMMA SameRequest ==
    ASSUME NEW u, UNCHANGED <<contexts, contexts_status>>
    PROVE  (Request(u))' = Request(u) /\ UNCHANGED lwnbd_contexts_count
<1>1. UNCHANGED lwnbd_contexts_count
  BY DEF lwnbd_contexts_count
<1> DEFINE n == NameOf(yuarel_parse(u).path)
<1>2. (Matches(n))' = Matches(n)
  BY <1>1 DEF Matches
<1> HIDE DEF n
<1>3. (lwnbd_get_context_string(n))' = lwnbd_get_context_string(n)
  BY <1>2 DEF lwnbd_get_context_string
<1> QED BY <1>1, <1>3 DEF Request, n

LEMMA LookupCause ==
    ASSUME TablesInv, NEW u, lwnbd_get_context(Request(u).name, Request(u).params # <<>>),
           HandlesKnown
    PROVE  /\ HandlesKnown' /\ UNCHANGED <<tables, handles>>
           /\ ~alive' => Causes' \/ (Unasked(Request(u)))'
<1> DEFINE r == Request(u)
<1>1. /\ HandlesKnown' /\ UNCHANGED <<tables, handles>>
      /\ ~alive' => Causes' \/ Ignored(r.name, r.params # <<>>)
  BY GetCause
<1>2. Ignored(r.name, r.params # <<>>) => Unasked(r)
  BY DEF Ignored, Unasked, Request
<1>3. (Request(u))' = Request(u)
  BY <1>1, SameRequest DEF tables
<1>4. Unasked(r) => (Unasked(Request(u)))'
  BY <1>3 DEF Unasked
<1> QED BY <1>1, <1>2, <1>4

LEMMA DeadStays == ASSUME ~alive, [Next]_allVars PROVE UNCHANGED allVars
<1>1. ~(Loads \/ Loaded \/ Makes \/ Gets)
  BY DEF Loads, Loaded, Makes, Gets, At
<1>2. ~(ReaderTurn \/ WcTurn \/ ShellLoop \/ ShellExits \/ Anything)
  BY DEF ReaderTurn, WcTurn, ShellLoop, ShellExits, Anything, Looping
<1> QED BY <1>1, <1>2 DEF Next, Finished

LEMMA CallFields ==
    /\ \A d : Load(d).op = "init" /\ Load(d).d = d
    /\ \A d, m : New(d, m).op = "new" /\ New(d, m).d = d /\ New(d, m).name = m
    /\ \A u, v : Get(u, v).op = "get" /\ Get(u, v).uri = u /\ Get(u, v).var = v
  BY DEF Load, New, Get

LEMMA ReaderList ==
    ASSUME NEW path
    PROVE  LET r == ReaderCalls(path)
           IN  /\ Len(r) = 3 /\ r[1] = Load("file") /\ r[2] = New("file", basename(path))
               /\ r[3] = Get(path, "file")
<1> DEFINE a == Load("file")
           b == New("file", basename(path))
           c == Get(path, "file")
<1>1. ReaderCalls(path) = <<a, b, c>>
  BY DEF ReaderCalls
<1> HIDE DEF a, b, c
<1>2. Len(<<a, b, c>>) = 3 /\ <<a, b, c>>[1] = a /\ <<a, b, c>>[2] = b /\ <<a, b, c>>[3] = c
  OBVIOUS
<1> QED BY <1>1, <1>2 DEF a, b, c

\* The calls that the reader and the counter make, in order.
LEMMA FileCallsAre ==
    ASSUME program \in {"reader", "wc"}
    PROVE  /\ FileCalls[1] = Load("file") /\ FileCalls[2] = New("file", basename(arg))
           /\ FileCalls[3] = Get(arg, "file")
           /\ program = "wc" => \E u : /\ FileCalls[4] = Load("command")
                                       /\ FileCalls[5] = New("command", "")
                                       /\ FileCalls[6] = Get(u, "sink")
<1>1. CASE program = "reader"
  <2>1. FileCalls = ReaderCalls(arg)
    BY <1>1 DEF FileCalls
  <2> QED BY <1>1, <2>1, ReaderList, Zenon
<1>2. CASE program = "wc"
  <2>1. FileCalls = WcCalls(arg)
    BY <1>2 DEF FileCalls
  <2> QED BY <2>1, WcList, Zenon
<1> QED BY <1>1, <1>2

\* The call that comes next.
LEMMA FileCall ==
    ASSUME Inv, FileList, program \in {"reader", "wc"}, todo # <<>>
    PROVE  \/ Called = 0 /\ Call.op = "init" /\ Call.d = "file"
           \/ Called = 1 /\ Call.op = "new" /\ Call.d = "file" /\ Call.name = basename(arg)
           \/ Called = 2 /\ Call.op = "get" /\ Call.var = "file" /\ Call.uri = arg
           \/ Called >= 3 /\ Call.op = "init" /\ Call.d = "command"
           \/ Called >= 3 /\ Call.op = "new"
           \/ Called >= 3 /\ Call.op = "get" /\ Call.var = "sink"
<1> DEFINE n == Called
           w == FileCalls
           b == basename(arg)
           e == ""
<1>1. Call = todo[1] /\ 1 \in 1 .. Len(todo)
  BY CallHasType
<1>2. Len(todo) \in Nat /\ Len(todo) # 0 /\ Len(todo) <= FileTotal
  BY <1>1 DEF Inv, TodoInv, FileList
<1>3. n \in Nat /\ n < FileTotal /\ (FileTotal = 3 \/ FileTotal = 6)
  BY <1>2 DEF Called, FileTotal
<1>4. Call = w[n + 1]
  BY <1>1 DEF FileList
<1>5. w[1] = Load("file") /\ w[2] = New("file", b) /\ w[3] = Get(arg, "file")
  BY FileCallsAre
<1>6. FileTotal = 6 => \E u : /\ w[4] = Load("command") /\ w[5] = New("command", e)
                              /\ w[6] = Get(u, "sink")
  <2> SUFFICES ASSUME FileTotal = 6
               PROVE  \E u : /\ w[4] = Load("command") /\ w[5] = New("command", e)
                             /\ w[6] = Get(u, "sink")
    OBVIOUS
  <2>1. program = "wc"
    BY DEF FileTotal
  <2> QED BY <2>1, FileCallsAre, Zenon
<1> HIDE DEF n, w, b, e
<1>7. n = 0 \/ n = 1 \/ n = 2 \/ (FileTotal = 6 /\ (n = 3 \/ n = 4 \/ n = 5))
  BY <1>3
<1>8. CASE n = 0
  <2>1. Call = Load("file")
    BY <1>4, <1>5, <1>8
  <2> QED BY <1>8, <2>1, CallFields DEF n
<1>9. CASE n = 1
  <2>1. Call = New("file", b)
    BY <1>4, <1>5, <1>9
  <2>2. Call.op = "new" /\ Call.d = "file" /\ Call.name = b
    BY <2>1, CallFields
  <2> QED BY <1>9, <2>2 DEF n, b
<1>10. CASE n = 2
  <2>1. Call = Get(arg, "file")
    BY <1>4, <1>5, <1>10
  <2> QED BY <1>10, <2>1, CallFields DEF n
<1>11. CASE FileTotal = 6 /\ n = 3
  <2>1. Call = Load("command") /\ n >= 3
    BY <1>4, <1>6, <1>11
  <2> QED BY <2>1, CallFields DEF n
<1>12. CASE FileTotal = 6 /\ n = 4
  <2>1. Call = New("command", e) /\ n >= 3
    BY <1>4, <1>6, <1>12
  <2> QED BY <2>1, CallFields DEF n
<1>13. CASE FileTotal = 6 /\ n = 5
  <2>1. PICK u : Call = Get(u, "sink")
    BY <1>4, <1>6, <1>13
  <2>2. n >= 3
    BY <1>13
  <2> QED BY <2>1, <2>2, CallFields DEF n
<1> QED BY <1>7, <1>8, <1>9, <1>10, <1>11, <1>12, <1>13

LEMMA FileTail ==
    ASSUME Inv, FileList, todo # <<>>, todo' = Tail(todo), UNCHANGED fixed
    PROVE  FileList' /\ Called' = Called + 1 /\ Called \in Nat
<1> DEFINE n == Len(todo)
           t == FileTotal
           w == FileCalls
<1>1. todo \in Seq(CallType) /\ n \in Nat /\ n # 0
  BY DEF Inv, TodoInv
<1>2. Len(todo') = n - 1 /\ \A k \in 1 .. n - 1 : todo'[k] = todo[k + 1]
  BY <1>1
<1>3. FileTotal' = t /\ FileCalls' = w /\ arg' = arg /\ t \in Nat
  BY DEF fixed, FileTotal, FileCalls, WcCalls, ReaderCalls
<1>4. arg \in Paths /\ n <= t /\ \A k \in 1 .. n : todo[k] = w[t - n + k]
  BY DEF FileList, Called
<1> HIDE DEF n, t, w
<1>5. ASSUME NEW k \in 1 .. n - 1 PROVE todo'[k] = w[t - (n - 1) + k]
  <2>1. k + 1 \in 1 .. n /\ t - n + (k + 1) = t - (n - 1) + k
    BY <1>1, <1>3
  <2>2. todo'[k] = todo[k + 1] /\ todo[k + 1] = w[t - n + (k + 1)]
    BY <1>2, <1>4, <2>1
  <2> QED BY <2>1, <2>2
<1>6. Called' = t - (n - 1)
  BY <1>2, <1>3 DEF Called
<1>7. Called = t - n
  BY DEF Called, t, n
<1>8. FileList'
  BY <1>1, <1>2, <1>3, <1>4, <1>5, <1>6 DEF FileList
<1>9. t - (n - 1) = t - n + 1 /\ t - n \in Nat
  BY <1>1, <1>3, <1>4
<1> QED BY <1>6, <1>7, <1>8, <1>9

\* What has been reached stays so.
LEMMA FileGrows ==
    ASSUME TablesInv, Growth, NEW s \in Slot, plugins[s] = "file"
    PROVE  plugins'[s] = "file"
<1>1. plugins_status[s] = "CREATED"
  BY LinkedAssumption, NoDriverAssumption DEF TablesInv, TablesType, PluginsInv, Status
<1> QED BY <1>1 DEF Growth

LEMMA ExportGrows ==
    ASSUME Growth, arg' = arg,
           \E i \in Index : contexts_status[i] = "CREATED" /\ contexts[i].name = basename(arg)
    PROVE  \E i \in Index : contexts_status'[i] = "CREATED" /\ contexts'[i].name = basename(arg')
<1>1. PICK i \in Index : contexts_status[i] = "CREATED" /\ contexts[i].name = basename(arg)
  OBVIOUS
<1>2. contexts_status'[i] = "CREATED" /\ contexts'[i].name = basename(arg)
  BY <1>1 DEF Growth
<1> QED BY <1>2

\* Once the file has been looked up, it stays reached.
LEMMA ReachedLater ==
    ASSUME Called \in Nat, Called >= 2, Called' = Called + 1,
           h'["file"] \in Slot, plugins'[h'["file"]] = "file",
           \E i \in Index : contexts_status'[i] = "CREATED" /\ contexts'[i].name = basename(arg'),
           file' # NULL \/ LongPath'
    PROVE  FileReached'
<1>1. ~(Called' < 3)
  OBVIOUS
<1>2. (file # NULL \/ LongPath)'
  BY DEF NULL
<1>3. (\E i \in Index : contexts_status[i] = "CREATED" /\ contexts[i].name = basename(arg))'
  OBVIOUS
<1>4. (h["file"] \in Slot /\ plugins[h["file"]] = "file")'
  OBVIOUS
<1>5. (~(Called < 3))'
  BY <1>1
<1> QED BY <1>2, <1>3, <1>4, <1>5, Zenon DEF FileReached

LEMMA LoadsFile ==
    ASSUME Inv, HandlesKnown, FileInv, Loads, program \in {"reader", "wc"}
    PROVE  FileInv'
<1> DEFINE d == Call.d
<1>1. /\ alive /\ todo # <<>> /\ Call.op \in {"init", "init if NULL"} /\ lwnbd_plugin_init(d)
      /\ h' = [h EXCEPT ![d] = ret'] /\ todo' = Tail(todo) /\ UNCHANGED <<fixed, file>>
  BY DEF Loads, At
<1>2. Call \in CallType
  BY <1>1, CallHasType
<1>3. d \in Drivers
  BY <1>1, <1>2 DEF CallType
<1>4. FileList
  BY DEF FileInv
<1>5. FileList' /\ Called' = Called + 1 /\ Called \in Nat
  BY <1>1, <1>4, FileTail
<1>6. /\ TablesInv' /\ Growth /\ (ret' = ERR \/ (ret' \in Slot /\ plugins'[ret'] = d))
      /\ handles \subseteq handles' /\ failed \subseteq failed' /\ (alive' => ret' \in handles')
      /\ \A s \in Slot : plugins'[s] = plugins[s] \/ plugins'[s] = d
  BY <1>1, <1>3, InitCall, InitCause, InitNames DEF Inv
<1> HIDE DEF d
<1>7. SUFFICES ASSUME alive', ~Causes' PROVE FileReached'
  BY <1>5 DEF FileInv
<1>8. ~Causes
  BY <1>6, <1>7, CausesStay DEF Inv, TablesInv
<1>9. FileReached
  BY <1>1, <1>8 DEF FileInv
<1>10. ret' # ERR
  BY <1>6, <1>7 DEF Causes, ERR
<1>11. DOMAIN h = Drivers /\ "file" \in Drivers
  BY LinkedAssumption DEF Inv, HandlesInv
<1>12. UNCHANGED <<arg, file>>
  BY <1>1 DEF fixed
<1>13. CASE Called = 0 /\ d = "file"
  <2>1. \A s \in Slot : plugins'[s] \in {NoDriver, "file"}
    BY <1>6, <1>9, <1>13 DEF FileReached
  <2>2. h'["file"] \in Slot /\ plugins'[h'["file"]] = "file"
    BY <1>1, <1>6, <1>10, <1>11, <1>13
  <2>3. Called' = 1
    BY <1>5, <1>13
  <2> QED BY <2>1, <2>2, <2>3 DEF FileReached
<1>14. CASE Called >= 3 /\ d = "command"
  <2>1. h'["file"] = h["file"]
    BY <1>1, <1>11, <1>14
  <2>2. h["file"] \in Slot /\ plugins'[h["file"]] = "file"
    BY <1>5, <1>6, <1>9, <1>14, FileGrows DEF FileReached, Inv
  <2>3. \E i \in Index : contexts_status'[i] = "CREATED" /\ contexts'[i].name = basename(arg')
    BY <1>5, <1>6, <1>9, <1>12, <1>14, ExportGrows DEF FileReached
  <2>4. file' # NULL \/ LongPath'
    BY <1>9, <1>12, <1>14 DEF FileReached, LongPath
  <2>5. Called >= 2
    BY <1>5, <1>14
  <2> QED BY <1>5, <2>1, <2>2, <2>3, <2>4, <2>5, ReachedLater
<1> QED BY <1>1, <1>4, <1>13, <1>14, FileCall DEF d

LEMMA MakesFile ==
    ASSUME Inv, HandlesKnown, FileInv, Makes, program \in {"reader", "wc"}
    PROVE  FileInv'
<1> DEFINE d == Call.d
           name == Call.name
<1>1. /\ alive /\ todo # <<>> /\ Call.op = "new" /\ lwnbd_plugin_new(h[d], name)
      /\ todo' = Tail(todo) /\ UNCHANGED <<fixed, file, h>>
  BY DEF Makes, At
<1>2. FileList
  BY DEF FileInv
<1>3. FileList' /\ Called' = Called + 1 /\ Called \in Nat
  BY <1>1, <1>2, FileTail
<1>4. /\ TablesInv' /\ Growth /\ UNCHANGED <<plugins, plugins_status>>
      /\ handles' = handles /\ failed \subseteq failed'
  BY <1>1, NewCall, NewCause DEF Inv
<1>5. SUFFICES ASSUME alive', ~Causes' PROVE FileReached'
  BY <1>3 DEF FileInv
<1>6. ~Causes
  BY <1>4, <1>5, CausesStay DEF Inv, TablesInv
<1>7. FileReached
  BY <1>1, <1>6 DEF FileInv
<1>8. UNCHANGED <<arg, file>>
  BY <1>1 DEF fixed
<1>9. Called >= 1
  BY <1>1, <1>2, <1>3, FileCall
<1>10. h'["file"] \in Slot /\ plugins'[h'["file"]] = "file"
  BY <1>1, <1>4, <1>7, <1>9 DEF FileReached
<1>11. CASE Called = 1 /\ d = "file" /\ name = basename(arg)
  <2>1. Valid(h["file"]) /\ plugins[h["file"]] = "file"
    BY <1>7, <1>9, LinkedAssumption, NoDriverAssumption DEF FileReached, Valid
  <2>2. Struct["file"].ctor /\ ~Struct["file"].single /\ Struct["file"].fails = {}
    BY StructsAssumption DEF file_plugin, Exporting, file_ctor_fails
  <2>3. NewContext("file", name)
    BY <1>1, <1>11, <2>1, <2>2 DEF lwnbd_plugin_new
  <2>4. ~PoolFull /\ Take(lwnbd_contexts_count, [name |-> name, p |-> "file"])
    BY <1>5, <1>6, <2>2, <2>3 DEF NewContext, Causes, Crash
  <2> DEFINE n == lwnbd_contexts_count
             c == [name |-> name, p |-> "file"]
  <2>5. n \in Index /\ contexts_status'[n] = "CREATED" /\ contexts'[n] = c
    BY <2>4, TakeProps DEF Inv
  <2> HIDE DEF n
  <2>6. contexts'[n].name = basename(arg')
    BY <1>8, <1>11, <2>5
  <2>7. \E i \in Index : contexts_status'[i] = "CREATED" /\ contexts'[i].name = basename(arg')
    BY <2>5, <2>6
  <2>8. \A s \in Slot : plugins'[s] \in {NoDriver, "file"}
    BY <1>4, <1>7, <1>11 DEF FileReached
  <2>9. Called' = 2
    BY <1>3, <1>11
  <2> QED BY <1>10, <2>7, <2>8, <2>9 DEF FileReached
<1>12. CASE Called >= 3
  <2>1. \E i \in Index : contexts_status'[i] = "CREATED" /\ contexts'[i].name = basename(arg')
    BY <1>3, <1>4, <1>7, <1>8, <1>12, ExportGrows DEF FileReached
  <2>2. file' # NULL \/ LongPath'
    BY <1>7, <1>8, <1>12 DEF FileReached, LongPath
  <2>3. Called >= 2
    BY <1>3, <1>12
  <2> QED BY <1>3, <1>10, <2>1, <2>2, <2>3, ReachedLater
<1> QED BY <1>1, <1>2, <1>11, <1>12, FileCall

LEMMA GetsFile ==
    ASSUME Inv, HandlesKnown, FileInv, Gets, program \in {"reader", "wc"}
    PROVE  FileInv'
<1> DEFINE name == Request(Call.uri).name
<1>1. /\ alive /\ todo # <<>> /\ Call.op = "get"
      /\ lwnbd_get_context(name, Request(Call.uri).params # <<>>)
      /\ todo' = Tail(todo) /\ UNCHANGED <<fixed, h>>
      /\ file' = IF Call.var = "file" THEN ret' ELSE file
  BY DEF Gets, At, Query
<1>2. FileList
  BY DEF FileInv
<1>3. FileList' /\ Called' = Called + 1 /\ Called \in Nat
  BY <1>1, <1>2, FileTail
<1>4. UNCHANGED <<tables, handles>>
  BY <1>1, GetCause DEF Inv
<1>5. SUFFICES ASSUME alive', ~Causes' PROVE FileReached'
  BY <1>3 DEF FileInv
<1>6. ~Causes
  BY <1>4, <1>5 DEF Causes, PoolFull, lwnbd_contexts_count, tables, ERR, TooMany
<1>7. FileReached
  BY <1>1, <1>6 DEF FileInv
<1>8. arg' = arg /\ UNCHANGED <<plugins, plugins_status, contexts, contexts_status, h>>
  BY <1>1, <1>4 DEF fixed, tables
<1>9. Called >= 2
  BY <1>1, <1>2, <1>3, FileCall
<1>10. h'["file"] \in Slot /\ plugins'[h'["file"]] = "file"
  BY <1>3, <1>7, <1>8, <1>9 DEF FileReached
<1>11. \E i \in Index : contexts_status'[i] = "CREATED" /\ contexts'[i].name = basename(arg')
  BY <1>3, <1>7, <1>8, <1>9 DEF FileReached
<1>13. file' # NULL \/ LongPath'
  <2>1. CASE Called = 2 /\ Call.var = "file" /\ Call.uri = arg
    <3> SUFFICES ASSUME ~LongPath PROVE ret' # NULL
      BY <1>1, <1>8, <2>1 DEF LongPath, NULL
    <3>1. name = basename(arg)
      BY <1>2, <2>1, PathName DEF FileList, LongPath
    <3>2. PICK i \in Index : contexts_status[i] = "CREATED" /\ contexts[i].name = basename(arg)
      BY <1>7, <2>1 DEF FileReached
    <3> DEFINE c == lwnbd_get_context_string(name)
    <3>3. c \in 0 .. i
      BY <3>1, <3>2, LookupBefore DEF Inv
    <3> HIDE DEF name
    <3>4. c # NULL /\ c \in Index
      BY <3>2, <3>3, MaxContextsAssumption DEF NULL, Index
    <3>5. contexts[c].p # NoDriver /\ ret' \in {c} \cup (IF Struct[contexts[c].p].refuses THEN {NULL} ELSE {})
      BY <1>1, <1>5, <3>4 DEF lwnbd_get_context, Crash, Found
    <3>6. contexts[c].p = "file"
      <4>1. c \in Matches(name)
        <5>1. Matches(name) # {} /\ Matches(name) \in SUBSET Nat
          BY <3>4, MaxContextsAssumption DEF lwnbd_get_context_string, Matches, Index
        <5>2. \E m \in Matches(name) : \A k \in Matches(name) : m <= k
          BY <5>1, LeastNat
        <5> QED BY <5>1, <5>2 DEF lwnbd_get_context_string
      <4> HIDE DEF c
      <4>2. c < lwnbd_contexts_count
        BY <4>1 DEF Matches
      <4>3. contexts_status[c] = "CREATED"
        <5>1. \A j \in 0 .. MaxContexts - 1 : j < lwnbd_contexts_count => contexts_status[j] # "FREE"
          BY MaxContextsAssumption, FirstFreeProps DEF lwnbd_contexts_count
        <5>2. contexts_status[c] # "FREE"
          BY <3>4, <4>2, <5>1 DEF Index
        <5> QED BY <3>4, <5>2 DEF Inv, TablesInv, TablesType, Status
      <4>4. c \notin failed
        BY <3>5 DEF Inv, TablesInv, ContextsInv
      <4>5. PICK s \in Slot : contexts[c].p = plugins[s]
        BY <3>4, <4>3, <4>4 DEF Inv, TablesInv, ContextsInv
      <4>6. plugins[s] \in {NoDriver, "file"}
        BY <1>7, <2>1 DEF FileReached
      <4> QED BY <3>5, <4>5, <4>6
    <3>7. ~Struct["file"].refuses
      BY StructsAssumption DEF file_plugin, Exporting
    <3> HIDE DEF c
    <3> QED BY <3>4, <3>5, <3>6, <3>7
  <2>2. CASE Called >= 3 /\ Call.var = "sink"
    BY <1>1, <1>7, <1>8, <2>2 DEF FileReached, LongPath
  <2> QED BY <1>1, <1>2, <1>3, <2>1, <2>2, FileCall
<1> QED BY <1>3, <1>9, <1>10, <1>11, <1>13, ReachedLater

LEMMA CrashExplained ==
    ASSUME \/ alive' \/ Causes' \/ (file = NULL /\ LongPath)' \/ (Unasked(Request(uri)))'
           \/ (answer.line # <<>> /\ BadLine(answer.line))'
    PROVE  CrashHasCause'
  BY DEF CrashHasCause, Causes, LongPath

\* A step of a loop leaves the tables and what the calls have set.
Kept == <<tables, handles, fixed, todo, h, file>>
LEMMA LoopsKeep ==
    ASSUME ReaderTurn \/ WcTurn \/ ShellLoop \/ ShellExits \/ Finished \/ UNCHANGED allVars
    PROVE  UNCHANGED Kept
<1>1. ASSUME NEW c, FollowsNull(c) PROVE UNCHANGED Kept
  BY <1>1 DEF FollowsNull, own, Kept
<1>2. CASE ReaderTurn
  BY <1>1, <1>2 DEF ReaderTurn, vars, Kept
<1>3. CASE WcTurn
  BY <1>1, <1>3 DEF WcTurn, vars, Kept
<1>4. CASE ShellExits
  BY <1>4 DEF ShellExits, vars, Kept
<1>5. CASE Finished \/ UNCHANGED allVars
  BY <1>5 DEF Finished, allVars, vars, own, Kept
<1>6. CASE ShellLoop
  <2>1. PICK line \in Lines : ShellTurn(line)
    BY <1>6 DEF ShellLoop
  <2>2. UNCHANGED <<tables, handles>>
    BY <2>1 DEF ShellTurn, CommandTurn, Query, lwnbd_get_context
  <2> QED BY <1>6, <2>2 DEF ShellLoop, own, Kept
<1> QED BY <1>2, <1>3, <1>4, <1>5, <1>6

\* A step that touches neither tables nor handles keeps the invariants of the file, and its causes.
LEMMA KeptInv ==
    ASSUME HandlesKnown, FileInv, UNCHANGED Kept, alive' => alive
    PROVE  /\ HandlesKnown' /\ FileInv'
           /\ Causes => Causes'
           /\ (file = NULL /\ LongPath) => (file = NULL /\ LongPath)'
<1>1. UNCHANGED <<contexts, contexts_status, plugins, plugins_status, failed, devices, handles>>
  BY DEF Kept, tables
<1>2. UNCHANGED <<program, arg, size, todo, h, file>>
  BY DEF Kept, fixed
<1>3. HandlesKnown'
  BY <1>1 DEF HandlesKnown, Valid
<1>4. Causes' <=> Causes
  BY <1>1 DEF Causes, PoolFull, lwnbd_contexts_count, ERR, TooMany
<1>5. FileList' <=> FileList
  BY <1>2 DEF FileList, Called, FileTotal, FileCalls, ReaderCalls, WcCalls
<1>6. FileReached => FileReached'
  BY <1>1, <1>2 DEF FileReached, Called, FileTotal, LongPath, NULL
<1>7. FileInv'
  BY <1>2, <1>4, <1>5, <1>6 DEF FileInv
<1> QED BY <1>2, <1>3, <1>4, <1>7 DEF LongPath, NULL

\* The listing of contexts passes over free slots; as there is no hole, it is what the
\* count says.
Listing(n) == [i \in 1 .. n |-> contexts[i - 1].name]
IsDump(f) ==
    f = [i \in 0 .. MaxContexts |->
            IF i = 0 THEN <<>>
            ELSE IF contexts_status[i - 1] # "FREE"
                 THEN Append(f[i - 1], contexts[i - 1].name) ELSE f[i - 1]]

LEMMA ListingGrows ==
    ASSUME NEW n \in Nat
    PROVE  Append(Listing(n), contexts[n].name) = Listing(n + 1) /\ Len(Listing(n)) = n
<1> DEFINE S == {contexts[i].name : i \in 0 .. n}
           a == Listing(n)
           b == Listing(n + 1)
           x == contexts[n].name
<1>1. /\ \A i \in 1 .. n : contexts[i - 1].name \in S
      /\ \A i \in 1 .. n + 1 : contexts[i - 1].name \in S
      /\ x \in S
  OBVIOUS
<1> HIDE DEF S, x
<1>2. a \in Seq(S) /\ Len(a) = n /\ \A i \in 1 .. n : a[i] = contexts[i - 1].name
  BY <1>1 DEF Listing
<1>3. b \in Seq(S) /\ Len(b) = n + 1 /\ \A i \in 1 .. n + 1 : b[i] = contexts[i - 1].name
  BY <1>1 DEF Listing
<1> HIDE DEF a, b
<1>4. /\ Append(a, x) \in Seq(S) /\ Len(Append(a, x)) = n + 1
      /\ \A i \in 1 .. n : Append(a, x)[i] = a[i]
      /\ Append(a, x)[n + 1] = x
  BY <1>1, <1>2, AppendProperties
<1>5. b[n + 1] = x
  <2>1. n + 1 \in 1 .. n + 1 /\ (n + 1) - 1 = n
    OBVIOUS
  <2> QED BY <1>3, <2>1 DEF x
<1>6. \A i \in 1 .. n + 1 : Append(a, x)[i] = b[i]
  <2> TAKE i \in 1 .. n + 1
  <2>1. i \in 1 .. n \/ i = n + 1
    OBVIOUS
  <2> QED BY <1>2, <1>3, <1>4, <1>5, <2>1
<1>7. Append(a, x) = b
  BY <1>3, <1>4, <1>6, SeqEqual
<1> QED BY <1>2, <1>7 DEF a, b, x

LEMMA DumpIs ==
    ASSUME TablesInv
    PROVE  lwnbd_dump_contexts = Listing(lwnbd_contexts_count) /\ lwnbd_contexts_count \in Nat
<1> DEFINE n == lwnbd_contexts_count
           upto(i) == IF i < n THEN i ELSE n
           g == [i \in 0 .. MaxContexts |-> Listing(upto(i))]
           dumped == CHOOSE f : IsDump(f)
<1>1. n \in 0 .. MaxContexts /\ (n < MaxContexts => contexts_status[n] = "FREE")
      /\ \A j \in 0 .. MaxContexts - 1 : j < n => contexts_status[j] # "FREE"
  BY MaxContextsAssumption, FirstFreeProps DEF lwnbd_contexts_count
<1>2. ASSUME NEW j \in 0 .. MaxContexts - 1, ~(j < n) PROVE contexts_status[j] = "FREE"
  <2> HIDE DEF n
  <2>1. n \in Index /\ j \in Index /\ contexts_status[n] = "FREE"
    BY <1>1, <1>2, MaxContextsAssumption DEF Index
  <2>2. n = j \/ n < j
    BY <1>1, <1>2, MaxContextsAssumption
  <2> QED BY <2>1, <2>2 DEF TablesInv, ContextsInv, NoHole, Packed, Index
<1> HIDE DEF n
<1>3. Listing(0) = <<>>
  BY DEF Listing
<1>4. ASSUME NEW i \in 0 .. MaxContexts, i # 0
      PROVE  g[i] = IF contexts_status[i - 1] # "FREE"
                    THEN Append(g[i - 1], contexts[i - 1].name) ELSE g[i - 1]
  <2>1. i - 1 \in 0 .. MaxContexts - 1 /\ i - 1 \in 0 .. MaxContexts /\ i \in Nat /\ (i - 1) + 1 = i
    BY <1>4, MaxContextsAssumption
  <2>2. g[i] = Listing(upto(i)) /\ g[i - 1] = Listing(upto(i - 1))
    BY <1>4, <2>1
  <2>3. CASE i - 1 < n
    <3>1. upto(i) = i /\ upto(i - 1) = i - 1 /\ i - 1 \in Nat
      BY <1>1, <2>1, <2>3, MaxContextsAssumption
    <3>2. contexts_status[i - 1] # "FREE"
      BY <1>1, <2>1, <2>3
    <3>3. Append(Listing(i - 1), contexts[i - 1].name) = Listing((i - 1) + 1)
      BY <3>1, ListingGrows
    <3> HIDE DEF g, upto
    <3> QED BY <2>1, <2>2, <3>1, <3>2, <3>3
  <2>4. CASE ~(i - 1 < n)
    <3>1. upto(i) = n /\ upto(i - 1) = n
      BY <1>1, <2>1, <2>4, MaxContextsAssumption
    <3>2. contexts_status[i - 1] = "FREE"
      BY <1>2, <2>1, <2>4
    <3> HIDE DEF g, upto
    <3> QED BY <2>2, <3>1, <3>2
  <2> QED BY <2>3, <2>4
<1>5. g[0] = <<>>
  <2>1. upto(0) = 0 /\ 0 \in 0 .. MaxContexts
    BY <1>1, MaxContextsAssumption
  <2> QED BY <1>3, <2>1
<1>6. IsDump(g)
  <2>1. \A i \in 0 .. MaxContexts :
           g[i] = IF i = 0 THEN <<>>
                  ELSE IF contexts_status[i - 1] # "FREE"
                       THEN Append(g[i - 1], contexts[i - 1].name) ELSE g[i - 1]
    BY <1>4, <1>5
  <2>2. g = [i \in 0 .. MaxContexts |-> g[i]]
    OBVIOUS
  <2> HIDE DEF g
  <2> QED BY <2>1, <2>2 DEF IsDump
<1>7. IsDump(dumped)
  BY <1>6
<1>8. lwnbd_dump_contexts = dumped[MaxContexts]
  BY DEF lwnbd_dump_contexts, IsDump
<1> HIDE DEF g, dumped
<1>9. \A i \in 0 .. MaxContexts : dumped[i] = g[i]
  <2> DEFINE Bad == {i \in 0 .. MaxContexts : dumped[i] # g[i]}
  <2> SUFFICES ASSUME Bad # {} PROVE FALSE
    OBVIOUS
  <2>1. PICK k \in Bad : \A j \in Bad : k <= j
    <3>1. Bad \in SUBSET Nat
      BY MaxContextsAssumption
    <3> HIDE DEF Bad
    <3> QED BY <3>1, LeastNat
  <2>2. \A f : IsDump(f) => \A i \in 0 .. MaxContexts :
           f[i] = IF i = 0 THEN <<>>
                  ELSE IF contexts_status[i - 1] # "FREE"
                       THEN Append(f[i - 1], contexts[i - 1].name) ELSE f[i - 1]
    <3> TAKE f
    <3> HAVE IsDump(f)
    <3> DEFINE e(i) == IF i = 0 THEN <<>>
                       ELSE IF contexts_status[i - 1] # "FREE"
                            THEN Append(f[i - 1], contexts[i - 1].name) ELSE f[i - 1]
    <3>1. f = [i \in 0 .. MaxContexts |-> e(i)]
      BY DEF IsDump
    <3> HIDE DEF e
    <3>2. \A i \in 0 .. MaxContexts : f[i] = e(i)
      BY <3>1
    <3> QED BY <3>2 DEF e
  <2>3. k # 0
    BY <1>6, <1>7, <2>1, <2>2
  <2>4. k - 1 \in 0 .. MaxContexts /\ k - 1 \notin Bad
    BY <2>1, <2>3, MaxContextsAssumption
  <2>5. dumped[k - 1] = g[k - 1]
    BY <2>4
  <2> QED BY <1>6, <1>7, <2>1, <2>2, <2>3, <2>5
<1>10. upto(MaxContexts) = n /\ MaxContexts \in 0 .. MaxContexts
  BY <1>1, MaxContextsAssumption
<1>11. g[MaxContexts] = Listing(n)
  BY <1>10 DEF g
<1> QED BY <1>1, <1>8, <1>9, <1>10, <1>11, MaxContextsAssumption DEF n

\* The commands there are.
LEMMA CommandKeys ==
    ASSUME NEW key, ~Unknown(key)
    PROVE  key = <<"echo">> \/ key = <<"export">> \/ key = <<"lc">> \/ key = <<"ce">>
<1> DEFINE a == "echo"
           b == "export"
           c == "lc"
           d == "ce"
<1>1. commands = Append(<<a, b, c>>, d)
  BY DEF commands, builtin
<1>2. PICK i \in DOMAIN commands : key = <<commands[i]>>
  BY DEF Unknown
<1> HIDE DEF a, b, c, d
<1>3. DOMAIN commands = 1 .. 4 /\ commands[1] = a /\ commands[2] = b /\ commands[3] = c /\ commands[4] = d
  BY <1>1
<1> HIDE DEF commands
<1>4. i = 1 \/ i = 2 \/ i = 3 \/ i = 4
  BY <1>2, <1>3
<1>5. key = <<a>> \/ key = <<b>> \/ key = <<c>> \/ key = <<d>>
  BY <1>2, <1>3, <1>4
<1> QED BY <1>5 DEF a, b, c, d

LEMMA KeysDiffer ==
    /\ <<"echo">> # <<"export">> /\ <<"echo">> # <<"lc">> /\ <<"echo">> # <<"ce">>
    /\ <<"export">> # <<"lc">> /\ <<"export">> # <<"ce">> /\ <<"lc">> # <<"ce">>
  OBVIOUS

\* What a command writes.
LEMMA ResultOf ==
    ASSUME NEW param
    PROVE  /\ param.key = <<"echo">> => Result(param) = echo(param.val)
           /\ param.key = <<"export">> => Result(param) = export(param.val)
           /\ param.key = <<"lc">> => Result(param) = list_command
           /\ param.key = <<"ce">> => Result(param) = set_exportname(param.val)
  BY KeysDiffer, Zenon DEF Result

\* A query that gives parameters gives a first one.
LEMMA SomeParams ==
    ASSUME NEW T, Alphabet(T), NEW query \in Seq(T), NEW delimiter \in T, NEW n \in Nat \ {0},
           yuarel_parse_query(query, delimiter, n) # <<>>
    PROVE  1 \in DOMAIN yuarel_parse_query(query, delimiter, n) /\ query # Nothing
<1>1. query # Nothing
  BY DEF yuarel_parse_query, Nothing
<1>2. query # NullString
  BY NullProps DEF Alphabet
<1>3. PICK f : /\ IsRest(f, query, delimiter, n)
               /\ yuarel_parse_query(query, delimiter, n) =
                     [i \in 1 .. PieceCount(f, n) |-> Param(Piece(f, delimiter, n, i))]
  BY <1>1, <1>2, QueryUnfolds
<1>4. PieceCount(f, n) \in 1 .. n
  BY <1>3, RestProps
<1> HIDE DEF PieceCount
<1>5. 1 \in 1 .. PieceCount(f, n)
  BY <1>4
<1> QED BY <1>1, <1>3, <1>5

\* The parameter that the commands look at is made of what was typed.
LEMMA LookedProps ==
    ASSUME NameInv, NEW line \in Lines, NEW r, r = Request(exportname \o <<"?">> \o line),
           NEW param \in Looked(r)
    PROVE  /\ param.val \in Seq(Letters) \cup {NullString} /\ Lacks(param.val, "#")
           /\ r.params # <<>> =>
                 /\ param = r.params[1]
                 /\ Lacks(exportname, "$") /\ Lacks(line, "$") => Lacks(param.val, "$")
<1> DEFINE T == Letters
           e == exportname
           query == yuarel_parse(e \o <<"?">> \o line).query
           parsed(q) == yuarel_parse_query(q, "&", MAX_QUERY)
<1>1. Alphabet(T) /\ "$" \in T /\ "&" \in T /\ "#" \in T /\ \A l \in Lines : l \in Seq(T)
  BY LettersProps DEF Alphabet
<1>2. e \in Seq(T) /\ Lacks(e, "#")
  BY DEF NameInv
<1> HIDE DEF T, e
<1>3. ASSUME NEW q \in Seq(T), parsed(q) # <<>>, Lacks(q, "#")
      PROVE  /\ parsed(q)[1].val \in Seq(T) \cup {NullString} /\ Lacks(parsed(q)[1].val, "#")
             /\ Lacks(q, "$") => Lacks(parsed(q)[1].val, "$")
  <2>1. q # Nothing
    BY <1>1, <1>3, SomeParams, QueryAssumption
  <2> QED BY <1>1, <1>3, <2>1, QueryAssumption, FirstParam
<1>4. r.params = parsed(query)
  BY DEF Request, e
<1>5. CASE r.params # <<>>
  <2>1. query \in Seq(T) /\ Lacks(query, "#")
        /\ (Lacks(e, "$") /\ Lacks(line, "$") => Lacks(query, "$"))
    BY <1>1, <1>2, LineQuery
  <2>2. param = r.params[1]
    BY <1>5 DEF Looked
  <2> HIDE DEF query, parsed
  <2> QED BY <1>3, <1>4, <1>5, <2>1, <2>2 DEF T, e
<1>6. CASE r.params = <<>>
  <2>1. PICK l \in Lines : Parameters(l) # <<>> /\ param = Parameters(l)[1]
    BY <1>6 DEF Looked
  <2> DEFINE q == find_fragment(l).left
  <2>2. Parameters(l) = parsed(q)
    BY DEF Parameters
  <2>3. IsCut(T, l, "#", q, find_and_terminate(l, "#").next)
    BY <1>1, CutProps DEF find_fragment
  <2>4. q \in Seq(T) /\ Lacks(q, "#")
    BY <2>3 DEF IsCut
  <2> HIDE DEF q, parsed
  <2> QED BY <1>3, <1>6, <2>1, <2>2, <2>4 DEF T
<1> QED BY <1>5, <1>6

\* What kills a command: a '$', or a text that its result has no room for.
LEMMA KillsCause ==
    ASSUME TablesInv, NEW param, param.val \in Seq(Letters) \cup {NullString}, Kills(param)
    PROVE  \/ ~Lacks(param.val, "$")
           \/ param.val # NullString /\ Len(param.val) + 2 > CMD_BUFFER_SZ
           \/ lwnbd_contexts_count >= CMD_BUFFER_SZ
<1> DEFINE val == param.val
           text == Result(param).text
<1>1. CMD_BUFFER_SZ \in Nat /\ 4 < CMD_BUFFER_SZ
  <2>1. Len(builtin) = 3 /\ Len(commands) = 4
    BY DEF commands, builtin
  <2> QED BY <2>1, ListAssumption
<1>2. CASE param.key = <<"echo">> /\ EchoCrashes(val)
  <2>1. PICK S : val \in Seq(S)
    BY NullProps
  <2> HIDE DEF val
  <2> QED BY <1>2, <2>1, StrchrProps DEF EchoCrashes, val
<1>3. CASE Len(text) > CMD_BUFFER_SZ
  <2>1. ~Unknown(param.key) /\ ~Fails(param)
    BY DEF Kills
  <2>2. param.key \in {<<"echo">>, <<"export">>, <<"lc">>, <<"ce">>}
    BY <2>1, CommandKeys
  <2>3. ASSUME text = <<>> PROVE FALSE
    BY <1>1, <1>3, <2>3
  <2>4. CASE param.key = <<"echo">>
    <3>1. val # NullString /\ text = val
      BY <2>3, <2>4, ResultOf DEF echo, Silent
    <3>2. Len(val) \in Nat
      BY <3>1
    <3> HIDE DEF val, text
    <3>3. Len(val) + 2 > CMD_BUFFER_SZ
      BY <1>1, <1>3, <3>1, <3>2
    <3> QED BY <3>1, <3>3 DEF val
  <2>5. CASE param.key = <<"export">>
    <3>1. text = Append(lwnbd_dump_contexts, Zero)
      BY <2>3, <2>5, ResultOf DEF export, Silent
    <3> DEFINE n == lwnbd_contexts_count
    <3>2. lwnbd_dump_contexts = Listing(n) /\ n \in Nat /\ Len(Listing(n)) = n
      BY DumpIs, ListingGrows
    <3> DEFINE S == {contexts[i - 1].name : i \in 1 .. n}
    <3>5. \A i \in 1 .. n : contexts[i - 1].name \in S
      OBVIOUS
    <3> HIDE DEF S
    <3>3. Listing(n) \in Seq(S)
      BY <3>2, <3>5 DEF Listing
    <3> HIDE DEF n, text
    <3>4. Len(text) = n + 1
      BY <3>1, <3>2, <3>3, AppendProperties
    <3> QED BY <1>1, <1>3, <3>2, <3>4 DEF n
  <2>6. CASE param.key = <<"lc">>
    <3>1. text = Append(commands, Zero)
      BY <2>6, ResultOf DEF list_command
    <3>2. Len(text) = 5
      BY <3>1 DEF commands, builtin
    <3> QED BY <1>1, <1>3, <3>2
  <2>7. CASE param.key = <<"ce">>
    <3>1. val # NullString
      BY <2>1, <2>7 DEF Fails
    <3> DEFINE x == "export name to"
               to == <<x>>
               z == <<Zero>>
               S == Letters \cup {x, Zero}
    <3>0. Result(param) = set_exportname(val)
      BY <2>7, ResultOf
    <3>2. text = to \o val \o z
      <4> DEFINE shown == to \o val \o z
                 n == Len(val) + 1
      <4>1. Result(param) = [text |-> shown, size |-> n]
        BY <3>0 DEF set_exportname
      <4> HIDE DEF shown, n
      <4>2. [text |-> shown, size |-> n].text = shown
        OBVIOUS
      <4> QED BY <4>1, <4>2 DEF shown
    <3>4. val \in Seq(Letters) /\ Letters \subseteq S /\ x \in S /\ Zero \in S
      BY <3>1
    <3> HIDE DEF S, x, val, text
    <3>3. to \in Seq(S) /\ Len(to) = 1 /\ z \in Seq(S) /\ Len(z) = 1
      BY <3>4
    <3> HIDE DEF to, z
    <3>5. to \in Seq(S) /\ val \in Seq(S) /\ z \in Seq(S)
      BY <3>3, <3>4
    <3>6. to \o val \in Seq(S) /\ Len(to \o val) = Len(to) + Len(val)
      BY <3>5, ConcatProperties
    <3>7. Len(text) = Len(to \o val) + Len(z)
      BY <3>2, <3>5, <3>6, ConcatProperties
    <3>8. Len(val) \in Nat
      BY <3>4
    <3>10. Len(text) = 1 + Len(val) + 1
      BY <3>3, <3>6, <3>7, <3>8
    <3>9. Len(val) + 2 > CMD_BUFFER_SZ
      BY <1>1, <1>3, <3>8, <3>10
    <3> QED BY <3>1, <3>9 DEF val
  <2> QED BY <2>2, <2>4, <2>5, <2>6, <2>7
<1> QED BY <1>2, <1>3 DEF Kills

\* A line that does something undefined is a bad one.
LEMMA DiesCause ==
    ASSUME TablesInv, NameInv, NEW line \in Lines,
           Dies(Request(exportname \o <<"?">> \o line))
    PROVE  BadLine(line)
<1> DEFINE r == Request(exportname \o <<"?">> \o line)
<1>1. CASE r.p = "memory" /\ Overruns(r.params)
  BY <1>1 DEF BadLine, TooLong
<1>2. CASE Unasked(r)
  BY <1>2 DEF BadLine
<1>3. ASSUME r.p = "command", ~Unasked(r), NEW param \in Looked(r), Kills(param) PROVE BadLine(line)
  <2>1. r.params # <<>>
    BY <1>3, StructsAssumption, LinkedAssumption, NoDriverAssumption
       DEF Unasked, command_plugin, command_query_fails, Exporting
  <2>2. /\ param.val \in Seq(Letters) \cup {NullString} /\ param = r.params[1]
        /\ Lacks(exportname, "$") /\ Lacks(line, "$") => Lacks(param.val, "$")
    BY <2>1, <1>3, LookedProps
  <2>3. CASE ~Lacks(param.val, "$")
    <3>1. exportname \in Seq(Letters) /\ line \in Seq(Letters)
      BY LettersProps DEF NameInv
    <3>2. strchr(line, "$") # 0 \/ strchr(exportname, "$") # 0
      BY <2>2, <2>3, <3>1, StrchrProps
    <3> QED BY <3>2 DEF BadLine
  <2>4. CASE param.val # NullString /\ Len(param.val) + 2 > CMD_BUFFER_SZ
    <3>1. 1 \in DOMAIN r.params
      <4> DEFINE query == yuarel_parse(exportname \o <<"?">> \o line).query
      <4>1. exportname \in Seq(Letters) /\ Lacks(exportname, "#") /\ line \in Seq(Letters) /\ Alphabet(Letters)
            /\ "&" \in Letters
        BY LettersProps DEF NameInv
      <4>2. query \in Seq(Letters)
        BY <4>1, LineQuery
      <4>3. r.params = yuarel_parse_query(query, "&", MAX_QUERY)
        BY DEF Request
      <4> HIDE DEF query, r
      <4> QED BY <2>1, <4>1, <4>2, <4>3, SomeParams, QueryAssumption
    <3> HIDE DEF r
    <3>2. TooLong(r.params)
      BY <2>2, <2>4, <3>1 DEF TooLong
    <3> QED BY <3>2 DEF BadLine, r
  <2>5. CASE lwnbd_contexts_count >= CMD_BUFFER_SZ
    BY <2>5 DEF BadLine
  <2> QED BY <1>3, <2>2, <2>3, <2>4, <2>5, KillsCause
<1> QED BY <1>1, <1>2, <1>3 DEF Dies


\* A turn of the shell.
LEMMA ShellCause ==
    ASSUME Inv, HandlesKnown, NameInv, AnswerInv, NEW line \in Lines, ShellTurn(line)
    PROVE  NameInv' /\ AnswerInv' /\ CrashHasCause'
<1> DEFINE u == exportname \o <<"?">> \o line
<1>1. PICK v : v = u
  OBVIOUS
<1> DEFINE r == Request(v)
<1>2. TablesInv
  BY DEF Inv
<1> HIDE DEF u
<1>3. ASSUME UNCHANGED exportname PROVE NameInv'
  BY <1>3 DEF NameInv, Letters
<1>4. ASSUME NEW from, NEW n, NEW text, Show(line, from, v, n, text) PROVE AnswerInv'
  BY <1>4 DEF Show, AnswerInv
<1>5. CASE /\ ~Dies(r) /\ Query(r)
           /\ \/ UNCHANGED answer
              \/ \E n, text : Show(line, r.p, v, n, text)
           /\ UNCHANGED exportname
  <2>1. AnswerInv'
    BY <1>4, <1>5 DEF AnswerInv
  <2>2. lwnbd_get_context(r.name, r.params # <<>>)
    BY <1>5 DEF Query
  <2>3. UNCHANGED <<tables, handles>> /\ (~alive' => Causes' \/ (Unasked(Request(v)))')
    BY <1>2, <2>2, LookupCause
  <2>4. (Request(v))' = Request(v)
    BY <2>3, SameRequest DEF tables
  <2>5. ~(Unasked(Request(v)))'
    BY <1>5, <2>4 DEF Dies, Unasked
  <2>6. CrashHasCause'
    BY <2>3, <2>5, CrashExplained
  <2> QED BY <1>3, <1>5, <2>1, <2>6
<1>6. ASSUME NEW param \in Looked(r), CommandTurn(line, v, r, param)
      PROVE  NameInv' /\ AnswerInv' /\ CrashHasCause'
  <2>1. alive'
    BY <1>6 DEF CommandTurn, lwnbd_get_context
  <2>2. CrashHasCause'
    BY <2>1, CrashExplained
  <2>3. \/ UNCHANGED <<answer, exportname>>
        \/ /\ ~Fails(param) /\ Show(line, r.p, v, Result(param).size, result')
           /\ exportname' = IF param.key = <<"ce">> THEN param.val ELSE exportname
    BY <1>6 DEF CommandTurn
  <2>4. AnswerInv'
    BY <1>4, <2>3 DEF AnswerInv
  <2>5. NameInv'
    <3>1. CASE ~Fails(param) /\ param.key = <<"ce">> /\ exportname' = param.val
      <4>1. param.val # NullString
        BY <3>1 DEF Fails
      <4>2. param.val \in Seq(Letters) \cup {NullString} /\ Lacks(param.val, "#")
        BY <1>1, <1>6, LookedProps DEF u
      <4>3. Letters' = Letters
        BY DEF Letters
      <4> QED BY <3>1, <4>1, <4>2, <4>3 DEF NameInv
    <3> QED BY <1>3, <2>3, <3>1
  <2> QED BY <2>2, <2>4, <2>5
<1>7. CASE /\ Dies(r) /\ Crash
           /\ answer' = [answer EXCEPT !.line = line]
           /\ UNCHANGED <<tables, exportname>>
  <2>1. answer'.line = line /\ AnswerInv'
    <3>1. PICK l, from, n, room, text :
             answer = [line |-> l, from |-> from, size |-> n, room |-> room, text |-> text]
      BY DEF AnswerInv
    <3>2. answer' = [line |-> line, from |-> from, size |-> n, room |-> room, text |-> text]
      BY <1>7, <3>1
    <3>3. answer'.line = line
      BY <3>2
    <3> QED BY <3>2, <3>3 DEF AnswerInv
  <2>2. BadLine(line)
    BY <1>1, <1>2, <1>7, DiesCause DEF u
  <2>3. (Request(v))' = Request(v) /\ UNCHANGED lwnbd_contexts_count
    BY <1>7, SameRequest DEF tables
  <2>4. \/ strchr(line, "$") # 0 \/ strchr(exportname, "$") # 0
        \/ Unasked(r) \/ TooLong(r.params) \/ lwnbd_contexts_count >= CMD_BUFFER_SZ
    BY <1>1, <2>2 DEF BadLine, u
  <2>5. exportname' \o <<"?">> \o line = v
    BY <1>1, <1>7 DEF u
  <2>6. (BadLine(answer.line))'
    BY <1>7, <2>1, <2>3, <2>4, <2>5 DEF BadLine, Unasked
  <2>7. line # <<>>
    BY LettersProps DEF Nothing
  <2>8. CrashHasCause'
    BY <2>1, <2>6, <2>7, CrashExplained
  <2> QED BY <1>3, <1>7, <2>1, <2>8
<1>8. \/ /\ ~Dies(r) /\ Query(r)
         /\ UNCHANGED answer \/ Show(line, r.p, v, MemSize, memory')
         /\ UNCHANGED exportname
      \/ \E param \in Looked(r) : CommandTurn(line, v, r, param)
      \/ /\ Dies(r) /\ Crash
         /\ answer' = [answer EXCEPT !.line = line]
         /\ UNCHANGED <<tables, exportname>>
  BY <1>1, Zenon DEF ShellTurn, u
<1> HIDE DEF r
<1> QED BY <1>5, <1>6, <1>7, <1>8

\* The calls.
LEMMA LoadsCause == ASSUME Inv, CauseInv, Loads PROVE CauseInv'
<1>1. /\ todo # <<>> /\ Call.op \in {"init", "init if NULL"} /\ lwnbd_plugin_init(Call.d)
      /\ UNCHANGED <<shellVars, fixed>>
  BY DEF Loads, At
<1>2. Call \in CallType
  BY <1>1, CallHasType
<1>3. Call.d \in Drivers
  BY <1>1, <1>2 DEF CallType
<1>4. HandlesKnown' /\ (~alive' => PoolFull')
  BY <1>1, <1>3, InitCause DEF Inv, CauseInv
<1>5. CrashHasCause'
  BY <1>4, CrashExplained DEF Causes
<1>6. NameInv' /\ AnswerInv'
  BY <1>1 DEF CauseInv, NameInv, AnswerInv, shellVars, Letters
<1>7. FileInv'
  <2>1. CASE program \in {"reader", "wc"}
    BY <2>1, LoadsFile DEF CauseInv
  <2>2. CASE program \notin {"reader", "wc"}
    BY <1>1, <2>2 DEF FileInv, fixed
  <2> QED BY <2>1, <2>2
<1> QED BY <1>4, <1>5, <1>6, <1>7 DEF CauseInv

LEMMA MakesCause == ASSUME Inv, CauseInv, Makes PROVE CauseInv'
<1>1. lwnbd_plugin_new(h[Call.d], Call.name) /\ UNCHANGED <<shellVars, fixed>>
  BY DEF Makes
<1>2. HandlesKnown' /\ (~alive' => Causes')
  BY <1>1, NewCause DEF Inv, CauseInv
<1>3. CrashHasCause'
  BY <1>2, CrashExplained
<1>4. NameInv' /\ AnswerInv'
  BY <1>1 DEF CauseInv, NameInv, AnswerInv, shellVars, Letters
<1>5. FileInv'
  <2>1. CASE program \in {"reader", "wc"}
    BY <2>1, MakesFile DEF CauseInv
  <2>2. CASE program \notin {"reader", "wc"}
    BY <1>1, <2>2 DEF FileInv, fixed
  <2> QED BY <2>1, <2>2
<1> QED BY <1>2, <1>3, <1>4, <1>5 DEF CauseInv

LEMMA GetsCause == ASSUME Inv, CauseInv, Gets PROVE CauseInv'
<1> DEFINE asked == Request(Call.uri).params # <<>>
<1>1. /\ lwnbd_get_context(Request(Call.uri).name, asked) /\ uri' = Call.uri
      /\ UNCHANGED <<exportname, answer, fixed>>
  BY DEF Gets, Query
<1>2. PICK u : u = Call.uri
  OBVIOUS
<1> DEFINE unasked == Unasked(Request(uri))
<1>0. HandlesKnown' /\ (~alive' => Causes' \/ unasked')
  <2>1. lwnbd_get_context(Request(u).name, Request(u).params # <<>>)
    BY <1>1, <1>2
  <2>2. HandlesKnown' /\ (~alive' => Causes' \/ (Unasked(Request(u)))')
    BY <2>1, LookupCause DEF Inv, CauseInv
  <2>3. uri' = u
    BY <1>1, <1>2
  <2> QED BY <2>2, <2>3
<1> HIDE DEF asked
<1>3. CrashHasCause'
  BY <1>0, CrashExplained
<1>4. NameInv' /\ AnswerInv'
  BY <1>1 DEF CauseInv, NameInv, AnswerInv, Letters
<1>5. FileInv'
  <2>1. CASE program \in {"reader", "wc"}
    BY <2>1, GetsFile DEF CauseInv
  <2>2. CASE program \notin {"reader", "wc"}
    BY <1>1, <2>2 DEF FileInv, fixed
  <2> QED BY <2>1, <2>2
<1> QED BY <1>0, <1>3, <1>4, <1>5 DEF CauseInv

\* Only the server tests a variable before it sets it.
LEMMA LoadedCause == ASSUME Inv, CauseInv, Loaded PROVE CauseInv'
<1>1. /\ alive /\ todo # <<>> /\ Call.op = "init if NULL"
      /\ UNCHANGED <<vars, shellVars, fixed>>
  BY DEF Loaded, At
<1>2. program \notin {"reader", "wc"}
  <2> SUFFICES ASSUME program \in {"reader", "wc"} PROVE FALSE
    OBVIOUS
  <2>1. FileList
    BY DEF CauseInv, FileInv
  <2> QED BY <1>1, <2>1, FileCall
<1>3. FileInv'
  BY <1>1, <1>2 DEF FileInv, fixed
<1>4. HandlesKnown'
  BY <1>1 DEF CauseInv, HandlesKnown, Valid, vars, tables
<1>5. CrashHasCause'
  BY <1>1, CrashExplained DEF vars
<1>6. NameInv' /\ AnswerInv'
  BY <1>1 DEF CauseInv, NameInv, AnswerInv, shellVars, Letters
<1> QED BY <1>3, <1>4, <1>5, <1>6 DEF CauseInv

\* The loops.
LEMMA AnythingCause == ASSUME Inv, CauseInv, Anything PROVE CauseInv'
<1>1. program = "any" /\ UNCHANGED <<shellVars, fixed>>
  BY DEF Anything, Looping, own
<1>2. FileInv'
  BY <1>1 DEF FileInv, fixed
<1>3. NameInv' /\ AnswerInv'
  BY <1>1 DEF CauseInv, NameInv, AnswerInv, shellVars, Letters
<1>4. CASE AnyCall
  <2>1. ASSUME NEW d \in Drivers, lwnbd_plugin_init(d) PROVE HandlesKnown' /\ (~alive' => Causes')
    BY <2>1, InitCause DEF Inv, CauseInv, Causes
  <2>2. ASSUME NEW g, NEW name, lwnbd_plugin_new(g, name) PROVE HandlesKnown' /\ (~alive' => Causes')
    BY <2>2, NewCause DEF Inv, CauseInv
  <2>3. ASSUME NEW g, NEW k, lwnbd_plugin_config(g, k) PROVE HandlesKnown' /\ (~alive' => Causes')
    BY <2>3, ConfigCause DEF CauseInv
  <2>4. HandlesKnown' /\ (~alive' => Causes')
    BY <1>4, <2>1, <2>2, <2>3 DEF AnyCall
  <2>5. CrashHasCause'
    BY <2>4, CrashExplained
  <2> QED BY <1>2, <1>3, <2>4, <2>5 DEF CauseInv
<1>5. ASSUME NEW u, lwnbd_get_context(Request(u).name, Request(u).params # <<>>), uri' = u
      PROVE  CauseInv'
  <2>1. HandlesKnown' /\ (~alive' => Causes' \/ (Unasked(Request(u)))')
    BY <1>5, LookupCause DEF Inv, CauseInv
  <2>2. ~alive' => Causes' \/ (Unasked(Request(uri)))'
    BY <1>5, <2>1
  <2>3. CrashHasCause'
    BY <2>2, CrashExplained
  <2> QED BY <1>2, <1>3, <2>1, <2>3 DEF CauseInv
<1> QED BY <1>4, <1>5 DEF Anything

\* A program that has made its calls reads its file: there is one, unless its path is
\* one that the lookup does not find.
LEMMA ReadsCause ==
    ASSUME Inv, CauseInv, ReaderTurn \/ WcTurn
    PROVE  CauseInv'
<1>1. alive /\ todo = <<>> /\ program \in {"reader", "wc"} /\ UNCHANGED shellVars
  BY DEF ReaderTurn, WcTurn, Looping, FollowsNull
<1>2. UNCHANGED Kept
  BY LoopsKeep
<1>3. /\ HandlesKnown' /\ FileInv' /\ (Causes => Causes')
      /\ (file = NULL /\ LongPath) => (file = NULL /\ LongPath)'
  BY <1>1, <1>2, KeptInv DEF CauseInv
<1>4. NameInv' /\ AnswerInv'
  BY <1>1 DEF CauseInv, NameInv, AnswerInv, shellVars, Letters
<1>5. CrashHasCause'
  <2>1. CASE FollowsNull(file)
    <3>1. file = NULL
      BY <2>1 DEF FollowsNull
    <3>2. Called >= 3
      BY <1>1 DEF Called, FileTotal
    <3>3. Causes \/ LongPath
      BY <1>1, <3>1, <3>2 DEF CauseInv, FileInv, FileReached
    <3> QED BY <1>3, <3>1, <3>3, CrashExplained
  <2>2. CASE ~FollowsNull(file)
    <3>1. alive'
      BY <1>1, <2>2 DEF ReaderTurn, WcTurn, vars
    <3> QED BY <3>1, CrashExplained
  <2> QED BY <2>1, <2>2
<1> QED BY <1>3, <1>4, <1>5 DEF CauseInv

LEMMA ShellsCause == ASSUME Inv, CauseInv, ShellLoop PROVE CauseInv'
<1>1. alive /\ UNCHANGED Kept
  BY LoopsKeep DEF ShellLoop, Looping
<1>2. HandlesKnown' /\ FileInv'
  BY <1>1, KeptInv DEF CauseInv
<1>3. PICK line \in Lines : ShellTurn(line)
  BY DEF ShellLoop
<1>4. NameInv' /\ AnswerInv' /\ CrashHasCause'
  BY <1>3, ShellCause DEF CauseInv
<1> QED BY <1>2, <1>4 DEF CauseInv

LEMMA StepCause == ASSUME Inv, CauseInv, [Next]_allVars PROVE CauseInv'
<1>1. CASE ShellExits \/ Finished \/ UNCHANGED allVars
  <2>1. UNCHANGED <<vars, shellVars>>
    BY <1>1 DEF ShellExits, Finished, allVars
  <2>2. UNCHANGED Kept
    BY <1>1, LoopsKeep
  <2>3. alive' = alive
    BY <2>1 DEF vars
  <2>4. /\ HandlesKnown' /\ FileInv' /\ (Causes => Causes')
        /\ (file = NULL /\ LongPath) => (file = NULL /\ LongPath)'
    BY <2>2, <2>3, KeptInv DEF CauseInv
  <2>5. NameInv' /\ AnswerInv'
    BY <2>1 DEF CauseInv, NameInv, AnswerInv, shellVars, Letters
  <2>6. ASSUME alive PROVE CrashHasCause'
    BY <2>3, <2>6, CrashExplained
  <2>7. ASSUME ~alive PROVE CrashHasCause'
    <3>1. UNCHANGED allVars
      BY <2>7, DeadStays DEF Next
    <3>2. UNCHANGED <<contexts, contexts_status, exportname, answer, uri, file, arg>>
      BY <3>1 DEF allVars, vars, tables, shellVars, own, fixed
    <3>3. PICK u, v : u = uri /\ v = exportname \o <<"?">> \o answer.line
      OBVIOUS
    <3>4. /\ (Request(u))' = Request(u) /\ (Request(v))' = Request(v)
          /\ UNCHANGED lwnbd_contexts_count
      BY <3>2, SameRequest
    <3>5. \/ Causes \/ (file = NULL /\ LongPath) \/ Unasked(Request(u))
          \/ answer.line # <<>> /\ BadLine(answer.line)
      BY <2>7, <3>3 DEF CauseInv, CrashHasCause, Causes, LongPath
    <3>6. Unasked(Request(u)) => (Unasked(Request(uri)))'
      BY <3>2, <3>3, <3>4 DEF Unasked
    <3>7. BadLine(answer.line) => (BadLine(answer.line))'
      BY <3>2, <3>3, <3>4 DEF BadLine, Unasked
    <3> QED BY <2>4, <3>2, <3>5, <3>6, <3>7, CrashExplained
  <2>9. CrashHasCause'
    BY <2>6, <2>7
  <2> QED BY <2>4, <2>5, <2>9 DEF CauseInv
<1> QED BY <1>1, LoadsCause, LoadedCause, MakesCause, GetsCause, ReadsCause, ShellsCause,
           AnythingCause DEF Next

LEMMA InitCauses == ASSUME Init PROVE CauseInv
<1>1. alive
  BY DEF Init, PluginsInit
<1>2. CrashHasCause
  BY <1>1 DEF CrashHasCause
<1>3. HandlesKnown
  BY DEF Init, HandlesKnown
<1>4. AnswerInv
  <2>1. answer = NoAnswer
    BY DEF Init, ShellInit
  <2> QED BY <2>1, Zenon DEF NoAnswer, AnswerInv
<1>5. NameInv
  <2> DEFINE a == "api"
             e == <<a>>
             T == Letters
  <2>1. exportname = e
    BY DEF Init, ShellInit
  <2>2. a \in T /\ a # "#"
    BY DEF Letters
  <2> HIDE DEF a, T
  <2>3. e \in Seq(T) /\ DOMAIN e = {1} /\ e[1] = a
    BY <2>2
  <2>4. Lacks(e, "#")
    BY <2>2, <2>3 DEF Lacks
  <2> HIDE DEF e
  <2> QED BY <2>1, <2>3, <2>4 DEF NameInv, T
<1>6. ASSUME program \in {"reader", "wc"} PROVE FileList /\ FileReached
  <2>1. arg \in Paths
    BY <1>6 DEF Init
  <2>2. todo = FileCalls
    BY <1>6 DEF Init, Calls, FileCalls
  <2>3. Len(FileCalls) = FileTotal /\ FileTotal \in Nat
    <3>1. CASE program = "reader"
      BY <3>1, ReaderList DEF FileCalls, FileTotal
    <3>2. CASE program = "wc"
      BY <3>2, WcList DEF FileCalls, FileTotal
    <3> QED BY <1>6, <3>1, <3>2
  <2> DEFINE w == FileCalls
             t == FileTotal
  <2> HIDE DEF w, t
  <2>4. t - t = 0 /\ (\A k \in 1 .. t : 0 + k = k) /\ t <= t
    BY <2>3 DEF t
  <2>5. Called = 0 /\ Len(todo) = t
    BY <2>2, <2>3, <2>4 DEF Called, t
  <2>6. FileList
    BY <2>1, <2>2, <2>4, <2>5 DEF FileList, t
  <2>7. \A s \in Slot : plugins[s] = NoDriver
    BY DEF Init, PluginsInit
  <2> QED BY <2>5, <2>6, <2>7 DEF FileReached
<1> QED BY <1>2, <1>3, <1>4, <1>5, <1>6 DEF CauseInv, FileInv

-----------------------------------------------------------------------------
(* What the shell shows.                                                      *)

\* The region holds the text it was last asked to hold, and zeros behind it.
TestUri == <<"test", "?", "memcpy", "=", "Example">>
Blanked == Zeros(MemSize)
Fits(text) == text \in Seq(Letters) /\ Len(text) <= MemSize
RegionInv == program = "shell" => Fits(stored) /\ memory = Overlay(Blanked, stored)

\* There is no answer before the first line, and one query before that.
BeforeInv ==
    /\ program # "shell" \/ todo # <<>> => answer = NoAnswer
    /\ program = "shell" =>
          \A k \in 1 .. Len(todo) : todo[k].op = "get" => todo[k].uri = TestUri

\* A name is one parameter's, which ends at the delimiter.
AmpersandInv == Lacks(exportname, "&") \/ MAX_QUERY = 1

\* No context of the shell has the name of a '\0'.
NamesInv ==
    program = "shell" =>
        /\ \A i \in Index : contexts[i].name # Zero
        /\ \A k \in 1 .. Len(todo) : todo[k].op = "new" => todo[k].name # Zero

AnswersInv == RegionInv /\ BeforeInv /\ AmpersandInv /\ NamesInv /\ ShellAnswers

\* What the region holds after the parameters from the i-th on.
AfterFrom(f, content, params, n, m) ==
    f = [i \in m .. n + 1 |-> IF i = n + 1 THEN content ELSE Filtered(f[i + 1], params[i])]

\* The recursive function that applies filters one after the other exists, for any number of them.
LEMMA AfterExists ==
    ASSUME NEW content, NEW params, NEW n \in Nat
    PROVE  \E f : AfterFrom(f, content, params, n, 1)
<1> DEFINE Bad == {k \in 0 .. n : ~\E f : AfterFrom(f, content, params, n, n + 1 - k)}
<1> SUFFICES ASSUME Bad # {} PROVE FALSE
  <2>1. n \in 0 .. n /\ n + 1 - n = 1
    OBVIOUS
  <2>2. n \notin Bad
    OBVIOUS
  <2>3. \E f : AfterFrom(f, content, params, n, n + 1 - n)
    BY <2>1, <2>2
  <2> QED BY <2>1, <2>3
<1>1. PICK k \in Bad : \A j \in Bad : k <= j
  <2>1. Bad \in SUBSET Nat
    OBVIOUS
  <2> HIDE DEF Bad
  <2> QED BY <2>1, LeastNat
<1>2. k # 0
  <2> DEFINE f == [i \in n + 1 .. n + 1 |-> content]
  <2>1. AfterFrom(f, content, params, n, n + 1)
    BY DEF AfterFrom
  <2>2. n + 1 - 0 = n + 1
    OBVIOUS
  <2> HIDE DEF f
  <2> QED BY <1>1, <2>1, <2>2
<1>3. k - 1 \in 0 .. n /\ k - 1 \notin Bad /\ k \in 1 .. n
  BY <1>1, <1>2
<1> DEFINE m == n + 1 - k
<1>4. m \in 1 .. n /\ n + 1 - (k - 1) = m + 1
  BY <1>3
<1>5. PICK f : AfterFrom(f, content, params, n, m + 1)
  BY <1>3, <1>4
<1> HIDE DEF m, Bad
<1> DEFINE first == Filtered(f[m + 1], params[m])
           g == [i \in m .. n + 1 |-> IF i = m THEN first ELSE f[i]]
<1>6. \A i \in m + 1 .. n + 1 : f[i] = IF i = n + 1 THEN content ELSE Filtered(f[i + 1], params[i])
  BY <1>5 DEF AfterFrom
<1>7. ASSUME NEW i \in m .. n + 1
      PROVE  g[i] = IF i = n + 1 THEN content ELSE Filtered(g[i + 1], params[i])
  <2>1. CASE i = m
    <3>1. m # n + 1 /\ m + 1 \in m .. n + 1 /\ m + 1 # m
      BY <1>4
    <3>2. g[m] = first /\ g[m + 1] = f[m + 1]
      BY <1>4, <3>1
    <3> QED BY <2>1, <3>1, <3>2
  <2>2. CASE i # m /\ i = n + 1
    BY <1>4, <1>6, <2>2
  <2>3. CASE i # m /\ i # n + 1
    <3>1. i \in m + 1 .. n + 1 /\ i + 1 \in m .. n + 1 /\ i + 1 # m
      BY <1>4, <2>3
    <3>2. g[i] = f[i] /\ g[i + 1] = f[i + 1]
      BY <2>3, <3>1
    <3> HIDE DEF g
    <3> QED BY <1>6, <2>3, <3>1, <3>2
  <2> QED BY <2>1, <2>2, <2>3
<1>8. AfterFrom(g, content, params, n, m)
  BY <1>7 DEF AfterFrom
<1> HIDE DEF g
<1> QED BY <1>1, <1>8 DEF Bad, m

LEMMA MemoryQueryIs ==
    ASSUME NEW content, NEW params, Len(params) \in Nat
    PROVE  \E f : AfterFrom(f, content, params, Len(params), 1) /\ memory_query(content, params) = f[1]
<1> DEFINE after == CHOOSE f : f = [i \in 1 .. Len(params) + 1 |->
               IF i = Len(params) + 1 THEN content ELSE Filtered(f[i + 1], params[i])]
<1>1. \E f : AfterFrom(f, content, params, Len(params), 1)
  BY AfterExists
<1>2. AfterFrom(after, content, params, Len(params), 1)
  BY <1>1 DEF AfterFrom
<1>3. memory_query(content, params) = after[1]
  BY DEF memory_query
<1> QED BY <1>2, <1>3

\* The parameters before the first that has an effect change nothing.
Idle(params, m) == \A i \in 1 .. m - 1 : \A c : Filtered(c, params[i]) = c
\* The filters in front of the first one that has an effect change nothing.
LEMMA BeforeEffective ==
    ASSUME NEW content, NEW params, NEW n \in Nat, NEW f, AfterFrom(f, content, params, n, 1),
           NEW m \in 1 .. n + 1, Idle(params, m)
    PROVE  f[1] = f[m]
<1> DEFINE Bad == {i \in 1 .. m : f[i] # f[1]}
<1> SUFFICES ASSUME Bad # {} PROVE FALSE
  OBVIOUS
<1>1. PICK k \in Bad : \A j \in Bad : k <= j
  <2>1. Bad \in SUBSET Nat
    OBVIOUS
  <2> HIDE DEF Bad
  <2> QED BY <2>1, LeastNat
<1>2. k \in 1 .. m /\ k # 1 /\ f[k] # f[1]
  BY <1>1
<1>3. k - 1 \in 1 .. m - 1 /\ k - 1 \in 1 .. n + 1 /\ k - 1 # n + 1 /\ k - 1 + 1 = k /\ k - 1 \notin Bad
  BY <1>1, <1>2
<1>4. f[k - 1] = f[1]
  BY <1>3
<1>5. \A i \in 1 .. n + 1 : f[i] = IF i = n + 1 THEN content ELSE Filtered(f[i + 1], params[i])
  BY DEF AfterFrom
<1> DEFINE j == k - 1
<1> HIDE DEF Bad, j
<1>6. f[j] = Filtered(f[k], params[j])
  <2>1. j \in 1 .. n + 1 /\ j # n + 1 /\ j + 1 = k
    BY <1>3 DEF j
  <2> QED BY <1>5, <2>1
<1>7. Filtered(f[k], params[j]) = f[k]
  BY <1>3 DEF j, Idle
<1> QED BY <1>2, <1>4, <1>6, <1>7 DEF j

\* What a filter asks for.
HasEffect(param) ==
    \/ param.key = <<"bzero">>
    \/ param.key \in {<<"memset">>, <<"memcpy">>} /\ param.val # NullString
TextOf(param) ==
    IF param.key = <<"bzero">> \/ param.val = Nothing THEN Nothing
    ELSE IF param.key = <<"memset">> THEN [k \in 1 .. MemSize |-> param.val[1]]
    ELSE param.val
ParamFits(param) ==
    /\ param.val \in Seq(Letters) \cup {NullString}
    /\ param.key = <<"memcpy">> /\ param.val # NullString => Len(param.val) <= MemSize

LEMMA FilterKeys ==
    <<"bzero">> # <<"memset">> /\ <<"bzero">> # <<"memcpy">> /\ <<"memset">> # <<"memcpy">>
  OBVIOUS

LEMMA NoEffect == ASSUME NEW param, ~HasEffect(param), NEW c PROVE Filtered(c, param) = c
  BY DEF HasEffect, Filtered

\* A text copied into a cleared region is followed by zeros.
LEMMA OverlayAt ==
    ASSUME NEW text
    PROVE  /\ Overlay(Blanked, text) = [k \in Region |-> IF k < Len(text) THEN text[k + 1] ELSE Zero]
           /\ Len(text) = 0 => Overlay(Blanked, text) = Blanked
<1>1. DOMAIN Blanked = Region /\ \A k \in Region : Blanked[k] = Zero
  BY DEF Blanked, Zeros, Region
<1> HIDE DEF Blanked
<1>2. Overlay(Blanked, text) = [k \in Region |-> IF k < Len(text) THEN text[k + 1] ELSE Zero]
  BY <1>1 DEF Overlay
<1>3. ASSUME Len(text) = 0 PROVE Overlay(Blanked, text) = Blanked
  <2>1. \A k \in Region : ~(k < Len(text))
    BY <1>3 DEF Region
  <2> QED BY <1>2, <2>1 DEF Blanked, Zeros, Region
<1> QED BY <1>2, <1>3

\* A filter that has an effect leaves its text and zeros.
LEMMA FilterText ==
    ASSUME NEW param, HasEffect(param), ParamFits(param), NEW c
    PROVE  Filtered(c, param) = Overlay(Blanked, TextOf(param)) /\ Fits(TextOf(param))
<1> DEFINE v == param.val
           z == Letters
<1>1. Fits(Nothing) /\ Overlay(Blanked, Nothing) = Blanked
  <2>1. Nothing \in Seq(Letters) /\ Len(Nothing) = 0
    BY NothingProps
  <2> QED BY <2>1, OverlayAt, SizeAssumption DEF Fits
<1>2. CASE param.key = <<"bzero">>
  BY <1>1, <1>2 DEF Filtered, TextOf, Blanked
<1>3. CASE param.key = <<"memset">>
  <2>1. v # NullString /\ v \in Seq(z)
    BY <1>3, FilterKeys DEF HasEffect, ParamFits
  <2>2. Filtered(c, param) = [k \in Region |-> IF v = <<>> THEN Zero ELSE v[1]]
    BY <1>3, <2>1, FilterKeys, Zenon DEF Filtered
  <2>3. CASE v = Nothing
    <3>1. [k \in Region |-> IF v = <<>> THEN Zero ELSE v[1]] = Blanked
      BY <2>3, Zenon DEF Blanked, Zeros, Region, Nothing
    <3>2. TextOf(param) = Nothing
      BY <2>3 DEF TextOf
    <3> QED BY <1>1, <2>2, <3>1, <3>2, Zenon
  <2>4. CASE v # Nothing
    <3> DEFINE t == [k \in 1 .. MemSize |-> v[1]]
    <3>1. v[1] \in z
      <4>1. Len(v) # 0
        BY <2>1, <2>4, NothingProps
      <4> HIDE DEF v, z
      <4> QED BY <2>1, <4>1
    <3>2. TextOf(param) = t
      BY <1>3, <2>4, FilterKeys, Zenon DEF TextOf
    <3>3. [k \in Region |-> IF v = <<>> THEN Zero ELSE v[1]] = [k \in Region |-> v[1]]
      BY <2>4, Zenon DEF Nothing
    <3> HIDE DEF z, v
    <3>4. t \in Seq(z) /\ Len(t) = MemSize /\ \A k \in 1 .. MemSize : t[k] = v[1]
      BY <3>1, SizeAssumption
    <3>5. Fits(t)
      BY <3>4, SizeAssumption DEF Fits, z
    <3> HIDE DEF t
    <3>6. Overlay(Blanked, t) = [k \in Region |-> v[1]]
      <4>1. \A k \in Region : k < Len(t) /\ k + 1 \in 1 .. MemSize
        BY <3>4, SizeAssumption DEF Region
      <4>2. [k \in Region |-> IF k < Len(t) THEN t[k + 1] ELSE Zero] = [k \in Region |-> v[1]]
        BY <3>4, <4>1
      <4> QED BY <4>2, OverlayAt
    <3> QED BY <2>2, <3>2, <3>3, <3>5, <3>6, Zenon DEF v
  <2> QED BY <2>3, <2>4
<1>4. CASE param.key = <<"memcpy">>
  <2>1. v # NullString /\ v \in Seq(z) /\ Len(v) <= MemSize
    BY <1>4, FilterKeys DEF HasEffect, ParamFits
  <2>2. Filtered(c, param) = Overlay(Blanked, v)
    BY <1>4, <2>1, FilterKeys, Zenon DEF Filtered, Blanked
  <2>3. TextOf(param) = v
    BY <1>4, FilterKeys, Zenon DEF TextOf
  <2>4. Fits(v)
    BY <2>1 DEF Fits
  <2> QED BY <2>2, <2>3, <2>4, Zenon
<1> QED BY <1>2, <1>3, <1>4 DEF HasEffect

\* After a query the region holds what its first filter that has an effect asks for.
LEMMA RegionAfter ==
    ASSUME NEW params, Len(params) \in Nat, DOMAIN params = 1 .. Len(params),
           \A i \in DOMAIN params : ParamFits(params[i]),
           Fits(stored), memory = Overlay(Blanked, stored)
    PROVE  Fits(Asked(params)) /\ memory_query(memory, params) = Overlay(Blanked, Asked(params))
<1> DEFINE n == Len(params)
           E == Effective(params)
<1>1. PICK f : AfterFrom(f, memory, params, n, 1) /\ memory_query(memory, params) = f[1]
  BY MemoryQueryIs
<1>2. E = {i \in 1 .. n : HasEffect(params[i])}
  BY DEF Effective, HasEffect
<1>3. \A i \in 1 .. n + 1 : f[i] = IF i = n + 1 THEN memory ELSE Filtered(f[i + 1], params[i])
  BY <1>1 DEF AfterFrom
<1>f. ASSUME NEW m \in 1 .. n + 1, Idle(params, m) PROVE f[1] = f[m]
  BY <1>1, <1>f, BeforeEffective
<1>4. CASE E = {}
  <2>1. \A i \in 1 .. n : ~HasEffect(params[i])
    BY <1>2, <1>4
  <2>2. Idle(params, n + 1)
    BY <2>1, NoEffect DEF Idle
  <2>3. n + 1 \in 1 .. n + 1
    OBVIOUS
  <2>4. f[1] = f[n + 1]
    BY <1>f, <2>2, <2>3
  <2>5. f[n + 1] = memory
    BY <1>3, <2>3
  <2>6. Asked(params) = stored
    BY <1>4 DEF Asked
  <2> QED BY <1>1, <2>4, <2>5, <2>6
<1>5. CASE E # {}
  <2> DEFINE m == CHOOSE i \in E : \A j \in E : i <= j
  <2>1. \E i \in E : \A j \in E : i <= j
    <3>1. E \in SUBSET Nat
      BY <1>2
    <3> HIDE DEF E
    <3> QED BY <1>5, <3>1, LeastNat
  <2>2. m \in E /\ \A j \in E : m <= j
    BY <2>1
  <2>3. Asked(params) = TextOf(params[m])
    BY <1>5, Zenon DEF Asked, TextOf, Nothing
  <2> HIDE DEF E, m
  <2>4. m \in 1 .. n /\ HasEffect(params[m]) /\ m \in 1 .. n + 1 /\ m # n + 1
    BY <1>2, <2>2
  <2>5. \A i \in 1 .. m - 1 : ~HasEffect(params[i])
    BY <1>2, <2>2, <2>4
  <2>6. Idle(params, m)
    BY <2>5, NoEffect DEF Idle
  <2>7. f[1] = f[m]
    BY <1>f, <2>4, <2>6
  <2>8. f[m] = Filtered(f[m + 1], params[m])
    BY <1>3, <2>4
  <2>9. ParamFits(params[m])
    BY <2>4
  <2>10. Filtered(f[m + 1], params[m]) = Overlay(Blanked, TextOf(params[m])) /\ Fits(TextOf(params[m]))
    BY <2>4, <2>9, FilterText
  <2> QED BY <1>1, <2>3, <2>7, <2>8, <2>10, Zenon
<1> QED BY <1>4, <1>5

LEMMA Zeroless == Zero \notin Letters
  BY LinesAssumption DEF Letters, Zero, Separators, StringTokens

\* The length of what is in a buffer before the first '\0', or of all of it.
LEMMA StrnlenProps ==
    ASSUME NEW buf, NEW n \in Nat
    PROVE  LET k == strnlen(buf, n)
           IN  /\ k \in 0 .. n /\ (k < n => buf[k] = Zero)
               /\ \A j \in 0 .. n - 1 : j < k => buf[j] # Zero
<1> DEFINE ends == {k \in 0 .. n : k < n => buf[k] = Zero}
<1>1. ends \in SUBSET Nat /\ n \in ends
  OBVIOUS
<1> HIDE DEF ends
<1>2. PICK k \in ends : \A j \in ends : k <= j
  BY <1>1, LeastNat
<1>3. k \in 0 .. n /\ (k < n => buf[k] = Zero)
  BY <1>2 DEF ends
<1>4. \A j \in 0 .. n - 1 : j < k => buf[j] # Zero
  BY <1>2, <1>3 DEF ends
<1>5. \E i \in 0 .. n : /\ i < n => buf[i] = Zero
                        /\ \A j \in 0 .. n - 1 : j < i => buf[j] # Zero
  BY <1>3, <1>4
<1> QED BY <1>5 DEF strnlen

\* What is printed of a buffer after a read, when its end has been marked.
Screen(content, n, room) == Printed(Terminated(lwnbd_pread(content, n, room), n), room)

LEMMA ScreenIs ==
    ASSUME NEW content, NEW n \in Nat, NEW room \in Nat, n < room
    PROVE  LET k == strnlen(lwnbd_pread(content, n, room), n)
           IN  /\ k \in 0 .. n /\ (k < n => content[k] = Zero)
               /\ \A j \in 0 .. n - 1 : j < k => content[j] # Zero
               /\ Screen(content, n, room) = [i \in 1 .. k |-> content[i - 1]]
<1> DEFINE b == lwnbd_pread(content, n, room)
           k == strnlen(b, n)
           t == [b EXCEPT ![k] = Zero]
           m == strnlen(t, room)
<1>1. DOMAIN b = 0 .. room - 1 /\ \A j \in 0 .. n - 1 : b[j] = content[j]
  BY DEF lwnbd_pread
<1> HIDE DEF b
<1>2. k \in 0 .. n /\ (k < n => b[k] = Zero) /\ \A j \in 0 .. n - 1 : j < k => b[j] # Zero
  BY StrnlenProps
<1> HIDE DEF k
<1>3. t[k] = Zero /\ \A j \in 0 .. room - 1 : j # k => t[j] = b[j]
  BY <1>1, <1>2
<1>4. Terminated(b, n) = t
  BY DEF Terminated, k
<1> HIDE DEF t
<1>5. m \in 0 .. room /\ (m < room => t[m] = Zero) /\ \A j \in 0 .. room - 1 : j < m => t[j] # Zero
  BY StrnlenProps
<1> HIDE DEF m
<1>6. ~(k < m)
  <2>1. k \in 0 .. room - 1
    BY <1>2
  <2> QED BY <1>3, <1>5, <2>1
<1>7. ~(m < k)
  <2> SUFFICES ASSUME m < k PROVE FALSE
    OBVIOUS
  <2>1. m \in 0 .. room - 1 /\ m \in 0 .. n - 1 /\ m # k
    BY <1>2, <1>5
  <2> QED BY <1>2, <1>3, <1>5, <2>1
<1>8. m = k
  BY <1>2, <1>5, <1>6, <1>7
<1>9. Screen(content, n, room) = [i \in 1 .. k |-> t[i - 1]]
  BY <1>4, <1>8 DEF Screen, Printed, m, b
<1>10. \A i \in 1 .. k : t[i - 1] = content[i - 1]
  <2> TAKE i \in 1 .. k
  <2>1. i - 1 \in 0 .. n - 1 /\ i - 1 \in 0 .. room - 1 /\ i - 1 # k
    BY <1>2
  <2> QED BY <1>1, <1>3, <2>1
<1>11. Screen(content, n, room) = [i \in 1 .. k |-> content[i - 1]]
  BY <1>9, <1>10
<1>12. k < n => content[k] = Zero
  BY <1>1, <1>2
<1>13. \A j \in 0 .. n - 1 : j < k => content[j] # Zero
  BY <1>1, <1>2
<1> QED BY <1>2, <1>11, <1>12, <1>13 DEF k, b

\* It is never longer than what was read.
LEMMA ScreenFits ==
    ASSUME NEW content, NEW n \in Nat, NEW room \in Nat, n < room
    PROVE  Len(Screen(content, n, room)) <= n
<1> DEFINE k == strnlen(lwnbd_pread(content, n, room), n)
           f == [i \in 1 .. k |-> content[i - 1]]
<1>1. k \in 0 .. n /\ Screen(content, n, room) = f
  BY ScreenIs
<1> HIDE DEF k
<1>2. Len(f) = k
  BY <1>1
<1> HIDE DEF f
<1> QED BY <1>1, <1>2

\* It is the text that the content begins with.
LEMMA ScreenShows ==
    ASSUME NEW S, Zero \notin S, NEW text \in Seq(S), NEW content, NEW n \in Nat, NEW room \in Nat,
           n < room, Len(text) <= n,
           \A j \in 0 .. Len(text) - 1 : content[j] = text[j + 1],
           Len(text) = n \/ content[Len(text)] = Zero
    PROVE  Screen(content, n, room) = text
<1> DEFINE k == strnlen(lwnbd_pread(content, n, room), n)
           f == [i \in 1 .. k |-> content[i - 1]]
           l == Len(text)
<1>1. /\ k \in 0 .. n /\ (k < n => content[k] = Zero)
      /\ \A j \in 0 .. n - 1 : j < k => content[j] # Zero
      /\ Screen(content, n, room) = f
  BY ScreenIs
<1>2. l \in Nat /\ \A j \in 1 .. l : text[j] \in S
  OBVIOUS
<1> HIDE DEF k
<1>3. ~(k < l)
  <2> SUFFICES ASSUME k < l PROVE FALSE
    OBVIOUS
  <2>1. k < n /\ k \in 0 .. l - 1 /\ k + 1 \in 1 .. l
    BY <1>1, <1>2
  <2>2. content[k] = text[k + 1] /\ text[k + 1] \in S
    BY <1>2, <2>1
  <2> QED BY <1>1, <2>1, <2>2
<1> HIDE DEF l
<1>4. ~(l < k)
  <2> SUFFICES ASSUME l < k PROVE FALSE
    OBVIOUS
  <2>1. l \in 0 .. n - 1 /\ l # n
    BY <1>1, <1>2
  <2>2. content[l] = Zero
    BY <2>1 DEF l
  <2> QED BY <1>1, <2>1, <2>2
<1>5. k = l
  BY <1>1, <1>2, <1>3, <1>4
<1>6. \A i \in 1 .. l : content[i - 1] = text[i]
  <2> TAKE i \in 1 .. l
  <2>1. i - 1 \in 0 .. l - 1 /\ i - 1 + 1 = i
    BY <1>2
  <2> QED BY <2>1 DEF l
<1>7. f = [i \in 1 .. l |-> text[i]]
  BY <1>5, <1>6
<1> DEFINE g == [i \in 1 .. l |-> text[i]]
<1>8. g \in Seq(S) /\ Len(g) = l /\ \A i \in 1 .. l : g[i] = text[i]
  BY <1>2
<1> HIDE DEF f, g
<1>9. g = text
  BY <1>2, <1>8, SeqEqual DEF l
<1> QED BY <1>1, <1>7, <1>9 DEF g

\* A read of the region shows the text it holds.
LEMMA RegionShows ==
    ASSUME NEW text, Fits(text), NEW content, content = Overlay(Blanked, text),
           NEW room \in Nat, MemSize < room
    PROVE  Screen(content, MemSize, room) = text
<1> DEFINE l == Len(text)
           T == Letters
<1>1. text \in Seq(T) /\ l \in Nat /\ l <= MemSize /\ MemSize \in Nat /\ Zero \notin T
  BY SizeAssumption, Zeroless DEF Fits
<1>2. \A k \in Region : content[k] = IF k < l THEN text[k + 1] ELSE Zero
  BY OverlayAt
<1> HIDE DEF T
<1>3. \A k \in 0 .. l - 1 : content[k] = text[k + 1]
  BY <1>1, <1>2 DEF Region
<1>4. l = MemSize \/ content[l] = Zero
  BY <1>1, <1>2 DEF Region
<1> QED BY <1>1, <1>3, <1>4, ScreenShows

\* The parameters of a query.
LEMMA ParamsAre ==
    ASSUME NEW T, Alphabet(T), NEW query \in Seq(T), query # Nothing, NEW delimiter \in T,
           NEW n \in Nat \ {0}
    PROVE  LET params == yuarel_parse_query(query, delimiter, n)
           IN  /\ Len(params) \in Nat \ {0} /\ DOMAIN params = 1 .. Len(params)
               /\ \A i \in DOMAIN params : params[i].val \in Seq(T) \cup {NullString}
               /\ Lacks(query, delimiter) => \A i \in DOMAIN params : params[i] = Param(query)
<1> DEFINE params == yuarel_parse_query(query, delimiter, n)
<1>1. query # NullString
  BY NullLacks
<1>2. PICK f : /\ IsRest(f, query, delimiter, n)
               /\ params = [i \in 1 .. PieceCount(f, n) |-> Param(Piece(f, delimiter, n, i))]
  BY <1>1, QueryUnfolds
<1> DEFINE k == PieceCount(f, n)
<1>3. /\ k \in 1 .. n /\ f[0] = query
      /\ \A i \in 0 .. k - 1 : f[i] \in Seq(T)
      /\ \A i \in 1 .. k - 1 : f[i] = find_and_terminate(f[i - 1], delimiter).next
      /\ k < n => find_and_terminate(f[k - 1], delimiter).next = NullString
  BY <1>2, RestProps
<1>4. \A i \in 1 .. k : IsPiece(T, f, delimiter, n, i, Piece(f, delimiter, n, i))
  BY <1>2, PieceProps
<1> HIDE DEF k, params
<1>5. params = [i \in 1 .. k |-> Param(Piece(f, delimiter, n, i))]
  BY <1>2 DEF k
<1>6. DOMAIN params = 1 .. k /\ Len(params) = k /\ k \in Nat \ {0}
  BY <1>3, <1>5
<1>7. ASSUME NEW i \in 1 .. k PROVE params[i].val \in Seq(T) \cup {NullString}
  <2>1. Piece(f, delimiter, n, i) \in Seq(T)
    BY <1>4 DEF IsPiece
  <2>2. Param(Piece(f, delimiter, n, i)).val \in Seq(T) \cup {NullString}
    BY <2>1, ParamProps
  <2> QED BY <1>5, <2>2
<1>8. ASSUME Lacks(query, delimiter), NEW i \in 1 .. k PROVE params[i] = Param(query)
  <2>1. IsCut(T, query, delimiter, find_and_terminate(query, delimiter).left,
              find_and_terminate(query, delimiter).next)
    BY CutProps
  <2>2. find_and_terminate(query, delimiter).next = NullString
    BY <1>8, <2>1 DEF IsCut
  <2>3. k = 1
    <3> SUFFICES ASSUME k # 1 PROVE FALSE
      OBVIOUS
    <3>1. 1 \in 1 .. k - 1 /\ 1 \in 0 .. k - 1 /\ 1 - 1 = 0
      BY <1>6
    <3>2. f[1] = NullString /\ f[1] \in Seq(T)
      BY <1>3, <2>2, <3>1
    <3> QED BY <3>2, NullLacks
  <2>4. i = 1 /\ i = PieceCount(f, n) /\ i - 1 = 0
    BY <2>3 DEF k
  <2>5. Piece(f, delimiter, n, i) = f[0]
    BY <2>4 DEF Piece
  <2> QED BY <1>3, <1>5, <2>5
<1> QED BY <1>6, <1>7, <1>8 DEF params

\* Whoever gives "ce" a name that has a query of its own gives every later line that query.
LEMMA QueryStays ==
    ASSUME NEW T, Alphabet(T), NEW e \in Seq(T), NEW query \in Seq(T), query # Nothing,
           BeginsIn(T, e, query), NEW n \in Nat \ {0}, Lacks(e, "&") \/ n = 1
    PROVE  LET param == yuarel_parse_query(query, "&", n)[1]
           IN  Lacks(param.key, "?") /\ param.val # NullString => ~Lacks(param.val, "?")
<1> DEFINE param == yuarel_parse_query(query, "&", n)[1]
<1>3. "&" \in T /\ "=" \in T /\ "=" # "?"
  BY DEF Alphabet
<1>1. PICK a \in Seq(T), b \in Seq(T) :
         query = a \o b /\ ~Lacks(a, "?") /\ (Lacks(e, "&") => Lacks(a, "&"))
  BY DEF BeginsIn
<1>2. PICK p \in Seq(T) : /\ p = query \/ (n # 1 /\ p = find_and_terminate(query, "&").left)
                          /\ param = Param(p)
  BY <1>3, FirstPiece
<1> HIDE DEF param
<1>4. ~Lacks(p, "?")
  <2>1. CASE p = query
    BY <1>1, <2>1, LacksConcat
  <2>2. CASE n # 1 /\ p = find_and_terminate(query, "&").left
    <3> DEFINE l == find_and_terminate(b, "&").left
    <3>1. Lacks(a, "&")
      BY <1>1, <2>2
    <3>2. find_and_terminate(a \o b, "&").left = a \o l
      BY <1>1, <1>3, <3>1, CutSecond
    <3>3. l \in Seq(T)
      <4>1. IsCut(T, b, "&", l, find_and_terminate(b, "&").next)
        BY <1>3, CutProps
      <4> HIDE DEF l
      <4> QED BY <4>1 DEF IsCut
    <3> HIDE DEF l
    <3>4. ~Lacks(a \o l, "?")
      BY <1>1, <3>3, LacksConcat
    <3> QED BY <1>1, <2>2, <3>2, <3>4, Zenon
  <2> QED BY <1>2, <2>1, <2>2
<1> DEFINE v == Param(p).val
           k == Param(p).key
<1>5. k \in Seq(T) /\ k \o Preceded("=", v) = p /\ v \in Seq(T) \cup {NullString}
  BY ParamProps
<1> HIDE DEF k, v
<1> SUFFICES ASSUME Lacks(k, "?"), v # NullString, Lacks(v, "?") PROVE FALSE
  BY <1>2 DEF param, k, v
<1> DEFINE q == <<"=">>
<1>6. Preceded("=", v) = q \o v
  BY DEF Preceded
<1>7. q \in Seq(T) /\ Lacks(q, "?")
  <2> DEFINE x == "="
  <2>1. x \in T /\ x # "?"
    BY <1>3
  <2> HIDE DEF x
  <2>2. <<x>> \in Seq(T) /\ Lacks(<<x>>, "?")
    BY <2>1 DEF Lacks
  <2> QED BY <2>2 DEF x
<1> HIDE DEF q
<1>8. v \in Seq(T)
  BY <1>5
<1>9. q \o v \in Seq(T) /\ Lacks(q \o v, "?")
  <2>1. q \o v \in Seq(T)
    BY <1>7, <1>8, ConcatProperties
  <2> QED BY <1>7, <1>8, <2>1, LacksConcat
<1>10. Lacks(k \o (q \o v), "?")
  BY <1>5, <1>9, LacksConcat
<1>11. k \o (q \o v) = p
  BY <1>5, <1>6, Zenon
<1> QED BY <1>4, <1>10, <1>11, Zenon

\* The value of the first parameter ends at the delimiter, unless there is room for no second one.
LEMMA FirstEnds ==
    ASSUME NEW T, Alphabet(T), NEW query \in Seq(T), query # Nothing, NEW delimiter \in T,
           NEW n \in Nat \ {0}
    PROVE  n = 1 \/ Lacks(yuarel_parse_query(query, delimiter, n)[1].val, delimiter)
<1> DEFINE param == yuarel_parse_query(query, delimiter, n)[1]
<1>1. PICK p \in Seq(T) : (n = 1 \/ Lacks(p, delimiter)) /\ param = Param(p)
  BY FirstPiece
<1> SUFFICES ASSUME Lacks(p, delimiter) PROVE Lacks(param.val, delimiter)
  BY <1>1
<1> DEFINE cut == find_and_terminate(p, "=")
<1>2. "=" \in T
  BY DEF Alphabet
<1>3. IsCut(T, p, "=", cut.left, cut.next)
  BY <1>2, CutProps
<1>4. param.val = cut.next
  BY <1>1 DEF Param
<1> HIDE DEF cut, param
<1>5. Lacks(cut.next, delimiter)
  BY <1>3, NullLacks DEF IsCut
<1> QED BY <1>4, <1>5

LEMMA LastThree ==
    ASSUME NEW T, NEW u \in Seq(T), Len(u) = 5
    PROVE  LET q == SubSeq(u, 3, 5)
           IN  q \in Seq(T) /\ Len(q) = 3 /\ q[1] = u[3] /\ q[2] = u[4] /\ q[3] = u[5]
<1> DEFINE q == SubSeq(u, 3, 5)
<1>1. ASSUME NEW i \in 3 .. 5 PROVE u[i] \in T
  <2>1. i \in 1 .. Len(u)
    OBVIOUS
  <2>2. \A k \in 1 .. Len(u) : u[k] \in T
    OBVIOUS
  <2> QED BY <2>1, <2>2
<1>2. /\ q \in Seq(T) /\ Len(q) = (IF 3 <= 5 THEN 5 - 3 + 1 ELSE 0)
      /\ \A i \in 1 .. 5 - 3 + 1 : q[i] = u[3 + i - 1]
  BY <1>1, SubSeqProperties
<1> HIDE DEF q
<1> QED BY <1>2 DEF q

\* The text that the shell puts into the region before its first line.
LEMMA TestParams ==
    LET params == yuarel_parse_query(yuarel_parse(TestUri).query, "&", MAX_QUERY)
    IN  /\ Len(params) \in Nat /\ DOMAIN params = 1 .. Len(params)
        /\ \A i \in DOMAIN params : ParamFits(params[i])
<1> DEFINE u == TestUri
           T == Letters
           query == yuarel_parse(TestUri).query
           q == SubSeq(u, 3, 5)
           amp == "&"
           params == yuarel_parse_query(query, amp, MAX_QUERY)
<1>1. /\ DOMAIN u = 1 .. 5 /\ Len(u) = 5 /\ u[1] = "test" /\ u[2] = "?" /\ u[3] = "memcpy"
      /\ u[4] = "=" /\ u[5] = "Example"
  BY DEF TestUri
<1>2. u \in Seq(T)
  <2>1. {"test", "?", "memcpy", "=", "Example"} \subseteq T
    BY DEF Letters, Separators
  <2>2. u \in Seq({"test", "?", "memcpy", "=", "Example"})
    BY DEF TestUri
  <2> HIDE DEF u, T
  <2> QED BY <2>1, <2>2
<1>3. Alphabet(T) /\ "&" \in T
  BY LettersProps
<1>4. strchr(u, "#") = 0
  BY <1>1 DEF strchr
<1>5. find_fragment(u).left = u
  BY <1>4 DEF find_fragment, find_and_terminate
<1>6. strchr(u, "?") = 2
  <2> HIDE DEF u, T
  <2>1. \A j \in 1 .. 2 - 1 : u[j] # "?"
    BY <1>1
  <2> QED BY <1>1, <1>2, <2>1, StrchrIs
<1>7. query = q
  <2>1. query = find_and_terminate(find_fragment(u).left, "?").next
    BY DEF yuarel_parse, find_query
  <2>2. query = find_and_terminate(u, "?").next
    BY <1>5, <2>1, Zenon
  <2>3. strchr(u, "?") # 0 /\ strchr(u, "?") + 1 = 3
    BY <1>6
  <2> HIDE DEF u, query
  <2>4. find_and_terminate(u, "?").next = SubSeq(u, strchr(u, "?") + 1, Len(u))
    BY <2>3, CutAt, Zenon
  <2> QED BY <1>1, <2>2, <2>3, <2>4, Zenon
<1> HIDE DEF u, query, T
<1>8. q \in Seq(T) /\ Len(q) = 3 /\ q[1] = u[3] /\ q[2] = u[4] /\ q[3] = u[5]
  <2>1. u \in Seq(T) /\ Len(u) = 5
    BY <1>1, <1>2
  <2> QED BY <2>1, LastThree
<1> HIDE DEF q
<1>9. Lacks(q, "&") /\ q # Nothing
  <2>1. \A i \in 1 .. 3 : i = 1 \/ i = 2 \/ i = 3
    OBVIOUS
  <2>2. DOMAIN q = 1 .. 3
    BY <1>8
  <2>3. Lacks(q, "&")
    BY <1>1, <1>8, <2>1, <2>2 DEF Lacks
  <2>4. Len(Nothing) = 0
    BY NothingProps
  <2> QED BY <1>8, <2>3, <2>4
<1>10. amp \in T /\ query \in Seq(T) /\ query # Nothing /\ Lacks(query, amp) /\ Len(query) = 3
  BY <1>3, <1>7, <1>8, <1>9
<1>11. /\ Len(params) \in Nat \ {0} /\ DOMAIN params = 1 .. Len(params)
       /\ \A i \in DOMAIN params : params[i].val \in Seq(T) \cup {NullString}
       /\ Lacks(query, amp) => \A i \in DOMAIN params : params[i] = Param(query)
  BY <1>3, <1>10, QueryAssumption, ParamsAre
<1> HIDE DEF amp
<1> HIDE DEF params
<1> DEFINE k == Param(query).key
           v == Param(query).val
<1>12. k \in Seq(T) /\ k \o Preceded("=", v) = query /\ v \in Seq(T) \cup {NullString}
  BY <1>3, <1>10, ParamProps
<1>13. ASSUME k = <<"memcpy">>, v # NullString PROVE Len(v) <= MemSize
  <2> DEFINE eq == <<"=">>
  <2>1. Len(k) = 1
    BY <1>13
  <2> HIDE DEF k, v
  <2>2. Preceded("=", v) = eq \o v /\ v \in Seq(T)
    BY <1>12, <1>13 DEF Preceded
  <2>3. eq \in Seq(T) /\ Len(eq) = 1
    <3> DEFINE x == "="
    <3>1. x \in T
      BY <1>3 DEF Alphabet
    <3> HIDE DEF x
    <3>2. <<x>> \in Seq(T) /\ Len(<<x>>) = 1
      BY <3>1
    <3> QED BY <3>2 DEF x
  <2> HIDE DEF eq
  <2>4. eq \o v \in Seq(T) /\ Len(eq \o v) = 1 + Len(v) /\ Len(v) \in Nat
    <3>1. Len(v) \in Nat
      BY <2>2
    <3> QED BY <2>2, <2>3, <3>1, ConcatProperties
  <2>5. Len(k \o (eq \o v)) = 1 + (1 + Len(v))
    BY <1>12, <2>1, <2>4, ConcatProperties
  <2>6. k \o (eq \o v) = query
    BY <1>12, <2>2, Zenon
  <2>7. 3 = 1 + (1 + Len(v))
    BY <1>10, <2>5, <2>6
  <2> QED BY <2>4, <2>7, SizeAssumption
<1>14. ParamFits(Param(query))
  <2> HIDE DEF k, v
  <2> QED BY <1>12, <1>13 DEF ParamFits, k, v, T
<1> QED BY <1>10, <1>11, <1>14 DEF params, amp, query

\* What the commands say.
Says(param, list) ==
    CASE param.key = <<"lc">> -> commands
      [] param.key = <<"export">> /\ param.val = NullString -> list
      [] param.key = <<"ce">> -> <<"export name to">> \o param.val
      [] param.key = <<"echo">> /\ param.val # NullString -> param.val
      [] OTHER -> <<>>

LEMMA SaysWhat ==
    ASSUME NEW param, NEW list
    PROVE  /\ param.key = <<"lc">> => Says(param, list) = commands
           /\ param.key = <<"export">> /\ param.val = NullString => Says(param, list) = list
           /\ param.key = <<"export">> /\ param.val # NullString => Says(param, list) = Nothing
           /\ param.key = <<"ce">> => Says(param, list) = <<"export name to">> \o param.val
           /\ param.key = <<"echo">> /\ param.val # NullString => Says(param, list) = param.val
           /\ param.key = <<"echo">> /\ param.val = NullString => Says(param, list) = Nothing
<1>1. param.key = <<"lc">> => Says(param, list) = commands
  BY KeysDiffer, Zenon DEF Says
<1>2. param.key = <<"export">> /\ param.val = NullString => Says(param, list) = list
  BY KeysDiffer, Zenon DEF Says
<1>3. param.key = <<"export">> /\ param.val # NullString => Says(param, list) = Nothing
  BY KeysDiffer, Zenon DEF Says, Nothing
<1>4. param.key = <<"ce">> => Says(param, list) = <<"export name to">> \o param.val
  BY KeysDiffer, Zenon DEF Says
<1>5. param.key = <<"echo">> /\ param.val # NullString => Says(param, list) = param.val
  BY KeysDiffer, Zenon DEF Says
<1>6. param.key = <<"echo">> /\ param.val = NullString => Says(param, list) = Nothing
  BY KeysDiffer, Zenon DEF Says, Nothing
<1> QED BY <1>1, <1>2, <1>3, <1>4, <1>5, <1>6

\* A result that was cleared shows what a command wrote to it.
LEMMA ResultShows ==
    ASSUME NEW S, Zero \notin S, NEW shown \in Seq(S), NEW text, NEW n \in Nat,
           Len(text) \in Nat, Len(text) <= CMD_BUFFER_SZ, Len(shown) <= Len(text),
           \A k \in 1 .. Len(shown) : text[k] = shown[k],
           \/ n = Len(shown)
           \/ /\ n = Len(shown) + 1 /\ Len(shown) < CMD_BUFFER_SZ
              /\ Len(text) = Len(shown) \/ text[Len(shown) + 1] = Zero,
           NEW room \in Nat, n < room
    PROVE  Screen(Overlay(Cleared, text), n, room) = shown
<1> DEFINE content == Overlay(Cleared, text)
           l == Len(shown)
           t == Len(text)
           z == CMD_BUFFER_SZ
<1>1. z \in Nat /\ l \in Nat
  BY ListAssumption
<1>2. \A k \in 0 .. z - 1 : content[k] = IF k < t THEN text[k + 1] ELSE Zero
  <2>1. DOMAIN Cleared = 0 .. z - 1 /\ \A k \in 0 .. z - 1 : Cleared[k] = Zero
    BY DEF Cleared, Zeros
  <2> HIDE DEF Cleared
  <2> QED BY <2>1 DEF Overlay
<1> HIDE DEF content, z, t
<1>3. \A k \in 0 .. l - 1 : content[k] = shown[k + 1]
  <2> TAKE k \in 0 .. l - 1
  <2>1. k \in 0 .. z - 1 /\ k < t /\ k + 1 \in 1 .. l
    BY <1>1 DEF t, z
  <2> QED BY <1>2, <2>1 DEF t
<1>4. ASSUME l # n PROVE content[l] = Zero
  <2>1. l \in 0 .. z - 1 /\ (~(l < t) \/ text[l + 1] = Zero)
    BY <1>1, <1>4 DEF t, z
  <2> QED BY <1>2, <2>1
<1>5. l <= n
  BY <1>1
<1> QED BY <1>3, <1>4, <1>5, ScreenShows DEF content

\* So an answer of the commands is what the command says.
LEMMA CommandShows ==
    ASSUME TablesInv, \A i \in Index : contexts[i].name # Zero,
           NEW param, param.val \in Seq(Letters) \cup {NullString},
           ~Unknown(param.key), ~Fails(param), ~Kills(param)
    PROVE  /\ Result(param).size \in Nat
           /\ \A room \in Nat : Result(param).size < room =>
                 Screen(Overlay(Cleared, Result(param).text), Result(param).size, room)
                    = Says(param, Listing(lwnbd_contexts_count))
<1> DEFINE val == param.val
           text == Result(param).text
           n == Result(param).size
           list == Listing(lwnbd_contexts_count)
           says == Says(param, list)
           goal == /\ n \in Nat
                   /\ \A room \in Nat : n < room => Screen(Overlay(Cleared, text), n, room) = says
<1> SUFFICES goal
  OBVIOUS
<1>1. param.key = <<"echo">> \/ param.key = <<"export">> \/ param.key = <<"lc">> \/ param.key = <<"ce">>
  BY CommandKeys
<1>2. ~(Len(text) > CMD_BUFFER_SZ)
  BY DEF Kills
<1>3. CMD_BUFFER_SZ \in Nat /\ 4 < CMD_BUFFER_SZ /\ Len(commands) = 4
  <2>1. Len(builtin) = 3 /\ Len(commands) = 4
    BY DEF commands, builtin
  <2> QED BY <2>1, ListAssumption
<1>4. Zero \notin Letters
  BY Zeroless
<1>5. ASSUME Result(param) = Silent, says = Nothing PROVE goal
  <2>1. text = Nothing /\ n = 1
    BY <1>5 DEF Silent, Nothing
  <2>2. Nothing \in Seq(Letters) /\ Len(Nothing) = 0
    BY NothingProps
  <2> HIDE DEF text, n, says, val
  <2>3. ASSUME NEW room \in Nat, n < room PROVE Screen(Overlay(Cleared, text), n, room) = Nothing
    <3>1. /\ n \in Nat /\ n = Len(Nothing) + 1 /\ Len(Nothing) < CMD_BUFFER_SZ /\ Len(text) = Len(Nothing)
          /\ Len(text) \in Nat /\ Len(text) <= CMD_BUFFER_SZ /\ Len(Nothing) <= Len(text)
      BY <1>3, <2>1, <2>2
    <3>2. \A k \in 1 .. Len(Nothing) : text[k] = Nothing[k]
      BY <2>1
    <3> HIDE DEF Nothing
    <3> QED BY <1>4, <2>2, <2>3, <3>1, <3>2, ResultShows
  <2> QED BY <1>5, <2>1, <2>3
<1>6. CASE param.key = <<"echo">>
  <2>1. Result(param) = echo(val)
    BY <1>6, ResultOf
  <2>2. CASE val = NullString
    <3>1. echo(val) = Silent
      BY <2>2 DEF echo
    <3>2. says = Nothing
      BY <1>6, <2>2, SaysWhat
    <3>3. Result(param) = Silent
      BY <2>1, <3>1
    <3> HIDE DEF goal
    <3> QED BY <1>5, <3>2, <3>3
  <2>3. CASE val # NullString
    <3>1. val \in Seq(Letters)
      BY <2>3
    <3>2. echo(val).text = val /\ echo(val).size = Len(val)
      BY <2>3 DEF echo
    <3>3. text = val /\ n = Len(val)
      BY <2>1, <3>2
    <3>4. says = val
      BY <1>6, <2>3, SaysWhat
    <3> HIDE DEF text, n, says, val
    <3>5. Len(val) \in Nat
      BY <3>1
    <3>6. Len(text) <= CMD_BUFFER_SZ /\ Len(text) \in Nat
      BY <1>2, <1>3, <3>3, <3>5
    <3>7. ASSUME NEW room \in Nat, n < room PROVE Screen(Overlay(Cleared, text), n, room) = val
      BY <1>4, <3>1, <3>3, <3>5, <3>6, <3>7, ResultShows
    <3> QED BY <3>3, <3>4, <3>5, <3>7
  <2> QED BY <2>2, <2>3
<1>7. CASE param.key = <<"export">>
  <2>1. Result(param) = export(val)
    BY <1>7, ResultOf
  <2>2. CASE val # NullString
    <3>1. export(val) = Silent
      BY <2>2 DEF export
    <3>2. says = Nothing
      BY <1>7, <2>2, SaysWhat
    <3>3. Result(param) = Silent
      BY <2>1, <3>1
    <3> HIDE DEF goal
    <3> QED BY <1>5, <3>2, <3>3
  <2>3. CASE val = NullString
    <3> DEFINE d == lwnbd_dump_contexts
               c == lwnbd_contexts_count
    <3>1. export(val).text = Append(d, Zero) /\ export(val).size = Len(d) + 1
      BY <2>3 DEF export
    <3>2. d = list /\ c \in Nat /\ Len(list) = c
      BY DumpIs, ListingGrows
    <3>3. text = Append(list, Zero) /\ n = c + 1
      BY <2>1, <3>1, <3>2
    <3>4. says = list
      BY <1>7, <2>3, SaysWhat
    <3> DEFINE S == {contexts[i].name : i \in Index}
               Z == S \cup {Zero}
    <3>5. Zero \notin S /\ Zero \in Z /\ S \subseteq Z
      OBVIOUS
    <3>6. c <= MaxContexts
      BY MaxContextsAssumption, FirstFreeProps DEF lwnbd_contexts_count
    <3>7. \A i \in 1 .. c : contexts[i - 1].name \in S
      BY <3>2, <3>6, MaxContextsAssumption DEF Index
    <3> HIDE DEF S, Z, c
    <3>8. list \in Seq(S)
      BY <3>2, <3>7 DEF Listing, c
    <3> HIDE DEF list, text, n, says, d
    <3>9. list \in Seq(Z)
      BY <3>5, <3>8
    <3>10. /\ Len(text) = c + 1 /\ \A i \in 1 .. c : text[i] = list[i]
           /\ text[c + 1] = Zero
      BY <3>2, <3>3, <3>5, <3>9, AppendProperties
    <3>11. c + 1 <= CMD_BUFFER_SZ /\ c < CMD_BUFFER_SZ /\ c + 1 \in Nat
      BY <1>2, <1>3, <3>2, <3>10
    <3>12. ASSUME NEW room \in Nat, n < room PROVE Screen(Overlay(Cleared, text), n, room) = list
      <4>1. n \in Nat /\ n = Len(list) + 1 /\ Len(list) < CMD_BUFFER_SZ /\ text[Len(list) + 1] = Zero
        BY <3>2, <3>3, <3>10, <3>11
      <4>2. Len(text) \in Nat /\ Len(text) <= CMD_BUFFER_SZ /\ Len(list) <= Len(text)
        BY <3>2, <3>10, <3>11
      <4>3. \A k \in 1 .. Len(list) : text[k] = list[k]
        BY <3>2, <3>10
      <4> QED BY <3>5, <3>8, <3>12, <4>1, <4>2, <4>3, ResultShows
    <3> QED BY <3>3, <3>4, <3>11, <3>12
  <2> QED BY <2>2, <2>3
<1>8. CASE param.key = <<"lc">>
  <2>1. Result(param) = list_command
    BY <1>8, ResultOf
  <2>2. text = Append(commands, Zero) /\ n = 4
    BY <1>3, <2>1 DEF list_command
  <2>3. says = commands
    BY <1>8, SaysWhat
  <2> DEFINE S == {"echo", "export", "lc", "ce"}
             Z == S \cup {Zero}
  <2>4. Zero \notin S /\ Zero \in Z /\ S \subseteq Z
    BY DEF Zero
  <2>5. commands \in Seq(S)
    BY DEF commands, builtin
  <2> HIDE DEF S, Z, commands, text, n, says
  <2>6. commands \in Seq(Z)
    BY <2>4, <2>5
  <2>7. /\ Len(text) = Len(commands) + 1
        /\ \A i \in 1 .. Len(commands) : text[i] = commands[i]
    BY <2>2, <2>4, <2>6, AppendProperties
  <2>8. ASSUME NEW room \in Nat, n < room PROVE Screen(Overlay(Cleared, text), n, room) = commands
    <3>1. /\ n \in Nat /\ n = Len(commands) /\ Len(text) \in Nat /\ Len(text) <= CMD_BUFFER_SZ
          /\ Len(commands) <= Len(text)
      BY <1>3, <2>2, <2>7
    <3> QED BY <2>4, <2>5, <2>7, <2>8, <3>1, ResultShows
  <2> QED BY <2>2, <2>3, <2>8
<1>9. CASE param.key = <<"ce">>
  <2>1. Result(param) = set_exportname(val)
    BY <1>9, ResultOf
  <2>2. val # NullString
    BY <1>9 DEF Fails
  <2> DEFINE x == "export name to"
             to == <<x>>
             z == <<Zero>>
             T == Letters
             S == T \cup {x}
             Z == S \cup {Zero}
  <2>3. text = (to \o val) \o z /\ n = Len(val) + 1
    <3> DEFINE shown == to \o val \o z
               m == Len(val) + 1
    <3>1. Result(param) = [text |-> shown, size |-> m]
      BY <2>1 DEF set_exportname
    <3> HIDE DEF shown, m
    <3>2. [text |-> shown, size |-> m].text = shown /\ [text |-> shown, size |-> m].size = m
      OBVIOUS
    <3> QED BY <3>1, <3>2 DEF shown, m
  <2>4. says = to \o val
    BY <1>9, SaysWhat
  <2>5. x # Zero
    BY DEF Zero
  <2> HIDE DEF x, T
  <2>6. Zero \notin S /\ Zero \in Z /\ S \subseteq Z /\ x \in S /\ T \subseteq S
    BY <1>4, <2>5 DEF T
  <2>7. val \in Seq(T)
    BY <2>2 DEF T
  <2> HIDE DEF S, Z, text, n, says, val
  <2>8. to \in Seq(S) /\ Len(to) = 1 /\ z \in Seq(Z) /\ Len(z) = 1
    BY <2>6
  <2>9. val \in Seq(S) /\ Len(val) \in Nat
    BY <2>6, <2>7
  <2> HIDE DEF to, z
  <2> DEFINE shown == to \o val
  <2>10. shown \in Seq(S) /\ Len(shown) = 1 + Len(val)
    <3>1. to \o val \in Seq(S) /\ Len(to \o val) = Len(to) + Len(val)
      BY <2>8, <2>9, ConcatProperties
    <3> HIDE DEF shown
    <3>2. shown \in Seq(S) /\ Len(shown) = Len(to) + Len(val)
      BY <3>1 DEF shown
    <3> QED BY <2>8, <3>2
  <2> HIDE DEF shown
  <2>11. shown \in Seq(Z)
    BY <2>6, <2>10
  <2>12. text = shown \o z
    BY <2>3 DEF shown
  <2>13. Len(text) = Len(shown) + 1 /\ \A i \in 1 .. Len(shown) : text[i] = shown[i]
    <3>1. /\ Len(shown \o z) = Len(shown) + Len(z)
          /\ \A i \in 1 .. Len(shown) : (shown \o z)[i] = shown[i]
      BY <2>8, <2>11, ConcatProperties
    <3> QED BY <2>8, <2>12, <3>1
  <2>14. n = Len(shown) /\ n \in Nat /\ Len(text) \in Nat /\ Len(text) <= CMD_BUFFER_SZ
    BY <1>2, <1>3, <2>3, <2>9, <2>10, <2>13
  <2>15. ASSUME NEW room \in Nat, n < room PROVE Screen(Overlay(Cleared, text), n, room) = shown
    BY <2>6, <2>10, <2>13, <2>14, <2>15, ResultShows
  <2> QED BY <2>4, <2>14, <2>15 DEF shown
<1> QED BY <1>1, <1>6, <1>7, <1>8, <1>9

\* What an answer promises, as a predicate of it.
Expects(a, text, list) == IF a.from = "memory" THEN text ELSE Says(Parameters(a.line)[1], list)
Sized(a) == a.size + 1 <= a.room /\ Len(a.text) <= a.size
Promises(a, e) ==
    /\ a.line # Nothing /\ strchr(e, "?") = 0
    /\ a.from = "command" => Parameters(a.line) # Nothing

LEMMA AnswersAre ==
    ShellAnswers <=> /\ Sized(answer)
                     /\ alive /\ Promises(answer, exportname) =>
                           answer.text = Expects(answer, stored, Listing(lwnbd_contexts_count))
<1>1. Expected(answer.line) = Expects(answer, stored, Listing(lwnbd_contexts_count))
  BY Zenon DEF Expected, Expects, Says, Listing
<1> QED BY <1>1, Zenon DEF ShellAnswers, Sized, Promises, Nothing

LEMMA AnswersNow ==
    ASSUME Sized(answer'),
           NEW list, list = (Listing(lwnbd_contexts_count))',
           alive' /\ Promises(answer', exportname') => answer'.text = Expects(answer', stored', list)
    PROVE  ShellAnswers'
<1>0. (Expected(answer.line))' = Expects(answer', stored', (Listing(lwnbd_contexts_count))')
  BY Zenon DEF Expected, Expects, Says, Listing
<1>1. (Expected(answer.line))' = Expects(answer', stored', list)
  BY <1>0
<1> QED BY <1>1, Zenon DEF ShellAnswers, Sized, Promises, Nothing

LEMMA NoAnswerYet == ASSUME answer' = NoAnswer PROVE ShellAnswers'
<1>1. /\ NoAnswer.size = 0 /\ NoAnswer.room = 1 /\ NoAnswer.text = Nothing
      /\ NoAnswer.line = Nothing
  BY Zenon DEF NoAnswer, Nothing
<1>2. Len(Nothing) = 0
  BY NothingProps
<1>3. Sized(NoAnswer)
  BY <1>1, <1>2 DEF Sized
<1>4. PICK list : list = (Listing(lwnbd_contexts_count))'
  OBVIOUS
<1> HIDE DEF NoAnswer
<1> QED BY <1>1, <1>3, <1>4, AnswersNow DEF Promises

\* Steps that leave the shell alone.
LEMMA SameAnswers ==
    ASSUME AnswersInv, UNCHANGED <<exportname, memory, answer, stored, program, todo>>,
           alive' => alive, program = "shell" => UNCHANGED <<contexts, contexts_status>>
    PROVE  AnswersInv'
<1>2. RegionInv'
  BY DEF AnswersInv, RegionInv, Fits, Letters, Overlay, Blanked, Zeros
<1>3. BeforeInv'
  BY DEF AnswersInv, BeforeInv, TestUri, NoAnswer
<1>4. AmpersandInv'
  BY DEF AnswersInv, AmpersandInv
<1>5. NamesInv'
  BY DEF AnswersInv, NamesInv
<1>6. ShellAnswers'
  <2>1. CASE program = "shell"
    <3> DEFINE list == Listing(lwnbd_contexts_count)
    <3>1. list' = list
      BY <2>1 DEF Listing, lwnbd_contexts_count
    <3>2. Sized(answer) /\ (alive /\ Promises(answer, exportname) => answer.text = Expects(answer, stored, list))
      BY AnswersAre DEF AnswersInv
    <3> HIDE DEF list
    <3>3. PICK l : l = list
      OBVIOUS
    <3>4. l = (Listing(lwnbd_contexts_count))'
      BY <3>1, <3>3 DEF list
    <3> QED BY <3>2, <3>3, <3>4, AnswersNow
  <2>2. CASE program # "shell"
    <3>1. answer' = NoAnswer
      BY <2>2 DEF AnswersInv, BeforeInv
    <3> QED BY <3>1, NoAnswerYet
  <2> QED BY <2>1, <2>2
<1> QED BY <1>2, <1>3, <1>4, <1>5, <1>6 DEF AnswersInv

\* A query of the memory plugin that runs over nothing leaves in the region the text
\* stored by it.
LEMMA QueryRegion ==
    ASSUME NEW r, NEW params, params = r.params, Query(r),
           Len(params) \in Nat, DOMAIN params = 1 .. Len(params),
           \A i \in DOMAIN params : params[i].val \in Seq(Letters) \cup {NullString},
           r.p = "memory" => ~Overruns(params),
           Fits(stored), memory = Overlay(Blanked, stored)
    PROVE  Fits(stored') /\ memory' = Overlay(Blanked, stored')
<1>1. CASE r.p = "memory"
  <2>1. memory' = memory_query(memory, params) /\ stored' = Asked(params)
    BY <1>1 DEF Query
  <2>2. \A i \in DOMAIN params : ParamFits(params[i])
    <3> TAKE i \in DOMAIN params
    <3>1. params[i].val \in Seq(Letters) \cup {NullString}
      OBVIOUS
    <3>2. ASSUME params[i].key = <<"memcpy">>, params[i].val # NullString
          PROVE  Len(params[i].val) <= MemSize
      <4>1. ~(Len(params[i].val) > MemSize)
        BY <1>1, <3>2 DEF Overruns
      <4> DEFINE v == params[i].val
      <4>2. v \in Seq(Letters)
        BY <3>1, <3>2
      <4> HIDE DEF v
      <4>3. Len(v) \in Nat
        BY <4>2
      <4> QED BY <4>1, <4>3, SizeAssumption DEF v
    <3> QED BY <3>1, <3>2 DEF ParamFits
  <2>3. Fits(Asked(params)) /\ memory_query(memory, params) = Overlay(Blanked, Asked(params))
    BY <2>2, RegionAfter
  <2> QED BY <2>1, <2>3, Zenon
<1>2. CASE r.p # "memory"
  <2>1. UNCHANGED <<memory, stored>>
    BY <1>2 DEF Query
  <2> QED BY <2>1
<1> QED BY <1>1, <1>2

\* The buffer of the shell has room for what is read into it, and a '\0'.
LEMMA RoomEnough ==
    ASSUME NEW T, NEW u \in Seq(T), NEW n \in Nat PROVE n + 1 <= Room(u, n)
<1>1. Len(u) \in Nat
  OBVIOUS
<1> QED BY <1>1 DEF Room

LEMMA Shown ==
    ASSUME NEW line, NEW from, NEW u, NEW n, NEW content, Show(line, from, u, n, content)
    PROVE  /\ answer'.line = line /\ answer'.from = from /\ answer'.size = n
           /\ answer'.room = Room(u, n) /\ answer'.text = Screen(content, n, Room(u, n))
  BY DEF Show, Screen

\* What is shown fits.
LEMMA ShownFits ==
    ASSUME NEW T, NEW u \in Seq(T), NEW line, NEW from, NEW n \in Nat, NEW content,
           Show(line, from, u, n, content)
    PROVE  Sized(answer') /\ Room(u, n) \in Nat /\ n < Room(u, n)
<1>1. Len(u) \in Nat
  OBVIOUS
<1>2. Room(u, n) \in Nat /\ n < Room(u, n) /\ n + 1 <= Room(u, n)
  BY <1>1 DEF Room
<1>3. Len(Screen(content, n, Room(u, n))) <= n
  BY <1>2, ScreenFits
<1>4. /\ answer'.size = n /\ answer'.room = Room(u, n)
      /\ answer'.text = Screen(content, n, Room(u, n))
  BY Shown
<1> QED BY <1>2, <1>3, <1>4 DEF Sized

LEMMA EmptyName ==
    ASSUME NEW how, NEW name, name # Zero
    PROVE  Blank.name # Zero /\ NameAtFailure(how, name) # Zero
  BY Zenon DEF Blank, NameAtFailure, Zero

\* The calls that are left are the last of those the shell makes.
LEMMA CallsLeft ==
    ASSUME Inv, AnswersInv, todo # <<>>, todo' = Tail(todo), UNCHANGED <<answer, program>>
    PROVE  /\ answer' = NoAnswer /\ BeforeInv'
           /\ program = "shell" =>
                 \A k \in 1 .. Len(todo') : todo'[k].op = "new" => todo'[k].name # Zero
<1>1. answer' = NoAnswer
  BY DEF AnswersInv, BeforeInv
<1>2. todo \in Seq(CallType)
  BY DEF Inv, TodoInv
<1>3. \A k \in 1 .. Len(todo') : k + 1 \in 1 .. Len(todo) /\ todo'[k] = todo[k + 1]
  BY <1>2
<1>4. ASSUME program = "shell", NEW k \in 1 .. Len(todo'), todo'[k].op = "get"
      PROVE  todo'[k].uri = TestUri
  BY <1>3, <1>4 DEF AnswersInv, BeforeInv
<1>5. BeforeInv'
  BY <1>1, <1>4 DEF BeforeInv, TestUri, NoAnswer
<1>6. ASSUME program = "shell", NEW k \in 1 .. Len(todo'), todo'[k].op = "new"
      PROVE  todo'[k].name # Zero
  BY <1>3, <1>6 DEF AnswersInv, NamesInv
<1> QED BY <1>1, <1>5, <1>6

LEMMA GetsAnswers == ASSUME Inv, AnswersInv, Gets PROVE AnswersInv'
<1>1. /\ todo # <<>> /\ Call.op = "get" /\ todo' = Tail(todo)
      /\ UNCHANGED <<exportname, answer, fixed>>
  BY DEF Gets, At
<1>4. program' = program
  BY <1>1 DEF fixed
<1>5. Call = todo[1] /\ 1 \in 1 .. Len(todo)
  BY <1>1, CallHasType
<1>6. /\ answer' = NoAnswer /\ BeforeInv'
      /\ program = "shell" => \A k \in 1 .. Len(todo') : todo'[k].op = "new" => todo'[k].name # Zero
  BY <1>1, <1>4, CallsLeft
<1>7. AmpersandInv'
  BY <1>1 DEF AnswersInv, AmpersandInv
<1>8. RegionInv'
  <2> SUFFICES ASSUME program = "shell"
               PROVE  Fits(stored') /\ memory' = Overlay(Blanked, stored')
    BY <1>1, <1>4 DEF RegionInv, Fits, Letters, Overlay, Blanked, Zeros
  <2>1. Call.uri = TestUri
    BY <1>1, <1>5 DEF AnswersInv, BeforeInv
  <2>2. PICK r : r = Request(TestUri)
    OBVIOUS
  <2>3. Query(r)
    BY <2>1, <2>2 DEF Gets
  <2>4. Fits(stored) /\ memory = Overlay(Blanked, stored)
    BY DEF AnswersInv, RegionInv
  <2> DEFINE params == yuarel_parse_query(yuarel_parse(TestUri).query, "&", MAX_QUERY)
  <2>5. params = r.params
    BY <2>2 DEF Request
  <2>6. /\ Len(params) \in Nat /\ DOMAIN params = 1 .. Len(params)
        /\ \A i \in DOMAIN params : ParamFits(params[i])
    BY TestParams
  <2> HIDE DEF params
  <2>7. \A i \in DOMAIN params : params[i].val \in Seq(Letters) \cup {NullString}
    BY <2>6 DEF ParamFits
  <2>8. ~Overruns(params)
    <3> SUFFICES ASSUME NEW i \in DOMAIN params, params[i].key = <<"memcpy">>,
                        params[i].val # NullString, Len(params[i].val) > MemSize
                 PROVE  FALSE
      BY DEF Overruns
    <3> DEFINE v == params[i].val
    <3>1. v \in Seq(Letters) /\ Len(v) <= MemSize
      BY <2>6 DEF ParamFits
    <3> HIDE DEF v
    <3>2. Len(v) \in Nat
      BY <3>1
    <3>3. Len(v) > MemSize
      BY DEF v
    <3> QED BY <3>1, <3>2, <3>3, SizeAssumption
  <2> QED BY <2>3, <2>4, <2>5, <2>6, <2>7, <2>8, QueryRegion
<1>9. NamesInv'
  <2>1. UNCHANGED contexts
    BY DEF Gets, Query, lwnbd_get_context, tables
  <2> QED BY <1>4, <1>6, <2>1 DEF AnswersInv, NamesInv
<1> QED BY <1>6, <1>7, <1>8, <1>9, NoAnswerYet DEF AnswersInv

\* A context that is taken gets the name it is given.
LEMMA TakenName ==
    ASSUME Inv, \A i \in Index : contexts[i].name # Zero, ~PoolFull, NEW c, c.name # Zero,
           Take(lwnbd_contexts_count, c)
    PROVE  \A i \in Index : contexts'[i].name # Zero
<1> DEFINE n == lwnbd_contexts_count
<1>1. contexts'[n] = c /\ \A i \in Index : i # n => contexts'[i] = contexts[i]
  BY TakeProps DEF Inv
<1> HIDE DEF n
<1> QED BY <1>1

LEMMA CallsAnswers == ASSUME Inv, AnswersInv, Loads \/ Loaded \/ Makes PROVE AnswersInv'
<1>1. todo # <<>> /\ todo' = Tail(todo) /\ UNCHANGED <<shellVars, fixed>>
  BY DEF Loads, Loaded, Makes, At
<1>2. UNCHANGED <<exportname, memory, answer, stored, program>>
  BY <1>1 DEF shellVars, fixed
<1>3. /\ answer' = NoAnswer /\ BeforeInv'
      /\ program = "shell" => \A k \in 1 .. Len(todo') : todo'[k].op = "new" => todo'[k].name # Zero
  BY <1>1, <1>2, CallsLeft
<1>4. AmpersandInv'
  BY <1>2 DEF AnswersInv, AmpersandInv
<1>5. RegionInv'
  BY <1>2 DEF AnswersInv, RegionInv, Fits, Letters, Overlay, Blanked, Zeros
<1>6. ASSUME program = "shell" PROVE \A i \in Index : contexts'[i].name # Zero
  <2>1. \A i \in Index : contexts[i].name # Zero
    BY <1>6 DEF AnswersInv, NamesInv
  <2>2. ASSUME UNCHANGED contexts PROVE \A i \in Index : contexts'[i].name # Zero
    BY <2>1, <2>2
  <2>3. CASE Loads
    <3>1. PICK d : lwnbd_plugin_init(d)
      BY <2>3 DEF Loads
    <3>2. CASE InitRefused(d) \/ InitCrashes(d)
      BY <2>2, <3>2 DEF InitRefused, InitCrashes, tables
    <3>3. CASE InitRegisters(d)
      <4> DEFINE c == [name |-> "api", p |-> d]
      <4>1. UNCHANGED contexts \/ (~PoolFull /\ Take(lwnbd_contexts_count, c))
        BY <3>3 DEF InitRegisters
      <4>2. c.name # Zero
        BY DEF Zero
      <4> HIDE DEF c
      <4> QED BY <2>1, <2>2, <4>1, <4>2, TakenName
    <3> QED BY <3>1, <3>2, <3>3 DEF lwnbd_plugin_init
  <2>4. CASE Loaded
    BY <2>2, <2>4 DEF Loaded, vars, tables
  <2>5. CASE Makes
    <3>1. At("new") /\ lwnbd_plugin_new(h[Call.d], Call.name)
      BY <2>5 DEF Makes
    <3>2. PICK name : name = Call.name
      OBVIOUS
    <3>3. name # Zero
      <4>1. Call = todo[1] /\ 1 \in 1 .. Len(todo)
        BY <1>1, CallHasType
      <4> QED BY <1>6, <3>1, <3>2, <4>1 DEF AnswersInv, NamesInv, At
    <3>4. \/ UNCHANGED contexts
          \/ \E d : NewContext(d, name)
      BY <3>1, <3>2 DEF lwnbd_plugin_new, tables
    <3>5. ASSUME NEW d, NewContext(d, name)
          PROVE  \/ UNCHANGED contexts
                 \/ ~PoolFull /\ Take(lwnbd_contexts_count, [name |-> name, p |-> d])
                 \/ \E how : ~PoolFull /\ Take(lwnbd_contexts_count, [name |-> NameAtFailure(how, name), p |-> NoDriver])
      BY <3>5, Zenon DEF NewContext, tables
    <3>6. ASSUME NEW d, ~PoolFull, Take(lwnbd_contexts_count, [name |-> name, p |-> d])
          PROVE  \A i \in Index : contexts'[i].name # Zero
      <4> DEFINE c == [name |-> name, p |-> d]
      <4>1. c.name # Zero
        BY <3>3
      <4> HIDE DEF c
      <4> QED BY <2>1, <3>6, <4>1, TakenName DEF c
    <3>7. ASSUME NEW how, ~PoolFull,
                 Take(lwnbd_contexts_count, [name |-> NameAtFailure(how, name), p |-> NoDriver])
          PROVE  \A i \in Index : contexts'[i].name # Zero
      <4> DEFINE m == NameAtFailure(how, name)
                 c == [name |-> m, p |-> NoDriver]
      <4>1. m # Zero
        BY <3>3, EmptyName
      <4> HIDE DEF m
      <4>2. c.name # Zero
        BY <4>1
      <4> HIDE DEF c
      <4> QED BY <2>1, <3>7, <4>2, TakenName DEF c, m
    <3> QED BY <2>2, <3>4, <3>5, <3>6, <3>7
  <2> QED BY <2>3, <2>4, <2>5
<1>7. NamesInv'
  BY <1>2, <1>3, <1>6 DEF NamesInv
<1> QED BY <1>3, <1>4, <1>5, <1>7, NoAnswerYet DEF AnswersInv

\* The parameters that a line becomes.
LEMMA LineParams ==
    ASSUME NameInv, NEW line \in Lines
    PROVE  LET u == exportname \o <<"?">> \o line
               params == Request(u).params
           IN  /\ u \in Seq(Letters)
               /\ Len(params) \in Nat /\ DOMAIN params = 1 .. Len(params)
               /\ \A i \in DOMAIN params : params[i].val \in Seq(Letters) \cup {NullString}
               /\ Lacks(exportname, "?") => params = Parameters(line)
<1> DEFINE e == exportname
           u == e \o <<"?">> \o line
           query == yuarel_parse(u).query
           params == yuarel_parse_query(query, "&", MAX_QUERY)
           T == Letters
<1>1. Alphabet(T) /\ "&" \in T /\ line \in Seq(T)
  BY LettersProps
<1>2. e \in Seq(T) /\ Lacks(e, "#")
  BY DEF NameInv
<1> HIDE DEF T, e
<1>3. query \in Seq(T) /\ (Lacks(e, "?") => query = find_fragment(line).left)
  BY <1>1, <1>2, LineQuery, Zenon
<1>4. u \in Seq(T)
  <2>1. <<"?">> \in Seq(T)
    BY <1>1, QuestionMark
  <2> DEFINE q == <<"?">>
  <2> HIDE DEF q
  <2>2. e \o q \in Seq(T)
    BY <1>2, <2>1, ConcatProperties DEF q
  <2>3. (e \o q) \o line \in Seq(T)
    BY <1>1, <2>2, ConcatProperties
  <2> QED BY <2>3 DEF q
<1>5. Request(u).params = params
  BY DEF Request
<1>6. Lacks(e, "?") => params = Parameters(line)
  BY <1>3 DEF Parameters
<1> HIDE DEF query, u
<1>7. /\ Len(params) \in Nat /\ DOMAIN params = 1 .. Len(params)
      /\ \A i \in DOMAIN params : params[i].val \in Seq(T) \cup {NullString}
  <2>1. CASE params = <<>>
    <3> HIDE DEF params
    <3> QED BY <2>1
  <2>2. CASE params # <<>>
    <3>1. query # Nothing
      BY <1>1, <1>3, <2>2, SomeParams, QueryAssumption
    <3> QED BY <1>1, <1>3, <3>1, QueryAssumption, ParamsAre
  <2> QED BY <2>1, <2>2
<1> HIDE DEF params
<1> QED BY <1>4, <1>5, <1>6, <1>7, Zenon DEF u, e, T

\* The name that "ce" is given is one parameter's, and keeps a '?' that was in the name.
LEMMA LookedName ==
    ASSUME NameInv, AmpersandInv, NEW line \in Lines, NEW r,
           r = Request(exportname \o <<"?">> \o line), NEW param \in Looked(r)
    PROVE  /\ MAX_QUERY = 1 \/ Lacks(param.val, "&")
           /\ ~Lacks(exportname, "?") /\ Lacks(param.key, "?") /\ param.val # NullString =>
                 ~Lacks(param.val, "?")
<1> DEFINE T == Letters
           e == exportname
           query == yuarel_parse(e \o <<"?">> \o line).query
           parsed(q) == yuarel_parse_query(q, "&", MAX_QUERY)
<1>1. Alphabet(T) /\ "&" \in T /\ "#" \in T /\ \A l \in Lines : l \in Seq(T)
  BY LettersProps DEF Alphabet
<1>2. e \in Seq(T) /\ Lacks(e, "#") /\ (Lacks(e, "&") \/ MAX_QUERY = 1)
  BY DEF NameInv, AmpersandInv
<1> HIDE DEF T, e
<1>3. ASSUME NEW q \in Seq(T), parsed(q) # <<>> PROVE MAX_QUERY = 1 \/ Lacks(parsed(q)[1].val, "&")
  <2>1. q # Nothing
    BY <1>1, <1>3, SomeParams, QueryAssumption
  <2> QED BY <1>1, <1>3, <2>1, QueryAssumption, FirstEnds
<1>4. r.params = parsed(query)
  BY DEF Request, e
<1>5. /\ query \in Seq(T) /\ (~Lacks(e, "?") => query # Nothing)
      /\ ~Lacks(e, "?") => BeginsIn(T, e, query)
  BY <1>1, <1>2, LineQuery, Zenon
<1> HIDE DEF query
<1>6. CASE r.params # <<>>
  <2>1. param = parsed(query)[1]
    BY <1>4, <1>6 DEF Looked
  <2>2. MAX_QUERY = 1 \/ Lacks(param.val, "&")
    <3> HIDE DEF parsed
    <3> QED BY <1>3, <1>4, <1>5, <1>6, <2>1
  <2>3. ASSUME ~Lacks(e, "?"), Lacks(param.key, "?"), param.val # NullString
        PROVE  ~Lacks(param.val, "?")
    BY <1>1, <1>2, <1>5, <2>1, <2>3, QueryAssumption, QueryStays
  <2> QED BY <2>2, <2>3 DEF e
<1>7. CASE r.params = <<>>
  <2>1. PICK l \in Lines : Parameters(l) # <<>> /\ param = Parameters(l)[1]
    BY <1>7 DEF Looked
  <2> DEFINE q == find_fragment(l).left
  <2>2. Parameters(l) = parsed(q)
    BY DEF Parameters
  <2>3. IsCut(T, l, "#", q, find_and_terminate(l, "#").next)
    BY <1>1, CutProps DEF find_fragment
  <2>4. q \in Seq(T)
    BY <2>3 DEF IsCut
  <2> HIDE DEF q, parsed
  <2>5. MAX_QUERY = 1 \/ Lacks(param.val, "&")
    BY <1>3, <2>1, <2>2, <2>4
  <2>6. Lacks(e, "?")
    <3> SUFFICES ASSUME ~Lacks(e, "?") PROVE FALSE
      OBVIOUS
    <3>1. query \in Seq(T) /\ query # Nothing
      BY <1>5
    <3>2. Len(parsed(query)) \in Nat \ {0}
      BY <1>1, <3>1, QueryAssumption, ParamsAre DEF parsed
    <3> QED BY <1>4, <1>7, <3>2
  <2> QED BY <2>5, <2>6 DEF e
<1> QED BY <1>6, <1>7

\* A line of the shell keeps the invariant of its answers.
LEMMA ShellTurns ==
    ASSUME Inv, NameInv, NameInv', AnswerInv, AnswersInv, program = "shell", todo = <<>>,
           NEW line \in Lines, ShellTurn(line), UNCHANGED own
    PROVE  AnswersInv'
<1> DEFINE e == exportname
           u == e \o <<"?">> \o line
<1>1. UNCHANGED <<program, todo>>
  BY DEF own, fixed
<1>2. PICK r : r = Request(u)
  OBVIOUS
<1> DEFINE params == r.params
<1>3. /\ u \in Seq(Letters)
      /\ Len(params) \in Nat /\ DOMAIN params = 1 .. Len(params)
      /\ \A i \in DOMAIN params : params[i].val \in Seq(Letters) \cup {NullString}
      /\ Lacks(e, "?") => params = Parameters(line)
  BY <1>2, LineParams
<1>4. (strchr(exportname', "?") = 0 <=> Lacks(exportname', "?")) /\ (strchr(e, "?") = 0 <=> Lacks(e, "?"))
  <2>1. exportname' \in Seq(Letters') /\ exportname \in Seq(Letters)
    BY DEF NameInv
  <2> QED BY <2>1, StrchrProps
<1>5. \/ /\ ~Dies(r) /\ Query(r)
         /\ IF r.p = "memory" THEN Show(line, r.p, u, MemSize, memory') ELSE UNCHANGED answer
         /\ UNCHANGED exportname
      \/ /\ r.p = "command"
         /\ \E param \in Looked(r) : CommandTurn(line, u, r, param)
      \/ /\ Dies(r) /\ Crash
         /\ answer' = [answer EXCEPT !.line = line]
         /\ UNCHANGED <<tables, exportname, memory, stored>>
  BY <1>2, Zenon DEF ShellTurn
<1>6. UNCHANGED tables
  BY <1>5 DEF Query, CommandTurn, lwnbd_get_context
<1>7. UNCHANGED <<contexts, contexts_status>>
  BY <1>6 DEF tables
<1>8. PICK list : list = Listing(lwnbd_contexts_count)
  OBVIOUS
<1>9. list = (Listing(lwnbd_contexts_count))'
  BY <1>7, <1>8 DEF Listing, lwnbd_contexts_count
<1>10. BeforeInv'
  <2>1. program' = "shell" /\ todo' = <<>> /\ Len(todo') = 0
    BY <1>1
  <2> QED BY <2>1 DEF BeforeInv
<1>11. NamesInv'
  BY <1>1, <1>7 DEF AnswersInv, NamesInv
<1>12. RegionInv' <=> Fits(stored') /\ memory' = Overlay(Blanked, stored')
  BY <1>1 DEF RegionInv, Fits, Letters, Overlay, Blanked, Zeros
<1>13. Fits(stored) /\ memory = Overlay(Blanked, stored) /\ \A i \in Index : contexts[i].name # Zero
  BY DEF AnswersInv, RegionInv, NamesInv
<1>14. /\ Sized(answer)
       /\ alive /\ Promises(answer, e) => answer.text = Expects(answer, stored, list)
  BY <1>8, AnswersAre DEF AnswersInv
<1> HIDE DEF u, e, params
<1>15. CASE /\ ~Dies(r) /\ Query(r)
            /\ IF r.p = "memory" THEN Show(line, r.p, u, MemSize, memory') ELSE UNCHANGED answer
            /\ UNCHANGED exportname
  <2>1. r.p = "memory" => ~Overruns(params)
    BY <1>15 DEF Dies, params
  <2>2. Fits(stored') /\ memory' = Overlay(Blanked, stored')
    BY <1>3, <1>13, <1>15, <2>1, QueryRegion DEF params
  <2>3. AmpersandInv'
    BY <1>15 DEF AnswersInv, AmpersandInv
  <2>4. ShellAnswers'
    <3>1. CASE r.p = "memory"
      <4>1. Show(line, r.p, u, MemSize, memory') /\ MemSize \in Nat
        BY <1>15, <3>1, SizeAssumption
      <4>2. PICK content : content = memory'
        OBVIOUS
      <4>3. Show(line, r.p, u, MemSize, content)
        BY <4>1, <4>2
      <4>4. Sized(answer') /\ Room(u, MemSize) \in Nat /\ MemSize < Room(u, MemSize)
        BY <1>3, <4>1, <4>3, ShownFits
      <4>5. answer'.from = "memory" /\ answer'.text = Screen(content, MemSize, Room(u, MemSize))
        BY <3>1, <4>3, Shown
      <4>6. PICK text : text = stored'
        OBVIOUS
      <4>7. Screen(content, MemSize, Room(u, MemSize)) = text
        BY <2>2, <4>2, <4>4, <4>6, RegionShows
      <4>8. Expects(answer', stored', list) = stored'
        BY <4>5 DEF Expects
      <4> QED BY <1>9, <4>4, <4>5, <4>6, <4>7, <4>8, AnswersNow
    <3>2. CASE r.p # "memory"
      <4>1. answer' = answer /\ stored' = stored /\ exportname' = e /\ alive
        BY <1>15, <3>2 DEF Query, lwnbd_get_context, e
      <4>2. alive' /\ Promises(answer', exportname') => answer'.text = Expects(answer', stored', list)
        BY <1>14, <4>1
      <4> QED BY <1>9, <1>14, <4>1, <4>2, AnswersNow
    <3> QED BY <3>1, <3>2
  <2> QED BY <1>10, <1>11, <1>12, <2>2, <2>3, <2>4 DEF AnswersInv
<1>16. CASE /\ Dies(r) /\ Crash
            /\ answer' = [answer EXCEPT !.line = line]
            /\ UNCHANGED <<tables, exportname, memory, stored>>
  <2>1. AmpersandInv' /\ RegionInv'
    BY <1>12, <1>13, <1>16 DEF AnswersInv, AmpersandInv
  <2>2. Sized(answer')
    <3>1. PICK l, from, n, room, text :
             answer = [line |-> l, from |-> from, size |-> n, room |-> room, text |-> text]
      BY DEF AnswerInv
    <3>2. answer' = [line |-> line, from |-> from, size |-> n, room |-> room, text |-> text]
      BY <1>16, <3>1
    <3> QED BY <1>14, <3>1, <3>2 DEF Sized
  <2>3. ~alive'
    BY <1>16 DEF Crash
  <2>4. ShellAnswers'
    BY <1>9, <2>2, <2>3, AnswersNow
  <2> QED BY <1>10, <1>11, <2>1, <2>4 DEF AnswersInv
<1>17. ASSUME r.p = "command", NEW param \in Looked(r), CommandTurn(line, u, r, param)
       PROVE  AnswersInv'
  <2>1. UNCHANGED <<memory, stored>> /\ alive /\ ~Kills(param)
    BY <1>17 DEF CommandTurn, lwnbd_get_context
  <2>2. RegionInv'
    BY <1>12, <1>13, <2>1
  <2>3. /\ param.val \in Seq(Letters) \cup {NullString}
        /\ r.params # <<>> => param = r.params[1]
    BY <1>2, LookedProps DEF u, e
  <2>4. /\ MAX_QUERY = 1 \/ Lacks(param.val, "&")
        /\ ~Lacks(e, "?") /\ Lacks(param.key, "?") /\ param.val # NullString => ~Lacks(param.val, "?")
    BY <1>2, LookedName DEF AnswersInv, u, e
  <2>5. CASE UNCHANGED <<answer, exportname>>
    <3>1. AmpersandInv'
      BY <2>5 DEF AnswersInv, AmpersandInv
    <3>2. answer' = answer /\ stored' = stored /\ exportname' = e
      BY <2>1, <2>5 DEF e
    <3>3. alive' /\ Promises(answer', exportname') => answer'.text = Expects(answer', stored', list)
      BY <1>14, <2>1, <3>2
    <3>4. ShellAnswers'
      BY <1>9, <1>14, <3>2, <3>3, AnswersNow
    <3> QED BY <1>10, <1>11, <2>2, <3>1, <3>4 DEF AnswersInv
  <2>6. CASE /\ ~Unknown(param.key) /\ ~Fails(param)
             /\ command_query_get(param)
             /\ Show(line, r.p, u, Result(param).size, result')
             /\ exportname' = IF param.key = <<"ce">> THEN param.val ELSE exportname
    <3> DEFINE n == Result(param).size
               content == Overlay(Cleared, Result(param).text)
    <3>1. /\ n \in Nat
          /\ \A room \in Nat : n < room => Screen(content, n, room) = Says(param, list)
      BY <1>8, <1>13, <2>1, <2>3, <2>6, CommandShows DEF Inv
    <3>2. result' = content
      BY <2>6 DEF command_query_get
    <3>3. Show(line, r.p, u, n, content)
      BY <2>6, <3>2
    <3> HIDE DEF n, content
    <3>4. Sized(answer') /\ Room(u, n) \in Nat /\ n < Room(u, n)
      BY <1>3, <3>1, <3>3, ShownFits
    <3>5. /\ answer'.line = line /\ answer'.from = "command"
          /\ answer'.text = Screen(content, n, Room(u, n))
      BY <1>17, <3>3, Shown
    <3>6. answer'.text = Says(param, list)
      BY <3>1, <3>4, <3>5
    <3>7. param.key = <<"ce">> => param.val # NullString /\ Lacks(param.key, "?")
      <4> DEFINE x == "ce"
      <4>1. x # "?"
        OBVIOUS
      <4>2. param.key = <<x>> => param.val # NullString
        BY <2>6 DEF Fails
      <4> HIDE DEF x
      <4>3. Lacks(<<x>>, "?")
        BY <4>1 DEF Lacks
      <4> QED BY <4>2, <4>3 DEF x
    <3>8. Lacks(exportname', "?") => Lacks(e, "?")
      BY <2>4, <2>6, <3>7 DEF e
    <3>9. ASSUME Promises(answer', exportname') PROVE answer'.text = Expects(answer', stored', list)
      <4>1. Lacks(e, "?") /\ Parameters(line) # <<>>
        BY <1>4, <3>5, <3>8, <3>9 DEF Promises, Nothing
      <4>2. param = Parameters(line)[1]
        BY <1>3, <2>3, <4>1 DEF params
      <4>3. Expects(answer', stored', list) = Says(Parameters(line)[1], list)
        BY <3>5 DEF Expects
      <4> QED BY <3>6, <4>2, <4>3
    <3>10. ShellAnswers'
      BY <1>9, <3>4, <3>9, AnswersNow
    <3>11. AmpersandInv'
      <4>1. exportname' = exportname \/ exportname' = param.val
        BY <2>6
      <4> QED BY <2>4, <4>1 DEF AnswersInv, AmpersandInv
    <3> QED BY <1>10, <1>11, <2>2, <3>10, <3>11 DEF AnswersInv
  <2> QED BY <1>17, <2>5, <2>6 DEF CommandTurn
<1> QED BY <1>5, <1>15, <1>16, <1>17

LEMMA StepAnswers ==
    ASSUME Inv, CauseInv, CauseInv', AnswersInv, [Next]_allVars
    PROVE  AnswersInv'
<1>1. CASE ShellLoop
  <2>1. program = "shell" /\ todo = <<>> /\ UNCHANGED own
    BY <1>1 DEF ShellLoop, Looping
  <2>2. PICK line \in Lines : ShellTurn(line)
    BY <1>1 DEF ShellLoop
  <2> QED BY <2>1, <2>2, ShellTurns DEF CauseInv
<1>2. ASSUME NEW c, FollowsNull(c) PROVE UNCHANGED <<shellVars, program, todo>> /\ ~alive'
  BY <1>2 DEF FollowsNull, own, fixed, Crash
<1>3. CASE ReaderTurn \/ WcTurn
  <2>1. UNCHANGED <<shellVars, program, todo>> /\ alive /\ program # "shell"
    BY <1>2, <1>3 DEF ReaderTurn, WcTurn, fixed, Looping
  <2> QED BY <2>1, SameAnswers DEF shellVars
<1>4. CASE ShellExits
  <2>1. UNCHANGED <<shellVars, program, todo, contexts, contexts_status>> /\ alive
    BY <1>4 DEF ShellExits, fixed, Looping, vars, tables
  <2> QED BY <2>1, SameAnswers DEF shellVars
<1>5. CASE Anything
  <2>1. UNCHANGED <<shellVars, program, todo>> /\ alive /\ program # "shell"
    BY <1>5 DEF Anything, own, fixed, Looping
  <2> QED BY <2>1, SameAnswers DEF shellVars
<1>6. CASE Finished \/ UNCHANGED allVars
  <2>1. UNCHANGED <<shellVars, program, todo, alive, contexts, contexts_status>>
    BY <1>6 DEF Finished, allVars, own, fixed, vars, tables
  <2> QED BY <2>1, SameAnswers DEF shellVars
<1> QED BY <1>1, <1>3, <1>4, <1>5, <1>6, CallsAnswers, GetsAnswers DEF Next

LEMMA InitAnswers == ASSUME Init PROVE AnswersInv
<1>1. /\ answer = NoAnswer /\ stored = Nothing /\ memory = Blanked /\ exportname = <<"api">>
  BY Zenon DEF Init, ShellInit, Blanked, Nothing
<1>2. RegionInv
  <2>1. Nothing \in Seq(Letters) /\ Len(Nothing) = 0
    BY NothingProps
  <2>2. Fits(Nothing) /\ Overlay(Blanked, Nothing) = Blanked
    BY <2>1, OverlayAt, SizeAssumption DEF Fits
  <2> QED BY <1>1, <2>2, Zenon DEF RegionInv
<1>3. AmpersandInv
  <2> DEFINE x == "api"
  <2>1. exportname = <<x>> /\ x # "&"
    BY <1>1
  <2> HIDE DEF x
  <2> QED BY <2>1 DEF AmpersandInv, Lacks
<1>4. ASSUME program = "shell", NEW k \in 1 .. Len(todo)
      PROVE  /\ todo[k].op = "get" => todo[k].uri = TestUri
             /\ todo[k].op = "new" => todo[k].name # Zero
  <2> DEFINE u == TestUri
             m == Blank.name
             t == "test"
             a == Load("memory")
             b == New("memory", t)
             c == Get(u, "none")
             d == Load("command")
             e == New("command", m)
  <2>1. todo = <<a, b, c, d, e>>
    BY <1>4, Zenon DEF Init, Calls, ShellCalls, TestUri, Blank
  <2>3. t # Zero
    BY DEF Zero
  <2>4. m # Zero
    BY <2>3, EmptyName
  <2> HIDE DEF u, m, t
  <2>2. /\ a.op = "init" /\ b.op = "new" /\ b.name = t /\ c.op = "get" /\ c.uri = u
        /\ d.op = "init" /\ e.op = "new" /\ e.name = m
    BY CallFields
  <2> HIDE DEF a, b, c, d, e
  <2>5. /\ Len(todo) = 5 /\ todo[1] = a /\ todo[2] = b /\ todo[3] = c
        /\ todo[4] = d /\ todo[5] = e
    BY <2>1
  <2>6. k = 1 \/ k = 2 \/ k = 3 \/ k = 4 \/ k = 5
    BY <2>5
  <2> QED BY <2>2, <2>3, <2>4, <2>5, <2>6 DEF u
<1>5. BeforeInv
  BY <1>1, <1>4 DEF BeforeInv
<1>6. NamesInv
  <2>1. ASSUME NEW i \in Index PROVE contexts[i].name # Zero
    <3>1. contexts[i] = Blank
      BY DEF Init, PluginsInit, ContextsInit
    <3>2. "api" # Zero
      BY DEF Zero
    <3>3. Blank.name # Zero
      BY <3>2, EmptyName
    <3> HIDE DEF Blank
    <3> QED BY <3>1, <3>3
  <2> QED BY <1>4, <2>1 DEF NamesInv
<1>7. ShellAnswers
  <2>1. /\ NoAnswer.size = 0 /\ NoAnswer.room = 1 /\ NoAnswer.text = Nothing
        /\ NoAnswer.line = Nothing
    BY Zenon DEF NoAnswer, Nothing
  <2>2. Len(Nothing) = 0
    BY NothingProps
  <2>3. Sized(NoAnswer)
    BY <2>1, <2>2 DEF Sized
  <2> HIDE DEF NoAnswer
  <2> QED BY <1>1, <2>1, <2>3, AnswersAre DEF Promises
<1> QED BY <1>2, <1>3, <1>5, <1>6, <1>7 DEF AnswersInv

-----------------------------------------------------------------------------
(* The theorems.                                                              *)

\* Whatever is called, a context in use belongs to a registered plugin that can read or
\* its constructor has failed, and neither table has a hole (plugins.c 36-40, 95-99,
\* 122, 141, contexts.c 118).
THEOREM ContextsStayServed == Spec => []ContextsServed
<1>1. Inv => ContextsServed
  <2> SUFFICES ASSUME Inv, NEW i \in Index, contexts_status[i] = "CREATED"
               PROVE  IF i \in failed THEN contexts[i].p = NoDriver
                      ELSE contexts[i].p \in Registered /\ Struct[contexts[i].p].pread
    BY DEF ContextsServed, Inv, TablesInv, ContextsInv, PluginsInv
  <2>1. CASE i \in failed
    BY <2>1 DEF Inv, TablesInv, ContextsInv
  <2>2. CASE i \notin failed
    <3>1. PICK s \in Slot : plugins_status[s] = "CREATED" /\ contexts[i].p = plugins[s]
      BY <2>2 DEF Inv, TablesInv, ContextsInv
    <3>2. Struct[plugins[s]].pread
      BY <3>1 DEF Inv, TablesInv, PluginsInv
    <3> QED BY <2>2, <3>1, <3>2 DEF Registered
  <2> QED BY <2>1, <2>2
<1> QED BY <1>1, AlwaysInv, PTL

\* Every export a program makes stays in its context, with the plugin it was made with,
\* and a lookup of its name finds it or the first made of that name (plugins.c 30-46,
\* contexts.c 112-128).
THEOREM ExportsStayFound == Spec => []ExportsFound
<1>1. Inv => ExportsFound
  <2> SUFFICES ASSUME Inv, NEW m \in made, NEW n \in made, n.name = m.name
               PROVE  /\ contexts[m.at] = [name |-> m.name, p |-> m.d]
                      /\ lwnbd_get_context_string(m.name) \in 0 .. n.at
    BY DEF ExportsFound
  <2>1. contexts[m.at] = [name |-> m.name, p |-> m.d]
    BY DEF Inv, MadeInv
  <2>2. n.at \in Index /\ contexts_status[n.at] = "CREATED" /\ contexts[n.at].name = n.name
    <3>1. /\ n.at \in Index /\ contexts_status[n.at] = "CREATED"
          /\ contexts[n.at] = [name |-> n.name, p |-> n.d]
      BY DEF Inv, MadeInv
    <3> QED BY <3>1
  <2>3. lwnbd_get_context_string(n.name) \in 0 .. n.at
    BY <2>2, LookupBefore DEF Inv
  <2> QED BY <2>1, <2>3
<1> QED BY <1>1, AlwaysInv, PTL


\* When the byte counter ends it has counted the bytes of the file, each once, and has
\* written nothing to it, unless the file has the name of the export of the commands
\* (local-command-wc.c 56-61); the reader has printed one more (local-reader.c 27-29).
THEOREM CountsExactly == Spec => []CountExact
<1>1. ReaderInv /\ WcInv => CountExact
  <2> SUFFICES ASSUME ReaderInv, WcInv, done PROVE
          /\ program = "reader" => count = size + 1
          /\ program = "wc" => /\ spoilt > 0 => contexts[file].name = "api"
                               /\ spoilt = 0 => count = size
    BY DEF CountExact
  <2>1. program = "reader" => count = size + 1
    BY DEF ReaderInv
  <2>2. ASSUME program = "wc"
        PROVE  (spoilt > 0 => contexts[file].name = "api") /\ (spoilt = 0 => count = size)
    <3>1. LookupsInv /\ TurnsInv
      BY <2>2 DEF WcInv
    <3>2. file # NULL /\ sink # NULL /\ size \in Nat
      BY <3>1 DEF TurnsInv
    <3>3. /\ contexts[sink].name = "api" /\ contexts[sink].p \in {"file", "command"}
          /\ contexts_status[sink] = "CREATED" /\ sink \in Index
          /\ contexts[file].p = "file" /\ contexts_status[file] = "CREATED" /\ file \in Index
      BY <3>1, <3>2 DEF LookupsInv
    <3>4. CASE contexts[sink].p = "command"
      <4>1. count = size /\ spoilt = 0
        BY <3>1, <3>2, <3>4 DEF TurnsInv, Passed
      <4> QED BY <4>1
    <3>5. CASE contexts[sink].p = "file"
      <4>1. count = 0 /\ spoilt = size
        BY <3>1, <3>2, <3>5 DEF TurnsInv, Passed
      <4>2. contexts[file].name = FileExport /\ contexts[sink].name = FileExport
        BY <3>1, <3>3, <3>5 DEF LookupsInv
      <4>3. contexts[file].name = "api"
        BY <3>3, <4>2
      <4> QED BY <4>1, <4>3
    <3> QED BY <3>3, <3>4, <3>5
  <2> QED BY <2>1, <2>2
<1> QED BY <1>1, AlwaysCounts, PTL

\* Every URI that is looked up is taken apart into what its author wrote, whatever the
\* URIs are and however many parameters are asked for (yuarel.c 42-176).
THEOREM UrisParseExactly == Spec => []UriParsed
<1>1. Init => UriInv
  BY Zenon DEF Init, UriInv, Nothing
<1>2. Inv /\ UriInv /\ [Next]_allVars => UriInv'
  BY StepUri
<1>3. UriInv => UriParsed
  BY LookupsAreStrings, StringParses DEF UriInv, UriParsed
<1> QED BY <1>1, <1>2, <1>3, AlwaysInv, PTL DEF Spec

\* A program follows a bad pointer, or writes out of bounds, only after a constructor
\* failed or was called for more devices than it has room for, the pool ran full, it went
\* on with a handle that was never one, it was given a file whose path has more than one
\* slash, it looked the commands up without a query, or the shell was given a line with a
\* '$' to echo, without a query for the commands, or with a text or a listing that there
\* is no room for (plugins.c 30-46, 95-146, contexts.c 55-68, contexts_uri.c 47, command.c
\* 53-97, builtin.c 24-72, memory.c 39-47 and 81, pcmstream.c 53-61, local-shell.c 122).
THEOREM CrashesHaveCause == Spec => []CrashHasCause
<1>1. Init => CauseInv
  BY InitCauses
<1>2. Inv /\ CauseInv /\ [Next]_allVars => CauseInv'
  BY StepCause
<1>3. CauseInv => CrashHasCause
  BY DEF CauseInv
<1> QED BY <1>1, <1>2, <1>3, AlwaysInv, PTL DEF Spec

\* An answer of the shell is to the line just typed, whatever was typed before: the
\* commands there are, the names of the contexts in their order, the words to echo,
\* nothing from a command that says nothing, or what the filters so far ask the region to
\* hold, with nothing left of the request in the same buffer or of an older result; unless
\* the line has no query for the commands, or a name with a query of its own was given to
\* "ce".  And it fits the buffer with its '\0' (local-shell.c 122-157, command.c 34 and
\* 59-63, builtin.c 42-72, contexts.c 77-88, memory.c 66-88).
THEOREM AnswersAreToTheLine == Spec => []ShellAnswers
<1>1. Init => AnswersInv /\ CauseInv
  BY InitAnswers, InitCauses
<1>2. Inv /\ CauseInv /\ AnswersInv /\ [Next]_allVars => CauseInv' /\ AnswersInv'
  BY StepCause, StepAnswers
<1>3. AnswersInv => ShellAnswers
  BY DEF AnswersInv
<1> QED BY <1>1, <1>2, <1>3, AlwaysInv, PTL DEF Spec
=============================================================================
