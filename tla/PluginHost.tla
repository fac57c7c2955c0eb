------------------------------- MODULE PluginHost -------------------------------
(***************************************************************************)
(* The plugin host, turbo_flow/src/flow_plugin.c: loading a plugin library *)
(* as one transaction over ten registries, the catalog snapshots that keep *)
(* the libraries mapped, and the host's retryable destruction.  The host   *)
(* is used from one thread; the steps below are the callbacks into the     *)
(* plugin, at which it may fail.                                           *)
(*                                                                         *)
(*   obj   the host: its state, its committed modules, and the entries of  *)
(*         all registries in the order they were added;                    *)
(*   work  the catalog snapshots;                                          *)
(*   call  the load or destruction in progress;                            *)
(*   net   the plugins whose library is mapped and instance live.          *)
(***************************************************************************)
EXTENDS Naturals, Sequences, FiniteSets, SequencesExt

CONSTANTS Plugins,        \* the libraries a host may be asked to load
          IdOf, Declared, \* the id and the capabilities a library announces
          Offers,         \* what a library's register callback may add
          Snapshots, None,
          ModuleCapacity, RegistryCapacity, MaxReferences, MaxFaults

VARIABLES obj, work, call, net

vars == <<obj, work, call, net>>

\* Names are unique over an adapter registry and its transactional twin, and so on.
Twin(r) == CASE r = "ADAPTER" -> "TRANSACTIONAL_ADAPTER"
             [] r = "TRANSACTIONAL_ADAPTER" -> "ADAPTER"
             [] r = "RESOURCE" -> "TRANSACTIONAL_RESOURCE"
             [] r = "TRANSACTIONAL_RESOURCE" -> "RESOURCE"
             [] OTHER -> r

Idle == [op |-> "NONE", plugin |-> None, before |-> 0, error |-> FALSE, index |-> 0]
Module(p) == [plugin |-> p, state |-> "ACTIVE", leases |-> 0]
Count == Len(obj.modules)

Init ==
    /\ \E list \in {<<>>} \cup {<<p, q>> : p, q \in Plugins} \cup {<<p, p, p>> : p \in Plugins} :
         obj = [state |-> "ACTIVE", modules |-> <<>>, entries |-> <<>>, snapshots |-> 0,
                configured |-> list, faults |-> 0]
    /\ work = [x \in Snapshots |-> None]
    /\ call = Idle
    /\ net = {}

MayFault == obj.faults < MaxFaults
Fault == [obj EXCEPT !.faults = @ + 1]

(* host_create_configured rolls the host back when one of its loads fails; *)
(* a plain load just returns.                                              *)
Destroying == [Idle EXCEPT !.op = "QUIESCE", !.index = Count]
AfterFailure(o) ==
    IF o.configured = <<>> THEN obj' = o /\ call' = Idle
    ELSE /\ obj' = [o EXCEPT !.configured = <<>>, !.state = "SHUTTING_DOWN"]
         /\ call' = Destroying

(* flow_plugin_host_load_expected up to the load callback.  A library that *)
(* is refused, does not validate, or fails its load is shut down and       *)
(* destroyed if it made an instance, and closed again.                     *)
Refused(p) ==
    \/ Count >= ModuleCapacity
    \/ Count + Len(obj.configured) > ModuleCapacity
    \/ \E i \in 1..Count : IdOf[obj.modules[i].plugin] = IdOf[p]
LoadBegin(p, ok) ==
    /\ call.op = "NONE" /\ obj.state = "ACTIVE"
    /\ obj.configured # <<>> => p = Head(obj.configured)
    /\ IF Refused(p) THEN ok /\ AfterFailure(obj) /\ UNCHANGED net
       ELSE IF ok
       THEN /\ net' = net \cup {p}
            /\ call' = [Idle EXCEPT !.op = "REGISTER", !.plugin = p, !.before = Len(obj.entries)]
            /\ UNCHANGED obj
       ELSE MayFault /\ AfterFailure(Fault) /\ UNCHANGED net
    /\ UNCHANGED work

(* The ten flow_plugin_add_* callbacks.  The first error is latched: later *)
(* calls do nothing, whatever the plugin makes of the result.              *)
Named(r, name) ==
    {i \in 1..Len(obj.entries) : /\ obj.entries[i].registry \in {r, Twin(r)}
                                 /\ obj.entries[i].name = name
                                 /\ r = "OPERATION" => obj.entries[i].module = Count + 1}
Size(r) == Cardinality({i \in 1..Len(obj.entries) : obj.entries[i].registry = r})
Register(offer) ==
    /\ call.op = "REGISTER" /\ offer \in Offers[call.plugin] /\ ~call.error
    /\ IF Named(offer.registry, offer.name) # {} \/ Size(offer.registry) >= RegistryCapacity
       THEN call' = [call EXCEPT !.error = TRUE] /\ UNCHANGED obj
       ELSE /\ obj' = [obj EXCEPT !.entries = Append(@,
                          [registry |-> offer.registry, name |-> offer.name,
                           module |-> Count + 1])]
            /\ UNCHANGED call
    /\ UNCHANGED <<work, net>>

Added == SubSeq(obj.entries, call.before + 1, Len(obj.entries))
\* flow_plugin_operation_resolve_schemas: an operation's schema is its own module's.
SchemasResolved ==
    \A e \in Range(Added) : e.registry = "OPERATION" =>
        \E s \in Range(Added) : s.registry = "SCHEMA" /\ s.name = e.name
CapabilitiesMatch == {e.registry : e \in Range(Added)} = Declared[call.plugin]

Rollback == [obj EXCEPT !.entries = SubSeq(@, 1, call.before)]

\* The register callback returns: commit, or roll back and close the library.
RegisterEnd(ok) ==
    /\ call.op = "REGISTER"
    /\ ok \/ MayFault
    /\ IF ok /\ ~call.error /\ SchemasResolved /\ CapabilitiesMatch
       THEN /\ obj' = [obj EXCEPT !.modules = Append(@, Module(call.plugin)),
                                  !.configured = IF @ = <<>> THEN @ ELSE Tail(@)]
            /\ call' = Idle
            /\ UNCHANGED net
       ELSE /\ AfterFailure([Rollback EXCEPT !.faults = @ + (IF ok THEN 0 ELSE 1)])
            /\ net' = net \ {call.plugin}
    /\ UNCHANGED work

\* A snapshot copies every registry and leases every module.
Lease(o, n) == [o EXCEPT !.modules = [i \in DOMAIN @ |-> [@[i] EXCEPT !.leases = @ + n]]]
SnapshotCreate(x) ==
    /\ call.op = "NONE" /\ obj.configured = <<>> /\ obj.state = "ACTIVE" /\ work[x] = None
    /\ work' = [work EXCEPT ![x] = [references |-> 1, leased |-> Count, entries |-> obj.entries]]
    /\ obj' = [Lease(obj, 1) EXCEPT !.snapshots = @ + 1]
    /\ UNCHANGED <<call, net>>
SnapshotRetain(x) ==
    /\ call.op = "NONE" /\ work[x] # None /\ work[x].references < MaxReferences
    /\ work' = [work EXCEPT ![x].references = @ + 1]
    /\ UNCHANGED <<obj, call, net>>
Unlease(o, n) ==
    [o EXCEPT !.snapshots = @ - 1,
              !.modules = [i \in DOMAIN @ |->
                             IF i <= n /\ @[i].leases > 0 THEN [@[i] EXCEPT !.leases = @ - 1]
                             ELSE @[i]]]
SnapshotDestroy(x) ==
    /\ call.op = "NONE" /\ work[x] # None
    /\ IF work[x].references > 1
       THEN work' = [work EXCEPT ![x].references = @ - 1] /\ UNCHANGED obj
       ELSE /\ work' = [work EXCEPT ![x] = None]
            /\ obj' = Unlease(obj, work[x].leased)
    /\ UNCHANGED <<call, net>>

(* turbo_flow_plugin_host_destroy: refused while a snapshot or a lease is  *)
(* left; then, newest module first, every quiesce, every shutdown, and     *)
(* only then every destroy.  A failed callback ends the call, and the next *)
(* one resumes where it stopped.                                           *)
MayDestroy == obj.snapshots = 0 /\ \A i \in 1..Count : obj.modules[i].leases = 0
HostDestroy ==
    /\ call.op = "NONE" /\ obj.configured = <<>> /\ obj.state \in {"ACTIVE", "SHUTTING_DOWN"}
    /\ MayDestroy
    /\ obj' = [obj EXCEPT !.state = "SHUTTING_DOWN"]
    /\ call' = Destroying
    /\ UNCHANGED <<work, net>>

From == [QUIESCE |-> "ACTIVE", SHUTDOWN |-> "QUIESCED"]
To == [QUIESCE |-> "QUIESCED", SHUTDOWN |-> "SHUTDOWN"]
Then == [QUIESCE |-> "SHUTDOWN", SHUTDOWN |-> "UNLOAD"]
DestroyStep(ok) ==
    /\ call.op \in DOMAIN From /\ call.index > 0
    /\ IF obj.modules[call.index].state # From[call.op]
       THEN ok /\ call' = [call EXCEPT !.index = @ - 1] /\ UNCHANGED obj
       ELSE IF ok
       THEN /\ obj' = [obj EXCEPT !.modules[call.index].state = To[call.op]]
            /\ call' = [call EXCEPT !.index = @ - 1]
       ELSE MayFault /\ obj' = Fault /\ call' = Idle
    /\ UNCHANGED <<work, net>>
DestroyPass ==
    /\ call.op \in DOMAIN From /\ call.index = 0
    /\ call' = [call EXCEPT !.op = Then[@], !.index = Count]
    /\ UNCHANGED <<obj, work, net>>
DestroyUnload ==
    /\ call.op = "UNLOAD" /\ call.index > 0
    /\ net' = net \ {obj.modules[call.index].plugin}
    /\ obj' = [obj EXCEPT !.modules[call.index].state = "UNLOADED"]
    /\ call' = [call EXCEPT !.index = @ - 1]
    /\ UNCHANGED work
DestroyEnd ==
    /\ call.op = "UNLOAD" /\ call.index = 0
    /\ obj' = [obj EXCEPT !.state = "FREED", !.modules = <<>>, !.entries = <<>>]
    /\ call' = Idle
    /\ UNCHANGED <<work, net>>

Next ==
    \/ \E p \in Plugins, ok \in BOOLEAN : LoadBegin(p, ok)
    \/ \E offer \in UNION {Offers[p] : p \in Plugins} : Register(offer)
    \/ \E ok \in BOOLEAN : RegisterEnd(ok) \/ DestroyStep(ok)
    \/ \E x \in Snapshots : SnapshotCreate(x) \/ SnapshotRetain(x) \/ SnapshotDestroy(x)
    \/ HostDestroy \/ DestroyPass \/ DestroyUnload \/ DestroyEnd

Spec == Init /\ [][Next]_vars

Live == {x \in Snapshots : work[x] # None}
\* A catalog entry's code is mapped: everything a snapshot holds belongs to a
\* module it leases and that has not begun to shut down, and outside a load the
\* registries hold committed modules' entries only.
CatalogCodeMapped ==
    /\ \A x \in Live : \A e \in Range(work[x].entries) :
         /\ e.module <= work[x].leased /\ e.module <= Count
         /\ obj.modules[e.module].plugin \in net
         /\ obj.modules[e.module].state = "ACTIVE"
    /\ call.op = "NONE" => \A e \in Range(obj.entries) : e.module <= Count
\* A name resolves to one provider, and a committed library registered exactly
\* the capabilities it announces.
CatalogUnambiguous ==
    call.op = "NONE" =>
        /\ \A i, j \in 1..Len(obj.entries) :
             LET d == obj.entries[i]  e == obj.entries[j]
             IN  (i # j /\ e.registry \in {d.registry, Twin(d.registry)} /\ d.name = e.name)
                   => (d.registry = "OPERATION" /\ d.module # e.module)
        /\ \A i \in 1..Count :
             {e.registry : e \in {f \in Range(obj.entries) : f.module = i}}
                 = Declared[obj.modules[i].plugin]
=================================================================================
