--------------------------- MODULE PluginGeneration ---------------------------
(***************************************************************************)
(* One generation of a Graph assembled from plugins: the provider owners   *)
(* behind its stages, its operation bindings and materializers, the result *)
(* domain, and the retryable retirement that takes them apart again        *)
(* (flow_plugin_generation.c, flow_provider_generation.c,                  *)
(* flow_provider_instance.c, flow_plugin_operation.c,                      *)
(* flow_plugin_result_domain.c, flow_projection_owner.c).  The owners are  *)
(* those of the CNet plugin and one of another provider, whose callbacks   *)
(* may fail.                                                               *)
(*                                                                         *)
(* The control thread creates, starts, polls and destroys the generation   *)
(* one callback at a time; operation calls run on the Flow's threads.      *)
(***************************************************************************)
EXTENDS Naturals, FiniteSets

CONSTANTS
    Assemblies,     \* the sequences of provider kinds a Graph may name, one per root stage
    Calls,          \* messages that reach the operation stage
    MaxInflight,    \* limits.max_inflight of the operation binding
    MaxLeases,      \* leases ever acquired on the generation
    MaxReplies,     \* replies ever sent through a listener
    MaxFaults,      \* callbacks, allocations and lease releases that fail
    CleanResizeFailures \* whether the adapters may all stop when a pool resize is lost

VARIABLES obj, work, call, net

vars == <<obj, work, call, net>>

Entries == DOMAIN work
Roots == UNION {DOMAIN kinds : kinds \in Assemblies}
Last == Cardinality(Entries)

(***************************************************************************)
(* The runtime owners that the CNet plugin creates, and the plugin root    *)
(* that counts them: io/cnet/src/turbo_flow_cnet_plugin.c.  An owner is a  *)
(* value; every operator is one callback of its vtable or of the adapter   *)
(* it registers, applied to that value.  A handle is absent, OPEN or       *)
(* CLOSED, and a listener holds the replies whose terminal nobody has      *)
(* taken.                                                                  *)
(***************************************************************************)
Sources == {"STREAM_SOURCE", "LISTENER_SOURCE"}
IsSource(kind) == kind \in Sources

\* cnet_plugin_root_t: the plugin's own state, shared by its provider slots.
Root == [started |-> TRUE, stopping |-> FALSE, owners |-> 0]
RootAccepts(root) == root.started /\ ~root.stopping
RootAddOwner(root) == [root EXCEPT !.owners = @ + 1]
RootRemoveOwner(root) == [root EXCEPT !.owners = IF @ = 0 THEN 0 ELSE @ - 1]
RootRequestStop(root) == [root EXCEPT !.started = FALSE, !.stopping = TRUE]
RootIsQuiescent(root) == root.stopping /\ root.owners = 0

\* provider_materialize: a sink registers its adapter, and has its handle, at once.
OwnerNew(kind) ==
    [state |-> "REGISTERED", ok |-> TRUE, quiesced |-> FALSE, demand |-> FALSE, sent |-> 0,
     handle |-> IF IsSource(kind) THEN "NONE" ELSE "CLOSED", terminals |-> 0, taken |-> 0]

\* cnet_plugin_source_start: an owner is started at most once, its handle stays.
StartRefused(o) == o.handle # "NONE" \/ o.quiesced
SourceStarted(o) ==
    [o EXCEPT !.state = "RUNNING", !.ok = TRUE, !.demand = TRUE, !.handle = "OPEN"]
SourceStartFailed(o) == [o EXCEPT !.state = "FAILED", !.ok = FALSE, !.demand = FALSE]
SinkStarted(o) == [o EXCEPT !.handle = "OPEN"]

\* cnet_plugin_source_stop_handle: a source that is closed already counts as stopped.
StopHandle(o, fails) ==
    IF o.handle = "OPEN" /\ fails
    THEN [o EXCEPT !.ok = FALSE, !.state = "FAILED"]
    ELSE [o EXCEPT !.ok = TRUE, !.state = "STOPPED",
                   !.handle = IF @ = "OPEN" THEN "CLOSED" ELSE @]

\* cnet_plugin_source_stop, and the sink's stop hook.
OwnerStop(kind, o, fails) ==
    IF IsSource(kind) THEN StopHandle(o, fails)
    ELSE [o EXCEPT !.handle = IF fails THEN @ ELSE "CLOSED"]

\* cnet_plugin_source_shutdown, called when the Flow is destroyed.
AdapterShutdown(kind, o) ==
    IF IsSource(kind) /\ o.state # "STOPPED" /\ o.handle # "NONE"
    THEN StopHandle(o, FALSE) ELSE o

\* cnet_plugin_owner_poll: the first poll asks for the initial demand, once.
PollRefused(o) == o.handle = "NONE" \/ o.quiesced
OwnerPoll(o, fails) ==
    IF fails THEN [o EXCEPT !.ok = FALSE, !.state = "FAILED"] ELSE [o EXCEPT !.demand = FALSE]

\* cnet_plugin_owner_quiesce
OwnerQuiesce(o) ==
    [o EXCEPT !.quiesced = TRUE, !.state = IF @ = "RUNNING" THEN "QUIESCING" ELSE @]

\* cnet_plugin_owner_drain: a stopped listener is destroyed, which its untaken
\* terminals refuse.
DrainRefusedEarly(kind, o) == IsSource(kind) /\ o.handle # "NONE" /\ o.state # "STOPPED"
DrainRefused(kind, o) ==
    \/ IsSource(kind) /\ o.handle # "NONE" /\ o.state # "STOPPED"
    \/ kind = "LISTENER_SOURCE" /\ o.handle # "NONE" /\ o.terminals # 0
OwnerDrain(kind, o) ==
    IF kind = "LISTENER_SOURCE" /\ o.state = "STOPPED" THEN [o EXCEPT !.handle = "NONE"] ELSE o

\* cnet_plugin_owner_destroy: returns without freeing the owner when the handle refuses.
DestroyRefused(kind, o) ==
    \/ o.handle = "OPEN"
    \/ kind = "LISTENER_SOURCE" /\ o.handle # "NONE" /\ o.terminals # 0

\* cnet_plugin_transport_reply_*: only a listener (or a packet source) replies.
CanReply(kind, o) == kind = "LISTENER_SOURCE" /\ o.handle = "OPEN" /\ o.terminals = 0
ReplySend(o) == [o EXCEPT !.sent = @ + 1, !.terminals = @ + 1]
CanTakeTerminal(kind, o) == kind = "LISTENER_SOURCE" /\ o.handle # "NONE" /\ o.terminals # 0
TakeTerminal(o) == [o EXCEPT !.taken = @ + 1, !.terminals = @ - 1]

(***************************************************************************)
(* State.  obj is the generation, work its provider entries, net what it   *)
(* does not own (plugin root, snapshot references, result domain).  call   *)
(* holds the control thread's position and each operation call's.          *)
(***************************************************************************)
Entry(kind) ==
    [kind |-> kind, state |-> "NONE", provider |-> FALSE, resource |-> FALSE, live |-> FALSE,
     owner |-> OwnerNew(kind)]

Init ==
    /\ \E kinds \in Assemblies : work = [e \in DOMAIN kinds |-> Entry(kinds[e])]
    /\ obj = [handle |-> "NONE", state |-> "INVALID", failed |-> FALSE, flow |-> "HOST",
              retryable |-> FALSE, leases |-> 0, leased |-> 0, pollClosed |-> FALSE,
              cursor |-> 1, attached |-> FALSE, retiring |-> FALSE,
              materializer |-> "NONE", outstanding |-> 0, session |-> FALSE, closed |-> FALSE,
              inflight |-> 0]
    /\ call = [at |-> "IDLE", e |-> 0,
               ops |-> [c \in Calls |-> [at |-> "IDLE", projection |-> FALSE, result |-> FALSE]]]
    /\ net = [root |-> Root, unloaded |-> FALSE, snapshot |-> {"host", "domain"}, faults |-> 0,
              domain |-> [state |-> "READY", context |-> FALSE, owner |-> FALSE,
                          accepting |-> FALSE, outstanding |-> 0]]

At(pos) == call.at = pos
GoTo(pos, e) == call' = [call EXCEPT !.at = pos, !.e = e]
Fault(n) == net.faults + n <= MaxFaults
Charge(n) == net' = [net EXCEPT !.faults = @ + n]

(* Leaves the control thread at the end of a create or destroy that did not
   finish; create keeps the generation as its cleanup handle. *)
Return == call' = [call EXCEPT !.at = "IDLE", !.e = 0]

NeedsResource(kind) == kind # "OTHER"
Accepts(e) == work[e].kind = "OTHER" \/ RootAccepts(net.root)

(***************************************************************************)
(* turbo_flow_plugin_generation_create                                     *)
(***************************************************************************)
Create ==
    /\ At("IDLE") /\ obj.handle = "NONE" /\ ~net.unloaded /\ "host" \in net.snapshot
    /\ net.domain.state # "FREED"
    /\ obj' = [obj EXCEPT !.handle = "HELD"]
    /\ GoTo("PREPARE", 1)
    /\ UNCHANGED <<work, net>>

(***************************************************************************)
(* flow_compiled_provider_instance_prepare of entry call.e, step by step:  *)
(* provider lease and factory, typed config, resource lease, preflight.    *)
(***************************************************************************)
(* turbo_flow_provider_binding_acquire *)
AcquireProvider ==
    /\ At("PREPARE") /\ call.e <= Last
    /\ work' = [work EXCEPT ![call.e].provider = TRUE]
    /\ GoTo("CONFIG", call.e)
    /\ UNCHANGED <<obj, net>>

(* flow_provider_typed_config_bind *)
BindConfig ==
    /\ At("CONFIG")
    /\ GoTo(IF NeedsResource(work[call.e].kind) THEN "RESOURCE" ELSE "PREFLIGHT", call.e)
    /\ UNCHANGED <<obj, work, net>>

(* turbo_flow_resource_binding_acquire *)
AcquireResource ==
    /\ At("RESOURCE")
    /\ work' = [work EXCEPT ![call.e].resource = TRUE]
    /\ GoTo("PREFLIGHT", call.e)
    /\ UNCHANGED <<obj, net>>

(* provider_preflight *)
PreflightEntry ==
    /\ At("PREFLIGHT") /\ Accepts(call.e)
    /\ work' = [work EXCEPT ![call.e].state = "PREPARED"]
    /\ GoTo("PREPARE", call.e + 1)
    /\ UNCHANGED <<obj, net>>

(* compiled_provider_cleanup: both leases are tried; each may stay. *)
CleanupEntry(e, keepsResource, keepsProvider) ==
    LET resource == work[e].resource /\ keepsResource
        provider == work[e].provider /\ keepsProvider
    IN  [work[e] EXCEPT !.resource = resource, !.provider = provider,
                        !.state = IF ~resource /\ ~provider THEN "NONE"
                                  ELSE IF @ = "NONE" THEN "PREPARED" ELSE @]

(* compiled_provider_fail: a rejected instance gives its leases back; one whose
   release fails is kept as a cleanup handle.  A provider that acquires and then
   finds its factory unusable releases its own lease in the same way. *)
RejectInstance(keepsResource, keepsProvider) ==
  LET free == At("PREFLIGHT") /\ ~Accepts(call.e)
      Cost == (IF free THEN 0 ELSE 1) + (IF keepsResource \/ keepsProvider THEN 1 ELSE 0)
  IN
    /\ call.at \in {"CONFIG", "RESOURCE", "PREFLIGHT"} \/ (At("PREPARE") /\ call.e <= Last)
    /\ keepsResource => work[call.e].resource
    /\ keepsProvider => work[call.e].provider
    /\ Fault(Cost) /\ Charge(Cost)
    /\ work' = [work EXCEPT ![call.e] = CleanupEntry(call.e, keepsResource, keepsProvider)]
    /\ GoTo("UNPREPARE", Last)
    /\ UNCHANGED obj

(* flow_plugin_operations_prepare and _preflight: bindings, nothing pinned yet. *)
PrepareOperations ==
    /\ At("PREPARE") /\ call.e > Last
    /\ GoTo("BINDINGS", 0)
    /\ UNCHANGED <<obj, work, net>>

(* Materializers pin the snapshot before the generation does. *)
PrepareMaterializers ==
    /\ At("BINDINGS")
    /\ obj' = [obj EXCEPT !.materializer = "ACCEPTING"]
    /\ net' = [net EXCEPT !.snapshot = @ \union {"materializer"}]
    /\ GoTo("ATTACH", 0)
    /\ UNCHANGED work

(* The snapshot is retained and the domain attached, then the Graph moves into
   the generation. *)
AttachDomain ==
    /\ At("ATTACH") /\ net.domain.state = "READY"
    /\ obj' = [obj EXCEPT !.flow = "PARSED", !.attached = TRUE]
    /\ net' = [net EXCEPT !.snapshot = @ \union {"generation"}, !.domain.state = "ATTACHED"]
    /\ GoTo("MATERIALIZE", 1)
    /\ UNCHANGED work

(* preflight_failed: whatever was pinned is unpinned, the provider leases follow. *)
PreflightFails ==
    /\ call.at \in {"BINDINGS", "ATTACH"} \/ (At("PREPARE") /\ call.e > Last)
    /\ Fault(1)
    /\ obj' = [obj EXCEPT !.materializer = "NONE"]
    /\ net' = [net EXCEPT !.faults = @ + 1, !.snapshot = @ \ {"materializer"}]
    /\ GoTo("RELEASE", Last)
    /\ UNCHANGED work

(* provider_materialize *)
MaterializeEntry ==
    /\ At("MATERIALIZE") /\ call.e <= Last
    /\ Accepts(call.e)
    /\ work' = [work EXCEPT ![call.e].state = "MATERIALIZED", ![call.e].live = TRUE]
    /\ net' = [net EXCEPT !.root = IF work[call.e].kind = "OTHER" THEN @ ELSE RootAddOwner(@)]
    /\ GoTo("MATERIALIZE", call.e + 1)
    /\ UNCHANGED obj

MaterializeFails ==
    /\ At("MATERIALIZE") /\ call.e <= Last
    /\ Accepts(call.e) => Fault(1)
    /\ Charge(IF Accepts(call.e) THEN 1 ELSE 0)
    /\ obj' = [obj EXCEPT !.failed = TRUE, !.state = "FAILED_CLEANUP"]
    /\ GoTo("BUFFERS", 0)
    /\ UNCHANGED work

(* flow_plugin_operations_materialize: result context, result owner, session,
   registration; then turbo_flow_compile. *)
Compile ==
    /\ At("MATERIALIZE") /\ call.e > Last
    /\ obj' = [obj EXCEPT !.session = TRUE, !.flow = "COMPILED", !.state = "COMPILED"]
    /\ net' = [net EXCEPT !.domain = [@ EXCEPT !.context = TRUE, !.owner = TRUE,
                                               !.accepting = TRUE]]
    /\ Return
    /\ UNCHANGED work

CompileFails(context, owner, session) ==
    /\ At("MATERIALIZE") /\ call.e > Last /\ Fault(1)
    /\ (owner => context) /\ (session => owner)
    /\ obj' = [obj EXCEPT !.session = session, !.failed = TRUE, !.state = "FAILED_CLEANUP",
                          !.flow = "FAILED"]
    /\ net' = [net EXCEPT !.domain = [@ EXCEPT !.context = context, !.owner = owner,
                                               !.accepting = owner],
                          !.faults = @ + 1]
    /\ GoTo("BUFFERS", 0)
    /\ UNCHANGED work
(***************************************************************************)
(* Lease release, shared by a rejected create and by retirement.           *)
(***************************************************************************)
(* Entry call.e of a reverse loop that continues past a failing release. *)
ReleaseStep(pos, keepsResource, keepsProvider) ==
    /\ At(pos) /\ call.e > 0 /\ work[call.e].state \in {"PREPARED", "OWNER_DESTROYED"}
    /\ keepsResource => work[call.e].resource /\ Fault(1)
    /\ keepsProvider => work[call.e].provider /\ Fault(1)
    /\ work' = [work EXCEPT ![call.e] = CleanupEntry(call.e, keepsResource, keepsProvider)]
    /\ Charge(IF keepsResource \/ keepsProvider THEN 1 ELSE 0)
    /\ GoTo(pos, call.e - 1)
    /\ UNCHANGED obj

ReleaseSkip(pos) ==
    /\ At(pos) /\ call.e > 0 /\ work[call.e].state = "NONE"
    /\ GoTo(pos, call.e - 1)
    /\ UNCHANGED <<obj, work, net>>

(* provider_generation_release_prepared: what it leaves is tried again by
   flow_provider_generation_release. *)
Unprepared ==
    /\ At("UNPREPARE") /\ call.e = 0
    /\ IF \A e \in Entries : work[e].state = "NONE"
       THEN /\ obj' = [obj EXCEPT !.handle = "FREED"]
            /\ Return
       ELSE GoTo("RELEASE", Last) /\ UNCHANGED obj
    /\ UNCHANGED <<work, net>>

(* Leases are left: the generation stays, and a rejected create hands it out. *)
ReleaseIncomplete ==
    /\ At("RELEASE") /\ call.e = 0 /\ \E e \in Entries : work[e].state # "NONE"
    /\ obj' = IF obj.flow = "HOST"
              THEN [obj EXCEPT !.failed = TRUE, !.state = "FAILED_CLEANUP"] ELSE obj
    /\ Return
    /\ UNCHANGED <<work, net>>

(* The providers are gone: the domain is detached, the materializers and the
   snapshot reference go, the generation is freed. *)
Free ==
    /\ At("RELEASE") /\ call.e = 0 /\ \A e \in Entries : work[e].state = "NONE"
    /\ obj' = [obj EXCEPT !.handle = "FREED", !.attached = FALSE,
                          !.materializer = "NONE"]
    /\ net' = [net EXCEPT !.snapshot = @ \ {"generation", "materializer"},
                          !.domain.state = IF obj.attached THEN "DETACHED" ELSE @]
    /\ Return
    /\ UNCHANGED work

(***************************************************************************)
(* flow_plugin_generation_retire                                           *)
(***************************************************************************)
(* turbo_flow_plugin_generation_destroy by the host; without a Graph only
   leases are left to release. *)
Destroy ==
    /\ At("IDLE") /\ obj.handle = "HELD"
    /\ obj' = [obj EXCEPT !.retiring = TRUE]
    /\ IF obj.flow \in {"HOST", "NONE"}
       THEN IF obj.leases # 0 THEN UNCHANGED call ELSE GoTo("RELEASE", Last)
       ELSE GoTo("BUFFERS", 0)
    /\ UNCHANGED <<work, net>>

(* flow_durable_buffers_prepare_retire *)
RetireBuffers ==
    /\ At("BUFFERS")
    /\ GoTo("MATERIALIZERS", 0)
    /\ UNCHANGED <<obj, work, net>>
RetireBuffersBusy ==
    /\ At("BUFFERS") /\ obj.flow = "STARTED" /\ Fault(1) /\ Charge(1)
    /\ Return
    /\ UNCHANGED <<obj, work>>

(* flow_plugin_materializers_stop_and_check *)
RetireMaterializers ==
    /\ At("MATERIALIZERS")
    /\ obj' = [obj EXCEPT !.materializer = "STOPPED"]
    /\ IF obj.outstanding # 0 THEN Return ELSE GoTo("CLOSE", 0)
    /\ UNCHANGED <<work, net>>

(* flow_plugin_operations_close, then the leases *)
RetireClose ==
    /\ At("CLOSE")
    /\ IF obj.inflight # 0 \/ obj.leases # 0
       THEN obj' = [obj EXCEPT !.closed = TRUE] /\ Return
       ELSE /\ obj' = [obj EXCEPT !.closed = TRUE, !.pollClosed = TRUE]
            /\ GoTo("QUIESCE", Last)
    /\ UNCHANGED <<work, net>>

(* The owner loops run in reverse and skip what never materialized and what an
   earlier attempt completed. *)
States ==
    <<"NONE", "PREPARED", "MATERIALIZED", "QUIESCED", "DRAINED", "SHUTDOWN", "OWNER_DESTROYED">>
Rank(state) == CHOOSE n \in DOMAIN States : States[n] = state
Due(e, target) == Rank("PREPARED") < Rank(work[e].state) /\ Rank(work[e].state) < Rank(target)

LoopSkip(pos, target) ==
    /\ At(pos) /\ call.e > 0 /\ ~Due(call.e, target)
    /\ GoTo(pos, call.e - 1)
    /\ UNCHANGED <<obj, work, net>>

(* A callback of the owner of call.e succeeds, leaving the owner in o. *)
LoopStep(pos, target, o) ==
    /\ At(pos) /\ call.e > 0 /\ Due(call.e, target)
    /\ work' = [work EXCEPT ![call.e].state = target, ![call.e].owner = o]
    /\ GoTo(pos, call.e - 1)
    /\ UNCHANGED <<obj, net>>

(* It fails: the attempt ends there, what earlier entries completed stands. *)
LoopFails(pos, target) ==
    /\ At(pos) /\ call.e > 0 /\ Due(call.e, target)
    /\ work[call.e].kind = "OTHER" /\ Fault(1) /\ Charge(1)
    /\ Return
    /\ UNCHANGED <<obj, work>>

LoopEnd(pos, next, e) ==
    /\ At(pos) /\ call.e = 0
    /\ GoTo(next, e)
    /\ UNCHANGED <<work, net>>

Owner == work[call.e].owner
Kind == work[call.e].kind

(* flow_provider_generation_quiesce *)
Quiesce == LoopStep("QUIESCE", "QUIESCED", OwnerQuiesce(Owner))
QuiesceEnd ==
    LoopEnd("QUIESCE", "STOP", 0) /\ obj' = [obj EXCEPT !.state = "QUIESCED"]

(* turbo_flow_stop: waits for the publishes inside the Graph, then stops every
   adapter; a Flow that FAILED with nothing to retry is refused. *)
Quiet == \A c \in Calls : call.ops[c].at \in {"IDLE", "DONE", "END"}
MustStop == ~obj.failed /\ obj.flow \in {"STARTED", "FAILED"}
StopRefused == obj.flow = "FAILED" /\ ~obj.retryable
StopOwners(bad) ==
    [e \in Entries |-> IF work[e].live
                       THEN [work[e] EXCEPT !.owner = OwnerStop(work[e].kind, @, e \in bad)]
                       ELSE work[e]]

RetireStopForgets(bad) ==
    /\ At("STOP") /\ MustStop /\ Quiet /\ ~StopRefused
    /\ bad # {} => Fault(1)
    /\ \A e \in bad : work[e].owner.handle = "OPEN"
    /\ work' = StopOwners(bad)
    /\ Charge(IF bad = {} THEN 0 ELSE 1)
    /\ obj' = [obj EXCEPT !.flow = IF bad = {} THEN "STOPPED" ELSE "FAILED"]
    /\ IF bad = {} THEN GoTo("DRAIN", Last) ELSE Return
RetireStop(bad) ==
    /\ At("STOP") /\ MustStop
    /\ bad # {} => Fault(1)
    /\ \A e \in bad : work[e].owner.handle = "OPEN"
    /\ IF StopRefused
       THEN bad = {} /\ Return /\ UNCHANGED <<obj, work, net>>
       ELSE /\ Quiet
            /\ work' = StopOwners(bad)
            /\ Charge(IF bad = {} THEN 0 ELSE 1)
            /\ IF bad = {}
               THEN /\ obj' = [obj EXCEPT !.flow = "STOPPED", !.retryable = FALSE,
                                          !.state = "STOPPED"]
                    /\ GoTo("DRAIN", Last)
               ELSE /\ obj' = [obj EXCEPT !.flow = "FAILED", !.retryable = TRUE]
                    /\ Return
RetireStopSkip ==
    /\ At("STOP") /\ ~MustStop
    /\ obj' = [obj EXCEPT !.state = "STOPPED"]
    /\ GoTo("DRAIN", Last)
    /\ UNCHANGED <<work, net>>

(* flow_provider_generation_drain *)
Drain ==
    /\ At("DRAIN") /\ (call.e > 0 => ~DrainRefused(Kind, Owner))
    /\ LoopStep("DRAIN", "DRAINED", OwnerDrain(Kind, Owner))
DrainBusy ==
    /\ At("DRAIN") /\ call.e > 0 /\ Due(call.e, "DRAINED") /\ DrainRefused(Kind, Owner)
    /\ Return
    /\ UNCHANGED <<obj, work, net>>
DrainEnd == LoopEnd("DRAIN", "SESSIONS", 0) /\ obj' = [obj EXCEPT !.state = "DRAINED"]

(* flow_plugin_operations_release *)
ReleaseSessions ==
    /\ At("SESSIONS")
    /\ obj' = [obj EXCEPT !.session = FALSE]
    /\ GoTo("SHUTDOWN", Last)
    /\ UNCHANGED <<work, net>>
ReleaseSessionsFails ==
    /\ At("SESSIONS") /\ obj.session /\ Fault(1) /\ Charge(1)
    /\ Return
    /\ UNCHANGED <<obj, work>>

(* flow_provider_generation_shutdown, then turbo_flow_destroy, whose adapters'
   shutdown hooks still reach their owners. *)
Shutdown == LoopStep("SHUTDOWN", "SHUTDOWN", Owner)
DestroyFlowLate ==
    /\ At("SHUTDOWN") /\ call.e = 0
    /\ obj' = [obj EXCEPT !.state = "SHUTDOWN"]
    /\ GoTo("OWNER_DESTROY", Last)
    /\ UNCHANGED <<work, net>>
DestroyFlow ==
    /\ At("SHUTDOWN") /\ call.e = 0
    /\ obj' = [obj EXCEPT !.state = "SHUTDOWN", !.flow = "NONE"]
    /\ work' = [e \in Entries |->
                  IF work[e].live
                  THEN [work[e] EXCEPT !.owner = AdapterShutdown(work[e].kind, @)] ELSE work[e]]
    /\ GoTo("OWNER_DESTROY", Last)
    /\ UNCHANGED net

(* flow_provider_generation_owner_destroy: the callback is void, so an owner
   whose handle refuses stays counted by the plugin root. *)
OwnerDestroy ==
    /\ At("OWNER_DESTROY") /\ call.e > 0 /\ Due(call.e, "OWNER_DESTROYED")
    /\ work' = [work EXCEPT ![call.e].state = "OWNER_DESTROYED", ![call.e].live = FALSE]
    /\ net' = [net EXCEPT !.root = IF Kind = "OTHER" \/ DestroyRefused(Kind, Owner)
                                   THEN @ ELSE RootRemoveOwner(@)]
    /\ GoTo("OWNER_DESTROY", call.e - 1)
    /\ UNCHANGED obj
OwnerDestroyEnd == LoopEnd("OWNER_DESTROY", "RELEASE", Last) /\ UNCHANGED obj

(***************************************************************************)
(* The control thread between create and destroy.                          *)
(***************************************************************************)
Usable == At("IDLE") /\ obj.handle = "HELD" /\ ~obj.failed

Refused(e) == IsSource(work[e].kind) /\ StartRefused(work[e].owner)
Started(e) ==
    [work[e] EXCEPT !.owner = IF IsSource(work[e].kind) THEN SourceStarted(@) ELSE SinkStarted(@)]

(* turbo_flow_start *)
FlowStart ==
    /\ Usable /\ ~obj.retiring /\ obj.flow \in {"COMPILED", "STOPPED"}
    /\ \A e \in Entries : ~Refused(e)
    /\ obj' = [obj EXCEPT !.flow = "STARTED", !.retryable = FALSE]
    /\ work' = [e \in Entries |-> Started(e)]
    /\ UNCHANGED <<call, net>>

(* Adapter e does not start: those before it are stopped again, the source
   itself too. *)
FlowStartFails(e, bad) ==
    /\ Usable /\ ~obj.retiring /\ obj.flow \in {"COMPILED", "STOPPED"}
    /\ bad \subseteq 1 .. e - 1 /\ \A f \in 1 .. e - 1 : ~Refused(f)
    /\ (IF Refused(e) THEN 0 ELSE 1) + Cardinality(bad) <= MaxFaults - net.faults
    /\ Charge((IF Refused(e) THEN 0 ELSE 1) + Cardinality(bad))
    /\ work' = [f \in Entries |->
                  IF f < e THEN [Started(f) EXCEPT !.owner = OwnerStop(work[f].kind, @, f \in bad)]
                  ELSE IF f = e /\ IsSource(work[e].kind)
                  THEN [work[e] EXCEPT !.owner =
                           StopHandle(IF Refused(e) THEN @ ELSE SourceStartFailed(@), FALSE)]
                  ELSE work[f]]
    /\ obj' = IF bad = {} THEN obj ELSE [obj EXCEPT !.flow = "FAILED", !.retryable = TRUE]
    /\ UNCHANGED call

(* turbo_flow_stop called by the host *)
FlowStop(bad) ==
    /\ Usable /\ Quiet
    /\ obj.flow = "STARTED" \/ (obj.flow = "FAILED" /\ obj.retryable)
    /\ bad # {} => Fault(1)
    /\ \A e \in bad : work[e].owner.handle = "OPEN"
    /\ work' = StopOwners(bad)
    /\ Charge(IF bad = {} THEN 0 ELSE 1)
    /\ obj' = [obj EXCEPT !.flow = IF bad = {} THEN "STOPPED" ELSE "FAILED",
                          !.retryable = bad # {}]
    /\ UNCHANGED call

(* flow_apply_pool_resize: rebuild and rollback both fail. *)
ResizeFails(bad) ==
    /\ Usable /\ Quiet /\ obj.flow = "STARTED" /\ Fault(1) /\ Charge(1)
    /\ bad # {} \/ CleanResizeFailures
    /\ \A e \in bad : work[e].owner.handle = "OPEN"
    /\ work' = StopOwners(bad)
    /\ obj' = [obj EXCEPT !.flow = "FAILED", !.retryable = bad # {}]
    /\ UNCHANGED call

(* flow_provider_generation_poll: the rotating first owner and then the others,
   each once, until one fails. *)
Polled == {e \in Entries : work[e].state = "MATERIALIZED" /\ work[e].kind # "OTHER"}
Distance(e) == (e + Last - obj.cursor) % Last
PollsUpTo(e) == {f \in Polled : Distance(f) <= Distance(e)}
Poll(last, fails) ==
    /\ Usable /\ ~obj.pollClosed /\ obj.flow = "STARTED"
    /\ last \in Polled
    /\ PollsUpTo(last) = Polled \/ fails
    /\ fails => Fault(1) \/ PollRefused(work[last].owner)
    /\ \A e \in PollsUpTo(last) : PollRefused(work[e].owner) => e = last /\ fails
    /\ work' = [e \in Entries |->
                  IF e \in PollsUpTo(last) /\ ~PollRefused(work[e].owner)
                  THEN [work[e] EXCEPT !.owner = OwnerPoll(@, e = last /\ fails)] ELSE work[e]]
    /\ obj' = [obj EXCEPT !.cursor =
                  LET first == CHOOSE e \in Polled : \A f \in Polled : Distance(e) <= Distance(f)
                  IN  (first % Last) + 1]
    /\ Charge(IF fails /\ ~PollRefused(work[last].owner) THEN 1 ELSE 0)
    /\ UNCHANGED call

(* turbo_flow_plugin_generation_lease_acquire / _release *)
LeaseAcquire ==
    /\ At("IDLE") /\ obj.handle = "HELD" /\ obj.leased < MaxLeases
    /\ obj' = [obj EXCEPT !.leases = @ + 1, !.leased = @ + 1]
    /\ UNCHANGED <<work, call, net>>
LeaseRelease ==
    /\ At("IDLE") /\ obj.handle = "HELD" /\ obj.leases > 0
    /\ obj' = [obj EXCEPT !.leases = @ - 1]
    /\ UNCHANGED <<work, call, net>>

(* The reply capability of a listener, while the Graph it is registered with exists. *)
Reply(e) ==
    /\ Usable /\ obj.flow = "STARTED"
    /\ CanReply(work[e].kind, work[e].owner) /\ work[e].owner.sent < MaxReplies
    /\ work' = [work EXCEPT ![e].owner = ReplySend(@)]
    /\ UNCHANGED <<obj, call, net>>
Terminal(e) ==
    /\ Usable /\ obj.flow \notin {"HOST", "NONE"} /\ work[e].live
    /\ CanTakeTerminal(work[e].kind, work[e].owner)
    /\ work' = [work EXCEPT ![e].owner = TakeTerminal(@)]
    /\ UNCHANGED <<obj, call, net>>

(***************************************************************************)
(* operation_invoke, on the Flow's threads.                                *)
(***************************************************************************)
Op(c) == call.ops[c]
OpAt(c, pos) == Op(c).at = pos
SetOp(c, r) == call' = [call EXCEPT !.ops[c] = r]

(* A message arrives with a typed projection, or with a durable claim and none. *)
Invoke(c, typed) ==
    /\ OpAt(c, "IDLE") /\ obj.flow = "STARTED"
    /\ SetOp(c, [Op(c) EXCEPT !.at = IF typed THEN "ADMIT" ELSE "RESERVE"])
    /\ UNCHANGED <<obj, work, net>>

(* turbo_flow_plugin_materializer_materialize reserves before the callback. *)
Reserve(c) ==
    /\ OpAt(c, "RESERVE")
    /\ IF obj.materializer = "ACCEPTING" /\ obj.outstanding < MaxInflight
       THEN /\ obj' = [obj EXCEPT !.outstanding = @ + 1]
            /\ SetOp(c, [Op(c) EXCEPT !.at = "ADMIT", !.projection = TRUE])
       ELSE SetOp(c, [Op(c) EXCEPT !.at = "DONE"]) /\ UNCHANGED obj
    /\ UNCHANGED <<work, net>>

(* One compare-and-swap on the admission word: closed, full, or one more. *)
Admit(c) ==
    /\ OpAt(c, "ADMIT")
    /\ IF obj.closed \/ obj.inflight >= MaxInflight
       THEN SetOp(c, [Op(c) EXCEPT !.at = "DONE"]) /\ UNCHANGED obj
       ELSE /\ obj' = [obj EXCEPT !.inflight = @ + 1]
            /\ SetOp(c, [Op(c) EXCEPT !.at = "CLAIM"])
    /\ UNCHANGED <<work, net>>

(* turbo_flow_msg_result_claim reserves a result of the domain's owner. *)
Claim(c) ==
    /\ OpAt(c, "CLAIM")
    /\ IF net.domain.accepting /\ net.domain.outstanding < MaxInflight
       THEN /\ net' = [net EXCEPT !.domain.outstanding = @ + 1]
            /\ SetOp(c, [Op(c) EXCEPT !.at = "EXECUTE", !.result = TRUE])
            /\ UNCHANGED obj
       ELSE /\ obj' = [obj EXCEPT !.inflight = @ - 1]
            /\ SetOp(c, [Op(c) EXCEPT !.at = "DONE"])
            /\ UNCHANGED net
    /\ UNCHANGED work

(* The callback runs against the session; its result is committed or aborted. *)
Execute(c, commits) ==
    /\ OpAt(c, "EXECUTE")
    /\ commits \/ Fault(1)
    /\ obj' = [obj EXCEPT !.inflight = @ - 1]
    /\ SetOp(c, [Op(c) EXCEPT !.at = "DONE", !.result = commits])
    /\ net' = IF commits THEN net
              ELSE [net EXCEPT !.faults = @ + 1, !.domain.outstanding = @ - 1]
    /\ UNCHANGED work

(* The message ends with its projection; its result may be kept longer. *)
MessageEnds(c) ==
    /\ OpAt(c, "DONE")
    /\ SetOp(c, [Op(c) EXCEPT !.at = "END", !.projection = FALSE])
    /\ obj' = [obj EXCEPT !.outstanding = IF Op(c).projection THEN @ - 1 ELSE @]
    /\ UNCHANGED <<work, net>>
ResultReleased(c) ==
    /\ OpAt(c, "END") /\ Op(c).result
    /\ SetOp(c, [Op(c) EXCEPT !.result = FALSE])
    /\ net' = [net EXCEPT !.domain.outstanding = @ - 1]
    /\ UNCHANGED <<obj, work>>

(***************************************************************************)
(* The result domain's owner, and the plugin host.                         *)
(***************************************************************************)
(* turbo_flow_plugin_result_domain_destroy, at any time outside a generation: stops
   admission, waits for every result, then releases the context. *)
DomainDestroy(fails) ==
    /\ At("IDLE") /\ net.domain.state \notin {"ATTACHED", "FREED"}
    /\ fails => net.domain.context /\ net.domain.outstanding = 0 /\ Fault(1)
    /\ net' = IF net.domain.outstanding # 0 \/ fails
              THEN [net EXCEPT !.domain = [@ EXCEPT !.state = "RETIRING", !.accepting = FALSE],
                               !.faults = IF fails THEN @ + 1 ELSE @]
              ELSE [net EXCEPT !.domain = [@ EXCEPT !.state = "FREED", !.accepting = FALSE,
                                                    !.context = FALSE, !.owner = FALSE],
                               !.snapshot = @ \ {"domain"}]
    /\ UNCHANGED <<obj, work, call>>

HostReleasesSnapshot ==
    /\ At("IDLE") /\ "host" \in net.snapshot
    /\ net' = [net EXCEPT !.snapshot = @ \ {"host"}]
    /\ UNCHANGED <<obj, work, call>>

(* provider_request_stop, and the unload it allows once the plugin is quiescent
   and nobody holds a lease. *)
PluginRequestStop ==
    /\ At("IDLE") /\ ~net.root.stopping
    /\ net' = [net EXCEPT !.root = RootRequestStop(@)]
    /\ UNCHANGED <<obj, work, call>>
Leased == {e \in Entries : work[e].kind # "OTHER" /\ (work[e].provider \/ work[e].resource)}
PluginUnload ==
    /\ ~net.unloaded /\ RootIsQuiescent(net.root) /\ Leased = {} /\ net.snapshot = {}
    /\ net' = [net EXCEPT !.unloaded = TRUE]
    /\ UNCHANGED <<obj, work, call>>

CreateStep ==
    \/ AcquireProvider \/ BindConfig \/ AcquireResource \/ PreflightEntry
    \/ (\E r, p \in BOOLEAN : RejectInstance(r, p))
    \/ PrepareOperations \/ PrepareMaterializers \/ AttachDomain \/ PreflightFails
    \/ MaterializeEntry \/ MaterializeFails
    \/ Compile \/ (\E x, o, n \in BOOLEAN : CompileFails(x, o, n))
    \/ Unprepared

RetireStep ==
    \/ \E pos \in {"UNPREPARE", "RELEASE"} :
          ReleaseSkip(pos) \/ \E r, p \in BOOLEAN : ReleaseStep(pos, r, p)
    \/ ReleaseIncomplete \/ Free
    \/ RetireBuffers \/ RetireBuffersBusy \/ RetireMaterializers \/ RetireClose
    \/ \E loop \in {<<"QUIESCE", "QUIESCED">>, <<"DRAIN", "DRAINED">>, <<"SHUTDOWN", "SHUTDOWN">>,
                     <<"OWNER_DESTROY", "OWNER_DESTROYED">>} : LoopSkip(loop[1], loop[2])
    \/ \E loop \in {<<"QUIESCE", "QUIESCED">>, <<"DRAIN", "DRAINED">>, <<"SHUTDOWN", "SHUTDOWN">>} :
          LoopFails(loop[1], loop[2])
    \/ Quiesce \/ QuiesceEnd \/ (\E bad \in SUBSET Entries : RetireStop(bad))
    \/ RetireStopSkip \/ Drain \/ DrainBusy \/ DrainEnd
    \/ ReleaseSessions \/ ReleaseSessionsFails \/ Shutdown \/ DestroyFlow
    \/ OwnerDestroy \/ OwnerDestroyEnd

HostStep ==
    \/ Create \/ FlowStart \/ (\E e \in Entries, bad \in SUBSET Entries : FlowStartFails(e, bad))
    \/ (\E bad \in SUBSET Entries : FlowStop(bad) \/ ResizeFails(bad))
    \/ (\E e \in Entries, f \in BOOLEAN : Poll(e, f))
    \/ LeaseAcquire \/ (\E e \in Entries : Reply(e))
    \/ (\E fails \in BOOLEAN : DomainDestroy(fails))
    \/ HostReleasesSnapshot \/ PluginRequestStop \/ PluginUnload

CallStep(c) ==
    \/ Reserve(c) \/ Admit(c) \/ Claim(c) \/ (\E k \in BOOLEAN : Execute(c, k)) \/ MessageEnds(c)
Consumer(e) == Terminal(e)

Next ==
    \/ CreateStep \/ RetireStep \/ Destroy \/ HostStep \/ LeaseRelease
    \/ \E e \in Entries : Consumer(e)
    \/ \E c \in Calls : CallStep(c) \/ ResultReleased(c) \/ \E t \in BOOLEAN : Invoke(c, t)

(* The control thread finishes what it began; a host that began to destroy the
   generation tries again, and what it waits for is given back. *)
Retry == obj.retiring /\ Destroy
Fairness ==
    /\ WF_vars(CreateStep \/ RetireStep) /\ WF_vars(Retry) /\ SF_vars(LeaseRelease)
    /\ \A c \in Calls : WF_vars(CallStep(c))
    /\ \A e \in Roots : SF_vars(e \in Entries /\ Consumer(e))

Spec == Init /\ [][Next]_vars /\ Fairness

(***************************************************************************)
(* Properties                                                              *)
(***************************************************************************)
GraphExists == obj.flow \notin {"HOST", "NONE"}

(* Whatever still runs plugin code keeps that plugin loaded: a live owner holds
   its provider and resource leases and is counted by the plugin root, a Graph
   whose adapters point at owners is gone before any owner is, and an operation
   call has its session, its result context and the snapshot that pins them. *)
OwnersPinned ==
    /\ \A e \in Entries :
          work[e].live => work[e].provider /\ (NeedsResource(work[e].kind) => work[e].resource)
    /\ net.root.owners = Cardinality({e \in Entries : work[e].live /\ work[e].kind # "OTHER"})
    /\ GraphExists => \A e \in Entries : work[e].state # "OWNER_DESTROYED"
    /\ \A c \in Calls :
          /\ Op(c).at \in {"CLAIM", "EXECUTE"} =>
                /\ obj.session /\ obj.flow = "STARTED" /\ net.domain.state = "ATTACHED"
                /\ "generation" \in net.snapshot /\ ~net.unloaded
          /\ Op(c).result => net.domain.context /\ ~net.unloaded
          /\ Op(c).projection => "materializer" \in net.snapshot
    /\ net.unloaded => ~\E e \in Entries : work[e].live /\ work[e].kind # "OTHER"

(* Retirement never skips a transition, whatever attempt failed before: a stage
   of the reverse order begins when every materialized owner completed the one
   before it, reply terminals are all taken before their listener is given up,
   and a freed generation leaves no lease, session, projection or reference. *)
RetiredInOrder ==
    /\ \A e \in Entries :
          LET reached(n) == Rank(work[e].state) >= Rank(n) \/ ~work[e].live
          IN  /\ At("STOP") \/ At("DRAIN") => reached("QUIESCED")
              /\ At("SESSIONS") \/ At("SHUTDOWN") => reached("DRAINED")
              /\ At("OWNER_DESTROY") => reached("SHUTDOWN")
              /\ At("RELEASE") => work[e].state \in {"NONE", "PREPARED", "OWNER_DESTROYED"}
              /\ work[e].owner.sent = work[e].owner.taken + work[e].owner.terminals
              /\ Rank(work[e].state) >= Rank("DRAINED") =>
                    work[e].owner.terminals = 0 /\ work[e].owner.handle # "OPEN"
    /\ ~obj.session /\ obj.flow # "PARSED" => obj.inflight = 0
    /\ obj.handle = "FREED" =>
          /\ \A e \in Entries : ~work[e].live /\ ~work[e].provider /\ ~work[e].resource
          /\ obj.outstanding = 0 /\ obj.inflight = 0 /\ ~obj.session /\ obj.leases = 0
          /\ net.snapshot \subseteq {"host", "domain"} /\ net.domain.state # "ATTACHED"

(* A host that keeps calling turbo_flow_plugin_generation_destroy, while leases,
   projections and reply terminals are given back, gets the generation freed. *)
RetireCompletes == obj.retiring ~> obj.handle = "FREED"

(***************************************************************************)
(* The instance that is checked: graphs with two root stages, a listener   *)
(* that replies beside a sink, and a source beside an owner of another     *)
(* provider whose callbacks fail.                                          *)
(***************************************************************************)

MCAssemblies == {<<"LISTENER_SOURCE", "STREAM_SINK">>, <<"OTHER", "STREAM_SOURCE">>}
===============================================================================
