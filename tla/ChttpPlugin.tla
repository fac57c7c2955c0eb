------------------------------ MODULE ChttpPlugin ------------------------------
(***************************************************************************)
(* The CHTTP plugin, io/chttp/src/turbo_flow_chttp_plugin.c: its root,     *)
(* which counts the runtime owners it has handed out, the resolution of an *)
(* instance to the stages it binds, and the owner's callbacks, called in   *)
(* the order in which a plugin generation retires.  A host may also stop   *)
(* the Flow itself before it retires the generation.                       *)
(*                                                                         *)
(*   obj   the root and the Flow;  net  the plan of stages;                *)
(*   work  the owner made for a terminal stage, or None;                   *)
(*   call  the retirement's phase and the owners it still has to visit.    *)
(***************************************************************************)
EXTENDS Naturals, FiniteSets

CONSTANTS PlanStages, Plans, None, MaxFaults

VARIABLES obj, work, call, net

vars == <<obj, work, call, net>>

Owners == {s \in PlanStages : work[s] # None}

(* stage_pair: the source a server's terminal is paired with.  A client is *)
(* a terminal alone; a server needs its resource to itself.                *)
Peers(s) == {t \in PlanStages : /\ net[t].adapter = net[s].adapter
                                /\ net[t].resource = net[s].resource}
SourcesOf(s) == {t \in Peers(s) : net[t].source}
StagePair(s) ==
    /\ ~net[s].source
    /\ \/ net[s].adapter = "CLIENT"
       \/ Peers(s) \ SourcesOf(s) = {s} /\ Cardinality(SourcesOf(s)) = 1
BoundStages(s) == IF net[s].adapter = "CLIENT" THEN {s} ELSE {s} \cup SourcesOf(s)

\* provider_generation_is_root: a source with a terminal companion has no owner of its own.
IsRoot(s) == net[s].source => Peers(s) = SourcesOf(s)

Init ==
    /\ net \in Plans
    /\ obj = [started |-> FALSE, stopping |-> FALSE, loaded |-> TRUE, owners |-> 0,
              flow |-> "PREPARED", faults |-> 0]
    /\ work = [s \in PlanStages |-> None]
    /\ call = [phase |-> "MATERIALIZE", todo |-> {s \in PlanStages : IsRoot(s)}]

Faulty(bad) == obj.faults + Cardinality(bad) <= MaxFaults

\* provider_start, provider_request_stop, and the loader's unload of a quiescent plugin.
ProviderStart ==
    /\ obj.loaded /\ obj.owners = 0 /\ ~obj.started
    /\ obj' = [obj EXCEPT !.started = TRUE, !.stopping = FALSE]
    /\ UNCHANGED <<work, call, net>>
ProviderRequestStop ==
    /\ obj.loaded /\ obj.started
    /\ obj' = [obj EXCEPT !.started = FALSE, !.stopping = TRUE]
    /\ UNCHANGED <<work, call, net>>
ProviderIsQuiescent == obj.stopping /\ obj.owners = 0
Unload ==
    /\ obj.loaded /\ ProviderIsQuiescent
    /\ obj' = [obj EXCEPT !.loaded = FALSE]
    /\ UNCHANGED <<work, call, net>>

(* provider_materialize, for one stage; the generation gives up at the     *)
(* first refusal and retires the owners it has.  `ok` is the outcome of    *)
(* the TLS profile and of the native registration, both undone on failure. *)
Materialize(s, ok) ==
    /\ call.phase = "MATERIALIZE" /\ s \in call.todo /\ obj.loaded
    /\ ok \/ Faulty({s})
    /\ IF obj.started /\ ~obj.stopping /\ StagePair(s) /\ ok
       THEN /\ work' = [work EXCEPT ![s] =
                            [state |-> "REGISTERED", busy |-> FALSE,
                             tls |-> net[s].adapter = "CLIENT"]]
            /\ obj' = [obj EXCEPT !.owners = @ + 1]
            /\ call' = IF call.todo = {s} THEN [phase |-> "NONE", todo |-> {}]
                       ELSE [call EXCEPT !.todo = @ \ {s}]
       ELSE /\ call' = [phase |-> "QUIESCE", todo |-> Owners]
            /\ obj' = [obj EXCEPT !.faults = @ + (IF ok THEN 0 ELSE 1)]
            /\ UNCHANGED work
    /\ UNCHANGED net
\* The Flow starts every adapter; a native start that fails leaves it STOPPED.
StartFlow(bad) ==
    /\ call.phase = "NONE" /\ obj.flow = "PREPARED" /\ Faulty(bad)
    /\ work' = [s \in PlanStages |->
                  IF s \in Owners
                  THEN [work[s] EXCEPT !.state = IF bad = {} THEN "RUNNING" ELSE "STOPPED"]
                  ELSE None]
    /\ obj' = [obj EXCEPT !.flow = IF bad = {} THEN "STARTED" ELSE "STOPPED",
                          !.faults = @ + Cardinality(bad)]
    /\ UNCHANGED <<call, net>>

\* A request, or a session, arrives at a running adapter and leaves any open one.
Arrive(s) ==
    /\ s \in Owners /\ work[s].state = "RUNNING" /\ ~work[s].busy
    /\ work' = [work EXCEPT ![s].busy = TRUE]
    /\ UNCHANGED <<obj, call, net>>
Leave(s) ==
    /\ s \in Owners /\ work[s].busy /\ obj.flow = "STARTED"
    /\ work' = [work EXCEPT ![s].busy = FALSE]
    /\ UNCHANGED <<obj, call, net>>

(* The adapters' stop hooks.  A stop that succeeds has ended every request *)
(* and session; one that fails reports it, and the Flow may be stopped     *)
(* again.                                                                  *)
StopOwners(bad) ==
    [s \in PlanStages |->
        IF s \notin Owners THEN None
        ELSE IF s \in bad THEN [work[s] EXCEPT !.state = "FAILED"]
        ELSE [work[s] EXCEPT !.state = "STOPPED", !.busy = FALSE]]
StopFlow(bad) ==
    /\ obj.flow \in {"STARTED", "FAILED"} /\ Faulty(bad)
    /\ work' = StopOwners(bad)
    /\ obj' = [obj EXCEPT !.flow = IF bad = {} THEN "STOPPED" ELSE "FAILED",
                          !.faults = @ + Cardinality(bad)]
\* turbo_flow_stop called by the host.
HostStop(bad) == call.phase = "NONE" /\ StopFlow(bad) /\ UNCHANGED <<call, net>>

(* turbo_flow_plugin_generation_destroy, which a host repeats after an     *)
(* error.                                                                  *)
Retire ==
    /\ call.phase = "NONE"
    /\ call' = [phase |-> "QUIESCE", todo |-> Owners]
    /\ UNCHANGED <<obj, work, net>>
GiveUp == call' = [phase |-> "NONE", todo |-> {}]

OwnerIdle(o) == o.state \in {"REGISTERED", "STOPPED", "DETACHED", "QUIESCED"} /\ ~o.busy

\* owner_quiesce: an idle owner needs nothing; otherwise the native admission
\* closes, which an adapter that is not open refuses.
OwnerQuiesce(s) ==
    /\ call.phase = "QUIESCE" /\ s \in call.todo
    /\ IF OwnerIdle(work[s])
       THEN call' = [call EXCEPT !.todo = @ \ {s}] /\ UNCHANGED work
       ELSE IF work[s].state \in {"RUNNING", "QUIESCED"}
       THEN /\ work' = [work EXCEPT ![s].state = "QUIESCED"]
            /\ call' = [call EXCEPT !.todo = @ \ {s}]
       ELSE GiveUp /\ UNCHANGED work
    /\ UNCHANGED <<obj, net>>
RetireStop(bad) ==
    /\ call = [phase |-> "QUIESCE", todo |-> {}]
    /\ IF obj.flow \in {"STARTED", "FAILED"}
       THEN /\ StopFlow(bad)
            /\ IF bad = {} THEN call' = [phase |-> "DRAIN", todo |-> Owners] ELSE GiveUp
       ELSE /\ bad = {}
            /\ call' = [phase |-> "DRAIN", todo |-> Owners]
            /\ UNCHANGED <<obj, work>>
    /\ UNCHANGED net

\* owner_drain and owner_shutdown are the same question.
NextPhase == [DRAIN |-> "SHUTDOWN", SHUTDOWN |-> "FLOW"]
OwnerDrain(s) ==
    /\ call.phase \in DOMAIN NextPhase /\ s \in call.todo
    /\ IF OwnerIdle(work[s]) THEN call' = [call EXCEPT !.todo = @ \ {s}] ELSE GiveUp
    /\ UNCHANGED <<obj, work, net>>
DrainEnd ==
    /\ call.phase \in DOMAIN NextPhase /\ call.todo = {}
    /\ call' = [phase |-> NextPhase[call.phase], todo |-> Owners]
    /\ UNCHANGED <<obj, work, net>>

\* turbo_flow_destroy runs the adapters' shutdown hooks.
DestroyFlow ==
    /\ call.phase = "FLOW"
    /\ obj' = [obj EXCEPT !.flow = "DESTROYED"]
    /\ work' = [s \in PlanStages |-> IF s \in Owners THEN [work[s] EXCEPT !.state = "DETACHED"]
                                     ELSE None]
    /\ call' = [call EXCEPT !.phase = "DESTROY"]
    /\ UNCHANGED net

(* owner_destroy, called once: a handle that refuses, or a TLS profile     *)
(* that cannot be destroyed, leaves the owner allocated and counted.       *)
OwnerDestroy(s, ok) ==
    /\ call.phase = "DESTROY" /\ s \in call.todo
    /\ ok \/ (work[s].tls /\ Faulty({s}))
    /\ call' = [call EXCEPT !.todo = @ \ {s}]
    /\ IF ok /\ work[s].state = "DETACHED" /\ ~work[s].busy
       THEN /\ work' = [work EXCEPT ![s] = None]
            /\ obj' = [obj EXCEPT !.owners = @ - 1]
       ELSE /\ obj' = [obj EXCEPT !.faults = @ + (IF ok THEN 0 ELSE 1)]
            /\ UNCHANGED work
    /\ UNCHANGED net

Next ==
    \/ ProviderStart \/ ProviderRequestStop \/ Unload
    \/ Retire \/ DrainEnd \/ DestroyFlow
    \/ \E s \in PlanStages :
         \/ Arrive(s) \/ Leave(s) \/ OwnerQuiesce(s) \/ OwnerDrain(s)
         \/ \E ok \in BOOLEAN : Materialize(s, ok) \/ OwnerDestroy(s, ok)
    \/ \E bad \in SUBSET Owners : StartFlow(bad) \/ HostStop(bad) \/ RetireStop(bad)

Spec == Init /\ [][Next]_vars

\* The plugin's code outlives every owner it handed out, the leaked ones
\* included, and two owners never bind the same stage.
OwnersKeepPluginLoaded ==
    /\ Owners # {} => obj.loaded
    /\ obj.owners = Cardinality(Owners)
    /\ \A s, t \in Owners : s # t => BoundStages(s) \cap BoundStages(t) = {}
\* The Flow is gone only when every owner was idle: no request or session is
\* cut off by a retirement.
FlowOutlivesTraffic == obj.flow = "DESTROYED" => \A s \in Owners : ~work[s].busy
================================================================================
